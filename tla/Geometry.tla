-------------------------------- MODULE Geometry --------------------------------
(***************************************************************************)
(* Where things are: the address arithmetic of volume.go.  A block number  *)
(* of the file system is an allocation group in its high bits and a block  *)
(* of that group in its low bits, and so is an inode number; on disk the   *)
(* groups follow each other at the stride of their size, which may be less *)
(* than the low bits can count.                                            *)
(*                                                                         *)
(* A geometry g is a record: agSize, the blocks of a group; blockStride    *)
(* and inodeStride, 2 to the power of the bits for a block and for an      *)
(* inode of a group; blocks, those of the volume, 0 if not known;          *)
(* blockSize and inodeSize in bytes.                                       *)
(***************************************************************************)
LOCAL INSTANCE Integers

LinearBlock(g, block) == (block \div g.blockStride) * g.agSize + (block % g.blockStride)

BlockOffset(g, block) == LinearBlock(g, block) * g.blockSize

\* An extent that is mapped by the offset of its first block: all of it is in a group.
InsideGroup(g, block, count) == (block % g.blockStride) + count <= g.blockStride

Capacity(g) == g.blocks * g.blockSize

GroupOffset(g, group) == group * g.agSize * g.blockSize

TreeBlockOffset(g, group, block) == (group * g.agSize + block) * g.blockSize

InodeGroup(g, number) == number \div g.inodeStride

RelativeInode(g, number) == number % g.inodeStride

InodeOffset(g, number) ==
  GroupOffset(g, InodeGroup(g, number)) + RelativeInode(g, number) * g.inodeSize
===============================================================================
