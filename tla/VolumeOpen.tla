------------------------------- MODULE VolumeOpen -------------------------------
(***************************************************************************)
(* Open and OpenVolumeFromPath: the superblock, then of each allocation    *)
(* group its copy of the superblock and its inode information.  It leaves  *)
(* the geometry by which everything is found, and the roots of the inode   *)
(* b-trees; if anything is wrong there is no volume, and the file that was *)
(* opened for it is closed.                                                *)
(***************************************************************************)
EXTENDS Integers, Sequences, Geometry

CONSTANTS
  Images,
  Limits      \* minBlockSize and the other bounds of constants.go and format_layout.go

\* An image has groups: of each what there is where its superblock should be, and the
\* root of its inode b-tree, both possibly unreadable or malformed.
ASSUME LimitsAssumption ==
  /\ Limits \in [{"minBlockSize", "maxBlockSize", "minInodeSize", "maxInodeSize", "minGroupSize",
                  "maxGroupSize", "maxGroupBits", "addressBits", "maxInodeBits", "wordSize"} -> Nat]
  /\ Limits.minBlockSize > 0
\* A superblock that can be read has numbers.
ASSUME SuperblockAssumption ==
  \A i \in Images : \A g \in DOMAIN i.groups :
    LET sb == i.groups[g].superblock
    IN  sb.readable =>
          {sb.blockSize, sb.inodeSize, sb.groupSize, sb.groupBits, sb.inodeBits, sb.inodesPerBlock,
           sb.blocks, sb.count} \subseteq Nat
\* The words of the code are of a power of two.
ASSUME WordAssumption ==
  \A k \in 0 .. Limits.addressBits :
    2 ^ k \in Nat \ {0} /\ (2 ^ k < Limits.wordSize \/ 2 ^ k % Limits.wordSize = 0)

VARIABLES
  image, opener,
  phase,       \* "superblock", "groups", "opened" or "failed"
  geometry,
  agInode,     \* the roots of the groups so far
  file         \* "caller's", "open" or "closed"

volume == <<image, opener, phase, geometry, agInode, file>>

NoGeometry == [count |-> 0]

VolumeInit ==
  /\ image \in Images /\ opener \in {"Open", "OpenVolumeFromPath"}
  /\ phase = "superblock" /\ geometry = NoGeometry /\ agInode = <<>>
  /\ file = IF opener = "Open" THEN "caller's" ELSE "open"

-------------------------------------------------------------------------------
(* parseSuperblock *)

Accepted(sb) ==
  /\ sb.supported      \* magic, version, features, sector and directory block size
  /\ sb.blockSize \in Limits.minBlockSize .. Limits.maxBlockSize
  /\ sb.inodeSize \in Limits.minInodeSize .. Limits.maxInodeSize
  /\ sb.groupSize \in Limits.minGroupSize .. Limits.maxGroupSize
  /\ sb.groupBits \in 1 .. Limits.maxGroupBits
  /\ sb.inodeBits \in 1 .. Limits.addressBits - sb.groupBits
  /\ sb.groupBits + sb.inodeBits < Limits.maxInodeBits
  /\ sb.inodesPerBlock = 2 ^ sb.inodeBits % Limits.wordSize

Read(group) ==
  IF group \in DOMAIN image.groups THEN image.groups[group]
  ELSE [superblock |-> [readable |-> FALSE]]

Parses(sb) == sb.readable /\ Accepted(sb)

\* The file is left open.
Dropped == file

Closed == IF opener = "Open" THEN file ELSE "closed"

OpenFails ==
  /\ phase' = "failed" /\ file' = Closed
  /\ UNCHANGED <<image, opener, geometry, agInode>>

Derived(sb) ==
  [count |-> sb.count, agSize |-> sb.groupSize, blockStride |-> 2 ^ sb.groupBits,
   inodeStride |-> 2 ^ sb.groupBits * 2 ^ sb.inodeBits, blocks |-> sb.blocks,
   blockSize |-> sb.blockSize, inodeSize |-> sb.inodeSize, inodesPerBlock |-> sb.inodesPerBlock]

ReadSuperblock ==
  /\ phase = "superblock"
  /\ IF Parses(Read(1).superblock)
     THEN /\ phase' = "groups" /\ geometry' = Derived(Read(1).superblock)
          /\ UNCHANGED <<image, opener, agInode, file>>
     ELSE OpenFails

\* A group's superblock is one of this volume.
Agrees(sb) == sb.blockSize = geometry.blockSize /\ sb.inodeSize = geometry.inodeSize

ReadGroup ==
  /\ phase = "groups" /\ Len(agInode) < geometry.count
  /\ LET group == Read(Len(agInode) + 1)
     IN  IF Parses(group.superblock) /\ Agrees(group.superblock) /\ group.information
         THEN /\ agInode' = Append(agInode, group.root)
              /\ UNCHANGED <<image, opener, phase, geometry, file>>
         ELSE OpenFails

Opened ==
  /\ phase = "groups" /\ Len(agInode) = geometry.count
  /\ phase' = "opened"
  /\ UNCHANGED <<image, opener, geometry, agInode, file>>

OpenStep == ReadSuperblock \/ ReadGroup \/ Opened

-------------------------------------------------------------------------------
\* Whatever is wrong, and at whichever group: the file that was opened is closed with the
\* failure and stays open with the volume, and a reader of the caller's is never closed
\* (xfs.go:84-98, :108-125).
FileFollowsVolume ==
  /\ opener = "OpenVolumeFromPath" => (file = "closed" <=> phase = "failed")
  /\ opener = "Open" => file = "caller's"

\* The geometry is of one piece: blocks hold their inodes, and the numbers of the blocks
\* and of the inodes of a group fit the low bits.
Consistent(g) ==
  /\ g.inodesPerBlock * g.inodeSize = g.blockSize
  /\ g.agSize <= g.blockStride
===============================================================================
