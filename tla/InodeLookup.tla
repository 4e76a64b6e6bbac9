------------------------------ MODULE InodeLookup ------------------------------
(***************************************************************************)
(* A volume is opened and an inode number is looked up in it: the checks   *)
(* of OpenInode and inodeAllocationState, the descent of the inode b-tree  *)
(* of an allocation group (getRelativeInodeFromNode), one block at a time, *)
(* and for OpenInode the reading of the inode and of what it says of       *)
(* itself (parseInode).  On a damaged image the blocks are any graph:      *)
(* unordered, with cycles, and with blocks that cannot be read or decoded. *)
(***************************************************************************)
EXTENDS VolumeOpen, InodeFormat, FiniteSets

CONSTANTS
  Numbers,           \* the inode numbers asked for
  MaxNumber,         \* math.MaxUint32
  InodesPerChunk,    \* inobtInodesPerChunk
  MaxDepth           \* maxBtreeRecursionDepth

ASSUME InodeAssumption ==
  /\ Numbers \subseteq Nat /\ MaxNumber \in Nat
  /\ InodesPerChunk \in Nat \ {0} /\ MaxDepth \in Nat
  /\ \A i \in Images : \A g \in DOMAIN i.groups : i.groups[g].root \in DOMAIN i.tree

\* An image has a tree, a function from block numbers to blocks, and inodes, a set of
\* what there may be where an inode is read.  A block is [kind |-> "leaf", records |->
\* ...], [kind |-> "branch", pairs |-> ...] or [kind |-> "bad"]; a record has the first
\* inode of its chunk, the count of unused inodes and the set of the unused; a pair has
\* a key and a child.  An inode is [readable |-> FALSE], or it has the fields that
\* InodeFormat speaks of, bigTime, the feature of its volume, and mapped: both its forks
\* can be decoded.
ASSUME RawAssumption ==
  \A i \in Images : \A raw \in i.inodes :
    raw.readable =>
      /\ raw.shift \in Nat /\ raw.bigTime \in BOOLEAN
      /\ raw.time \in (0 .. Word - 1) \X (0 .. Word - 1)

ASSUME BlockAssumption ==
  \A i \in Images : \A b \in DOMAIN i.tree :
    CASE i.tree[b].kind = "leaf"   -> i.tree[b].records \in Seq([start : Nat, free : Nat, unused : SUBSET Nat])
      [] i.tree[b].kind = "branch" -> i.tree[b].pairs \in Seq([key : Nat, child : DOMAIN i.tree])
      [] OTHER                     -> i.tree[b].kind = "bad"

VARIABLES
  number,
  caller,       \* "OpenInode" or "inodeAllocationState"
  pc, block, depth,
  inode,        \* where it is read, what it is and what is made of it
  answer

vars == <<volume, number, caller, pc, block, depth, inode, answer>>

NoInode == [offset |-> -1]

Init ==
  /\ VolumeInit
  /\ number \in Numbers
  /\ caller \in {"OpenInode", "inodeAllocationState"}
  /\ pc = "check" /\ block = 0 /\ depth = 0 /\ inode = NoInode /\ answer = "none"

tree == image.tree
group == InodeGroup(geometry, number)
relative == RelativeInode(geometry, number)

Addressable == number # 0 /\ number <= MaxNumber /\ group < Len(agInode)

Return(value) ==
  /\ pc' = "done" /\ answer' = value
  /\ UNCHANGED <<volume, number, caller, block, depth, inode>>

\* What inodeAllocationState makes of an error: addressable, not known to be allocated.
Verdict(found) ==
  CASE caller = "OpenInode" -> found
    [] found = "error"      -> "unconfirmed"
    [] OTHER                -> "unallocated"

Check ==
  /\ phase = "opened" /\ pc = "check"
  /\ IF Addressable
     THEN /\ pc' = "walk" /\ block' = agInode[group + 1]
          /\ UNCHANGED <<volume, number, caller, depth, inode, answer>>
     ELSE Return(IF caller = "OpenInode" THEN "invalid" ELSE "notAddressable")

-------------------------------------------------------------------------------
(* inodeFoundInLeafRecords, inodeAllocatedInChunk *)

\* A chunk that has one inode more.
CoversOneMore(record, wanted) == record.start <= wanted /\ wanted <= record.start + InodesPerChunk

Covers(record, wanted) == record.start <= wanted /\ wanted < record.start + InodesPerChunk

Allocated(record, wanted) == record.free = 0 \/ (wanted - record.start) \notin record.unused

\* The first record that covers the inode decides.
LeafHas(records, wanted) ==
  \E i \in DOMAIN records :
    /\ Covers(records[i], wanted) /\ Allocated(records[i], wanted)
    /\ \A j \in 1 .. i - 1 : ~Covers(records[j], wanted)

SearchLeaf ==
  /\ pc = "walk" /\ depth <= MaxDepth /\ tree[block].kind = "leaf"
  /\ IF ~LeafHas(tree[block].records, relative) THEN Return(Verdict("notFound"))
     ELSE IF caller = "inodeAllocationState" THEN Return("allocated")
     ELSE pc' = "read" /\ UNCHANGED <<volume, number, caller, block, depth, inode, answer>>

-------------------------------------------------------------------------------
(* subBlockForRelativeInode *)

\* A scan that stops at a key that is equal, too.
KeysPassedUnequal(pairs, wanted) ==
  {i \in DOMAIN pairs : \A j \in 1 .. i : pairs[j].key < wanted}

\* The keys that the scan passes before it meets one that is greater.
KeysPassed(pairs, wanted) ==
  {i \in DOMAIN pairs : \A j \in 1 .. i : pairs[j].key <= wanted}

Descend ==
  /\ pc = "walk" /\ depth <= MaxDepth /\ tree[block].kind = "branch"
  /\ LET pairs == tree[block].pairs
         passed == KeysPassed(pairs, relative)
     IN  IF passed = {} THEN Return(Verdict("notFound"))
         ELSE /\ block' = pairs[Cardinality(passed)].child /\ depth' = depth + 1
              /\ UNCHANGED <<volume, number, caller, pc, inode, answer>>

\* Too deep, or a block that cannot be read, or is no block of an inode b-tree.
WalkFails ==
  /\ pc = "walk" /\ (depth > MaxDepth \/ tree[block].kind = "bad")
  /\ Return(Verdict("error"))

-------------------------------------------------------------------------------
(* readAt, parseInode, populateExtentBtreeExtents, populateAttributesFork *)

\* As if the groups followed each other at the stride of the numbers.
PlaceByStride == (group * geometry.blockStride) * geometry.blockSize + relative * geometry.inodeSize

Place == InodeOffset(geometry, number)

ReadInode ==
  /\ pc = "read"
  /\ \E raw \in image.inodes :
       IF ~raw.readable THEN Return("error")
       ELSE IF Acceptable(raw, geometry.inodeSize) /\ raw.mapped
       THEN /\ pc' = "done" /\ answer' = "opened"
            /\ inode' = [offset |-> Place, raw |-> raw,
                         parsed |-> Parsed(raw, geometry.inodeSize, raw.bigTime)]
            /\ UNCHANGED <<volume, number, caller, block, depth>>
       ELSE Return("damaged")

LookupStep == Check \/ SearchLeaf \/ Descend \/ WalkFails \/ ReadInode

Opening == OpenStep /\ UNCHANGED <<number, caller, pc, block, depth, inode, answer>>

Step == Opening \/ LookupStep

Next == Step \/ ((phase = "failed" \/ pc = "done") /\ UNCHANGED vars)

Spec == Init /\ [][Next]_vars

-------------------------------------------------------------------------------
Children(b) ==
  IF tree[b].kind = "branch" THEN {tree[b].pairs[i].child : i \in DOMAIN tree[b].pairs} ELSE {}

\* The blocks under a block: the least set that has it and the children of its members.
Under(b) ==
  {c \in DOMAIN tree :
     \A blocks \in SUBSET DOMAIN tree :
       b \in blocks /\ (\A d \in blocks : Children(d) \subseteq blocks) => c \in blocks}

Records(b) ==
  UNION {{tree[c].records[i] : i \in DOMAIN tree[c].records} :
           c \in {d \in Under(b) : tree[d].kind = "leaf"}}

\* The inodes that a record says are allocated.
Holds(r) ==
  {r.start + k : k \in {i \in 0 .. InodesPerChunk - 1 : r.free = 0 \/ i \notin r.unused}}

Yes == pc = "read" \/ answer \in {"opened", "damaged", "allocated"}
No == answer \in {"notFound", "unallocated"}

\* An inode is opened, or called allocated, only if some record of its own group's
\* tree covers it and says so, whatever the order of the tree.
FoundIsRecorded ==
  Yes => Addressable /\ \E r \in Records(agInode[group + 1]) : relative \in Holds(r)

\* The keys of a branch are in order, and the records under each child lie from
\* its key to the next.
Ordered(b) ==
  tree[b].kind = "branch" =>
    LET pairs == tree[b].pairs
    IN  /\ \A i, j \in DOMAIN pairs : i < j => pairs[i].key < pairs[j].key
        /\ \A i \in DOMAIN pairs : \A r \in Records(pairs[i].child) :
             /\ pairs[i].key <= r.start
             /\ i < Len(pairs) => r.start + InodesPerChunk <= pairs[i + 1].key

SearchTree(root) == \A b \in Under(root) : Ordered(b)

\* In a search tree no allocated inode is missed: a descent that ends without an
\* error and without the inode has looked at the only leaf that could have it.
NoneIsMissed ==
  No /\ SearchTree(agInode[group + 1]) =>
    \A r \in Records(agInode[group + 1]) :
      relative \in Holds(r) =>
        \E other \in Records(agInode[group + 1]) \ {r} :
          relative \in other.start .. other.start + InodesPerChunk - 1

\* An inode is read from the block its number names, the number of that block being
\* read as those of the extents are, and lies in its group (volume.go:118-135, :356-388).
InodeInItsPlace ==
  answer = "opened" /\ Consistent(geometry) =>
    LET place == number % geometry.inodesPerBlock
    IN  /\ inode.offset = BlockOffset(geometry, number \div geometry.inodesPerBlock)
                           + place * geometry.inodeSize
        /\ relative < geometry.agSize * geometry.inodesPerBlock =>
             inode.offset + geometry.inodeSize <= GroupOffset(geometry, group + 1)

\* The forks of an inode share no byte and lie within it (volume.go:1089-1099).
ForksApart ==
  answer = "opened" =>
    /\ inode.parsed.dataSize >= 0 /\ inode.parsed.attributesSize >= 0
    /\ inode.parsed.header + inode.parsed.dataSize + inode.parsed.attributesSize = geometry.inodeSize

\* A time is what its eight bytes stand for in either encoding, clamped at the end of the
\* range (binary.go:36-99), except for the times that Exact leaves out.
TimesMeant ==
  answer = "opened" /\ Exact(inode.raw, inode.raw.bigTime) =>
    inode.parsed.time = Meant(inode.raw, inode.raw.bigTime)

\* Not so: the comment at binary.go:79-82 has every result clamped, and none wrapped.
NoTimeWraps ==
  answer = "opened" /\ BigTime(inode.raw, inode.raw.bigTime) =>
    inode.parsed.time = Meant(inode.raw, TRUE)
===============================================================================
