-------------------------------- MODULE Extents --------------------------------
(***************************************************************************)
(* From a fork as it is on disk to the bytes of a read: the records of the *)
(* inode or of its b+tree (ExtentBtree), normalizeExtents and              *)
(* fillSparseExtents of extent.go, loop step by loop step, and             *)
(* readFromExtents of volume.go, chunk by chunk, with the binary search of *)
(* findExtentForBlock.  On a damaged image the records come in any order,  *)
(* overlap or are empty.                                                   *)
(***************************************************************************)
EXTENDS ExtentBtree, Geometry

CONSTANTS
  geometry,      \* of the volume, see module Geometry
  Sizes,         \* values of di_size, in bytes
  Reads,         \* pairs <<off, length>>: the reads asked for
  Unreadable,    \* blocks of the disk, in their order on it, that cannot be read
  CountModulus,  \* NumberOfBlocks is an integer modulo this: 2^32 in the code
  MaxInt         \* the largest int, 2^63 - 1

BlockSize == geometry.blockSize

\* A uint64 is an integer modulo this, and int() of one is this much less from 2^63 on.
WordModulus == 2 * (MaxInt + 1)
AsInt(word) == IF word > MaxInt THEN word - WordModulus ELSE word

\* A fork of type "extents" has a count and records, as many as there is room for;
\* one of type "local" has room for the file itself, and "device" has neither.  Of a record,
\* l, n and p are LogicalBlockNumber, NumberOfBlocks and PhysicalBlockNumber; sparse is
\* the flag of a record, or of a run, that reads as zeros.
ExtentType == [l : Nat, n : 0 .. CountModulus - 1, p : Nat, sparse : BOOLEAN]
ASSUME RecordAssumption ==
  \A f \in Forks :
    CASE f.type = "extents" -> f.records \in Seq(ExtentType) /\ f.count \in Nat
      [] f.type = "btree"   -> \A b \in DOMAIN f.blocks :
                                 f.blocks[b].kind = "block" /\ f.blocks[b].level = 0 =>
                                   f.blocks[b].records \in Seq(ExtentType)
      [] f.type = "local"   -> f.room \in 0 .. MaxInt
      [] OTHER              -> f.type = "device"
\* di_size is any word; off and len(p) are ints, and a buffer is no half of the memory
\* that a word can address.
ASSUME ReadAssumption ==
  /\ CountModulus \in Nat \ {0} /\ MaxInt \in Nat /\ Sizes \subseteq 0 .. WordModulus - 1
  /\ Reads \subseteq (0 .. MaxInt) \X (0 .. MaxInt)
  /\ \A r \in Reads : r[1] + r[2] <= WordModulus - geometry.blockSize
ASSUME GeometryAssumption ==
  /\ geometry.blockSize \in 1 .. MaxInt /\ geometry.blockStride \in Nat \ {0}
  /\ geometry.agSize \in Nat \ {0} /\ geometry.blocks \in Nat

VARIABLES
  size,         \* inode.Size
  addSparse,    \* not a directory
  todo,         \* the records a loop has still to come to
  list,         \* the list it builds
  position,     \* previousEnd in normalizeExtents, logicalBlockNumber in fillSparseExtents
  caller,       \* "ReadInodeData" or "ReadFileData"
  read,         \* the read <<off, length>>
  out,          \* p[:written]: for each byte, where it comes from
  result

building == <<todo, list, position>>
reading == <<caller, read, out, result>>
vars == <<walk, size, addSparse, building, reading>>

Lesser(a, b) == IF a < b THEN a ELSE b

Init ==
  /\ fork \in Forks /\ size \in Sizes /\ addSparse \in BOOLEAN
  /\ pc = "open" /\ stack = <<>> /\ extents = <<>>
  /\ todo = <<>> /\ list = <<>> /\ position = 0
  /\ caller = "none" /\ read = <<0, 0>> /\ out = <<>> /\ result = "none"

-------------------------------------------------------------------------------
(* parseInode *)

\* The records before the first that is empty: what a count of zero stands for.
InferredCount ==
  Cardinality({i \in DOMAIN fork.records : \A j \in 1 .. i : fork.records[j].n # 0})

Count == IF fork.count = 0 THEN InferredCount ELSE fork.count

OpenExtents ==
  /\ pc = "open" /\ fork.type = "extents"
  /\ CASE Count = 0 -> pc' = "idle" /\ UNCHANGED extents
       [] Count > Len(fork.records) -> pc' = "failed" /\ UNCHANGED extents
       [] OTHER -> pc' = "collected" /\ extents' = SubSeq(fork.records, 1, Count)
  /\ UNCHANGED <<fork, stack, size, addSparse, building, reading>>

\* The bytes of a file that is in its inode are no more than the fork has.
OpenOther ==
  /\ pc = "open" /\ fork.type \in {"local", "device"}
  /\ pc' = IF fork.type = "local" /\ size > fork.room THEN "failed" ELSE "idle"
  /\ UNCHANGED <<fork, stack, extents, size, addSparse, building, reading>>

Walk == WalkStep /\ UNCHANGED <<size, addSparse, building, reading>>

ForkBlocks == (size + BlockSize - 1) \div BlockSize

-------------------------------------------------------------------------------
(* normalizeExtents *)

Collected ==
  /\ pc = "collected" /\ pc' = "normalize"
  /\ todo' = extents
  /\ UNCHANGED <<fork, stack, extents, size, addSparse, list, position, reading>>

\* sort.SliceStable by LogicalBlockNumber
Before(s, i, j) == s[i].l < s[j].l \/ (s[i].l = s[j].l /\ i < j)

\* The loop comes to the records in the order of the sort.
Nearest(i) == \A j \in DOMAIN todo \ {i} : Before(todo, i, j)

End(e) == e.l + e.n
Overlap(e) == IF e.l < position THEN position - e.l ELSE 0

Clipped(e) ==
  [e EXCEPT !.l = @ + Overlap(e), !.n = @ - Overlap(e),
            !.p = IF @ # 0 THEN @ + Overlap(e) ELSE @]

\* Records that end where the one before them ends kept.
SwallowedWrong(e) == e.n = 0 \/ Overlap(e) > e.n

\* A record that maps nothing, or nothing that is not mapped already.
Swallowed(e) == e.n = 0 \/ Overlap(e) >= e.n

NormalizeDrop ==
  /\ pc = "normalize"
  /\ \E i \in DOMAIN todo : Nearest(i) /\ Swallowed(todo[i]) /\ todo' = RemoveAt(todo, i)
  /\ UNCHANGED <<walk, size, addSparse, list, position, reading>>

NormalizeKeep ==
  /\ pc = "normalize"
  /\ \E i \in DOMAIN todo :
       /\ Nearest(i) /\ ~Swallowed(todo[i])
       /\ list' = Append(list, Clipped(todo[i])) /\ position' = End(Clipped(todo[i]))
       /\ todo' = RemoveAt(todo, i)
  /\ UNCHANGED <<walk, size, addSparse, reading>>

Normalized ==
  /\ pc = "normalize" /\ todo = <<>>
  /\ IF addSparse
     THEN pc' = "fill" /\ todo' = list /\ list' = <<>> /\ position' = 0
     ELSE pc' = "idle" /\ UNCHANGED building
  /\ UNCHANGED <<fork, stack, extents, size, addSparse, reading>>

-------------------------------------------------------------------------------
(* fillSparseExtents *)
Sparse(from, count) == [l |-> from, n |-> count % CountModulus, p |-> 0, sparse |-> TRUE]

Fill ==
  /\ pc = "fill" /\ todo # <<>>
  /\ LET e == Head(todo)
         hole == IF e.l > position THEN <<Sparse(position, e.l - position)>> ELSE <<>>
     IN  list' = list \o hole \o <<e>> /\ position' = End(e)
  /\ todo' = Tail(todo)
  /\ UNCHANGED <<walk, size, addSparse, reading>>

Filled ==
  /\ pc = "fill" /\ todo = <<>>
  /\ list' = IF position < ForkBlocks
             THEN Append(list, Sparse(position, ForkBlocks - position)) ELSE list
  /\ pc' = "idle"
  /\ UNCHANGED <<fork, stack, extents, size, addSparse, todo, position, reading>>

-------------------------------------------------------------------------------
(* ReadInodeData, ReadFileData, readInodeData *)

\* volumeCapacityBytes: 0 if the blocks are not known or their bytes overflow.
VolumeCapacity == IF Capacity(geometry) < WordModulus THEN Capacity(geometry) ELSE 0

\* checkPlausibleSize
Implausible == size > MaxInt \/ (VolumeCapacity # 0 /\ size > VolumeCapacity)

\* ReadFileData reads neither directories nor what is larger than the volume.
WholeRefused == ~addSparse \/ Implausible

\* remaining, in readInodeData and again in readFromExtents: negative, and no byte is
\* read, if more of the file is left than an int can say.
Available(off, length) == Lesser(AsInt(size - off), length)

Return(value) == pc' = "done" /\ result' = value

Ask ==
  /\ pc = "idle"
  /\ \/ caller' = "ReadInodeData" /\ read' \in Reads
     \/ caller' = "ReadFileData" /\ read' = <<0, size>>
  /\ LET off == read'[1] length == read'[2]
         available == Available(off, length)
     IN  IF caller' = "ReadFileData" /\ WholeRefused
         THEN Return("error") /\ UNCHANGED out
         ELSE IF length = 0 THEN Return("nil") /\ UNCHANGED out
         ELSE IF off >= size THEN Return("EOF") /\ UNCHANGED out
         ELSE IF fork.type = "local"
         THEN /\ out' = [i \in 1 .. available |-> <<off + i - 1>>]
              /\ Return(IF available < length THEN "EOF" ELSE "nil")
         ELSE IF fork.type = "device" THEN Return("error") /\ UNCHANGED out
         ELSE pc' = "read" /\ UNCHANGED <<result, out>>
  /\ UNCHANGED <<fork, stack, extents, size, addSparse, building>>

(* readFromExtents *)
remaining == Available(read[1], read[2])
pos == read[1] + Len(out)
block == pos \div BlockSize
inBlock == pos % BlockSize
left == remaining - Len(out)

\* findExtentForBlock: sort.Search gives the first extent that starts after the
\* block; only the one before it can hold the block.
FirstAfter(b) ==
  LET after == {i \in DOMAIN list : list[i].l > b}
  IN  IF after = {} THEN Len(list) + 1 ELSE CHOOSE i \in after : \A j \in after : i <= j
Candidate(b) == FirstAfter(b) - 1
Found(b) == Candidate(b) > 0 /\ b < End(list[Candidate(b)])

NextLogical(b) == IF FirstAfter(b) > Len(list) THEN WordModulus - 1 ELSE list[FirstAfter(b)].l

\* A gap that is one block short.
GapShort(b) == ((NextLogical(b) - b - 1) * BlockSize - inBlock) % WordModulus

\* gapBytes: 0, and the loop stands still, if the gap is a multiple of 2^64 bytes.
Gap(b) == ((NextLogical(b) - b) * BlockSize - inBlock) % WordModulus

HoleBytes(b) == Lesser(left, Gap(b))

Zeros(n) == [i \in 1 .. n |-> <<>>]

ReadHole ==
  /\ pc = "read" /\ left > 0 /\ ~Found(block)
  /\ out' = out \o Zeros(HoleBytes(block))
  /\ UNCHANGED <<walk, size, addSparse, building, caller, read, result>>

\* A chunk that is measured from the start of its block.
ChunkBytesWide(e) == Lesser(left, (e.n - (block - e.l)) * BlockSize)

ChunkBytes(e) == Lesser(left, (e.n - (block - e.l)) * BlockSize - inBlock)

ReadSparse ==
  /\ pc = "read" /\ left > 0 /\ Found(block) /\ list[Candidate(block)].sparse
  /\ out' = out \o Zeros(ChunkBytes(list[Candidate(block)]))
  /\ UNCHANGED <<walk, size, addSparse, building, caller, read, result>>

\* fileSystemBlockOffset: what it does with the number of a block, in words.
Linear(b) == LinearBlock(geometry, b) % WordModulus
Refused(b) == Linear(b) > MaxInt \div BlockSize \/ (geometry.blocks # 0 /\ Linear(b) >= geometry.blocks)

\* One readAt for the whole chunk: all of it, or an error, with which ReadFileData
\* returns nothing at all.
ReadChunk ==
  /\ pc = "read" /\ left > 0 /\ Found(block) /\ ~list[Candidate(block)].sparse
  /\ LET e == list[Candidate(block)]
         physical == e.p + (block - e.l)
         start == Linear(physical) * BlockSize + inBlock
         bytes == [i \in 1 .. ChunkBytes(e) |-> <<start + i - 1>>]
     IN  IF Refused(physical) \/ \E i \in DOMAIN bytes : bytes[i][1] \div BlockSize \in Unreadable
         THEN Return("error") /\ out' = IF caller = "ReadFileData" THEN <<>> ELSE out
         ELSE out' = out \o bytes /\ UNCHANGED <<pc, result>>
  /\ UNCHANGED <<fork, stack, extents, size, addSparse, building, caller, read>>

ReadEnds ==
  /\ pc = "read" /\ left <= 0
  /\ Return(IF Len(out) < read[2] THEN "EOF" ELSE "nil")
  /\ UNCHANGED <<fork, stack, extents, size, addSparse, building, caller, read, out>>

Stopped == pc \in {"done", "failed"}

Step == \/ OpenExtents \/ OpenOther \/ Walk \/ Collected
        \/ NormalizeDrop \/ NormalizeKeep \/ Normalized \/ Fill \/ Filled
        \/ Ask \/ ReadHole \/ ReadSparse \/ ReadChunk \/ ReadEnds

Next == Step \/ (Stopped /\ UNCHANGED vars)

Spec == Init /\ [][Next]_vars

\* A single goroutine runs it all.
FairSpec == Spec /\ WF_vars(Step)

-------------------------------------------------------------------------------
TypeOK ==
  /\ fork \in Forks /\ size \in Sizes /\ addSparse \in BOOLEAN
  /\ pc \in {"open", "walk", "collected", "normalize", "fill", "idle", "read", "done", "failed"}
  /\ extents \in Seq(ExtentType) /\ todo \in Seq(ExtentType) /\ list \in Seq(ExtentType)
  /\ position \in Nat /\ caller \in {"none", "ReadInodeData", "ReadFileData"}
  /\ read \in Nat \X Nat /\ out \in Seq(Seq(Nat)) /\ Len(out) <= read[2]
  /\ result \in {"none", "nil", "EOF", "error"}

\* What the search relies on: the list is sorted, and no two extents of it overlap,
\* at every turn of either loop.  That none is empty holds as long as no hole is
\* CountModulus blocks long.
WellFormed ==
  \A i \in DOMAIN list :
    /\ i < Len(list) => list[i].l < list[i + 1].l /\ End(list[i]) <= list[i + 1].l
    /\ list[i].n = 0 => list[i].sparse

-------------------------------------------------------------------------------
\* The fork's own records in order: those of the inode, or of its tree from left
\* to right.
OnDisk ==
  CASE fork.type = "btree"   -> LeafRecords
    [] fork.type = "extents" -> SubSeq(fork.records, 1, Count)

\* All or nothing: a tree is decoded if and only if each block it leads to is good
\* and none is too deep; then no record of it is lost, and none is out of place.
DecodedIffSound ==
  fork.type \in {"btree", "extents"} /\ pc \notin {"open", "walk"} =>
    /\ fork.type = "btree" => (pc # "failed" <=> Sound)
    /\ pc # "failed" => extents = OnDisk

\* What the records map a block to: the first that covers it, in the order of the sort,
\* decides; <<>> if the block reads as zeros.
Covers(e, b) == e.l <= b /\ b < End(e)
Holders(b) == {i \in DOMAIN extents : Covers(extents[i], b)}
FirstHolder(b) == CHOOSE i \in Holders(b) : \A j \in Holders(b) \ {i} : Before(extents, i, j)
On(e, b) == IF e.sparse THEN <<>> ELSE <<e.p + (b - e.l)>>
Mapped(b) == IF Holders(b) = {} THEN <<>> ELSE On(extents[FirstHolder(b)], b)

IsOpen == pc \in {"idle", "read", "done"} /\ fork.type \in {"extents", "btree"}

\* Block 0, which stands for no block in normalizeExtents, is the superblock.
NoneAtZero == \A i \in DOMAIN extents : extents[i].p = 0 => extents[i].sparse

\* readFromExtents: "An XFS extent never spans an allocation group"; nor does the place
\* of one overflow, as it can if the groups of a volume are larger than their stride.
InOneGroup(e) ==
  InsideGroup(geometry, e.p, e.n) /\ LinearBlock(geometry, e.p) + e.n <= WordModulus
RecordsPlausible == NoneAtZero /\ \A i \in DOMAIN extents : InOneGroup(extents[i])

\* Where a byte of the file is on the disk, <<>> if it is a zero.
Place(byte) ==
  LET where == Mapped(byte \div BlockSize)
  IN  IF where = <<>> THEN <<>>
      ELSE <<BlockOffset(geometry, where[1]) + (byte % BlockSize)>>

\* Each byte of a read comes from the place where the records put it, each block's
\* group being looked up by itself, or is a zero where they put it nowhere.
BytesAreMapped == \A i \in DOMAIN out : out[i] = Place(read[1] + i - 1)

Lost(byte) ==
  LET where == Mapped(byte \div BlockSize)
  IN  where # <<>> /\ (\/ Refused(where[1])
                       \/ LinearBlock(geometry, where[1]) \in Unreadable)

\* A read stops short of what was asked for only at the end of the file, with
\* EOF, or at a block that cannot be read, with an error.  But more than an int can
\* count is none: from such a distance of the end nothing is read, and that is EOF too.
ShortOnlyAtEnd ==
  pc = "done" =>
    CASE result = "nil"   -> Len(out) = read[2]
      [] result = "EOF"   -> /\ Len(out) < read[2]
                             /\ \/ read[1] + Len(out) >= size
                                \/ Len(out) = 0 /\ size - read[1] > MaxInt
      [] result = "error" ->
           \/ caller = "ReadFileData" /\ WholeRefused
           \/ /\ Len(out) < read[2]
              /\ \E byte \in read[1] .. read[1] + remaining - 1 : Lost(byte)

\* From the records to the reader: whatever their order and overlaps, a read returns the
\* bytes that they map, up to the length asked for, the end of the file or the first
\* block that cannot be read, and says which.  The bytes before an error are right too.
\* Whether that is so far or nothing, it is by the code's own arithmetic, in words and ints.
\* (DecodedIffSound: the records are those of the inode or of its whole tree.)
ReadsWhatIsMapped == IsOpen /\ RecordsPlausible => BytesAreMapped /\ ShortOnlyAtEnd

\* Every record begins within the bytes that a word can count.
InReach == \A i \in DOMAIN extents : extents[i].l * BlockSize < WordModulus

\* Every read returns, however the records lie, overlap or leave gaps: the walk ends, and
\* each turn of a loop gets some bytes further.  But a record may be anywhere in 2^54 blocks:
\* if one is out of reach, a gap in front of it may have a length of 0 (EveryReadReturns).
ReadReturns == <>(Stopped \/ ~InReach)

\* Not so: in front of a gap of a multiple of 2^64 bytes the loop of readFromExtents
\* stands still.
EveryReadReturns == <>Stopped

\* Not so either: EOF is said of a file that goes on, if its size is no int.
EOFIsTheEnd ==
  IsOpen /\ pc = "done" /\ result = "EOF" => read[1] + Len(out) >= size

-------------------------------------------------------------------------------

\* fillSparseExtents "inserts explicit sparse runs for the gaps in a fork": every
\* byte of the file is in some run, unless the inode has no record at all.
GapsFilled ==
  IsOpen /\ addSparse /\ ~(fork.type = "extents" /\ Count = 0) =>
    \A b \in 0 .. ForkBlocks - 1 : \E i \in DOMAIN list : Covers(list[i], b)

\* The first extent of a list that covers a block: what a linear scan finds.
FirstMatch(s, b) == SelectInSeq(s, LAMBDA e : Covers(e, b))
Where(s, b) ==
  LET i == FirstMatch(s, b)
  IN  IF i = 0 \/ s[i].sparse THEN <<>> ELSE <<s[i].p + (b - s[i].l)>>

\* No block is lost and none is moved: a linear scan of the finished list finds each block
\* where the records map it, whatever their overlaps.
Blocks == 0 .. 2 * CountModulus
SameMapping == pc = "idle" /\ IsOpen => \A b \in Blocks : Where(list, b) = Mapped(b)

\* normalizeExtents "preserves the first-match behaviour a linear scan had": of
\* the records as they were, that is, in their order on disk.
FirstMatchKept == pc = "idle" /\ IsOpen => \A b \in Blocks : Where(list, b) = Where(OnDisk, b)

\* Every file of which each mapped block can be read can be read whole: checkPlausibleSize
\* has it that "No object can be larger than the filesystem that holds it".
WholeFilesAreRead ==
  IsOpen /\ caller = "ReadFileData" /\ addSparse /\ RecordsPlausible /\ result = "error" =>
    \E byte \in 0 .. size - 1 : Lost(byte)
===============================================================================
