----------------------------- MODULE ExtentsProofs -----------------------------
(***************************************************************************)
(* What normalizeExtents and fillSparseExtents make of the records of any  *)
(* fork, sound or damaged: a list that a binary search can be trusted on,  *)
(* and that has each block where the records have it; and what             *)
(* readFromExtents makes of that list: the bytes of the file.              *)
(* Before them, what loadBTreeExtents decodes of a tree of any shape and   *)
(* depth: it gives a list when every block that the tree leads to is sound,*)
(* the records of its leaves from left to right, and else an error.  And   *)
(* after them, what AnalyzeInodeFragmentation makes of the list.           *)
(***************************************************************************)
EXTENDS Fragmentation, SequenceLemmas, FiniteSetTheorems, SequenceTheorems, TLAPS

FrameType == [rest : Seq(DOMAIN fork.blocks), depth : 0 .. MaxDepth]

\* The walk collects records: it only ever looks at blocks that are there.
WalkInv ==
  /\ fork \in Forks /\ size \in Nat /\ size < WordModulus
  /\ extents \in Seq(ExtentType)
  /\ pc = "walk" => fork.type = "btree" /\ stack \in Seq(FrameType)

\* Extents in the order of their blocks, none on top of the next.
Disjoint(s) ==
  \A i \in DOMAIN s : i + 1 \in DOMAIN s => s[i].l < s[i + 1].l /\ End(s[i]) <= s[i + 1].l

Mapping(s) == \A i \in DOMAIN s : s[i].n > 0

\* No extent of a sequence begins before a block.
Beginning(s, b) == s # <<>> => b <= s[1].l

\* The last extent of a list ends at the position.
EndsAt(s, b) == IF s = <<>> THEN b = 0 ELSE End(s[Len(s)]) = b

\* The list of a loop in the middle of it: a part that is right as it is, and that ends
\* where the loop is.
ListInv ==
  /\ list \in Seq(ExtentType) /\ todo \in Seq(ExtentType) /\ position \in Nat
  /\ Disjoint(list) /\ \A i \in DOMAIN list : list[i].n = 0 => list[i].sparse
  /\ pc \in {"open", "walk", "collected", "failed"} => list = <<>> /\ position = 0
  /\ pc = "normalize" => Mapping(list) /\ EndsAt(list, position)
  /\ pc = "fill" =>
       /\ Disjoint(todo) /\ Mapping(todo) /\ Beginning(todo, position)
       /\ list # <<>> => list[Len(list)].l < position /\ End(list[Len(list)]) = position

IInv == WalkInv /\ ListInv

-------------------------------------------------------------------------------
(* Sequences *)

LEMMA Appended ==
  ASSUME NEW s \in Seq(ExtentType), NEW e \in ExtentType, Disjoint(s),
         s # <<>> => s[Len(s)].l < e.l /\ End(s[Len(s)]) <= e.l
  PROVE  Append(s, e) \in Seq(ExtentType) /\ Disjoint(Append(s, e))
<1> DEFINE t == Append(s, e)
<1>1. /\ t \in Seq(ExtentType) /\ Len(t) = Len(s) + 1 /\ t[Len(s) + 1] = e
      /\ \A i \in 1 .. Len(s) : t[i] = s[i]
      /\ DOMAIN t = 1 .. Len(s) + 1 /\ DOMAIN s = 1 .. Len(s) /\ Len(s) \in Nat
  BY AppendProperties, LenProperties
<1> HIDE DEF t
<1>2. ASSUME NEW i \in DOMAIN t, i + 1 \in DOMAIN t
      PROVE  t[i].l < t[i + 1].l /\ End(t[i]) <= t[i + 1].l
  <2>1. CASE i = Len(s)
    BY <1>1, <1>2, <2>1 DEF End
  <2>2. CASE i # Len(s)
    <3>1. i \in 1 .. Len(s) /\ i + 1 \in 1 .. Len(s)
      BY <1>1, <1>2, <2>2
    <3>2. t[i] = s[i] /\ t[i + 1] = s[i + 1]
      BY <1>1, <3>1
    <3>3. QED
      BY <1>1, <3>1, <3>2 DEF Disjoint
  <2>3. QED
    BY <2>1, <2>2
<1>3. QED
  BY <1>1, <1>2 DEF Disjoint, t

LEMMA Removed ==
  ASSUME NEW S, NEW s \in Seq(S), NEW i \in DOMAIN s
  PROVE  /\ RemoveAt(s, i) \in Seq(S) /\ DOMAIN RemoveAt(s, i) = 1 .. Len(s) - 1
         /\ \A k \in 1 .. Len(s) - 1 : RemoveAt(s, i)[k] = IF k < i THEN s[k] ELSE s[k + 1]
<1> DEFINE a == SubSeq(s, 1, i - 1)
           b == SubSeq(s, i + 1, Len(s))
<1>1. Len(s) \in Nat /\ DOMAIN s = 1 .. Len(s) /\ i \in 1 .. Len(s)
  BY LenProperties
<1>2. /\ a \in Seq(S) /\ Len(a) = i - 1
      /\ \A k \in 1 .. i - 1 : a[k] = s[k]
  <2>1. \A k \in 1 .. i - 1 : s[k] \in S
    BY <1>1, ElementOfSeq
  <2>2. QED
    BY <1>1, <2>1, SubSeqProperties
<1>3. /\ b \in Seq(S) /\ Len(b) = Len(s) - i
      /\ \A k \in 1 .. Len(s) - i : b[k] = s[i + k]
  <2>1. \A k \in i + 1 .. Len(s) : s[k] \in S
    BY <1>1, ElementOfSeq
  <2>2. QED
    BY <1>1, <2>1, SubSeqProperties
<1> HIDE DEF a, b
<1>4. /\ a \o b \in Seq(S) /\ Len(a \o b) = Len(a) + Len(b)
      /\ \A k \in 1 .. Len(a) + Len(b) : (a \o b)[k] = IF k <= Len(a) THEN a[k] ELSE b[k - Len(a)]
  BY <1>2, <1>3, ConcatProperties
<1>5. DOMAIN (a \o b) = 1 .. Len(s) - 1
  <2>1. Len(a) + Len(b) = Len(s) - 1
    BY <1>1, <1>2, <1>3
  <2>2. DOMAIN (a \o b) = 1 .. Len(a \o b)
    BY <1>4, LenProperties
  <2>3. QED
    BY <1>4, <2>1, <2>2
<1>6. ASSUME NEW k \in 1 .. Len(s) - 1
      PROVE  (a \o b)[k] = IF k < i THEN s[k] ELSE s[k + 1]
  <2>1. k \in 1 .. Len(a) + Len(b)
    BY <1>1, <1>2, <1>3
  <2>2. CASE k < i
    BY <1>1, <1>2, <1>4, <2>1, <2>2
  <2>3. CASE ~(k < i)
    <3>1. k - Len(a) \in 1 .. Len(s) - i /\ i + (k - Len(a)) = k + 1 /\ ~(k <= Len(a))
      BY <1>1, <1>2, <1>3, <2>1, <2>3
    <3>2. QED
      BY <1>3, <1>4, <2>1, <2>3, <3>1
  <2>4. QED
    BY <2>2, <2>3
<1>7. QED
  BY <1>4, <1>5, <1>6 DEF RemoveAt, a, b

LEMMA Rest ==
  ASSUME NEW s \in Seq(ExtentType), s # <<>>, Disjoint(s), Mapping(s)
  PROVE  /\ Head(s) = s[1] /\ s[1] \in ExtentType /\ s[1].n > 0
         /\ Tail(s) \in Seq(ExtentType) /\ Disjoint(Tail(s)) /\ Mapping(Tail(s))
         /\ Beginning(Tail(s), End(s[1]))
<1> DEFINE t == Tail(s)
<1>1. /\ Len(s) \in Nat \ {0} /\ DOMAIN s = 1 .. Len(s)
      /\ t \in Seq(ExtentType) /\ Len(t) = Len(s) - 1 /\ DOMAIN t = 1 .. Len(s) - 1
      /\ \A i \in 1 .. Len(t) : t[i] = s[i + 1]
  BY EmptySeq, LenProperties, HeadTailProperties
<1>2. Head(s) = s[1] /\ s[1] \in ExtentType /\ s[1].n > 0
  BY <1>1, ElementOfSeq DEF Mapping
<1> HIDE DEF t
<1>3. Disjoint(t) /\ Mapping(t)
  <2>1. ASSUME NEW i \in DOMAIN t
        PROVE  /\ t[i] = s[i + 1] /\ i + 1 \in DOMAIN s
               /\ i + 1 \in DOMAIN t => t[i + 1] = s[i + 2] /\ i + 2 \in DOMAIN s /\ i + 2 = (i + 1) + 1
    BY <1>1
  <2>2. Mapping(t)
    BY <2>1 DEF Mapping
  <2>3. ASSUME NEW i \in DOMAIN t, i + 1 \in DOMAIN t
        PROVE  t[i].l < t[i + 1].l /\ End(t[i]) <= t[i + 1].l
    <3>1. s[i + 1].l < s[(i + 1) + 1].l /\ End(s[i + 1]) <= s[(i + 1) + 1].l
      BY <2>1, <2>3 DEF Disjoint
    <3>2. QED
      BY <2>1, <2>3, <3>1
  <2>4. QED
    BY <2>2, <2>3 DEF Disjoint
<1>4. Beginning(t, End(s[1]))
  <2>1. t # <<>> => 1 \in DOMAIN s /\ 2 \in DOMAIN s /\ t[1] = s[2]
    BY <1>1, EmptySeq
  <2>2. QED
    BY <2>1 DEF Beginning, Disjoint
<1>5. QED
  BY <1>1, <1>2, <1>3, <1>4 DEF t

-------------------------------------------------------------------------------
(* The two loops *)

\* A record that is kept, clipped, begins at the position or behind it.
LEMMA Clip ==
  ASSUME NEW e \in ExtentType, position \in Nat, ~Swallowed(e)
  PROVE  /\ Clipped(e) \in ExtentType /\ Clipped(e).n > 0 /\ position <= Clipped(e).l
         /\ Clipped(e).l = e.l \/ Clipped(e).l = position
         /\ End(Clipped(e)) \in Nat /\ Clipped(e).l < End(Clipped(e))
<1>1. e.l \in Nat /\ e.n \in 0 .. CountModulus - 1 /\ e.p \in Nat /\ e.sparse \in BOOLEAN /\ e.n # 0
  BY DEF ExtentType, Swallowed
<1>2. Overlap(e) \in Nat /\ Overlap(e) < e.n
  BY <1>1 DEF Overlap, Swallowed
<1> DEFINE c == Clipped(e)
<1>3. c.l = e.l + Overlap(e) /\ c.n = e.n - Overlap(e)
  <2>1. c.l = e.l + Overlap(e)
    BY DEF Clipped, ExtentType
  <2>2. c.n = e.n - Overlap(e)
    BY DEF Clipped, ExtentType
  <2>3. QED
    BY <2>1, <2>2
<1>4. c.l \in Nat /\ c.n \in 1 .. CountModulus - 1
  BY <1>1, <1>2, <1>3, ReadAssumption
<1>5. c \in ExtentType
  <2>1. e.l + Overlap(e) \in Nat /\ e.n - Overlap(e) \in 0 .. CountModulus - 1
    BY <1>1, <1>2, ReadAssumption
  <2>2. (IF e.p # 0 THEN e.p + Overlap(e) ELSE e.p) \in Nat
    <3>1. e.p + Overlap(e) \in Nat
      BY <1>1, <1>2
    <3>2. QED
      BY <1>1, <3>1
  <2>3. QED
    BY <2>1, <2>2 DEF Clipped, ExtentType
<1> HIDE DEF c
<1>6. position <= c.l /\ (c.l = e.l \/ c.l = position)
  <2>1. CASE e.l < position
    <3>1. Overlap(e) = position - e.l
      BY <2>1 DEF Overlap
    <3>2. c.l = position
      BY <1>1, <1>3, <3>1
    <3>3. QED
      BY <3>2
  <2>2. CASE ~(e.l < position)
    <3>1. Overlap(e) = 0
      BY <2>2 DEF Overlap
    <3>2. c.l = e.l
      BY <1>1, <1>3, <3>1
    <3>3. QED
      BY <1>1, <2>2, <3>2
  <2>3. QED
    BY <2>1, <2>2
<1>7. End(c) \in Nat /\ c.l < End(c)
  BY <1>4 DEF End
<1>8. QED
  BY <1>4, <1>5, <1>6, <1>7 DEF c

\* A run over a gap ends where the gap ends, or before.
LEMMA Run ==
  ASSUME NEW from \in Nat, NEW to \in Nat, from < to
  PROVE  LET hole == Sparse(from, to - from)
         IN  /\ hole \in ExtentType /\ hole.l = from /\ hole.sparse /\ End(hole) <= to
             /\ to - from < CountModulus => End(hole) = to
<1> DEFINE count == (to - from) % CountModulus
           hole == Sparse(from, to - from)
<1>1. to - from \in Nat \ {0} /\ CountModulus \in Nat \ {0}
  BY ReadAssumption
<1>2. count \in 0 .. CountModulus - 1 /\ count <= to - from /\ (to - from < CountModulus => count = to - from)
  BY <1>1
<1> HIDE DEF count
<1>3. hole = [l |-> from, n |-> count, p |-> 0, sparse |-> TRUE]
  BY DEF Sparse, count
<1> HIDE DEF hole
<1>4. hole \in ExtentType /\ hole.l = from /\ hole.n = count /\ hole.sparse
  BY <1>2, <1>3 DEF ExtentType
<1>5. End(hole) <= to /\ (to - from < CountModulus => End(hole) = to)
  BY <1>1, <1>2, <1>4, ReadAssumption DEF End
<1>6. QED
  BY <1>4, <1>5 DEF hole

\* Of the assumptions on words and blocks, what the proofs need.
LEMMA Words ==
  /\ MaxInt \in Nat /\ WordModulus \in Nat \ {0} /\ WordModulus = 2 * MaxInt + 2
  /\ \A x \in Sizes : x \in Nat /\ x < WordModulus
  /\ Reads \subseteq Nat \X Nat
  /\ BlockSize \in Nat \ {0} /\ BlockSize <= MaxInt
<1>1. MaxInt \in Nat /\ WordModulus \in Nat \ {0} /\ WordModulus = 2 * MaxInt + 2
  BY ReadAssumption DEF WordModulus
<1>2. \A x \in Sizes : x \in Nat /\ x < WordModulus
  <2>1. Sizes \subseteq 0 .. WordModulus - 1
    BY ReadAssumption
  <2>2. QED
    BY <1>1, <2>1
<1>3. Reads \subseteq Nat \X Nat
  <2>1. 0 .. MaxInt \subseteq Nat /\ Reads \subseteq (0 .. MaxInt) \X (0 .. MaxInt)
    BY ReadAssumption
  <2>2. QED
    BY <2>1
<1>4. BlockSize \in Nat \ {0} /\ BlockSize <= MaxInt
  BY <1>1, GeometryAssumption DEF BlockSize
<1>5. QED
  BY <1>1, <1>2, <1>3, <1>4

LEMMA InitInv == Init => IInv
<1> SUFFICES ASSUME Init PROVE IInv
  OBVIOUS
<1>1. <<>> \in Seq(ExtentType) /\ DOMAIN <<>> = {}
  BY EmptySeq
<1>2. /\ fork \in Forks /\ size \in Nat /\ size < WordModulus
      /\ extents = <<>> /\ list = <<>> /\ todo = <<>> /\ position = 0 /\ pc = "open"
  BY Words DEF Init
<1>3. WalkInv
  BY <1>1, <1>2 DEF WalkInv
<1>4. ListInv
  BY <1>1, <1>2 DEF ListInv, Disjoint
<1>5. QED
  BY <1>3, <1>4 DEF IInv

LEMMA Pushed ==
  ASSUME NEW S, NEW s \in Seq(S), s # <<>>
  PROVE  Len(s) \in 1 .. Len(s) /\ s[Len(s)] \in S /\ DOMAIN s = 1 .. Len(s) /\ Front(s) \in Seq(S)
<1>1. Len(s) \in Nat \ {0} /\ DOMAIN s = 1 .. Len(s)
  BY EmptySeq, LenProperties
<1>2. \A i \in 1 .. Len(s) - 1 : s[i] \in S
  BY <1>1, ElementOfSeq
<1>3. Front(s) \in Seq(S)
  BY <1>1, <1>2, SubSeqProperties DEF Front
<1>4. QED
  BY <1>1, <1>3, ElementOfSeq

\* The walk appends the records of leaves and pushes the children of branches.
LEMMA ReadBlockInv ==
  ASSUME IInv, ReadBlock
  PROVE  extents' \in Seq(ExtentType) /\ stack' \in Seq(FrameType)
<1>1. /\ pc = "walk" /\ stack # <<>> /\ Top.rest # <<>> /\ ~TooDeep /\ Good(Child)
      /\ fork \in Forks /\ fork.type = "btree" /\ stack \in Seq(FrameType) /\ extents \in Seq(ExtentType)
  BY DEF IInv, WalkInv, ReadBlock
<1>2. Top \in FrameType /\ Front(stack) \in Seq(FrameType)
  BY <1>1, TopOf DEF Top
<1>3. Top.rest \in Seq(DOMAIN fork.blocks) /\ Top.depth \in 0 .. MaxDepth
  BY <1>2 DEF FrameType
<1>4. Child \in DOMAIN fork.blocks /\ Tail(Top.rest) \in Seq(DOMAIN fork.blocks)
  BY <1>1, <1>3, HeadTailProperties DEF Child
<1>5. Advanced \in Seq(FrameType)
  <2>1. Frame(Tail(Top.rest), Top.depth) \in FrameType
    BY <1>3, <1>4 DEF FrameType, Frame
  <2>2. QED
    BY <1>2, <2>1, AppendProperties DEF Advanced
<1>6. CASE fork.blocks[Child].level = 0
  <2>1. fork.blocks[Child].records \in Seq(ExtentType)
    BY <1>1, <1>4, <1>6, RecordAssumption DEF Good
  <2>2. QED
    BY <1>1, <1>5, <1>6, <2>1, ConcatProperties DEF ReadBlock, With
<1>7. CASE fork.blocks[Child].level # 0
  <2>1. fork.blocks[Child].children \in Seq(DOMAIN fork.blocks)
    BY <1>1, <1>4, <1>7, RootAssumption DEF Good
  <2>2. Below \in 0 .. MaxDepth
    BY <1>1, <1>3, DepthAssumption DEF TooDeep, Below
  <2>3. Frame(fork.blocks[Child].children, Below) \in FrameType
    BY <2>1, <2>2 DEF Frame, FrameType
  <2>4. QED
    BY <1>1, <1>5, <1>7, <2>3, AppendProperties DEF ReadBlock
<1>8. QED
  BY <1>6, <1>7

LEMMA WalkStepInv ==
  ASSUME IInv, WalkStep, UNCHANGED <<size, addSparse, building, reading>>
  PROVE  IInv'
<1> USE DEF IInv, building, reading
<1>1. UNCHANGED <<fork, size, todo, list, position>>
  BY DEF WalkStep, OpenRoot, ReadFails, ReadBlock, BranchEnds, WalkEnds, Fail
<1>2. FrameType' = FrameType
  BY <1>1 DEF FrameType
<1>3. pc \in {"open", "walk"} /\ pc' \in {"walk", "failed", "collected"}
  BY DEF WalkStep, OpenRoot, ReadFails, ReadBlock, BranchEnds, WalkEnds, Fail
<1>4. ListInv'
  BY <1>1, <1>3 DEF ListInv, Disjoint, End
<1>5. WalkInv'
  <2>1. CASE OpenRoot
    <3>1. fork \in Forks /\ fork.type = "btree" /\ fork.root \in Seq(DOMAIN fork.blocks)
      BY <2>1, RootAssumption DEF OpenRoot, WalkInv
    <3>2. Frame(fork.root, 0) \in FrameType
      BY <3>1, DepthAssumption DEF Frame, FrameType
    <3>3. <<Frame(fork.root, 0)>> \in Seq(FrameType)
      BY <3>2
    <3>4. QED
      BY <1>1, <1>2, <2>1, <3>1, <3>3 DEF OpenRoot, WalkInv, Fail
  <2>2. CASE ReadFails
    BY <1>1, <1>2, <2>2 DEF ReadFails, WalkInv, Fail
  <2>3. CASE ReadBlock
    BY <1>1, <1>2, <2>3, ReadBlockInv DEF ReadBlock, WalkInv
  <2>4. CASE BranchEnds
    BY <1>1, <1>2, <2>4, Pushed DEF BranchEnds, WalkInv, Left
  <2>5. CASE WalkEnds
    BY <1>1, <1>2, <2>5 DEF WalkEnds, WalkInv
  <2>6. QED
    BY <2>1, <2>2, <2>3, <2>4, <2>5 DEF WalkStep
<1>6. QED
  BY <1>4, <1>5

\* A record of a fork that is in the inode.
LEMMA OpenExtentsInv == IInv /\ OpenExtents => IInv'
<1> SUFFICES ASSUME IInv, OpenExtents PROVE IInv'
  OBVIOUS
<1> USE DEF IInv, building, reading
<1>1. UNCHANGED <<fork, size, todo, list, position>> /\ pc = "open" /\ pc' \in {"idle", "failed", "collected"}
  BY DEF OpenExtents
<1>2. fork \in Forks /\ fork.type = "extents" /\ fork.records \in Seq(ExtentType) /\ fork.count \in Nat
  BY RecordAssumption DEF OpenExtents, WalkInv
<1>3. extents' \in Seq(ExtentType)
  <2>1. CASE extents' = extents
    BY <2>1 DEF WalkInv
  <2>2. CASE Count # 0 /\ ~(Count > Len(fork.records)) /\ extents' = SubSeq(fork.records, 1, Count)
    <3>1. Len(fork.records) \in Nat /\ DOMAIN fork.records = 1 .. Len(fork.records)
      BY <1>2, LenProperties
    <3>2. Count \in Nat
      <4>1. CASE fork.count # 0
        BY <1>2, <4>1 DEF Count
      <4>2. CASE fork.count = 0
        <5> DEFINE before == {i \in DOMAIN fork.records : \A j \in 1 .. i : fork.records[j].n # 0}
        <5>1. IsFiniteSet(before)
          <6>1. IsFiniteSet(1 .. Len(fork.records))
            BY <3>1, FS_Interval
          <6>2. before \subseteq 1 .. Len(fork.records)
            BY <3>1
          <6>3. QED
            BY <6>1, <6>2, FS_Subset
        <5>2. QED
          BY <4>2, <5>1, FS_CardinalityType DEF Count, InferredCount
      <4>3. QED
        BY <4>1, <4>2
    <3>3. \A i \in 1 .. Count : fork.records[i] \in ExtentType
      BY <1>2, <2>2, <3>1, <3>2, ElementOfSeq
    <3>4. QED
      BY <2>2, <3>2, <3>3, SubSeqProperties
  <2>3. QED
    BY <2>1, <2>2 DEF OpenExtents
<1>4. QED
  BY <1>1, <1>3 DEF WalkInv, ListInv, Disjoint, End

LEMMA NormalizeKeepInv == IInv /\ NormalizeKeep => IInv'
<1> SUFFICES ASSUME IInv, NormalizeKeep PROVE IInv'
  OBVIOUS
<1>1. PICK i \in DOMAIN todo :
        /\ ~Swallowed(todo[i])
        /\ list' = Append(list, Clipped(todo[i])) /\ position' = End(Clipped(todo[i]))
        /\ todo' = RemoveAt(todo, i)
  BY DEF NormalizeKeep
<1>2. /\ pc = "normalize" /\ UNCHANGED <<fork, pc, stack, extents, size>>
      /\ list \in Seq(ExtentType) /\ todo \in Seq(ExtentType) /\ position \in Nat
      /\ Disjoint(list) /\ Mapping(list) /\ EndsAt(list, position)
  BY DEF NormalizeKeep, walk, IInv, ListInv
<1> DEFINE e == Clipped(todo[i])
<1>3. todo[i] \in ExtentType
  BY <1>2, LenProperties, ElementOfSeq
<1>4. /\ e \in ExtentType /\ e.n > 0 /\ position <= e.l
      /\ End(e) \in Nat /\ e.l < End(e)
  BY <1>1, <1>2, <1>3, Clip
<1> HIDE DEF e
<1>5. list # <<>> => list[Len(list)].l < e.l /\ End(list[Len(list)]) <= e.l
  <2>1. ASSUME list # <<>>
        PROVE  list[Len(list)] \in ExtentType /\ list[Len(list)].n > 0 /\ End(list[Len(list)]) = position
    BY <1>2, <2>1, Pushed DEF Mapping, EndsAt
  <2>2. \A x \in ExtentType : x.l \in Nat /\ x.n \in Nat
    BY ReadAssumption DEF ExtentType
  <2>3. e.l \in Nat
    BY <1>4, <2>2
  <2>4. ASSUME NEW x \in ExtentType, x.n > 0, End(x) = position
        PROVE  x.l < e.l /\ End(x) <= e.l
    BY <1>2, <1>4, <2>2, <2>3, <2>4 DEF End
  <2>5. QED
    BY <2>1, <2>4
<1>6. list' \in Seq(ExtentType) /\ Disjoint(list')
  BY <1>1, <1>2, <1>4, <1>5, Appended DEF e
<1>7. /\ Len(list') = Len(list) + 1 /\ list' # <<>> /\ list'[Len(list) + 1] = e
      /\ \A k \in 1 .. Len(list) : list'[k] = list[k]
      /\ DOMAIN list' = 1 .. Len(list) + 1 /\ DOMAIN list = 1 .. Len(list) /\ Len(list) \in Nat
  BY <1>1, <1>2, <1>4, <1>6, AppendProperties, LenProperties DEF e
<1>8. Mapping(list') /\ EndsAt(list', position')
  <2>1. ASSUME NEW k \in DOMAIN list' PROVE list'[k].n > 0
    BY <1>2, <1>4, <1>7 DEF Mapping
  <2>2. QED
    BY <1>1, <1>7, <2>1 DEF Mapping, EndsAt, e
<1>9. todo' \in Seq(ExtentType)
  BY <1>1, <1>2, Removed
<1>10. position' \in Nat
  BY <1>1, <1>4 DEF e
<1>11. WalkInv'
  BY <1>2 DEF IInv, WalkInv
<1>12. \A k \in DOMAIN list' : list'[k].n = 0 => list'[k].sparse
  BY <1>8 DEF Mapping
<1>13. ListInv'
  <2>1. pc' = "normalize"
    BY <1>2
  <2>2. (Disjoint(list))' /\ (Mapping(list))' /\ (EndsAt(list, position))'
    BY <1>6, <1>8 DEF Disjoint, Mapping, EndsAt, End
  <2>3. QED
    BY <1>6, <1>9, <1>10, <1>12, <2>1, <2>2 DEF ListInv
<1>14. QED
  BY <1>11, <1>13 DEF IInv

\* What a turn of fillSparseExtents appends to: the list, with a run over the gap if
\* there is one.
Patched ==
  IF todo[1].l > position THEN Append(list, Sparse(position, todo[1].l - position)) ELSE list

LEMMA FillAppends ==
  ASSUME list \in Seq(ExtentType), todo \in Seq(ExtentType), position \in Nat,
         Disjoint(todo), Mapping(todo), Fill
  PROVE  Patched \in Seq(ExtentType) /\ list' = Append(Patched, todo[1]) /\ position' = End(todo[1])
<1> DEFINE e == todo[1]
           hole == Sparse(position, e.l - position)
<1>1. /\ todo # <<>> /\ Head(todo) = e /\ e \in ExtentType /\ e.l \in Nat
      /\ position' = End(e)
      /\ list' = list \o (IF e.l > position THEN <<hole>> ELSE <<>>) \o <<e>>
  <2>1. todo # <<>>
    BY DEF Fill
  <2>2. Head(todo) = e /\ e \in ExtentType
    BY <2>1, Rest
  <2>3. e.l \in Nat
    BY <2>2, ReadAssumption DEF ExtentType
  <2> HIDE DEF e
  <2>4. QED
    BY <2>1, <2>2, <2>3 DEF Fill
<1>2. CASE e.l > position
  <2>1. hole \in ExtentType /\ Patched = Append(list, hole)
    BY <1>1, <1>2, Run DEF Patched
  <2> HIDE DEF hole, e
  <2>2. Patched = list \o <<hole>> /\ Patched \in Seq(ExtentType)
    BY <2>1, AppendIsConcat, AppendProperties
  <2>3. list' = Patched \o <<e>>
    BY <1>1, <1>2, <2>2
  <2>4. list' = Append(Patched, e)
    BY <1>1, <2>2, <2>3, AppendIsConcat
  <2>5. QED
    BY <1>1, <2>2, <2>4 DEF e
<1>3. CASE ~(e.l > position)
  <2>1. Patched = list
    BY <1>3 DEF Patched
  <2> HIDE DEF hole, e
  <2>2. list' = (list \o <<>>) \o <<e>>
    BY <1>1, <1>3
  <2>3. list' = list \o <<e>>
    BY <2>2, ConcatEmptySeq
  <2>4. list' = Append(list, e)
    BY <1>1, <2>3, AppendIsConcat
  <2>5. QED
    BY <1>1, <2>1, <2>4 DEF e
<1>4. QED
  BY <1>2, <1>3

LEMMA FillInv == IInv /\ Fill => IInv'
<1> SUFFICES ASSUME IInv, Fill PROVE IInv'
  OBVIOUS
<1> DEFINE e == todo[1]
           hole == Sparse(position, e.l - position)
           filled == Patched
<1>1. /\ pc = "fill" /\ UNCHANGED <<fork, pc, stack, extents, size>> /\ todo # <<>>
      /\ list \in Seq(ExtentType) /\ todo \in Seq(ExtentType) /\ position \in Nat
      /\ Disjoint(list) /\ Disjoint(todo) /\ Mapping(todo) /\ Beginning(todo, position)
      /\ \A i \in DOMAIN list : list[i].n = 0 => list[i].sparse
      /\ list # <<>> => list[Len(list)].l < position /\ End(list[Len(list)]) = position
      /\ todo' = Tail(todo)
  BY DEF Fill, walk, IInv, ListInv
<1>2. /\ Head(todo) = e /\ e \in ExtentType /\ e.n > 0
      /\ Tail(todo) \in Seq(ExtentType) /\ Disjoint(Tail(todo)) /\ Mapping(Tail(todo))
      /\ Beginning(Tail(todo), End(e)) /\ position <= e.l
  BY <1>1, Rest DEF Beginning
<1>3. e.l \in Nat /\ e.n \in Nat /\ End(e) \in Nat /\ e.l < End(e)
  BY <1>2, ReadAssumption DEF ExtentType, End
<1>4. list' = Append(filled, e) /\ position' = End(e)
  BY <1>1, FillAppends
<1>5. /\ filled \in Seq(ExtentType) /\ Disjoint(filled)
      /\ filled # <<>> => filled[Len(filled)].l < e.l /\ End(filled[Len(filled)]) <= e.l
      /\ \A i \in DOMAIN filled : filled[i].n = 0 => filled[i].sparse
  <2>1. CASE e.l > position
    <3>1. /\ hole \in ExtentType /\ hole.l = position /\ hole.sparse /\ End(hole) <= e.l
          /\ filled = Append(list, hole)
      BY <1>1, <1>3, <2>1, Run DEF Patched
    <3> HIDE DEF hole
    <3>2. list # <<>> => list[Len(list)].l < hole.l /\ End(list[Len(list)]) <= hole.l
      BY <1>1, <3>1
    <3>3. /\ filled = Append(list, hole) /\ filled \in Seq(ExtentType) /\ Disjoint(filled)
          /\ Len(filled) = Len(list) + 1 /\ filled[Len(list) + 1] = hole
          /\ \A k \in 1 .. Len(list) : filled[k] = list[k]
          /\ DOMAIN filled = 1 .. Len(list) + 1 /\ DOMAIN list = 1 .. Len(list) /\ Len(list) \in Nat
      BY <1>1, <2>1, <3>1, <3>2, Appended, AppendProperties, LenProperties
    <3> HIDE DEF filled
    <3>4. filled[Len(filled)] = hole
      BY <3>3
    <3>5. ASSUME NEW i \in DOMAIN filled, filled[i].n = 0
          PROVE  filled[i].sparse
      BY <1>1, <3>1, <3>3, <3>5
    <3>6. QED
      BY <2>1, <3>1, <3>3, <3>4, <3>5
  <2>2. CASE ~(e.l > position)
    BY <1>1, <1>2, <1>3, <2>2 DEF Patched
  <2>3. QED
    BY <2>1, <2>2
<1> HIDE DEF filled, e
<1>6. list' \in Seq(ExtentType) /\ Disjoint(list')
  BY <1>2, <1>4, <1>5, Appended
<1>7. /\ Len(list') = Len(filled) + 1 /\ list' # <<>> /\ list'[Len(filled) + 1] = e
      /\ \A k \in 1 .. Len(filled) : list'[k] = filled[k]
      /\ DOMAIN list' = 1 .. Len(filled) + 1 /\ DOMAIN filled = 1 .. Len(filled) /\ Len(filled) \in Nat
  BY <1>2, <1>4, <1>5, <1>6, AppendProperties, LenProperties
<1>8. \A i \in DOMAIN list' : list'[i].n = 0 => list'[i].sparse
  BY <1>2, <1>3, <1>5, <1>7
<1>9. list'[Len(list')].l < position' /\ End(list'[Len(list')]) = position' /\ position' \in Nat
  BY <1>3, <1>4, <1>7
<1>10. WalkInv'
  BY <1>1 DEF IInv, WalkInv
<1>11. ListInv'
  <2>1. pc' = "fill" /\ todo' \in Seq(ExtentType)
    BY <1>1, <1>2
  <2>2. (Disjoint(list))' /\ (Disjoint(todo))' /\ (Mapping(todo))' /\ (Beginning(todo, position))'
    BY <1>1, <1>2, <1>4, <1>6 DEF Disjoint, Mapping, Beginning, End
  <2>3. (list # <<>> => list[Len(list)].l < position /\ End(list[Len(list)]) = position)'
    BY <1>9 DEF End
  <2>4. QED
    BY <1>6, <1>8, <1>9, <2>1, <2>2, <2>3 DEF ListInv
<1>12. QED
  BY <1>10, <1>11 DEF IInv

LEMMA FilledInv == IInv /\ Filled => IInv'
<1> SUFFICES ASSUME IInv, Filled PROVE IInv'
  OBVIOUS
<1>1. /\ pc = "fill" /\ pc' = "idle" /\ UNCHANGED <<fork, stack, extents, size, todo, position>>
      /\ size \in Nat /\ list \in Seq(ExtentType) /\ todo \in Seq(ExtentType) /\ position \in Nat
      /\ Disjoint(list) /\ \A i \in DOMAIN list : list[i].n = 0 => list[i].sparse
      /\ list # <<>> => list[Len(list)].l < position /\ End(list[Len(list)]) = position
      /\ list' = IF position < ForkBlocks THEN Append(list, Sparse(position, ForkBlocks - position)) ELSE list
  BY DEF Filled, IInv, WalkInv, ListInv
<1>2. ForkBlocks \in Int
  BY <1>1, Words DEF ForkBlocks
<1>3. /\ list' \in Seq(ExtentType) /\ Disjoint(list')
      /\ \A i \in DOMAIN list' : list'[i].n = 0 => list'[i].sparse
  <2>1. CASE position < ForkBlocks
    <3> DEFINE hole == Sparse(position, ForkBlocks - position)
    <3>1. hole \in ExtentType /\ hole.l = position /\ hole.sparse
      <4>1. ForkBlocks \in Nat
        BY <1>1, <1>2, <2>1
      <4>2. QED
        BY <1>1, <2>1, <4>1, Run
    <3> HIDE DEF hole
    <3>2. list' = Append(list, hole)
      BY <1>1, <2>1 DEF hole
    <3>3. list # <<>> => list[Len(list)].l < hole.l /\ End(list[Len(list)]) <= hole.l
      BY <1>1, <3>1
    <3>4. list' \in Seq(ExtentType) /\ Disjoint(list')
      BY <1>1, <3>1, <3>2, <3>3, Appended
    <3>5. /\ list'[Len(list) + 1] = hole /\ \A k \in 1 .. Len(list) : list'[k] = list[k]
          /\ DOMAIN list' = 1 .. Len(list) + 1 /\ DOMAIN list = 1 .. Len(list) /\ Len(list) \in Nat
      BY <1>1, <3>1, <3>2, <3>4, AppendProperties, LenProperties
    <3>6. QED
      BY <1>1, <3>1, <3>4, <3>5
  <2>2. CASE ~(position < ForkBlocks)
    BY <1>1, <2>2
  <2>3. QED
    BY <2>1, <2>2
<1>4. (Disjoint(list))'
  BY <1>3 DEF Disjoint, End
<1>5. QED
  BY <1>1, <1>3, <1>4 DEF IInv, WalkInv, ListInv

LEMMA StepInv == IInv /\ [Next]_vars => IInv'
<1> SUFFICES ASSUME IInv, [Next]_vars PROVE IInv'
  OBVIOUS
<1>1. CASE OpenExtents
  BY <1>1, OpenExtentsInv
<1>2. CASE OpenOther
  BY <1>2 DEF OpenOther, IInv, WalkInv, ListInv, Disjoint, End, building
<1>3. CASE Walk
  BY <1>3, WalkStepInv DEF Walk
<1>4. CASE Collected
  <2>1. list = <<>> /\ position = 0 /\ DOMAIN list = {}
    BY <1>4 DEF Collected, IInv, ListInv
  <2>2. QED
    BY <1>4, <2>1 DEF Collected, IInv, WalkInv, ListInv, Disjoint, Mapping, EndsAt, End
<1>5. CASE NormalizeDrop
  <2>1. pc = "normalize" /\ UNCHANGED <<fork, pc, stack, extents, size, list, position>>
    BY <1>5 DEF NormalizeDrop, walk
  <2>2. todo' \in Seq(ExtentType)
    BY <1>5, Removed DEF NormalizeDrop, IInv, ListInv
  <2>3. QED
    BY <2>1, <2>2 DEF IInv, WalkInv, ListInv, Disjoint, Mapping, EndsAt, End
<1>6. CASE NormalizeKeep
  BY <1>6, NormalizeKeepInv
<1>7. CASE Normalized
  <2>1. /\ UNCHANGED <<fork, stack, extents, size>> /\ pc = "normalize"
        /\ list \in Seq(ExtentType) /\ Disjoint(list) /\ Mapping(list)
    BY <1>7 DEF Normalized, IInv, ListInv
  <2>2. CASE addSparse
    <3>1. pc' = "fill" /\ todo' = list /\ list' = <<>> /\ position' = 0
      BY <1>7, <2>2 DEF Normalized
    <3>2. list # <<>> => list[1] \in ExtentType
      BY <2>1, EmptySeq, ElementOfSeq
    <3>3. (Beginning(todo, position))'
      BY <3>1, <3>2 DEF Beginning, ExtentType
    <3>4. (Disjoint(todo))' /\ (Mapping(todo))' /\ (Disjoint(list))'
      BY <2>1, <3>1 DEF Disjoint, Mapping, End
    <3>5. QED
      BY <2>1, <3>1, <3>3, <3>4 DEF IInv, WalkInv, ListInv
  <2>3. CASE ~addSparse
    BY <1>7, <2>1, <2>3 DEF Normalized, building, IInv, WalkInv, ListInv, Disjoint, End
  <2>4. QED
    BY <2>2, <2>3
<1>8. CASE Fill
  BY <1>8, FillInv
<1>9. CASE Filled
  BY <1>9, FilledInv
<1>10. CASE Ask \/ ReadHole \/ ReadSparse \/ ReadChunk \/ ReadEnds \/ UNCHANGED vars
  <2>1. /\ UNCHANGED <<fork, stack, extents, size, list, todo, position>>
        /\ pc' = pc \/ (pc \in {"idle", "read"} /\ pc' \in {"idle", "read", "done"})
    BY <1>10 DEF Ask, ReadHole, ReadSparse, ReadChunk, ReadEnds, Return, vars, walk, building
  <2>2. WalkInv'
    BY <2>1, <1>10 DEF IInv, WalkInv, FrameType
  <2>3. (Disjoint(list))' /\ (\A i \in DOMAIN list : list[i].n = 0 => list[i].sparse)'
    BY <2>1 DEF IInv, ListInv, Disjoint, End
  <2>4. CASE pc' = pc
    BY <2>1, <2>2, <2>3, <2>4 DEF IInv, ListInv, Disjoint, Mapping, EndsAt, Beginning, End
  <2>5. CASE pc' # pc
    BY <2>1, <2>2, <2>3, <2>5 DEF IInv, ListInv
  <2>6. QED
    BY <2>4, <2>5
<1>11. QED
  BY <1>1, <1>2, <1>3, <1>4, <1>5, <1>6, <1>7, <1>8, <1>9, <1>10 DEF Next, Step

LEMMA Invariance == Spec => []IInv
  BY InitInv, StepInv, PTL DEF Spec

\* normalizeExtents and fillSparseExtents: whatever the records of a fork are, the list
\* is in order and free of overlaps at every turn of either loop, so that the binary
\* search of findExtentForBlock can be trusted on it.
THEOREM ListInOrder == Spec => []WellFormed
<1>1. ASSUME IInv
      PROVE  WellFormed
  <2>1. DOMAIN list = 1 .. Len(list) /\ Len(list) \in Nat
    BY <1>1, LenProperties DEF IInv, ListInv
  <2>2. QED
    BY <1>1, <2>1 DEF IInv, ListInv, Disjoint, WellFormed
<1>2. QED
  BY <1>1, Invariance, PTL

-------------------------------------------------------------------------------
(* What a list says of the records *)

Covered(s, b) == \E m \in DOMAIN s : Covers(s[m], b)

\* Where a list has a block, the records have it too, and in the same place.
Truthful(s) == \A m \in DOMAIN s : \A b \in Nat : Covers(s[m], b) => On(s[m], b) = Mapped(b)

\* What a list has on the disk is inside an allocation group.
Grouped(s) == \A m \in DOMAIN s : RecordsPlausible /\ ~s[m].sparse => InOneGroup(s[m])

\* The records a loop has still to come to, in their order on the disk; those it has
\* been to, and those it has passed, are in its list.
Pending(f) ==
  /\ f \in [DOMAIN todo -> DOMAIN extents]
  /\ \A k, m \in DOMAIN todo : k < m => f[k] < f[m]
  /\ \A k \in DOMAIN todo : todo[k] = extents[f[k]]
  /\ \A i \in DOMAIN extents : (\A k \in DOMAIN todo : f[k] # i) =>
       \A b \in Nat : Covers(extents[i], b) => Covered(list, b)
  /\ \A k \in DOMAIN todo : \A b \in Nat : todo[k].l <= b /\ b < position => Covered(list, b)

MapInv ==
  /\ pc = "open" => extents = <<>>
  /\ NoneAtZero =>
       /\ Truthful(list) /\ Grouped(list)
       /\ pc = "normalize" => \E f : Pending(f)
       /\ pc = "fill" =>
            /\ Truthful(todo) /\ Grouped(todo)
            /\ \A b \in Nat : Holders(b) # {} => Covered(list, b) \/ Covered(todo, b)
       /\ pc \in {"idle", "read", "done"} =>
            \A b \in Nat : Holders(b) # {} => Covered(list, b)

LEMMA Numbers ==
  ASSUME NEW e \in ExtentType
  PROVE  e.l \in Nat /\ e.n \in Nat /\ e.p \in Nat /\ e.sparse \in BOOLEAN /\ End(e) \in Nat
<1>1. e.l \in Nat /\ e.n \in Nat /\ e.p \in Nat /\ e.sparse \in BOOLEAN
  BY ReadAssumption DEF ExtentType
<1>2. QED
  BY <1>1 DEF End

\* From each extent of a list to any later one.
LEMMA Ordered ==
  ASSUME NEW s \in Seq(ExtentType), Disjoint(s), NEW i \in DOMAIN s, NEW j \in DOMAIN s, i < j
  PROVE  s[i].l < s[j].l /\ End(s[i]) <= s[j].l
<1>1. /\ Len(s) \in Nat /\ DOMAIN s = 1 .. Len(s)
      /\ \A k \in DOMAIN s : s[k].l \in Nat /\ End(s[k]) \in Nat
  BY LenProperties, ElementOfSeq, Numbers
<1> DEFINE T == {k \in DOMAIN s : i < k /\ ~(s[i].l < s[k].l /\ End(s[i]) <= s[k].l)}
<1>2. SUFFICES ASSUME T # {} PROVE FALSE
  OBVIOUS
<1>3. T \subseteq Nat
  BY <1>1
<1>4. PICK m \in T : \A k \in T : m <= k
  BY <1>2, <1>3, Least
<1>5. /\ m \in DOMAIN s /\ i < m /\ m - 1 \in DOMAIN s /\ (m - 1) + 1 = m /\ m - 1 \notin T
      /\ ~(s[i].l < s[m].l /\ End(s[i]) <= s[m].l)
  <2>1. m \in 1 .. Len(s) /\ i \in 1 .. Len(s) /\ i < m /\ ~(m <= m - 1) /\ m - 1 \in 1 .. Len(s)
    BY <1>1, <1>4
  <2>2. m - 1 \notin T
    BY <1>4, <2>1
  <2>3. QED
    BY <1>1, <1>4, <2>1, <2>2
<1>6. s[m - 1].l < s[m].l /\ End(s[m - 1]) <= s[m].l
  BY <1>5 DEF Disjoint
<1>7. CASE i = m - 1
  BY <1>5, <1>6, <1>7
<1>8. CASE i # m - 1
  <2>1. i < m - 1
    BY <1>1, <1>5, <1>8
  <2>2. s[i].l < s[m - 1].l /\ End(s[i]) <= s[m - 1].l
    BY <1>5, <2>1
  <2>3. QED
    BY <1>1, <1>5, <1>6, <2>2
<1>9. QED
  BY <1>7, <1>8

\* Nothing of a list is beyond the end of its last extent.
LEMMA EndsLast ==
  ASSUME NEW s \in Seq(ExtentType), Disjoint(s), NEW m \in DOMAIN s
  PROVE  s # <<>> /\ End(s[m]) <= End(s[Len(s)])
<1>1. Len(s) \in Nat /\ DOMAIN s = 1 .. Len(s) /\ m \in 1 .. Len(s) /\ s # <<>>
  BY LenProperties, EmptySeq
<1>2. s[m] \in ExtentType /\ s[Len(s)] \in ExtentType
  BY <1>1, ElementOfSeq
<1>3. CASE m = Len(s)
  BY <1>1, <1>2, <1>3, Numbers
<1>4. CASE m # Len(s)
  <2>1. m < Len(s) /\ Len(s) \in DOMAIN s
    BY <1>1, <1>4
  <2>2. End(s[m]) <= s[Len(s)].l
    BY <1>1, <2>1, Ordered
  <2>3. s[Len(s)].l <= End(s[Len(s)])
    BY <1>2, Numbers DEF End
  <2>4. QED
    BY <1>1, <1>2, <2>2, <2>3, Numbers
<1>5. QED
  BY <1>3, <1>4

\* The one holder of a block that all the others come after decides.
LEMMA FirstDecides ==
  ASSUME NEW b, NEW i \in Holders(b), extents \in Seq(ExtentType),
         \A j \in Holders(b) \ {i} : Before(extents, i, j)
  PROVE  Mapped(b) = On(extents[i], b)
<1> DEFINE x == FirstHolder(b)
<1>1. x \in Holders(b) /\ \A j \in Holders(b) \ {x} : Before(extents, x, j)
  BY DEF FirstHolder
<1>2. /\ Len(extents) \in Nat /\ DOMAIN extents = 1 .. Len(extents)
      /\ \A k \in DOMAIN extents : extents[k].l \in Nat
  BY LenProperties, ElementOfSeq, Numbers
<1>3. i \in DOMAIN extents /\ x \in DOMAIN extents
  BY <1>1 DEF Holders
<1> HIDE DEF x
<1>4. x = i
  <2>1. ~(Before(extents, i, x) /\ Before(extents, x, i))
    BY <1>2, <1>3 DEF Before
  <2>2. QED
    BY <1>1, <2>1
<1>5. Holders(b) # {}
  OBVIOUS
<1>6. QED
  BY <1>4, <1>5 DEF Mapped, x

LEMMA NothingThere ==
  ASSUME NEW b, Holders(b) = {}
  PROVE  Mapped(b) = <<>>
BY DEF Mapped

\* One more extent in a list.
LEMMA OneMore ==
  ASSUME NEW s \in Seq(ExtentType), NEW e \in ExtentType
  PROVE  /\ \A b : Covered(Append(s, e), b) <=> Covered(s, b) \/ Covers(e, b)
         /\ Truthful(s) /\ (\A b \in Nat : Covers(e, b) => On(e, b) = Mapped(b)) => Truthful(Append(s, e))
         /\ Grouped(s) /\ (RecordsPlausible /\ ~e.sparse => InOneGroup(e)) => Grouped(Append(s, e))
<1> DEFINE t == Append(s, e)
<1>1. /\ t[Len(s) + 1] = e /\ \A i \in 1 .. Len(s) : t[i] = s[i]
      /\ DOMAIN t = 1 .. Len(s) + 1 /\ DOMAIN s = 1 .. Len(s) /\ Len(s) \in Nat
  <2>1. t \in Seq(ExtentType) /\ Len(t) = Len(s) + 1
    BY AppendProperties
  <2>2. QED
    BY <2>1, AppendProperties, LenProperties
<1> HIDE DEF t
<1>2. \A b : Covered(t, b) <=> Covered(s, b) \/ Covers(e, b)
  <2>1. \A m \in DOMAIN t : (m \in DOMAIN s /\ t[m] = s[m]) \/ t[m] = e
    BY <1>1
  <2>2. \A m \in DOMAIN s : m \in DOMAIN t /\ t[m] = s[m]
    BY <1>1
  <2>3. Len(s) + 1 \in DOMAIN t
    BY <1>1
  <2>4. QED
    BY <1>1, <2>1, <2>2, <2>3 DEF Covered
<1>3. ASSUME Truthful(s), \A b \in Nat : Covers(e, b) => On(e, b) = Mapped(b) PROVE Truthful(t)
  <2>1. ASSUME NEW m \in DOMAIN t, NEW b \in Nat, Covers(t[m], b) PROVE On(t[m], b) = Mapped(b)
    <3>1. (m \in DOMAIN s /\ t[m] = s[m]) \/ t[m] = e
      BY <1>1
    <3>2. QED
      BY <1>3, <2>1, <3>1 DEF Truthful
  <2>2. QED
    BY <2>1 DEF Truthful
<1>4. ASSUME Grouped(s), RecordsPlausible /\ ~e.sparse => InOneGroup(e) PROVE Grouped(t)
  <2>1. ASSUME NEW m \in DOMAIN t, RecordsPlausible, ~t[m].sparse PROVE InOneGroup(t[m])
    <3>1. (m \in DOMAIN s /\ t[m] = s[m]) \/ t[m] = e
      BY <1>1
    <3>2. QED
      BY <1>4, <2>1, <3>1 DEF Grouped
  <2>2. QED
    BY <2>1 DEF Grouped
<1>5. QED
  BY <1>2, <1>3, <1>4 DEF t

-------------------------------------------------------------------------------
(* Blocks and groups *)

LEMMA LinearIsNat == ASSUME NEW b \in Nat PROVE LinearBlock(geometry, b) \in Nat
<1>1. geometry.blockStride \in Nat \ {0} /\ geometry.agSize \in Nat
  BY GeometryAssumption
<1>2. b \div geometry.blockStride \in Nat /\ b % geometry.blockStride \in Nat
  BY <1>1, NatDiv
<1>3. QED
  BY <1>1, <1>2 DEF LinearBlock

\* Inside an allocation group, blocks that follow each other by number do so on the disk.
LEMMA LinearInGroup ==
  ASSUME NEW b \in Nat, NEW i \in Nat, (b % geometry.blockStride) + i < geometry.blockStride
  PROVE  LinearBlock(geometry, b + i) = LinearBlock(geometry, b) + i
<1> DEFINE d == geometry.blockStride
           q == b \div d
           r == b % d
<1>1. d \in Nat \ {0} /\ geometry.agSize \in Nat
  BY GeometryAssumption
<1>2. q \in Int /\ r \in 0 .. d - 1 /\ b = q * d + r
  <2> HIDE DEF d
  <2>1. QED
    BY <1>1, DivMod
<1>3. r + i < d
  OBVIOUS
<1> HIDE DEF q, r, d
<1>4. r + i \in 0 .. d - 1 /\ q * d \in Int /\ b + i = q * d + (r + i)
  BY <1>1, <1>2, <1>3
<1>5. (b + i) \div d = q /\ (b + i) % d = r + i
  <2>1. (q * d + (r + i)) \div d = q /\ (q * d + (r + i)) % d = r + i
    BY <1>1, <1>2, <1>4, DivModUnique
  <2>2. QED
    BY <1>4, <2>1
<1>6. q * geometry.agSize \in Int
  BY <1>1, <1>2
<1>7. QED
  BY <1>2, <1>4, <1>5, <1>6 DEF LinearBlock, d, q, r

-------------------------------------------------------------------------------
(* normalizeExtents *)

\* A record that is clipped has the blocks that are behind the position, where they were.
LEMMA ClipKeeps ==
  ASSUME NEW e \in ExtentType, position \in Nat, ~Swallowed(e),
         e.p = 0 => e.sparse
  PROVE  /\ End(Clipped(e)) = End(e)
         /\ \A b \in Nat : Covers(Clipped(e), b) <=> Covers(e, b) /\ position <= b
         /\ \A b \in Nat : On(Clipped(e), b) = On(e, b)
         /\ InOneGroup(e) /\ ~Clipped(e).sparse => InOneGroup(Clipped(e))
<1> DEFINE c == Clipped(e)
           o == Overlap(e)
<1>1. e.l \in Nat /\ e.n \in Nat /\ e.p \in Nat /\ e.sparse \in BOOLEAN
  BY Numbers
<1>2. o \in Nat /\ o < e.n /\ (e.l < position => o = position - e.l) /\ (~(e.l < position) => o = 0)
  BY <1>1 DEF Overlap, Swallowed
<1>3. /\ c.l = e.l + o /\ c.n = e.n - o /\ c.sparse = e.sparse
      /\ c.p = IF e.p # 0 THEN e.p + o ELSE e.p
  <2>1. c.l = e.l + o
    BY DEF Clipped, ExtentType
  <2>2. c.n = e.n - o
    BY DEF Clipped, ExtentType
  <2>3. c.sparse = e.sparse
    BY DEF Clipped, ExtentType
  <2>4. c.p = IF e.p # 0 THEN e.p + o ELSE e.p
    BY DEF Clipped, ExtentType
  <2>5. QED
    BY <2>1, <2>2, <2>3, <2>4
<1> HIDE DEF c, o
<1>4. End(c) = End(e)
  BY <1>1, <1>2, <1>3 DEF End
<1>5. \A b \in Nat : Covers(c, b) <=> Covers(e, b) /\ position <= b
  BY <1>1, <1>2, <1>3 DEF Covers, End
<1>6. CASE e.sparse
  BY <1>3, <1>4, <1>5, <1>6 DEF On, c
<1>7. CASE ~e.sparse
  <2>1. e.p # 0 /\ c.p = e.p + o
    BY <1>3, <1>7
  <2>2. \A b \in Nat : c.p + (b - c.l) = e.p + (b - e.l)
    BY <1>1, <1>2, <1>3, <2>1
  <2>3. \A b \in Nat : On(c, b) = On(e, b)
    BY <1>3, <1>7, <2>2 DEF On
  <2>4. ASSUME InOneGroup(e) PROVE InOneGroup(c)
    <3> DEFINE d == geometry.blockStride
               r == e.p % d
               q == e.p \div d
    <3>1. d \in Nat \ {0} /\ q \in Int /\ r \in 0 .. d - 1 /\ e.p = q * d + r
      <4>1. d \in Nat \ {0} /\ e.p \in Int
        BY <1>1, GeometryAssumption
      <4> HIDE DEF d
      <4>2. QED
        BY <4>1, DivMod
    <3>2. r + e.n <= d
      BY <2>4 DEF InOneGroup, InsideGroup
    <3>8. LinearBlock(geometry, c.p) + c.n <= WordModulus
      <4>1. LinearBlock(geometry, e.p) + e.n <= WordModulus
        BY <2>4 DEF InOneGroup
      <4>2. r + o < d
        BY <1>1, <1>2, <3>1, <3>2
      <4>3. LinearBlock(geometry, e.p + o) = LinearBlock(geometry, e.p) + o
        BY <1>1, <1>2, <4>2, LinearInGroup
      <4>4. LinearBlock(geometry, e.p) \in Nat
        BY <1>1, LinearIsNat
      <4>5. QED
        BY <1>1, <1>2, <1>3, <2>1, <4>1, <4>3, <4>4, Words
    <3> HIDE DEF r, q, d
    <3>3. r + o \in 0 .. d - 1 /\ q * d \in Int
      BY <1>1, <1>2, <3>1, <3>2
    <3>4. (q * d + (r + o)) % d = r + o
      BY <3>1, <3>3, DivModUnique
    <3>5. c.p = q * d + (r + o)
      BY <1>2, <2>1, <3>1, <3>3
    <3>6. (c.p % d) + c.n <= d
      BY <1>1, <1>2, <1>3, <3>1, <3>2, <3>3, <3>4, <3>5
    <3>7. QED
      BY <3>6, <3>8 DEF InOneGroup, InsideGroup, d
  <2>5. QED
    BY <1>4, <1>5, <2>3, <2>4 DEF c
<1>8. QED
  BY <1>6, <1>7
\* A record that is not swallowed is the first of those that have a block it has behind
\* the position.
LEMMA NearestDecides ==
  ASSUME NEW f, Pending(f), NEW i \in DOMAIN todo, Nearest(i), NEW b \in Nat,
         Covers(todo[i], b), position <= b, \A m \in DOMAIN list : End(list[m]) <= position,
         position \in Nat, list \in Seq(ExtentType), todo \in Seq(ExtentType), extents \in Seq(ExtentType)
  PROVE  Mapped(b) = On(todo[i], b)
<1>1. ~Covered(list, b)
  <2>1. SUFFICES ASSUME NEW m \in DOMAIN list, Covers(list[m], b) PROVE FALSE
    BY DEF Covered
  <2>2. list[m] \in ExtentType
    BY LenProperties, ElementOfSeq
  <2>3. b < End(list[m]) /\ End(list[m]) <= position
    BY <2>1 DEF Covers
  <2>4. QED
    BY <2>2, <2>3, Numbers
<1>2. f[i] \in DOMAIN extents /\ todo[i] = extents[f[i]]
  BY DEF Pending
<1>3. f[i] \in Holders(b)
  BY <1>2 DEF Holders
<1>4. ASSUME NEW j \in Holders(b) \ {f[i]} PROVE Before(extents, f[i], j)
  <2>1. j \in DOMAIN extents /\ Covers(extents[j], b)
    BY <1>4 DEF Holders
  <2>2. PICK k \in DOMAIN todo : f[k] = j
    BY <1>1, <2>1 DEF Pending
  <2>3. Before(todo, i, k) /\ todo[k] = extents[j] /\ k # i
    BY <1>4, <2>2 DEF Nearest, Pending
  <2>4. i < k => f[i] < j
    BY <2>2 DEF Pending
  <2>5. QED
    BY <1>2, <2>3, <2>4 DEF Before
<1>5. QED
  BY <1>2, <1>3, <1>4, FirstDecides

\* A record leaves those to come when the list has its blocks, and when the position moves
\* over nothing else.
LEMMA Passed ==
  ASSUME NEW f, Pending(f), NEW i \in DOMAIN todo, todo \in Seq(ExtentType),
         \A b \in Nat : Covers(todo[i], b) => Covered(list', b),
         \A b \in Nat : Covered(list, b) => Covered(list', b),
         \A k \in DOMAIN todo : \A b \in Nat :
           k # i /\ todo[k].l <= b /\ b < position' => Covered(list', b),
         todo' = RemoveAt(todo, i), extents' = extents
  PROVE  (\E f1 : Pending(f1))'
<1>0. PICK g : g = [k \in 1 .. Len(todo) - 1 |-> IF k < i THEN f[k] ELSE f[k + 1]]
  OBVIOUS
<1>1. Len(todo) \in Nat /\ DOMAIN todo = 1 .. Len(todo) /\ i \in 1 .. Len(todo)
  BY LenProperties
<1>2. /\ DOMAIN todo' = 1 .. Len(todo) - 1
      /\ \A k \in 1 .. Len(todo) - 1 : todo'[k] = IF k < i THEN todo[k] ELSE todo[k + 1]
  BY Removed
<1>3. /\ f \in [DOMAIN todo -> DOMAIN extents]
      /\ \A k, m \in DOMAIN todo : k < m => f[k] < f[m]
      /\ \A k \in DOMAIN todo : todo[k] = extents[f[k]]
      /\ \A j \in DOMAIN extents : (\A k \in DOMAIN todo : f[k] # j) =>
           \A b \in Nat : Covers(extents[j], b) => Covered(list, b)
  BY DEF Pending
<1>4. g \in [DOMAIN todo' -> DOMAIN extents]
  BY <1>0, <1>1, <1>2, <1>3
<1>5. \A k, m \in DOMAIN todo' : k < m => g[k] < g[m]
  BY <1>0, <1>1, <1>2, <1>3
<1>6. \A k \in DOMAIN todo' : todo'[k] = extents[g[k]]
  BY <1>0, <1>1, <1>2, <1>3
<1>7. \A k \in DOMAIN todo : k # i => \E m \in DOMAIN todo' : g[m] = f[k]
  <2>1. ASSUME NEW k \in DOMAIN todo, k < i PROVE k \in DOMAIN todo' /\ g[k] = f[k]
    BY <1>0, <1>1, <1>2, <2>1
  <2>2. ASSUME NEW k \in DOMAIN todo, i < k PROVE k - 1 \in DOMAIN todo' /\ g[k - 1] = f[k]
    BY <1>0, <1>1, <1>2, <2>2
  <2>3. \A k \in DOMAIN todo : k # i => k < i \/ i < k
    BY <1>1
  <2>4. QED
    BY <2>1, <2>2, <2>3
<1>8. \A k \in DOMAIN todo' : \E m \in DOMAIN todo : m # i /\ todo'[k] = todo[m]
  BY <1>1, <1>2
<1>9. ASSUME NEW j \in DOMAIN extents, \A k \in DOMAIN todo' : g[k] # j, NEW b \in Nat, Covers(extents[j], b)
      PROVE  Covered(list', b)
  <2>1. CASE j = f[i]
    BY <1>3, <1>9, <2>1
  <2>2. CASE j # f[i]
    <3>1. \A k \in DOMAIN todo : f[k] # j
      BY <1>7, <1>9, <2>2
    <3>2. QED
      BY <1>3, <1>9, <3>1
  <2>3. QED
    BY <2>1, <2>2
<1>10. ASSUME NEW k \in DOMAIN todo', NEW b \in Nat, todo'[k].l <= b, b < position'
       PROVE  Covered(list', b)
  <2>1. PICK m \in DOMAIN todo : m # i /\ todo'[k] = todo[m]
    BY <1>8
  <2>2. QED
    BY <1>10, <2>1
<1>11. (Pending(g))'
  <2>1. /\ \A j \in DOMAIN extents' : (\A k \in DOMAIN todo' : g[k] # j) =>
             \A b \in Nat : Covers(extents'[j], b) => Covered(list', b)
        /\ \A k \in DOMAIN todo' : \A b \in Nat : todo'[k].l <= b /\ b < position' => Covered(list', b)
    BY <1>9, <1>10
  <2>2. QED
    BY <1>4, <1>5, <1>6, <2>1 DEF Pending
<1>12. QED
  BY <1>11

\* What is said of the records stays true while they stay the same.
LEMMA RecordsStay ==
  ASSUME extents' = extents
  PROVE  /\ NoneAtZero' <=> NoneAtZero
         /\ RecordsPlausible' <=> RecordsPlausible
         /\ \A b : Holders(b)' = Holders(b) /\ Mapped(b)' = Mapped(b)
         /\ Truthful(list') => (Truthful(list))'
         /\ Truthful(todo') => (Truthful(todo))'
         /\ Grouped(list') => (Grouped(list))'
         /\ Grouped(todo') => (Grouped(todo))'
<1>1. (NoneAtZero' <=> NoneAtZero) /\ (RecordsPlausible' <=> RecordsPlausible)
  BY DEF NoneAtZero, RecordsPlausible
<1>2. ASSUME NEW b PROVE Holders(b)' = Holders(b)
  BY DEF Holders
<1>3. ASSUME NEW b PROVE FirstHolder(b)' = FirstHolder(b)
  BY <1>2 DEF FirstHolder
<1>4. ASSUME NEW b PROVE Mapped(b)' = Mapped(b)
  BY <1>2, <1>3 DEF Mapped
<1>5. Truthful(list') => (Truthful(list))'
  BY <1>4 DEF Truthful
<1>6. Truthful(todo') => (Truthful(todo))'
  BY <1>4 DEF Truthful
<1>7. (Grouped(list') => (Grouped(list))') /\ (Grouped(todo') => (Grouped(todo))')
  BY <1>1 DEF Grouped
<1>8. QED
  BY <1>1, <1>2, <1>4, <1>5, <1>6, <1>7

LEMMA CollectedMaps == IInv /\ MapInv /\ Collected => MapInv'
<1> SUFFICES ASSUME IInv, MapInv, Collected, NoneAtZero' PROVE MapInv'
  BY DEF MapInv, Collected
<1>1. /\ pc' = "normalize" /\ extents' = extents /\ todo' = extents /\ list' = <<>> /\ position' = 0
      /\ extents \in Seq(ExtentType)
  BY DEF Collected, IInv, WalkInv, ListInv
<1>2. Truthful(list') /\ Grouped(list') /\ DOMAIN list' = {}
  <2>1. DOMAIN list' = {}
    BY <1>1
  <2>2. QED
    BY <2>1 DEF Truthful, Grouped
<1>3. Len(extents) \in Nat /\ DOMAIN extents = 1 .. Len(extents) /\ \A k \in DOMAIN extents : extents[k].l \in Nat
  BY <1>1, LenProperties, ElementOfSeq, Numbers
<1>4. PICK g : g = [k \in DOMAIN extents |-> k]
  OBVIOUS
<1>5. (Pending(g))'
  <2>1. /\ g \in [DOMAIN todo' -> DOMAIN extents']
        /\ \A k, m \in DOMAIN todo' : k < m => g[k] < g[m]
        /\ \A k \in DOMAIN todo' : todo'[k] = extents'[g[k]]
        /\ \A j \in DOMAIN extents' : ~\A k \in DOMAIN todo' : g[k] # j
    BY <1>1, <1>3, <1>4
  <2>2. \A k \in DOMAIN todo' : \A b \in Nat : ~(todo'[k].l <= b /\ b < position')
    BY <1>1, <1>3
  <2>3. QED
    BY <2>1, <2>2 DEF Pending
<1>6. QED
  BY <1>1, <1>2, <1>5, RecordsStay DEF MapInv

LEMMA NormalizeDropMaps == IInv /\ MapInv /\ NormalizeDrop => MapInv'
<1> SUFFICES ASSUME IInv, MapInv, NormalizeDrop, NoneAtZero' PROVE MapInv'
  BY DEF MapInv, NormalizeDrop, walk
<1>1. /\ pc = "normalize" /\ pc' = pc /\ extents' = extents /\ list' = list /\ position' = position
      /\ todo \in Seq(ExtentType) /\ position \in Nat
  BY DEF NormalizeDrop, walk, IInv, ListInv
<1>2. NoneAtZero /\ Truthful(list) /\ Grouped(list)
  BY <1>1, RecordsStay DEF MapInv
<1>3. PICK f : Pending(f)
  BY <1>1, <1>2 DEF MapInv
<1>4. PICK i \in DOMAIN todo : Swallowed(todo[i]) /\ todo' = RemoveAt(todo, i)
  BY DEF NormalizeDrop
<1>5. todo[i] \in ExtentType
  BY <1>1, LenProperties, ElementOfSeq
<1>6. ASSUME NEW b \in Nat, Covers(todo[i], b) PROVE Covered(list, b)
  <2>1. todo[i].l <= b /\ b < End(todo[i])
    BY <1>6 DEF Covers
  <2>2. b < position
    BY <1>1, <1>4, <1>5, <2>1, Numbers DEF Swallowed, Overlap, End
  <2>3. QED
    BY <1>3, <2>1, <2>2 DEF Pending
<1>7. (\E f1 : Pending(f1))'
  <2>1. \A k \in DOMAIN todo : \A b \in Nat : todo[k].l <= b /\ b < position => Covered(list, b)
    BY <1>3 DEF Pending
  <2>2. QED
    BY <1>1, <1>3, <1>4, <1>6, <2>1, Passed
<1>8. QED
  BY <1>1, <1>2, <1>7, RecordsStay DEF MapInv

LEMMA NormalizeKeepMaps == IInv /\ MapInv /\ NormalizeKeep => MapInv'
<1> SUFFICES ASSUME IInv, MapInv, NormalizeKeep, NoneAtZero' PROVE MapInv'
  BY DEF MapInv, NormalizeKeep, walk
<1>1. /\ pc = "normalize" /\ pc' = pc /\ extents' = extents /\ extents \in Seq(ExtentType)
      /\ list \in Seq(ExtentType) /\ todo \in Seq(ExtentType) /\ position \in Nat
      /\ Disjoint(list) /\ EndsAt(list, position)
  BY DEF NormalizeKeep, walk, IInv, ListInv, WalkInv
<1>2. NoneAtZero /\ Truthful(list) /\ Grouped(list)
  BY <1>1, RecordsStay DEF MapInv
<1>3. PICK f : Pending(f)
  BY <1>1, <1>2 DEF MapInv
<1>4. PICK i \in DOMAIN todo :
        /\ Nearest(i) /\ ~Swallowed(todo[i])
        /\ list' = Append(list, Clipped(todo[i])) /\ position' = End(Clipped(todo[i]))
        /\ todo' = RemoveAt(todo, i)
  BY DEF NormalizeKeep
<1> DEFINE e == todo[i]
           c == Clipped(e)
<1>5. /\ e \in ExtentType /\ (e.p = 0 => e.sparse)
      /\ RecordsPlausible => InOneGroup(e)
  BY <1>1, <1>2, <1>3, LenProperties, ElementOfSeq DEF Pending, NoneAtZero, RecordsPlausible
<1>6. c \in ExtentType
  BY <1>1, <1>4, <1>5, Clip
<1>7. /\ End(c) = End(e)
      /\ \A b \in Nat : Covers(c, b) <=> Covers(e, b) /\ position <= b
      /\ \A b \in Nat : On(c, b) = On(e, b)
      /\ InOneGroup(e) /\ ~c.sparse => InOneGroup(c)
  BY <1>1, <1>4, <1>5, ClipKeeps
<1>8. \A m \in DOMAIN list : End(list[m]) <= position
  BY <1>1, EndsLast DEF EndsAt
<1>9. ASSUME NEW b \in Nat, Covers(c, b) PROVE On(c, b) = Mapped(b)
  BY <1>1, <1>3, <1>4, <1>7, <1>8, <1>9, NearestDecides
<1> HIDE DEF c
<1>10. Truthful(list') /\ Grouped(list') /\ \A b : Covered(list', b) <=> Covered(list, b) \/ Covers(c, b)
  BY <1>1, <1>2, <1>4, <1>5, <1>6, <1>7, <1>9, OneMore DEF c
<1>11. ASSUME NEW b \in Nat, Covers(e, b) PROVE Covered(list', b)
  <2>1. e.l <= b /\ (b < position \/ position <= b)
    BY <1>1, <1>5, <1>11, Numbers DEF Covers
  <2>2. b < position => Covered(list, b)
    BY <1>3, <2>1 DEF Pending
  <2>3. QED
    BY <1>7, <1>10, <1>11, <2>1, <2>2
<1>12. ASSUME NEW k \in DOMAIN todo, NEW b \in Nat, k # i, todo[k].l <= b, b < position'
       PROVE  Covered(list', b)
  <2>1. todo[k] \in ExtentType
    BY <1>1, LenProperties, ElementOfSeq
  <2>2. e.l <= todo[k].l
    BY <1>4, <1>5, <1>12, <2>1, Numbers DEF Nearest, Before
  <2>3. Covers(e, b)
    BY <1>4, <1>5, <1>7, <1>12, <2>1, <2>2, Numbers DEF Covers, c
  <2>4. QED
    BY <1>11, <2>3
<1>13. (\E f1 : Pending(f1))'
  BY <1>1, <1>3, <1>4, <1>10, <1>11, <1>12, Passed
<1>14. QED
  BY <1>1, <1>10, <1>13, RecordsStay DEF MapInv

LEMMA NormalizedMaps == IInv /\ MapInv /\ Normalized => MapInv'
<1> SUFFICES ASSUME IInv, MapInv, Normalized, NoneAtZero' PROVE MapInv'
  BY DEF MapInv, Normalized
<1>1. pc = "normalize" /\ extents' = extents /\ todo = <<>> /\ DOMAIN todo = {}
  BY EmptySeq DEF Normalized
<1>2. NoneAtZero /\ Truthful(list) /\ Grouped(list)
  BY <1>1, RecordsStay DEF MapInv
<1>3. \A b \in Nat : Holders(b) # {} => Covered(list, b)
  <2>1. PICK f : Pending(f)
    BY <1>1, <1>2 DEF MapInv
  <2>2. QED
    BY <1>1, <2>1 DEF Pending, Holders
<1>4. CASE addSparse
  <2>1. pc' = "fill" /\ todo' = list /\ list' = <<>>
    BY <1>4 DEF Normalized
  <2>2. Truthful(list') /\ Grouped(list') /\ Truthful(todo') /\ Grouped(todo')
    <3>1. DOMAIN list' = {}
      BY <2>1
    <3>2. QED
      BY <1>2, <2>1, <3>1 DEF Truthful, Grouped
  <2>3. \A b \in Nat : Holders(b)' # {} => Covered(todo', b)
    BY <1>1, <1>3, <2>1, RecordsStay
  <2>4. QED
    BY <1>1, <2>1, <2>2, <2>3, RecordsStay DEF MapInv
<1>5. CASE ~addSparse
  <2>1. pc' = "idle" /\ list' = list
    BY <1>5 DEF Normalized, building
  <2>2. \A b \in Nat : Holders(b)' # {} => Covered(list', b)
    BY <1>1, <1>3, <2>1, RecordsStay
  <2>3. QED
    BY <1>1, <1>2, <2>1, <2>2, RecordsStay DEF MapInv
<1>6. QED
  BY <1>4, <1>5

-------------------------------------------------------------------------------
(* fillSparseExtents *)

\* A run over blocks that no record has.
LEMMA HoleMaps ==
  ASSUME NEW hole \in ExtentType, hole.sparse, Truthful(list), Grouped(list), list \in Seq(ExtentType),
         \A b \in Nat : Covers(hole, b) => Holders(b) = {}
  PROVE  Truthful(Append(list, hole)) /\ Grouped(Append(list, hole))
<1>1. \A b \in Nat : Covers(hole, b) => On(hole, b) = Mapped(b)
  BY NothingThere DEF On
<1>2. QED
  BY <1>1, OneMore

\* Nothing the list has is at the position or behind it.
LEMMA Behind ==
  ASSUME IInv, pc = "fill", NEW b \in Nat, position <= b
  PROVE  ~Covered(list, b)
<1>1. SUFFICES ASSUME NEW m \in DOMAIN list, Covers(list[m], b) PROVE FALSE
  BY DEF Covered
<1>2. /\ list \in Seq(ExtentType) /\ Disjoint(list) /\ position \in Nat
      /\ list # <<>> => End(list[Len(list)]) = position
  BY DEF IInv, ListInv
<1>3. list[m] \in ExtentType /\ End(list[m]) <= position
  BY <1>2, EndsLast, LenProperties, ElementOfSeq
<1>4. b < End(list[m])
  BY <1>1 DEF Covers
<1>5. QED
  BY <1>2, <1>3, <1>4, Numbers

LEMMA FillMaps == IInv /\ MapInv /\ Fill => MapInv'
<1> SUFFICES ASSUME IInv, MapInv, Fill, NoneAtZero' PROVE MapInv'
  BY DEF MapInv, Fill, walk
<1> DEFINE e == todo[1]
           hole == Sparse(position, e.l - position)
           filled == Patched
<1>1. /\ pc = "fill" /\ pc' = pc /\ extents' = extents /\ todo # <<>> /\ todo' = Tail(todo)
      /\ list \in Seq(ExtentType) /\ todo \in Seq(ExtentType) /\ position \in Nat
      /\ Disjoint(todo) /\ Mapping(todo) /\ Beginning(todo, position)
  BY DEF Fill, walk, IInv, ListInv
<1>2. /\ NoneAtZero /\ Truthful(list) /\ Grouped(list) /\ Truthful(todo) /\ Grouped(todo)
      /\ \A b \in Nat : Holders(b) # {} => Covered(list, b) \/ Covered(todo, b)
  BY <1>1, RecordsStay DEF MapInv
<1>3. /\ Len(todo) \in Nat \ {0} /\ DOMAIN todo = 1 .. Len(todo)
      /\ DOMAIN Tail(todo) = 1 .. Len(todo) - 1
      /\ \A k \in 1 .. Len(todo) - 1 : Tail(todo)[k] = todo[k + 1]
  <2>1. Len(Tail(todo)) = Len(todo) - 1 /\ Tail(todo) \in Seq(ExtentType)
    BY <1>1, HeadTailProperties
  <2>2. QED
    BY <1>1, <2>1, EmptySeq, LenProperties, HeadTailProperties
<1>4. e \in ExtentType /\ 1 \in DOMAIN todo /\ position <= e.l /\ e.l \in Nat
  BY <1>1, <1>3, ElementOfSeq, Numbers DEF Beginning
<1>5. filled \in Seq(ExtentType) /\ list' = Append(filled, e)
  BY <1>1, FillAppends
<1>6. /\ Truthful(filled) /\ Grouped(filled)
      /\ \A b \in Nat : Covered(list, b) => Covered(filled, b)
  <2>1. CASE e.l > position
    <3>1. hole \in ExtentType /\ hole.l = position /\ hole.sparse /\ End(hole) <= e.l
          /\ filled = Append(list, hole)
      BY <1>1, <1>4, <2>1, Run DEF Patched
    <3> HIDE DEF hole
    <3>2. ASSUME NEW b \in Nat, Covers(hole, b) PROVE Holders(b) = {}
      <4>1. position <= b /\ b < e.l
        BY <1>4, <3>1, <3>2, Numbers DEF Covers
      <4>2. ~Covered(list, b)
        BY <1>1, <4>1, Behind
      <4>3. ~Covered(todo, b)
        <5>1. SUFFICES ASSUME NEW m \in DOMAIN todo, Covers(todo[m], b) PROVE FALSE
          BY DEF Covered
        <5>2. m = 1 \/ e.l < todo[m].l
          <6>1. m = 1 \/ 1 < m
            BY <1>3
          <6>2. QED
            BY <1>1, <1>4, <6>1, Ordered
        <5>3. todo[m] \in ExtentType /\ todo[m].l <= b
          BY <1>1, <5>1, LenProperties, ElementOfSeq DEF Covers
        <5>4. QED
          BY <1>4, <4>1, <5>2, <5>3, Numbers
      <4>4. QED
        BY <1>2, <4>2, <4>3
    <3>3. QED
      BY <1>1, <1>2, <2>1, <3>1, <3>2, HoleMaps, OneMore
  <2>2. CASE ~(e.l > position)
    BY <1>2, <2>2 DEF Patched
  <2>3. QED
    BY <2>1, <2>2
<1>7. /\ Truthful(list') /\ Grouped(list')
      /\ \A b \in Nat : Covered(list, b) \/ Covers(e, b) => Covered(list', b)
  <2>1. (RecordsPlausible /\ ~e.sparse => InOneGroup(e)) /\ \A b \in Nat : Covers(e, b) => On(e, b) = Mapped(b)
    BY <1>2, <1>4 DEF Truthful, Grouped
  <2> HIDE DEF e, filled
  <2>2. QED
    BY <1>4, <1>5, <1>6, <2>1, OneMore
<1>8. Truthful(todo') /\ Grouped(todo') /\ \A b : Covered(todo, b) => Covers(e, b) \/ Covered(todo', b)
  <2>1. \A k \in DOMAIN todo' : k + 1 \in DOMAIN todo /\ todo'[k] = todo[k + 1]
    BY <1>1, <1>3
  <2>2. Truthful(todo') /\ Grouped(todo')
    BY <1>2, <2>1 DEF Truthful, Grouped
  <2>3. \A m \in DOMAIN todo : m = 1 \/ (m - 1 \in DOMAIN todo' /\ todo'[m - 1] = todo[m])
    BY <1>1, <1>3
  <2>4. QED
    BY <2>2, <2>3 DEF Covered
<1>9. \A b \in Nat : Holders(b)' # {} => Covered(list', b) \/ Covered(todo', b)
  BY <1>1, <1>2, <1>7, <1>8, RecordsStay
<1> HIDE DEF e
<1>10. QED
  BY <1>1, <1>7, <1>8, <1>9, RecordsStay DEF MapInv

LEMMA FilledMaps == IInv /\ MapInv /\ Filled => MapInv'
<1> SUFFICES ASSUME IInv, MapInv, Filled, NoneAtZero' PROVE MapInv'
  BY DEF MapInv, Filled
<1>1. /\ pc = "fill" /\ pc' = "idle" /\ extents' = extents /\ todo = <<>> /\ DOMAIN todo = {}
      /\ list \in Seq(ExtentType) /\ position \in Nat /\ size \in Nat
      /\ list' = IF position < ForkBlocks THEN Append(list, Sparse(position, ForkBlocks - position)) ELSE list
  BY EmptySeq DEF Filled, IInv, ListInv, WalkInv
<1>2. /\ NoneAtZero /\ Truthful(list) /\ Grouped(list)
      /\ \A b \in Nat : Holders(b) # {} => Covered(list, b)
  BY <1>1, RecordsStay DEF MapInv, Covered
<1>3. /\ Truthful(list') /\ Grouped(list')
      /\ \A b \in Nat : Covered(list, b) => Covered(list', b)
  <2>1. CASE position < ForkBlocks
    <3> DEFINE hole == Sparse(position, ForkBlocks - position)
    <3>1. hole \in ExtentType /\ hole.l = position /\ hole.sparse
      <4>1. ForkBlocks \in Int
        BY <1>1, Words DEF ForkBlocks
      <4>2. ForkBlocks \in Nat
        BY <1>1, <2>1, <4>1
      <4>3. QED
        BY <1>1, <2>1, <4>2, Run
    <3>2. list' = Append(list, hole)
      BY <1>1, <2>1
    <3> HIDE DEF hole
    <3>3. ASSUME NEW b \in Nat, Covers(hole, b) PROVE Holders(b) = {}
      BY <1>1, <1>2, <3>1, <3>3, Behind DEF Covers
    <3>4. QED
      BY <1>1, <1>2, <3>1, <3>2, <3>3, HoleMaps, OneMore
  <2>2. CASE ~(position < ForkBlocks)
    BY <1>1, <1>2, <2>2
  <2>3. QED
    BY <2>1, <2>2
<1>4. \A b \in Nat : Holders(b)' # {} => Covered(list', b)
  BY <1>1, <1>2, <1>3, RecordsStay
<1>5. QED
  BY <1>1, <1>3, <1>4, RecordsStay DEF MapInv

LEMMA MapInit == Init => MapInv
<1> SUFFICES ASSUME Init PROVE MapInv
  OBVIOUS
<1>1. list = <<>> /\ extents = <<>> /\ pc = "open" /\ DOMAIN list = {}
  BY DEF Init
<1>2. QED
  BY <1>1 DEF MapInv, Truthful, Grouped

\* Before there are records, and when they are all done.
LEMMA RestMaps ==
  ASSUME IInv, MapInv,
         OpenExtents \/ OpenOther \/ Walk \/ Ask \/ ReadHole \/ ReadSparse \/ ReadChunk \/ ReadEnds
         \/ UNCHANGED vars
  PROVE  MapInv'
<1>1. CASE OpenExtents \/ OpenOther \/ Walk
  <2>1. /\ list' = list /\ list = <<>> /\ DOMAIN list' = {}
        /\ pc' \in {"idle", "walk", "collected", "failed"}
        /\ pc' = "idle" => pc = "open" /\ extents' = extents
    BY <1>1 DEF OpenExtents, OpenOther, Walk, WalkStep, OpenRoot, ReadFails, ReadBlock, BranchEnds, WalkEnds,
                Fail, building, IInv, ListInv
  <2>2. (Truthful(list))' /\ (Grouped(list))'
    BY <2>1 DEF Truthful, Grouped
  <2>3. pc' = "idle" => \A b : Holders(b)' = {}
    <3>1. SUFFICES ASSUME pc' = "idle" PROVE \A b : Holders(b)' = {}
      OBVIOUS
    <3>2. extents' = <<>> /\ DOMAIN extents' = {}
      BY <2>1, <3>1 DEF MapInv
    <3>3. QED
      BY <3>2 DEF Holders
  <2>4. QED
    BY <2>1, <2>2, <2>3 DEF MapInv
<1>2. CASE Ask \/ ReadHole \/ ReadSparse \/ ReadChunk \/ ReadEnds
  <2>1. /\ list' = list /\ extents' = extents
        /\ pc \in {"idle", "read"} /\ pc' \in {"idle", "read", "done"}
    BY <1>2 DEF Ask, ReadHole, ReadSparse, ReadChunk, ReadEnds, Return, walk, building
  <2>2. QED
    BY <2>1, RecordsStay DEF MapInv
<1>3. CASE UNCHANGED vars
  <2>1. UNCHANGED <<pc, extents, list, todo, position>>
    BY <1>3 DEF vars, walk, building
  <2>2. ASSUME NEW f, Pending(f) PROVE (Pending(f))'
    BY <2>1, <2>2 DEF Pending
  <2>3. QED
    BY <2>1, <2>2, RecordsStay DEF MapInv
<1>4. QED
  BY <1>1, <1>2, <1>3

LEMMA MapStep == IInv /\ MapInv /\ [Next]_vars => MapInv'
  BY CollectedMaps, NormalizeDropMaps, NormalizeKeepMaps, NormalizedMaps, FillMaps, FilledMaps, RestMaps
  DEF Next, Step

-------------------------------------------------------------------------------
(* Bytes and blocks *)

LEMMA BlockOf ==
  ASSUME NEW n \in Nat, NEW q \in Int, NEW d \in Nat \ {0}
  PROVE  /\ n < q * d => n \div d < q
         /\ q * d <= n => q <= n \div d
<1> DEFINE p == n \div d
           r == n % d
<1>1. p \in Int /\ r \in 0 .. d - 1 /\ n = p * d + r
  BY DivMod
<1> HIDE DEF p, r
<1>2. q <= p => q * d <= p * d
  BY <1>1, ProductsGrow
<1>3. p + 1 <= q => (p + 1) * d <= q * d
  BY <1>1, ProductsGrow
<1>4. (p + 1) * d = p * d + d /\ p * d \in Int /\ q * d \in Int
  BY <1>1
<1>5. QED
  BY <1>1, <1>2, <1>3, <1>4 DEF p

\* A byte that is so many further is in a block that is so many further.
LEMMA FurtherByte ==
  ASSUME NEW n \in Nat, NEW i \in Nat, NEW d \in Nat \ {0}
  PROVE  LET t == (n % d) + i
         IN  /\ t \in Nat /\ t \div d \in Nat
             /\ (n + i) \div d = (n \div d) + (t \div d) /\ (n + i) % d = t % d
<1> DEFINE q == n \div d
           r == n % d
           t == r + i
           u == t \div d
           v == t % d
<1>1. q \in Int /\ r \in 0 .. d - 1 /\ n = q * d + r
  BY DivMod
<1>2. t \in Nat
  BY <1>1
<1>3. u \in Nat /\ v \in 0 .. d - 1 /\ t = u * d + v
  <2> HIDE DEF t
  <2>1. u \in Nat
    BY <1>2, NatDiv
  <2>2. QED
    BY <1>2, <2>1, DivMod
<1> HIDE DEF q, r, u, v
<1>4. (q + u) * d = q * d + u * d /\ q * d \in Int /\ u * d \in Int
  BY <1>1, <1>3
<1>5. n + i = (q + u) * d + v
  BY <1>1, <1>3, <1>4
<1>6. ((q + u) * d + v) \div d = q + u /\ ((q + u) * d + v) % d = v
  BY <1>1, <1>3, DivModUnique
<1>7. QED
  BY <1>2, <1>3, <1>5, <1>6 DEF q, r, u, v

-------------------------------------------------------------------------------
(* readFromExtents *)

ReadInv ==
  /\ pc \notin {"read", "done"} => out = <<>>
  /\ pc = "read" =>
       /\ read \in Nat \X Nat /\ read[2] > 0 /\ read[1] < size
       /\ out \in Seq(Seq(Nat)) /\ (Len(out) = 0 \/ Len(out) <= remaining)
       /\ RecordsPlausible => BytesAreMapped
  /\ pc = "done" /\ fork.type \in {"extents", "btree"} /\ RecordsPlausible => BytesAreMapped /\ ShortOnlyAtEnd

\* sort.Search on a list that is in order.
LEMMA Search ==
  ASSUME list \in Seq(ExtentType), Disjoint(list), NEW b \in Nat
  PROVE  /\ FirstAfter(b) \in 1 .. Len(list) + 1
         /\ \A m \in DOMAIN list : m < FirstAfter(b) <=> list[m].l <= b
<1> DEFINE after == {i \in DOMAIN list : list[i].l > b}
<1>1. Len(list) \in Nat /\ DOMAIN list = 1 .. Len(list) /\ \A m \in DOMAIN list : list[m].l \in Nat
  BY LenProperties, ElementOfSeq, Numbers
<1>2. CASE after = {}
  BY <1>1, <1>2 DEF FirstAfter
<1>3. CASE after # {}
  <2> DEFINE x == CHOOSE i \in after : \A j \in after : i <= j
  <2>1. after \subseteq Nat
    BY <1>1
  <2>2. \E i \in after : \A j \in after : i <= j
    BY <1>3, <2>1, Least
  <2>3. x \in after /\ \A j \in after : x <= j
    BY <2>2
  <2>4. FirstAfter(b) = x
    BY <1>3 DEF FirstAfter
  <2> HIDE DEF x
  <2>5. ASSUME NEW m \in DOMAIN list, m < x PROVE list[m].l <= b
    BY <1>1, <2>3, <2>5
  <2>6. ASSUME NEW m \in DOMAIN list, ~(m < x) PROVE ~(list[m].l <= b)
    <3>1. m = x \/ x < m
      BY <1>1, <2>3, <2>6
    <3>2. x < m => list[x].l < list[m].l
      BY <2>3, Ordered
    <3>3. QED
      BY <1>1, <2>3, <3>1, <3>2
  <2>7. QED
    BY <1>1, <2>3, <2>4, <2>5, <2>6
<1>4. QED
  BY <1>2, <1>3

\* A search that finds nothing: there is nothing up to the next extent.
LEMMA NothingFound ==
  ASSUME list \in Seq(ExtentType), Disjoint(list), NEW b \in Nat, ~Found(b), NEW q \in Nat, b <= q,
         FirstAfter(b) \in DOMAIN list => q < list[FirstAfter(b)].l
  PROVE  ~Covered(list, q)
<1>1. SUFFICES ASSUME NEW m \in DOMAIN list, Covers(list[m], q) PROVE FALSE
  BY DEF Covered
<1> DEFINE next == FirstAfter(b)
<1>2. next \in 1 .. Len(list) + 1 /\ \A k \in DOMAIN list : k < next <=> list[k].l <= b
  BY Search
<1>3. /\ Len(list) \in Nat /\ DOMAIN list = 1 .. Len(list)
      /\ \A k \in DOMAIN list : list[k].l \in Nat /\ End(list[k]) \in Nat
  BY LenProperties, ElementOfSeq, Numbers
<1>4. list[m].l <= q /\ q < End(list[m])
  BY <1>1 DEF Covers
<1>5. Candidate(b) = next - 1 /\ ~(Candidate(b) > 0 /\ b < End(list[Candidate(b)]))
  BY DEF Candidate, Found
<1>6. next \in DOMAIN list => q < list[next].l
  OBVIOUS
<1> HIDE DEF next
<1>7. CASE m < next - 1
  <2>1. next - 1 \in DOMAIN list
    BY <1>2, <1>3, <1>7
  <2>2. End(list[m]) <= list[next - 1].l
    BY <1>7, <2>1, Ordered
  <2>3. list[next - 1].l <= b
    BY <1>2, <1>3, <2>1
  <2>4. QED
    BY <1>3, <1>4, <2>1, <2>2, <2>3
<1>8. CASE m = next - 1
  BY <1>3, <1>4, <1>5, <1>8
<1>9. CASE m = next
  BY <1>3, <1>4, <1>6, <1>9
<1>10. CASE next < m
  <2>1. next \in DOMAIN list
    BY <1>2, <1>3, <1>10
  <2>2. list[next].l < list[m].l
    BY <1>10, <2>1, Ordered
  <2>3. QED
    BY <1>3, <1>4, <1>6, <2>1, <2>2
<1>11. m < next - 1 \/ m = next - 1 \/ m = next \/ next < m
  BY <1>2, <1>3
<1>12. QED
  BY <1>7, <1>8, <1>9, <1>10, <1>11

\* Where a read is.
LEMMA Position ==
  ASSUME IInv, ReadInv, pc = "read", left > 0
  PROVE  /\ pos \in Nat /\ block \in Nat /\ inBlock \in 0 .. BlockSize - 1 /\ BlockSize \in Nat \ {0}
         /\ pos = block * BlockSize + inBlock
         /\ left \in Nat \ {0} /\ Len(out) \in Nat /\ size \in Nat /\ remaining \in Nat
         /\ left = remaining - Len(out)
<1>1. /\ read \in Nat \X Nat /\ read[1] < size /\ out \in Seq(Seq(Nat)) /\ size \in Nat
  BY DEF IInv, WalkInv, ReadInv
<1>2. read[1] \in Nat /\ read[2] \in Nat /\ Len(out) \in Nat
  BY <1>1, LenProperties
<1>3. remaining \in Nat /\ left = remaining - Len(out)
  <2>1. remaining \in Int /\ left = remaining - Len(out)
    BY <1>1, <1>2, Words DEF remaining, Available, AsInt, Lesser, left
  <2>2. QED
    BY <1>2, <2>1
<1>4. BlockSize \in Nat \ {0}
  BY Words
<1>5. pos \in Nat
  BY <1>2 DEF pos
<1>6. block \in Nat /\ inBlock \in 0 .. BlockSize - 1 /\ pos = block * BlockSize + inBlock
  <2>1. ASSUME NEW n \in Nat, NEW d \in Nat \ {0}
        PROVE  n \div d \in Nat /\ (n % d) \in 0 .. d - 1 /\ n = (n \div d) * d + (n % d)
    <3>1. n \div d \in Nat
      BY NatDiv
    <3>2. n \in Int
      OBVIOUS
    <3>3. QED
      BY <3>1, <3>2, DivMod
  <2>2. QED
    BY <1>4, <1>5, <2>1 DEF block, inBlock
<1>7. QED
  BY <1>1, <1>2, <1>3, <1>4, <1>5, <1>6

\* Some more bytes, each of them as the records have it.
LEMMA MoreBytes ==
  ASSUME IInv, ReadInv, pc = "read", left > 0, UNCHANGED <<pc, extents, size, read>>,
         NEW x \in Seq(Seq(Nat)), Len(x) <= left, out' = out \o x,
         RecordsPlausible => \A i \in 1 .. Len(x) : x[i] = Place(pos + i - 1)
  PROVE  ReadInv'
<1>1. /\ read \in Nat \X Nat /\ read[2] > 0 /\ read[1] < size /\ out \in Seq(Seq(Nat))
      /\ RecordsPlausible => BytesAreMapped
  BY DEF ReadInv
<1>2. Len(out) \in Nat /\ Len(x) \in Nat /\ left = remaining - Len(out) /\ remaining \in Nat
  BY Position, LenProperties
<1>3. /\ out' \in Seq(Seq(Nat)) /\ Len(out') = Len(out) + Len(x)
      /\ \A i \in 1 .. Len(out) + Len(x) : out'[i] = IF i <= Len(out) THEN out[i] ELSE x[i - Len(out)]
  BY <1>1, ConcatProperties
<1>4. remaining' = remaining
  BY DEF remaining, Available
<1>5. ASSUME NEW byte PROVE Place(byte)' = Place(byte)
  BY RecordsStay DEF Place
<1>6. RecordsPlausible' => BytesAreMapped'
  <2>1. SUFFICES ASSUME RecordsPlausible' PROVE BytesAreMapped'
    OBVIOUS
  <2>2. RecordsPlausible
    BY <2>1, RecordsStay
  <2>3. ASSUME NEW i \in DOMAIN out' PROVE out'[i] = Place(read[1] + i - 1)
    <3>1. i \in 1 .. Len(out) + Len(x)
      BY <1>3, LenProperties
    <3>2. CASE i <= Len(out)
      <4>1. i \in DOMAIN out
        BY <1>1, <1>2, <3>1, <3>2, LenProperties
      <4>2. out[i] = Place(read[1] + i - 1)
        BY <1>1, <2>2, <4>1 DEF BytesAreMapped
      <4>3. QED
        BY <1>3, <3>1, <3>2, <4>2
    <3>3. CASE ~(i <= Len(out))
      <4>1. i - Len(out) \in 1 .. Len(x)
        BY <1>2, <3>1, <3>3
      <4>2. x[i - Len(out)] = Place(pos + (i - Len(out)) - 1)
        BY <2>2, <4>1
      <4>3. pos + (i - Len(out)) - 1 = read[1] + i - 1
        BY <1>1, <1>2, <3>1 DEF pos
      <4>4. QED
        BY <1>3, <3>1, <3>3, <4>2, <4>3
    <3>4. QED
      BY <3>2, <3>3
  <2>4. \A i \in DOMAIN out' : out'[i] = (Place(read[1] + i - 1))'
    BY <1>5, <2>3
  <2>5. QED
    BY <2>4 DEF BytesAreMapped
<1>7. Len(out') <= remaining'
  BY <1>2, <1>3, <1>4
<1>8. QED
  BY <1>1, <1>3, <1>6, <1>7 DEF ReadInv

LEMMA SomeZeros ==
  ASSUME NEW n \in Nat
  PROVE  Zeros(n) \in Seq(Seq(Nat)) /\ Len(Zeros(n)) = n /\ \A i \in 1 .. n : Zeros(n)[i] = <<>>
<1>1. PICK nil : nil = <<>>
  OBVIOUS
<1>2. nil \in Seq(Nat)
  BY <1>1
<1>3. Zeros(n) = [i \in 1 .. n |-> nil]
  BY <1>1 DEF Zeros
<1>4. [i \in 1 .. n |-> nil] \in Seq(Seq(Nat))
  BY <1>2, IsASeq
<1>5. Len([i \in 1 .. n |-> nil]) = n
  OBVIOUS
<1>6. QED
  BY <1>1, <1>3, <1>4, <1>5

\* A word is no more than the number it stands for.
LEMMA NoMore == ASSUME NEW n \in Nat, NEW d \in Nat \ {0} PROVE n % d <= n
<1>1. n \div d \in Nat /\ n \in Int
  BY NatDiv
<1>2. n % d \in 0 .. d - 1 /\ n = (n \div d) * d + (n % d)
  BY <1>1, DivMod
<1>3. (n \div d) * d \in Nat
  BY <1>1
<1>4. QED
  BY <1>2, <1>3

LEMMA ReadHoleReads == IInv /\ MapInv /\ ReadInv /\ ReadHole => ReadInv'
<1> SUFFICES ASSUME IInv, MapInv, ReadInv, ReadHole PROVE ReadInv'
  OBVIOUS
<1>1. /\ pc = "read" /\ left > 0 /\ ~Found(block) /\ out' = out \o Zeros(HoleBytes(block))
      /\ UNCHANGED <<pc, extents, size, read>>
      /\ list \in Seq(ExtentType) /\ Disjoint(list)
  BY DEF ReadHole, walk, IInv, ListInv
<1> DEFINE next == FirstAfter(block)
           n == HoleBytes(block)
           room == (list[next].l - block) * BlockSize - inBlock
<1>2. /\ pos \in Nat /\ block \in Nat /\ inBlock \in 0 .. BlockSize - 1 /\ BlockSize \in Nat \ {0}
      /\ pos = block * BlockSize + inBlock /\ left \in Nat \ {0}
  BY <1>1, Position
<1>3. /\ next \in 1 .. Len(list) + 1 /\ Len(list) \in Nat /\ DOMAIN list = 1 .. Len(list)
      /\ next \in DOMAIN list => list[next].l \in Nat /\ block < list[next].l
  <2>1. \A m \in DOMAIN list : list[m].l \in Nat
    BY <1>1, LenProperties, ElementOfSeq, Numbers
  <2>2. next \in 1 .. Len(list) + 1 /\ \A m \in DOMAIN list : m < next <=> list[m].l <= block
    BY <1>1, <1>2, Search
  <2> HIDE DEF next
  <2>3. QED
    BY <1>1, <1>2, <2>1, <2>2, LenProperties
<1>4. /\ n = Lesser(left, Gap(block)) /\ Gap(block) \in Nat
      /\ next \in DOMAIN list => Gap(block) = room % WordModulus
  <2>1. n = Lesser(left, Gap(block))
    BY DEF HoleBytes
  <2>2. NextLogical(block) \in Int /\ (next \in DOMAIN list => NextLogical(block) = list[next].l)
    BY <1>3, Words DEF NextLogical
  <2>3. Gap(block) \in Nat
    <3>1. PICK x \in Int : x = (NextLogical(block) - block) * BlockSize - inBlock
      BY <1>2, <2>2
    <3>2. x % WordModulus \in 0 .. WordModulus - 1
      BY Words, DivMod
    <3>3. Gap(block) = x % WordModulus
      BY <3>1 DEF Gap
    <3>4. QED
      BY <3>2, <3>3
  <2>4. next \in DOMAIN list => Gap(block) = room % WordModulus
    BY <2>2 DEF Gap
  <2>5. QED
    BY <2>1, <2>3, <2>4
<1> HIDE DEF next, n
<1>5. next \in DOMAIN list =>
        /\ (list[next].l - block) * BlockSize \in Int /\ BlockSize <= (list[next].l - block) * BlockSize
        /\ (list[next].l - block) * BlockSize = list[next].l * BlockSize - block * BlockSize
        /\ list[next].l * BlockSize \in Int /\ block * BlockSize \in Int
  <2>1. SUFFICES ASSUME next \in DOMAIN list PROVE
          /\ (list[next].l - block) * BlockSize \in Int /\ BlockSize <= (list[next].l - block) * BlockSize
          /\ (list[next].l - block) * BlockSize = list[next].l * BlockSize - block * BlockSize
          /\ list[next].l * BlockSize \in Int /\ block * BlockSize \in Int
    OBVIOUS
  <2>2. PICK l \in Nat : l = list[next].l /\ block < l
    BY <1>3, <2>1
  <2>3. 1 * BlockSize <= (l - block) * BlockSize
    BY <1>2, <2>2, ProductsGrow
  <2>4. (l - block) * BlockSize \in Int /\ (l - block) * BlockSize = l * BlockSize - block * BlockSize
    BY <1>2, <2>2
  <2>5. l * BlockSize \in Int /\ block * BlockSize \in Int /\ 1 * BlockSize = BlockSize
    BY <1>2, <2>2
  <2>6. QED
    BY <2>2, <2>3, <2>4, <2>5
<1>6. /\ n \in Nat /\ n <= left
      /\ next \in DOMAIN list => n <= list[next].l * BlockSize - block * BlockSize - inBlock
  <2>1. CASE next \in DOMAIN list
    <3>1. n = Lesser(left, room % WordModulus) /\ room % WordModulus \in Nat
      BY <1>4, <2>1
    <3>2. room \in Nat /\ room = list[next].l * BlockSize - block * BlockSize - inBlock
      BY <1>2, <1>5, <2>1
    <3> HIDE DEF room
    <3>3. room % WordModulus <= room
      BY <3>2, Words, NoMore
    <3>4. QED
      BY <1>2, <3>1, <3>2, <3>3 DEF Lesser
  <2>2. CASE next \notin DOMAIN list
    BY <1>2, <1>4, <2>2 DEF Lesser
  <2>3. QED
    BY <2>1, <2>2
<1>7. ASSUME RecordsPlausible, NEW i \in 1 .. n PROVE Place(pos + i - 1) = <<>>
  <2> DEFINE byte == pos + i - 1
             q == byte \div BlockSize
  <2>1. byte \in Nat /\ block * BlockSize <= byte
    BY <1>2, <1>6
  <2>2. next \in DOMAIN list => byte < list[next].l * BlockSize
    BY <1>2, <1>5, <1>6
  <2> HIDE DEF byte
  <2>3. q \in Nat /\ block <= q /\ (next \in DOMAIN list => q < list[next].l)
    <3>1. q \in Nat /\ block <= q
      BY <1>2, <2>1, BlockOf, NatDiv
    <3>2. next \in DOMAIN list => q < list[next].l
      <4>1. SUFFICES ASSUME next \in DOMAIN list PROVE q < list[next].l
        OBVIOUS
      <4>2. list[next].l \in Int /\ byte < list[next].l * BlockSize
        BY <1>3, <2>2, <4>1
      <4>3. QED
        BY <1>2, <2>1, <4>2, BlockOf
    <3>3. QED
      BY <3>1, <3>2
  <2>4. ~Covered(list, q)
    <3> HIDE DEF q
    <3>1. QED
      BY <1>1, <1>2, <2>3, NothingFound DEF next
  <2>5. Holders(q) = {}
    BY <1>1, <1>7, <2>3, <2>4 DEF MapInv, RecordsPlausible
  <2>6. Mapped(q) = <<>>
    BY <2>5, NothingThere
  <2>7. QED
    BY <2>6 DEF Place, byte
<1>8. Zeros(n) \in Seq(Seq(Nat)) /\ Len(Zeros(n)) = n /\ \A i \in 1 .. n : Zeros(n)[i] = <<>>
  BY <1>6, SomeZeros
<1>9. PICK x : x = Zeros(n)
  OBVIOUS
<1>10. /\ x \in Seq(Seq(Nat)) /\ Len(x) <= left /\ out' = out \o x
       /\ RecordsPlausible => \A i \in 1 .. Len(x) : x[i] = Place(pos + i - 1)
  BY <1>1, <1>6, <1>7, <1>8, <1>9 DEF n
<1>11. QED
  BY <1>1, <1>10, MoreBytes

\* The extent that is found, and the bytes of a chunk of it.
LEMMA FoundChunk ==
  ASSUME IInv, ReadInv, pc = "read", left > 0, Found(block), NEW e, e = list[Candidate(block)]
  PROVE  /\ Candidate(block) \in DOMAIN list /\ e \in ExtentType /\ Covers(e, block)
         /\ ChunkBytes(e) \in Nat /\ ChunkBytes(e) <= left
         /\ \A i \in 1 .. ChunkBytes(e) :
              pos + i - 1 \in Nat /\ (pos + i - 1) \div BlockSize \in Nat /\ Covers(e, (pos + i - 1) \div BlockSize)
<1> DEFINE n == ChunkBytes(e)
           room == (e.n - (block - e.l)) * BlockSize
<1>1. list \in Seq(ExtentType) /\ Disjoint(list)
  BY DEF IInv, ListInv
<1>2. /\ pos \in Nat /\ block \in Nat /\ inBlock \in 0 .. BlockSize - 1 /\ BlockSize \in Nat \ {0}
      /\ pos = block * BlockSize + inBlock /\ left \in Nat \ {0}
  BY Position
<1>3. Candidate(block) \in DOMAIN list /\ e \in ExtentType /\ e.l <= block /\ block < End(e)
  <2>1. /\ FirstAfter(block) \in 1 .. Len(list) + 1
        /\ \A m \in DOMAIN list : m < FirstAfter(block) <=> list[m].l <= block
    BY <1>1, <1>2, Search
  <2>2. Candidate(block) = FirstAfter(block) - 1 /\ Candidate(block) > 0 /\ block < End(e)
    BY DEF Candidate, Found
  <2>3. Len(list) \in Nat /\ DOMAIN list = 1 .. Len(list)
    BY <1>1, LenProperties
  <2>4. Candidate(block) \in DOMAIN list /\ Candidate(block) < FirstAfter(block)
    BY <2>1, <2>2, <2>3
  <2>5. QED
    BY <1>1, <2>1, <2>2, <2>3, <2>4, ElementOfSeq
<1>4. e.l \in Nat /\ e.n \in Nat /\ End(e) \in Nat /\ End(e) = e.l + e.n
  BY <1>3, Numbers DEF End
<1>5. /\ room \in Int /\ BlockSize <= room /\ room = End(e) * BlockSize - block * BlockSize
      /\ End(e) * BlockSize \in Int /\ block * BlockSize \in Int
  <2>1. e.n - (block - e.l) = End(e) - block
    BY <1>2, <1>4
  <2>2. PICK z \in Nat : z = End(e) /\ block < z
    BY <1>3, <1>4
  <2>3. 1 * BlockSize <= (z - block) * BlockSize
    BY <1>2, <2>2, ProductsGrow
  <2>4. (z - block) * BlockSize \in Int /\ (z - block) * BlockSize = z * BlockSize - block * BlockSize
    BY <1>2, <2>2
  <2>5. z * BlockSize \in Int /\ block * BlockSize \in Int /\ 1 * BlockSize = BlockSize
    BY <1>2, <2>2
  <2>6. QED
    BY <2>1, <2>2, <2>3, <2>4, <2>5
<1>6. n = Lesser(left, room - inBlock)
  BY DEF ChunkBytes
<1> HIDE DEF room, n
<1>7. n \in Nat /\ n <= left /\ n <= End(e) * BlockSize - block * BlockSize - inBlock
  BY <1>2, <1>5, <1>6 DEF Lesser
<1>8. ASSUME NEW i \in 1 .. n
      PROVE  pos + i - 1 \in Nat /\ (pos + i - 1) \div BlockSize \in Nat /\ Covers(e, (pos + i - 1) \div BlockSize)
  <2>1. PICK byte : byte = pos + i - 1
    OBVIOUS
  <2>2. byte \in Nat /\ block * BlockSize <= byte /\ byte < End(e) * BlockSize
    BY <1>2, <1>5, <1>7, <2>1
  <2>3. byte \div BlockSize \in Nat /\ block <= byte \div BlockSize /\ byte \div BlockSize < End(e)
    <3>1. byte \div BlockSize \in Nat
      BY <1>2, <2>2, NatDiv
    <3>2. block <= byte \div BlockSize
      BY <1>2, <2>2, BlockOf
    <3>3. byte \div BlockSize < End(e)
      BY <1>2, <1>4, <2>2, BlockOf
    <3>4. QED
      BY <3>1, <3>2, <3>3
  <2>4. Covers(e, byte \div BlockSize)
    BY <1>2, <1>3, <1>4, <2>3 DEF Covers
  <2>5. QED
    BY <2>1, <2>2, <2>3, <2>4
<1>9. QED
  BY <1>3, <1>7, <1>8 DEF Covers, n

LEMMA ReadSparseReads == IInv /\ MapInv /\ ReadInv /\ ReadSparse => ReadInv'
<1> SUFFICES ASSUME IInv, MapInv, ReadInv, ReadSparse PROVE ReadInv'
  OBVIOUS
<1>1. PICK e : e = list[Candidate(block)]
  OBVIOUS
<1>2. /\ pc = "read" /\ left > 0 /\ Found(block) /\ e.sparse /\ out' = out \o Zeros(ChunkBytes(e))
      /\ UNCHANGED <<pc, extents, size, read>>
  BY <1>1 DEF ReadSparse, walk
<1>3. /\ Candidate(block) \in DOMAIN list /\ ChunkBytes(e) \in Nat /\ ChunkBytes(e) <= left
      /\ \A i \in 1 .. ChunkBytes(e) :
           pos + i - 1 \in Nat /\ (pos + i - 1) \div BlockSize \in Nat /\ Covers(e, (pos + i - 1) \div BlockSize)
  BY <1>1, <1>2, FoundChunk
<1>4. ASSUME RecordsPlausible, NEW i \in 1 .. ChunkBytes(e) PROVE Place(pos + i - 1) = <<>>
  <2>1. PICK byte : byte = pos + i - 1
    OBVIOUS
  <2>2. byte \div BlockSize \in Nat /\ Covers(e, byte \div BlockSize)
    BY <1>3, <2>1
  <2>3. Mapped(byte \div BlockSize) = On(e, byte \div BlockSize)
    BY <1>1, <1>2, <1>3, <1>4, <2>2 DEF MapInv, Truthful, RecordsPlausible
  <2>4. Mapped(byte \div BlockSize) = <<>>
    BY <1>2, <2>3 DEF On
  <2>5. QED
    BY <2>1, <2>4 DEF Place
<1>5. PICK x : x = Zeros(ChunkBytes(e))
  OBVIOUS
<1>6. x \in Seq(Seq(Nat)) /\ Len(x) = ChunkBytes(e) /\ \A i \in 1 .. ChunkBytes(e) : x[i] = <<>>
  BY <1>3, <1>5, SomeZeros
<1>7. /\ Len(x) <= left /\ out' = out \o x
      /\ RecordsPlausible => \A i \in 1 .. Len(x) : x[i] = Place(pos + i - 1)
  BY <1>2, <1>3, <1>4, <1>5, <1>6
<1>8. QED
  BY <1>2, <1>6, <1>7, MoreBytes

\* One address for all of a chunk: the groups of its blocks need not be looked up.
LEMMA ChunkByte ==
  ASSUME NEW e \in ExtentType, ~e.sparse, InsideGroup(geometry, e.p, e.n),
         NEW n \in Nat, Covers(e, n \div BlockSize), NEW i \in Nat, Covers(e, (n + i) \div BlockSize)
  PROVE  LET physical == e.p + ((n \div BlockSize) - e.l)
             start == BlockOffset(geometry, physical) + (n % BlockSize)
             there == e.p + (((n + i) \div BlockSize) - e.l)
         IN  /\ start + i \in Nat
             /\ start + i = BlockOffset(geometry, there) + ((n + i) % BlockSize)
             /\ (start + i) \div BlockSize = LinearBlock(geometry, there)
<1> DEFINE d == BlockSize
           q == n \div d
           r == n % d
           t == r + i
           u == t \div d
           v == t % d
<1>1. d \in Nat \ {0}
  BY Words
<1>2. /\ q \in Nat /\ r \in 0 .. d - 1 /\ t \in Nat /\ u \in Nat
      /\ (n + i) \div d = q + u /\ (n + i) % d = v
  <2> HIDE DEF d
  <2>1. q \in Nat /\ n \in Int
    BY <1>1, NatDiv
  <2>2. r \in 0 .. d - 1
    BY <1>1, <2>1, DivMod
  <2>3. t \in Nat /\ u \in Nat /\ (n + i) \div d = q + u /\ (n + i) % d = v
    BY <1>1, FurtherByte
  <2>4. QED
    BY <2>1, <2>2, <2>3
<1>3. v \in 0 .. d - 1 /\ t = u * d + v
  <2> HIDE DEF d, t
  <2>1. t \in Int
    BY <1>2
  <2>2. QED
    BY <1>1, <2>1, DivMod
<1>4. e.l \in Nat /\ e.n \in Nat /\ e.p \in Nat /\ End(e) = e.l + e.n
  BY Numbers DEF End
<1>5. e.l <= q /\ q + u < e.l + e.n
  BY <1>2, <1>4 DEF Covers
<1>6. (e.p % geometry.blockStride) + e.n <= geometry.blockStride
  BY DEF InsideGroup
<1> DEFINE L == LinearBlock(geometry, e.p)
<1>7. (e.p % geometry.blockStride) \in Nat /\ geometry.blockStride \in Nat \ {0}
  BY <1>4, GeometryAssumption, NatDiv
<1> HIDE DEF q, r, t, u, v, d, L
<1>8. L \in Nat
  BY <1>4, LinearIsNat DEF L
<1>9. LinearBlock(geometry, e.p + (q - e.l)) = L + (q - e.l)
  <2>1. q - e.l \in Nat /\ (e.p % geometry.blockStride) + (q - e.l) < geometry.blockStride
    BY <1>2, <1>4, <1>5, <1>6, <1>7
  <2>2. QED
    BY <1>4, <2>1, LinearInGroup DEF L
<1>10. LinearBlock(geometry, e.p + ((q + u) - e.l)) = L + ((q + u) - e.l)
  <2>1. (q + u) - e.l \in Nat /\ (e.p % geometry.blockStride) + ((q + u) - e.l) < geometry.blockStride
    BY <1>2, <1>4, <1>5, <1>6, <1>7
  <2>2. QED
    BY <1>4, <2>1, LinearInGroup DEF L
<1> DEFINE a == L + (q - e.l)
<1>11. a \in Nat /\ L + ((q + u) - e.l) = a + u
  BY <1>2, <1>4, <1>5, <1>8
<1> HIDE DEF a
<1>12. /\ (a + u) * d = a * d + u * d /\ a * d \in Nat /\ u * d \in Nat
       /\ a * d + r + i = (a + u) * d + v
  <2>1. (a + u) * d = a * d + u * d /\ a * d \in Nat /\ u * d \in Nat
    BY <1>1, <1>2, <1>11
  <2>2. r + i = u * d + v
    BY <1>3 DEF t
  <2>3. QED
    BY <1>2, <1>3, <2>1, <2>2
<1>13. ((a + u) * d + v) \div d = a + u
  <2>1. a + u \in Int
    BY <1>2, <1>11
  <2>2. QED
    BY <1>1, <1>3, <2>1, DivModUnique
<1>14. /\ BlockOffset(geometry, e.p + (q - e.l)) = a * d
       /\ BlockOffset(geometry, e.p + ((q + u) - e.l)) = (a + u) * d
       /\ LinearBlock(geometry, e.p + ((q + u) - e.l)) = a + u
  BY <1>9, <1>10, <1>11 DEF BlockOffset, a, d, BlockSize
<1>15. a * d + r + i \in Nat
  BY <1>2, <1>12
<1>16. QED
  BY <1>2, <1>12, <1>13, <1>14, <1>15 DEF q, r, d

\* The place of a block of an extent that is in a group does not overflow.
LEMMA NoWrap ==
  ASSUME NEW e \in ExtentType, InOneGroup(e), NEW b \in Nat, Covers(e, b)
  PROVE  Linear(e.p + (b - e.l)) = LinearBlock(geometry, e.p + (b - e.l))
<1> DEFINE k == b - e.l
           L == LinearBlock(geometry, e.p)
<1>1. e.l \in Nat /\ e.n \in Nat /\ e.p \in Nat /\ e.l <= b /\ b < e.l + e.n
  BY Numbers DEF Covers, End
<1>2. k \in Nat /\ k < e.n
  BY <1>1
<1> HIDE DEF k
<1>3. (e.p % geometry.blockStride) + e.n <= geometry.blockStride /\ L + e.n <= WordModulus
  BY DEF InOneGroup, InsideGroup
<1>4. (e.p % geometry.blockStride) \in Nat /\ geometry.blockStride \in Nat \ {0}
  BY <1>1, GeometryAssumption, NatDiv
<1>5. (e.p % geometry.blockStride) + k < geometry.blockStride
  BY <1>1, <1>2, <1>3, <1>4
<1>6. LinearBlock(geometry, e.p + k) = L + k /\ L \in Nat
  BY <1>1, <1>2, <1>5, LinearInGroup, LinearIsNat
<1> HIDE DEF L
<1>7. L + k \in 0 .. WordModulus - 1
  BY <1>1, <1>2, <1>3, <1>6, Words
<1>8. (L + k) % WordModulus = L + k
  BY <1>7, Words
<1>9. QED
  BY <1>6, <1>8 DEF Linear, k

LEMMA ReadChunkReads == IInv /\ MapInv /\ ReadInv /\ ReadChunk => ReadInv'
<1> SUFFICES ASSUME IInv, MapInv, ReadInv, ReadChunk PROVE ReadInv'
  OBVIOUS
<1>1. PICK e : e = list[Candidate(block)]
  OBVIOUS
<1> DEFINE n == ChunkBytes(e)
           physical == e.p + (block - e.l)
           start == Linear(physical) * BlockSize + inBlock
           bytes == [i \in 1 .. n |-> <<start + i - 1>>]
           there(byte) == e.p + ((byte \div BlockSize) - e.l)
           Broken == Refused(physical) \/ \E i \in DOMAIN bytes : bytes[i][1] \div BlockSize \in Unreadable
<1>2. /\ pc = "read" /\ left > 0 /\ Found(block) /\ ~e.sparse
      /\ UNCHANGED <<fork, extents, size, addSparse, caller, read, list>>
      /\ IF Broken THEN pc' = "done" /\ result' = "error" /\ out' = IF caller = "ReadFileData" THEN <<>> ELSE out
         ELSE out' = out \o bytes /\ UNCHANGED <<pc, result>>
  BY <1>1 DEF ReadChunk, building, Return
<1>3. /\ Candidate(block) \in DOMAIN list /\ n \in Nat /\ n <= left /\ e \in ExtentType /\ Covers(e, block)
      /\ \A i \in 1 .. n :
           pos + i - 1 \in Nat /\ (pos + i - 1) \div BlockSize \in Nat /\ Covers(e, (pos + i - 1) \div BlockSize)
  BY <1>1, <1>2, FoundChunk
<1>4. /\ pos \in Nat /\ block \in Nat /\ inBlock \in 0 .. BlockSize - 1 /\ BlockSize \in Nat \ {0}
      /\ left \in Nat \ {0} /\ left = remaining - Len(out) /\ remaining \in Nat /\ Len(out) \in Nat
  BY <1>2, Position
<1>5. /\ read \in Nat \X Nat /\ read[2] > 0 /\ read[1] < size /\ out \in Seq(Seq(Nat)) /\ size \in Nat
      /\ RecordsPlausible => BytesAreMapped
  BY <1>2 DEF ReadInv, IInv, WalkInv
<1>6. pos = read[1] + Len(out) /\ block = pos \div BlockSize /\ inBlock = pos % BlockSize
  BY DEF pos, block, inBlock
<1>7. start \in Nat
  <2>1. physical \in Nat
    BY <1>3, <1>4, Numbers DEF Covers
  <2> HIDE DEF physical
  <2>2. Linear(physical) \in Nat
    <3>1. LinearBlock(geometry, physical) \in Int
      BY <2>1, LinearIsNat
    <3>2. QED
      BY <3>1, Words, DivMod DEF Linear
  <2>3. Linear(physical) * BlockSize \in Nat
    BY <1>4, <2>2
  <2>4. QED
    BY <1>4, <2>3
<1>8. ASSUME RecordsPlausible, NEW b \in Nat, Covers(e, b) PROVE Mapped(b) = <<e.p + (b - e.l)>>
  <2>1. Mapped(b) = On(e, b)
    BY <1>1, <1>2, <1>3, <1>8 DEF MapInv, Truthful, RecordsPlausible
  <2>2. QED
    BY <1>2, <2>1 DEF On
<1>9. ASSUME RecordsPlausible, NEW i \in 1 .. n
      PROVE  LET byte == pos + i - 1
             IN  /\ <<start + i - 1>> = Place(byte) /\ Mapped(byte \div BlockSize) = <<there(byte)>>
                 /\ (start + i - 1) \div BlockSize = LinearBlock(geometry, there(byte))
  <2>1. PICK j \in Nat : j = i - 1
    BY <1>3
  <2>2. pos + j = pos + i - 1 /\ start + j = start + i - 1
    BY <1>4, <1>7, <2>1
  <2>3. InOneGroup(e) /\ InsideGroup(geometry, e.p, e.n)
    BY <1>1, <1>2, <1>3, <1>9 DEF MapInv, Grouped, RecordsPlausible, InOneGroup
  <2>4. Covers(e, pos \div BlockSize) /\ Covers(e, (pos + j) \div BlockSize) /\ (pos + j) \div BlockSize \in Nat
    BY <1>3, <1>6, <2>2
  <2>5. /\ start + j = BlockOffset(geometry, there(pos + j)) + ((pos + j) % BlockSize)
        /\ (start + j) \div BlockSize = LinearBlock(geometry, there(pos + j))
    <3>1. /\ BlockOffset(geometry, e.p + ((pos \div BlockSize) - e.l)) + (pos % BlockSize) + j
               = BlockOffset(geometry, there(pos + j)) + ((pos + j) % BlockSize)
          /\ (BlockOffset(geometry, e.p + ((pos \div BlockSize) - e.l)) + (pos % BlockSize) + j) \div BlockSize
               = LinearBlock(geometry, there(pos + j))
      <4>1. PICK m \in Nat : m = pos
        BY <1>4
      <4>2. Covers(e, m \div BlockSize) /\ Covers(e, (m + j) \div BlockSize)
        BY <2>4, <4>1
      <4>3. /\ BlockOffset(geometry, e.p + ((m \div BlockSize) - e.l)) + (m % BlockSize) + j
                 = BlockOffset(geometry, there(m + j)) + ((m + j) % BlockSize)
            /\ (BlockOffset(geometry, e.p + ((m \div BlockSize) - e.l)) + (m % BlockSize) + j) \div BlockSize
                 = LinearBlock(geometry, there(m + j))
        BY <1>2, <1>3, <2>1, <2>3, <4>2, ChunkByte
      <4>4. QED
        BY <4>1, <4>3
    <3>2. start = BlockOffset(geometry, e.p + ((pos \div BlockSize) - e.l)) + (pos % BlockSize)
      <4>1. Linear(physical) = LinearBlock(geometry, physical)
        BY <1>3, <1>4, <2>3, NoWrap
      <4>2. start = BlockOffset(geometry, physical) + inBlock
        BY <4>1 DEF BlockOffset, BlockSize
      <4>3. QED
        BY <1>6, <4>2
    <3> HIDE DEF start, there
    <3>3. QED
      BY <3>1, <3>2
  <2>6. Mapped((pos + j) \div BlockSize) = <<there(pos + j)>>
    BY <1>8, <1>9, <2>4
  <2>7. Place(pos + j) = <<BlockOffset(geometry, there(pos + j)) + ((pos + j) % BlockSize)>>
    BY <2>6 DEF Place
  <2>8. QED
    BY <2>2, <2>5, <2>6, <2>7
<1> HIDE DEF n, physical, start
<1>10. CASE ~Broken
  <2>1. PICK x : x = bytes
    OBVIOUS
  <2>2. \A i \in 1 .. n : <<start + i - 1>> \in Seq(Nat)
    <3>1. \A i \in 1 .. n : start + i - 1 \in Nat
      BY <1>7
    <3>2. QED
      BY <3>1
  <2>3. x \in Seq(Seq(Nat)) /\ Len(x) = n /\ \A i \in 1 .. n : x[i] = <<start + i - 1>>
    BY <1>3, <2>1, <2>2, IsASeq
  <2>4. RecordsPlausible => \A i \in 1 .. Len(x) : x[i] = Place(pos + i - 1)
    BY <1>9, <2>3
  <2>5. out' = out \o x /\ UNCHANGED <<pc, extents, size, read>>
    BY <1>2, <1>10, <2>1
  <2>6. QED
    BY <1>2, <1>3, <2>3, <2>4, <2>5, MoreBytes
<1>11. CASE Broken
  <2>1. pc' = "done" /\ result' = "error" /\ (out' = <<>> \/ out' = out)
    BY <1>2, <1>11
  <2>2. SUFFICES ASSUME RecordsPlausible' PROVE BytesAreMapped' /\ ShortOnlyAtEnd'
    BY <2>1 DEF ReadInv
  <2>3. RecordsPlausible
    BY <1>2, <2>2, RecordsStay
  <2>4. ASSUME NEW byte PROVE Place(byte)' = Place(byte) /\ Lost(byte)' = Lost(byte)
    BY <1>2, RecordsStay DEF Place, Lost
  <2>5. BytesAreMapped'
    <3>1. \A i \in DOMAIN out' : out'[i] = Place(read[1] + i - 1)
      BY <1>5, <2>1, <2>3 DEF BytesAreMapped
    <3>2. \A i \in DOMAIN out' : out'[i] = (Place(read[1] + i - 1))'
      BY <1>2, <2>4, <3>1
    <3>3. QED
      BY <3>2 DEF BytesAreMapped
  <2>6. \E byte \in read[1] .. read[1] + remaining - 1 : Lost(byte)
    <3>1. CASE Refused(physical)
      <4>1. Mapped(pos \div BlockSize) = <<physical>>
        BY <1>3, <1>4, <1>6, <1>8, <2>3 DEF physical
      <4>2. Lost(pos)
        BY <3>1, <4>1 DEF Lost
      <4>3. pos \in read[1] .. read[1] + remaining - 1
        <5>1. read[1] \in Nat
          BY <1>5
        <5>2. QED
          BY <1>4, <1>6, <5>1
      <4>4. QED
        BY <4>2, <4>3
    <3>2. CASE \E i \in DOMAIN bytes : bytes[i][1] \div BlockSize \in Unreadable
      <4>1. PICK i \in 1 .. n : (start + i - 1) \div BlockSize \in Unreadable
        BY <3>2
      <4>2. PICK byte : byte = pos + i - 1
        OBVIOUS
      <4>3. /\ Mapped(byte \div BlockSize) = <<there(byte)>>
            /\ LinearBlock(geometry, there(byte)) \in Unreadable
        BY <1>9, <2>3, <4>1, <4>2
      <4>4. Lost(byte)
        BY <4>3 DEF Lost
      <4>5. byte \in read[1] .. read[1] + remaining - 1
        <5>1. read[1] \in Nat
          BY <1>5
        <5>2. i \in Nat /\ 1 <= i /\ i <= left
          <6>1. n \in Nat /\ n <= left /\ left \in Nat
            BY <1>3, <1>4
          <6>2. QED
            BY <6>1
        <5>3. byte = read[1] + Len(out) + i - 1
          BY <1>6, <4>2
        <5>4. QED
          BY <1>4, <5>1, <5>2, <5>3
      <4>6. QED
        BY <4>4, <4>5
    <3>3. QED
      BY <1>11, <3>1, <3>2
  <2>7. Len(out') < read[2]
    <3>1. remaining <= read[2]
      BY <1>5, Words DEF remaining, Available, AsInt, Lesser
    <3>2. Len(out') = 0 \/ Len(out') = Len(out)
      BY <2>1
    <3>3. QED
      BY <1>4, <1>5, <3>1, <3>2
  <2>8. ShortOnlyAtEnd'
    <3>1. remaining' = remaining /\ read' = read
      BY <1>2 DEF remaining, Available
    <3>2. \E byte \in read[1] .. read[1] + remaining - 1 : Lost(byte)'
      BY <2>4, <2>6
    <3>3. (Len(out) < read[2] /\ \E byte \in read[1] .. read[1] + remaining - 1 : Lost(byte))'
      BY <2>7, <3>1, <3>2
    <3>4. QED
      BY <2>1, <3>3 DEF ShortOnlyAtEnd
  <2>9. QED
    BY <2>5, <2>8
<1>12. QED
  BY <1>10, <1>11

LEMMA ReadEndsReads == IInv /\ MapInv /\ ReadInv /\ ReadEnds => ReadInv'
<1> SUFFICES ASSUME IInv, MapInv, ReadInv, ReadEnds PROVE ReadInv'
  OBVIOUS
<1>1. /\ pc = "read" /\ left <= 0 /\ pc' = "done" /\ UNCHANGED <<fork, extents, size, caller, read, out>>
      /\ result' = IF Len(out) < read[2] THEN "EOF" ELSE "nil"
  BY DEF ReadEnds, Return, building
<1>2. /\ read \in Nat \X Nat /\ read[2] > 0 /\ read[1] < size
      /\ out \in Seq(Seq(Nat)) /\ size \in Nat /\ size < WordModulus
      /\ Len(out) = 0 \/ Len(out) <= remaining
      /\ (RecordsPlausible => BytesAreMapped)
  BY <1>1 DEF ReadInv, IInv, WalkInv
<1>3. read[1] \in Nat /\ read[2] \in Nat /\ Len(out) \in Nat
  BY <1>2, LenProperties
<1>4. IF size - read[1] > MaxInt THEN Len(out) = 0
      ELSE Len(out) = IF size - read[1] < read[2] THEN size - read[1] ELSE read[2]
  <2>1. CASE size - read[1] > MaxInt
    <3>1. remaining \in Int /\ remaining < 0
      BY <1>2, <1>3, <2>1, Words DEF remaining, Available, AsInt, Lesser
    <3>2. QED
      BY <1>2, <1>3, <2>1, <3>1
  <2>2. CASE ~(size - read[1] > MaxInt)
    <3>1. remaining = IF size - read[1] < read[2] THEN size - read[1] ELSE read[2]
      BY <2>2 DEF remaining, Available, AsInt, Lesser
    <3>2. remaining \in Nat \ {0} /\ remaining - Len(out) <= 0
      BY <1>1, <1>2, <1>3, <3>1 DEF left
    <3>3. QED
      BY <1>2, <1>3, <2>2, <3>1, <3>2
  <2>3. QED
    BY <2>1, <2>2
<1>5. (RecordsPlausible => BytesAreMapped)'
  <2>1. ASSUME NEW byte PROVE Place(byte)' = Place(byte)
    BY <1>1, RecordsStay DEF Place
  <2>2. SUFFICES ASSUME RecordsPlausible' PROVE BytesAreMapped'
    OBVIOUS
  <2>3. \A i \in DOMAIN out' : out'[i] = Place(read[1] + i - 1)
    BY <1>1, <1>2, <2>2, RecordsStay DEF BytesAreMapped
  <2>4. \A i \in DOMAIN out' : out'[i] = (Place(read[1] + i - 1))'
    BY <1>1, <2>1, <2>3
  <2>5. QED
    BY <2>4 DEF BytesAreMapped
<1>6. ShortOnlyAtEnd'
  <2>1. CASE Len(out) < read[2]
    <3>1. result' = "EOF" /\ (read[1] + Len(out) >= size \/ (Len(out) = 0 /\ size - read[1] > MaxInt))
      BY <1>1, <1>2, <1>3, <1>4, <2>1
    <3>2. QED
      BY <1>1, <2>1, <3>1 DEF ShortOnlyAtEnd
  <2>2. CASE ~(Len(out) < read[2])
    <3>1. result' = "nil" /\ Len(out) = read[2]
      BY <1>1, <1>2, <1>3, <1>4, <2>2
    <3>2. QED
      BY <1>1, <3>1 DEF ShortOnlyAtEnd
  <2>3. QED
    BY <2>1, <2>2
<1>7. QED
  BY <1>1, <1>5, <1>6 DEF ReadInv

LEMMA AskReads == IInv /\ MapInv /\ ReadInv /\ Ask => ReadInv'
<1> SUFFICES ASSUME IInv, ReadInv, Ask PROVE ReadInv'
  OBVIOUS
<1>1. /\ out = <<>> /\ size \in Nat /\ UNCHANGED <<fork, extents, size, addSparse>>
      /\ read' \in Nat \X Nat /\ caller' \in {"ReadInodeData", "ReadFileData"}
  BY Words DEF Ask, ReadInv, IInv, WalkInv
<1>2. CASE pc' = "done" /\ fork.type \in {"extents", "btree"}
  <2>1. /\ out' = <<>>
        /\ \/ result' = "error" /\ caller' = "ReadFileData" /\ WholeRefused
           \/ result' = "nil" /\ read'[2] = 0
           \/ result' = "EOF" /\ read'[2] # 0 /\ read'[1] >= size
    BY <1>1, <1>2 DEF Ask, Return
  <2>2. BytesAreMapped'
    BY <2>1 DEF BytesAreMapped
  <2>3. ShortOnlyAtEnd'
    <3>1. CASE result' = "error" /\ caller' = "ReadFileData" /\ WholeRefused
      <4>1. WholeRefused'
        BY <1>1, <3>1 DEF WholeRefused, Implausible, VolumeCapacity
      <4>2. QED
        BY <3>1, <4>1 DEF ShortOnlyAtEnd
    <3>2. CASE result' = "nil" /\ read'[2] = 0
      BY <2>1, <3>2 DEF ShortOnlyAtEnd
    <3>3. CASE result' = "EOF" /\ read'[2] # 0 /\ read'[1] >= size
      <4>1. Len(out') = 0 /\ read'[1] \in Nat /\ read'[2] \in Nat
        BY <1>1, <2>1
      <4>2. Len(out') < read'[2] /\ read'[1] + Len(out') >= size'
        BY <1>1, <3>3, <4>1
      <4>3. QED
        BY <3>3, <4>2 DEF ShortOnlyAtEnd
    <3>4. QED
      BY <2>1, <3>1, <3>2, <3>3
  <2>4. QED
    BY <1>2, <2>2, <2>3 DEF ReadInv
<1>3. CASE pc' = "read"
  <2>1. out' = <<>> /\ read'[2] # 0 /\ ~(read'[1] >= size)
    BY <1>1, <1>3 DEF Ask, Return
  <2>2. read'[1] \in Nat /\ read'[2] \in Nat \ {0} /\ read'[1] < size'
    BY <1>1, <2>1
  <2>3. Len(out') = 0
    BY <2>1
  <2>4. BytesAreMapped'
    BY <2>1 DEF BytesAreMapped
  <2>5. out' \in Seq(Seq(Nat))
    BY <2>1
  <2>6. QED
    BY <1>1, <1>3, <2>2, <2>3, <2>4, <2>5 DEF ReadInv
<1>4. CASE pc' = "done" /\ fork.type \notin {"extents", "btree"}
  BY <1>1, <1>4 DEF ReadInv
<1>5. QED
  BY <1>2, <1>3, <1>4 DEF Ask, Return

LEMMA ReadInit == Init => ReadInv
  BY DEF Init, ReadInv

LEMMA ReadStep == IInv /\ MapInv /\ ReadInv /\ [Next]_vars => ReadInv'
<1> SUFFICES ASSUME IInv, MapInv, ReadInv, [Next]_vars PROVE ReadInv'
  OBVIOUS
<1>1. CASE \/ OpenExtents \/ OpenOther \/ Walk \/ Collected \/ NormalizeDrop \/ NormalizeKeep
           \/ Normalized \/ Fill \/ Filled
  <2>1. out' = out /\ pc \notin {"read", "done"} /\ pc' \notin {"read", "done"}
    BY <1>1 DEF OpenExtents, OpenOther, Walk, WalkStep, OpenRoot, ReadFails, ReadBlock, BranchEnds, WalkEnds,
                Fail, Collected, NormalizeDrop, NormalizeKeep, Normalized, Fill, Filled, walk, reading
  <2>2. QED
    BY <2>1 DEF ReadInv
<1>2. CASE UNCHANGED vars
  <2>1. UNCHANGED <<fork, pc, extents, size, addSparse, caller, read, out, result>>
    BY <1>2 DEF vars, walk, reading
  <2>2. ASSUME NEW byte PROVE Place(byte)' = Place(byte) /\ Lost(byte)' = Lost(byte)
    BY <2>1, RecordsStay DEF Place, Lost
  <2>3. remaining' = remaining /\ WholeRefused' = WholeRefused
    BY <2>1 DEF remaining, Available, WholeRefused, Implausible, VolumeCapacity
  <2>4. BytesAreMapped => BytesAreMapped'
    BY <2>1, <2>2 DEF BytesAreMapped
  <2>5. ShortOnlyAtEnd => ShortOnlyAtEnd'
    BY <2>1, <2>2, <2>3 DEF ShortOnlyAtEnd
  <2>6. QED
    BY <2>1, <2>3, <2>4, <2>5, RecordsStay DEF ReadInv
<1>3. QED
  BY <1>1, <1>2, AskReads, ReadHoleReads, ReadSparseReads, ReadChunkReads, ReadEndsReads DEF Next, Step

\* From the records to the reader: a read of any length returns the bytes that the records
\* map, up to the end of the file or the first block that cannot be read, whatever the
\* order of the records and their overlaps.  Where more than an int of the file is left, it
\* returns none (volume.go:247, :280).
THEOREM EveryByteFromItsPlace == Spec => []ReadsWhatIsMapped
<1>1. ASSUME ReadInv, MapInv
      PROVE  ReadsWhatIsMapped
  <2>1. SUFFICES ASSUME IsOpen, RecordsPlausible PROVE BytesAreMapped /\ ShortOnlyAtEnd
    BY DEF ReadsWhatIsMapped
  <2>2. CASE pc = "done"
    BY <1>1, <2>1, <2>2 DEF ReadInv, IsOpen
  <2>3. CASE pc # "done"
    <3>1. ShortOnlyAtEnd
      BY <2>3 DEF ShortOnlyAtEnd
    <3>2. pc = "read" => BytesAreMapped
      BY <1>1, <2>1 DEF ReadInv
    <3>3. pc # "read" => out = <<>>
      BY <1>1, <2>3 DEF ReadInv
    <3>4. out = <<>> => BytesAreMapped
      BY DEF BytesAreMapped
    <3>5. QED
      BY <3>1, <3>2, <3>3, <3>4
  <2>4. QED
    BY <2>2, <2>3
<1>2. QED
  BY <1>1, InitInv, StepInv, MapInit, MapStep, ReadInit, ReadStep, PTL DEF Spec

-------------------------------------------------------------------------------
(* The blocks of a tree, level by level *)

\* One level more.
SoundNext(levels, below) == IF levels = 0 THEN {} ELSE SoundAmong(below)

IsSound(f, n) == f = [k \in 0 .. n |-> SoundNext(k, f[k - 1])]

LEMMA SoundNothing == ASSUME NEW x, NEW y PROVE SoundNext(0, x) = SoundNext(0, y)
BY DEF SoundNext

LEMMA SoundExists == ASSUME NEW n \in Nat PROVE \E f : IsSound(f, n)
<1> DEFINE T == {k \in Nat : ~\E f : IsSound(f, k)}
<1>1. SUFFICES ASSUME T # {} PROVE FALSE
  OBVIOUS
<1>2. T \subseteq Nat
  OBVIOUS
<1>3. PICK m \in T : \A k \in T : m <= k
  BY <1>1, <1>2, Least
<1>4. \E g : IsSound(g, m)
  <2>1. CASE m = 0
    <3> DEFINE g == [k \in 0 .. 0 |-> SoundNext(0, 0)]
    <3>1. \A k \in 0 .. 0 : k = 0
      OBVIOUS
    <3>2. g = [k \in 0 .. 0 |-> SoundNext(k, g[k - 1])]
      BY <3>1, SoundNothing
    <3> HIDE DEF g
    <3>3. QED
      BY <2>1, <3>2 DEF IsSound
  <2>2. CASE m # 0
    <3>1. m - 1 \in Nat /\ m - 1 \notin T
      BY <1>3, <2>2
    <3>2. PICK f : IsSound(f, m - 1)
      BY <3>1
    <3> DEFINE g == [k \in 0 .. m |-> SoundNext(k, f[k - 1])]
    <3>3. \A k \in 0 .. m - 1 : g[k] = f[k]
      <4>1. TAKE k \in 0 .. m - 1
      <4>2. k \in 0 .. m
        BY <1>3
      <4>3. f[k] = SoundNext(k, f[k - 1])
        BY <3>2 DEF IsSound
      <4>4. QED
        BY <4>2, <4>3
    <3>4. \A k \in 0 .. m : SoundNext(k, f[k - 1]) = SoundNext(k, g[k - 1])
      <4>1. TAKE k \in 0 .. m
      <4>2. CASE k = 0
        BY <4>2, SoundNothing
      <4>3. CASE k # 0
        <5>1. k - 1 \in 0 .. m - 1
          BY <1>3, <4>3
        <5> HIDE DEF g
        <5>2. QED
          BY <3>3, <5>1
      <4>4. QED
        BY <4>2, <4>3
    <3>5. g = [k \in 0 .. m |-> SoundNext(k, g[k - 1])]
      <4>1. QED
        BY <3>4
    <3> HIDE DEF g
    <3>6. QED
      BY <3>5 DEF IsSound
  <2>3. QED
    BY <2>1, <2>2
<1>5. QED
  BY <1>3, <1>4

LEMMA SoundUnfolds ==
  ASSUME NEW k \in 0 .. MaxDepth
  PROVE  SoundWithin[k] = IF k = 0 THEN {} ELSE SoundAmong(SoundWithin[k - 1])
<1>1. SoundWithin = CHOOSE f : IsSound(f, MaxDepth)
  BY DEF SoundWithin, IsSound, SoundNext
<1>2. IsSound(SoundWithin, MaxDepth)
  BY <1>1, DepthAssumption, SoundExists
<1>3. QED
  BY <1>2 DEF IsSound, SoundNext

RecordsNext(levels, below) ==
  [b \in DOMAIN fork.blocks |-> IF levels = 0 \/ ~Good(b) THEN <<>> ELSE RecordsOf(b, below)]

IsRecords(f, n) == f = [k \in 0 .. n |-> RecordsNext(k, f[k - 1])]

LEMMA RecordsNothing == ASSUME NEW x, NEW y PROVE RecordsNext(0, x) = RecordsNext(0, y)
BY DEF RecordsNext

LEMMA RecordsExist == ASSUME NEW n \in Nat PROVE \E f : IsRecords(f, n)
<1> DEFINE T == {k \in Nat : ~\E f : IsRecords(f, k)}
<1>1. SUFFICES ASSUME T # {} PROVE FALSE
  OBVIOUS
<1>2. T \subseteq Nat
  OBVIOUS
<1>3. PICK m \in T : \A k \in T : m <= k
  BY <1>1, <1>2, Least
<1>4. \E g : IsRecords(g, m)
  <2>1. CASE m = 0
    <3> DEFINE g == [k \in 0 .. 0 |-> RecordsNext(0, 0)]
    <3>1. \A k \in 0 .. 0 : k = 0
      OBVIOUS
    <3>2. g = [k \in 0 .. 0 |-> RecordsNext(k, g[k - 1])]
      BY <3>1, RecordsNothing
    <3> HIDE DEF g
    <3>3. QED
      BY <2>1, <3>2 DEF IsRecords
  <2>2. CASE m # 0
    <3>1. m - 1 \in Nat /\ m - 1 \notin T
      BY <1>3, <2>2
    <3>2. PICK f : IsRecords(f, m - 1)
      BY <3>1
    <3> DEFINE g == [k \in 0 .. m |-> RecordsNext(k, f[k - 1])]
    <3>3. \A k \in 0 .. m - 1 : g[k] = f[k]
      <4>1. TAKE k \in 0 .. m - 1
      <4>2. k \in 0 .. m
        BY <1>3
      <4>3. f[k] = RecordsNext(k, f[k - 1])
        BY <3>2 DEF IsRecords
      <4>4. QED
        BY <4>2, <4>3
    <3>4. \A k \in 0 .. m : RecordsNext(k, f[k - 1]) = RecordsNext(k, g[k - 1])
      <4>1. TAKE k \in 0 .. m
      <4>2. CASE k = 0
        BY <4>2, RecordsNothing
      <4>3. CASE k # 0
        <5>1. k - 1 \in 0 .. m - 1
          BY <1>3, <4>3
        <5> HIDE DEF g
        <5>2. QED
          BY <3>3, <5>1
      <4>4. QED
        BY <4>2, <4>3
    <3>5. g = [k \in 0 .. m |-> RecordsNext(k, g[k - 1])]
      <4>1. QED
        BY <3>4
    <3> HIDE DEF g
    <3>6. QED
      BY <3>5 DEF IsRecords
  <2>3. QED
    BY <2>1, <2>2
<1>5. QED
  BY <1>3, <1>4

LEMMA RecordsUnfold ==
  ASSUME NEW k \in 0 .. MaxDepth, NEW b \in DOMAIN fork.blocks
  PROVE  RecordsUnder[k][b] = IF k = 0 \/ ~Good(b) THEN <<>> ELSE RecordsOf(b, RecordsUnder[k - 1])
<1>1. RecordsUnder = CHOOSE f : IsRecords(f, MaxDepth)
  BY DEF RecordsUnder, IsRecords, RecordsNext
<1>2. IsRecords(RecordsUnder, MaxDepth)
  BY <1>1, DepthAssumption, RecordsExist
<1>3. RecordsUnder[k] = RecordsNext(k, RecordsUnder[k - 1])
  BY <1>2 DEF IsRecords
<1>4. QED
  BY <1>3 DEF RecordsNext

LEMMA TreeStays ==
  ASSUME fork' = fork
  PROVE  Sound' = Sound /\ LeafRecords' = LeafRecords /\ SoundWithin' = SoundWithin /\ RecordsUnder' = RecordsUnder
<1>1. ASSUME NEW b PROVE Good(b)' = Good(b)
  BY DEF Good
<1>2. ASSUME NEW u PROVE SoundAmong(u)' = SoundAmong(u)
  BY <1>1 DEF SoundAmong
<1>3. ASSUME NEW b, NEW u PROVE RecordsOf(b, u)' = RecordsOf(b, u)
  BY DEF RecordsOf
<1>4. SoundWithin' = SoundWithin
  BY <1>2 DEF SoundWithin
<1>5. RecordsUnder' = RecordsUnder
  BY <1>1, <1>3 DEF RecordsUnder
<1>6. QED
  BY <1>4, <1>5 DEF Sound, LeafRecords

\* A good block of a tree has records or children.
LEMMA TreeTyped ==
  ASSUME fork \in Forks, fork.type = "btree", NEW b \in DOMAIN fork.blocks, Good(b)
  PROVE  /\ fork.blocks[b].level = 0 => fork.blocks[b].records \in Seq(ExtentType)
         /\ fork.blocks[b].level # 0 => fork.blocks[b].children \in Seq(DOMAIN fork.blocks)
BY RootAssumption, RecordAssumption DEF Good

LEMMA RecordsTyped ==
  ASSUME fork \in Forks, fork.type = "btree"
  PROVE  \A k \in 0 .. MaxDepth : \A b \in DOMAIN fork.blocks : RecordsUnder[k][b] \in Seq(ExtentType)
<1> DEFINE T == {k \in 0 .. MaxDepth : \E b \in DOMAIN fork.blocks : RecordsUnder[k][b] \notin Seq(ExtentType)}
<1>1. SUFFICES ASSUME T # {} PROVE FALSE
  OBVIOUS
<1>2. T \subseteq Nat
  BY DepthAssumption
<1>3. PICK m \in T : \A k \in T : m <= k
  BY <1>1, <1>2, Least
<1>4. PICK b \in DOMAIN fork.blocks : RecordsUnder[m][b] \notin Seq(ExtentType)
  BY <1>3
<1>5. m \in 0 .. MaxDepth
  BY <1>3
<1>6. <<>> \in Seq(ExtentType)
  BY EmptySeq
<1>7. m # 0 /\ Good(b) /\ RecordsUnder[m][b] = RecordsOf(b, RecordsUnder[m - 1])
  BY <1>4, <1>5, <1>6, RecordsUnfold
<1>8. m - 1 \in 0 .. MaxDepth /\ m - 1 \notin T
  <2>1. m - 1 \in 0 .. MaxDepth /\ ~(m <= m - 1)
    BY <1>5, <1>7, DepthAssumption
  <2> HIDE DEF T
  <2>2. QED
    BY <1>3, <2>1
<1>9. \A c \in DOMAIN fork.blocks : RecordsUnder[m - 1][c] \in Seq(ExtentType)
  BY <1>8
<1>10. RecordsOf(b, RecordsUnder[m - 1]) \in Seq(ExtentType)
  <2>1. CASE fork.blocks[b].level # 0
    <3> DEFINE s == [i \in DOMAIN fork.blocks[b].children |-> RecordsUnder[m - 1][fork.blocks[b].children[i]]]
    <3>1. fork.blocks[b].children \in Seq(DOMAIN fork.blocks)
      BY <1>7, <2>1, TreeTyped
    <3>2. s \in Seq(Seq(ExtentType))
      <4> DEFINE n == Len(fork.blocks[b].children)
      <4>1. n \in Nat /\ DOMAIN fork.blocks[b].children = 1 .. n
        BY <3>1, LenProperties
      <4>2. \A i \in 1 .. n : fork.blocks[b].children[i] \in DOMAIN fork.blocks
        BY <3>1, ElementOfSeq
      <4>3. \A i \in 1 .. n : RecordsUnder[m - 1][fork.blocks[b].children[i]] \in Seq(ExtentType)
        BY <1>9, <4>2
      <4>4. s = [i \in 1 .. n |-> RecordsUnder[m - 1][fork.blocks[b].children[i]]]
        BY <4>1
      <4> HIDE DEF n, s
      <4>5. QED
        BY <4>1, <4>3, <4>4
    <3>3. RecordsOf(b, RecordsUnder[m - 1]) = FlattenSeq(s)
      BY <2>1 DEF RecordsOf
    <3> HIDE DEF s
    <3>4. QED
      BY <3>2, <3>3, Flattening
  <2>2. CASE fork.blocks[b].level = 0
    BY <1>7, <2>2, TreeTyped DEF RecordsOf
  <2>3. QED
    BY <2>1, <2>2
<1>11. QED
  BY <1>4, <1>7, <1>10

-------------------------------------------------------------------------------
(* What the walk has still to come to *)

\* The records under each block to come of a branch.
ToCome(frame) ==
  [i \in DOMAIN frame.rest |-> RecordsUnder[MaxDepth - frame.depth][frame.rest[i]]]

\* Those under the blocks to come of all branches, the last one first.
Waiting(s) == FlattenSeq([i \in 1 .. Len(s) |-> FlattenSeq(ToCome(s[Len(s) + 1 - i]))])

LEMMA ToComeTyped ==
  ASSUME fork \in Forks, fork.type = "btree", NEW frame \in FrameType
  PROVE  /\ ToCome(frame) \in Seq(Seq(ExtentType)) /\ Len(ToCome(frame)) = Len(frame.rest)
         /\ \A i \in 1 .. Len(frame.rest) :
              ToCome(frame)[i] = RecordsUnder[MaxDepth - frame.depth][frame.rest[i]]
         /\ FlattenSeq(ToCome(frame)) \in Seq(ExtentType)
<1> DEFINE s == ToCome(frame)
           n == Len(frame.rest)
           k == MaxDepth - frame.depth
<1>1. frame.rest \in Seq(DOMAIN fork.blocks) /\ n \in Nat /\ DOMAIN frame.rest = 1 .. n /\ k \in 0 .. MaxDepth
  BY DepthAssumption, LenProperties DEF FrameType
<1>2. \A i \in 1 .. n : RecordsUnder[k][frame.rest[i]] \in Seq(ExtentType)
  BY <1>1, RecordsTyped, ElementOfSeq
<1>3. s = [i \in 1 .. n |-> RecordsUnder[k][frame.rest[i]]]
  BY <1>1 DEF ToCome
<1> HIDE DEF s, n, k
<1>4. s \in Seq(Seq(ExtentType)) /\ Len(s) = n
  BY <1>1, <1>2, <1>3
<1>5. FlattenSeq(s) \in Seq(ExtentType)
  BY <1>4, Flattening
<1>6. \A i \in 1 .. n : s[i] = RecordsUnder[k][frame.rest[i]]
  BY <1>3
<1>7. QED
  BY <1>4, <1>5, <1>6 DEF s, n, k

LEMMA ToComeFirst ==
  ASSUME fork \in Forks, fork.type = "btree", NEW frame \in FrameType, frame.rest # <<>>
  PROVE  LET k == MaxDepth - frame.depth
             less == Frame(Tail(frame.rest), frame.depth)
         IN  /\ less \in FrameType /\ Head(frame.rest) \in DOMAIN fork.blocks /\ k \in 0 .. MaxDepth
             /\ RecordsUnder[k][Head(frame.rest)] \in Seq(ExtentType)
             /\ FlattenSeq(ToCome(frame)) = RecordsUnder[k][Head(frame.rest)] \o FlattenSeq(ToCome(less))
<1> DEFINE k == MaxDepth - frame.depth
           less == Frame(Tail(frame.rest), frame.depth)
           x == RecordsUnder[k][Head(frame.rest)]
           n == Len(Tail(frame.rest))
<1>1. frame.rest \in Seq(DOMAIN fork.blocks) /\ frame.depth \in 0 .. MaxDepth
  BY DEF FrameType
<1>2. /\ Head(frame.rest) \in DOMAIN fork.blocks /\ Head(frame.rest) = frame.rest[1]
      /\ Tail(frame.rest) \in Seq(DOMAIN fork.blocks)
      /\ n \in Nat /\ Len(frame.rest) = n + 1
      /\ \A i \in 1 .. n : Tail(frame.rest)[i] = frame.rest[i + 1]
  <2>1. Len(frame.rest) \in Nat \ {0}
    BY <1>1, EmptySeq
  <2>2. Head(frame.rest) = frame.rest[1]
    BY <1>1
  <2>3. PICK r \in Seq(DOMAIN fork.blocks) : r = frame.rest /\ r # <<>>
    BY <1>1
  <2>4. Head(r) \in DOMAIN fork.blocks
    BY <2>3, HeadTailProperties
  <2>5. Tail(r) \in Seq(DOMAIN fork.blocks) /\ Len(Tail(r)) = Len(r) - 1
    BY <2>3, HeadTailProperties
  <2>6. \A i \in 1 .. Len(Tail(r)) : Tail(r)[i] = r[i + 1]
    BY <2>3, HeadTailProperties
  <2>7. QED
    BY <2>1, <2>2, <2>3, <2>4, <2>5, <2>6
<1>3. less \in FrameType /\ less.rest = Tail(frame.rest) /\ less.depth = frame.depth
  BY <1>1, <1>2 DEF FrameType, Frame
<1>4. k \in 0 .. MaxDepth
  BY <1>1, DepthAssumption
<1>5. x \in Seq(ExtentType)
  BY <1>2, <1>4, RecordsTyped
<1> DEFINE t == ToCome(frame)
           s == ToCome(less)
<1>6. /\ t \in Seq(Seq(ExtentType)) /\ Len(t) = n + 1
      /\ \A i \in 1 .. n + 1 : t[i] = RecordsUnder[k][frame.rest[i]]
  BY <1>2, ToComeTyped
<1>7. /\ s \in Seq(Seq(ExtentType)) /\ Len(s) = n
      /\ \A i \in 1 .. n : s[i] = RecordsUnder[k][Tail(frame.rest)[i]]
  BY <1>3, ToComeTyped
<1> HIDE DEF k, less, n, t, s
<1>8. t[1] = x /\ \A i \in 1 .. n : t[i + 1] = s[i]
  <2>1. 1 \in 1 .. n + 1 /\ \A i \in 1 .. n : i + 1 \in 1 .. n + 1
    BY <1>2
  <2>2. t[1] = x
    <3>1. t[1] = RecordsUnder[k][frame.rest[1]]
      BY <1>6, <2>1
    <3>2. QED
      BY <1>2, <3>1
  <2>3. \A i \in 1 .. n : t[i + 1] = s[i]
    <3>1. TAKE i \in 1 .. n
    <3>2. t[i + 1] = RecordsUnder[k][frame.rest[i + 1]] /\ s[i] = RecordsUnder[k][Tail(frame.rest)[i]]
      BY <1>6, <1>7, <2>1
    <3>3. Tail(frame.rest)[i] = frame.rest[i + 1]
      BY <1>2
    <3>4. QED
      BY <3>2, <3>3
  <2>4. QED
    BY <2>2, <2>3
<1> HIDE DEF x
<1>9. FlattenSeq(t) = x \o FlattenSeq(s)
  <2>1. InFront(x, s, t)
    BY <1>6, <1>7, <1>8 DEF InFront
  <2>2. QED
    BY <1>5, <1>6, <1>7, <1>8, <2>1, FlattenInFront
<1>10. QED
  BY <1>2, <1>3, <1>4, <1>5, <1>9 DEF k, less, t, s, x

LEMMA WaitingNothing == Waiting(<<>>) = <<>>
<1>1. Len(<<>>) = 0
  BY EmptySeq
<1>2. [i \in 1 .. 0 |-> FlattenSeq(ToCome(<<>>[0 + 1 - i]))] = <<>>
  OBVIOUS
<1>3. FlattenSeq(<<>>) = <<>>
  BY <1>1, FlattenNothing
<1>4. QED
  BY <1>1, <1>2, <1>3 DEF Waiting

LEMMA WaitingTyped ==
  ASSUME fork \in Forks, fork.type = "btree", NEW s \in Seq(FrameType)
  PROVE  /\ [i \in 1 .. Len(s) |-> FlattenSeq(ToCome(s[Len(s) + 1 - i]))] \in Seq(Seq(ExtentType))
         /\ Waiting(s) \in Seq(ExtentType)
<1> DEFINE n == Len(s)
           t == [i \in 1 .. n |-> FlattenSeq(ToCome(s[n + 1 - i]))]
<1>1. n \in Nat
  OBVIOUS
<1>2. \A i \in 1 .. n : FlattenSeq(ToCome(s[n + 1 - i])) \in Seq(ExtentType)
  <2>1. TAKE i \in 1 .. n
  <2>2. n + 1 - i \in 1 .. n
    BY <1>1
  <2>3. s[n + 1 - i] \in FrameType
    BY <2>2, ElementOfSeq
  <2>4. QED
    BY <2>3, ToComeTyped
<1> HIDE DEF n
<1>3. t \in Seq(Seq(ExtentType))
  BY <1>1, <1>2
<1> HIDE DEF t
<1>4. FlattenSeq(t) \in Seq(ExtentType)
  BY <1>3, Flattening
<1>5. QED
  BY <1>3, <1>4 DEF Waiting, t, n

LEMMA WaitingPush ==
  ASSUME fork \in Forks, fork.type = "btree", NEW s \in Seq(FrameType), NEW frame \in FrameType
  PROVE  Waiting(Append(s, frame)) = FlattenSeq(ToCome(frame)) \o Waiting(s)
<1> DEFINE n == Len(s)
           u == Append(s, frame)
           a == [i \in 1 .. n |-> FlattenSeq(ToCome(s[n + 1 - i]))]
           b == [i \in 1 .. Len(u) |-> FlattenSeq(ToCome(u[Len(u) + 1 - i]))]
           x == FlattenSeq(ToCome(frame))
<1>1. n \in Nat /\ u \in Seq(FrameType) /\ Len(u) = n + 1 /\ u[n + 1] = frame /\ \A i \in 1 .. n : u[i] = s[i]
  BY AppendProperties
<1>2. x \in Seq(ExtentType)
  BY ToComeTyped
<1>3. a \in Seq(Seq(ExtentType)) /\ b \in Seq(Seq(ExtentType))
  BY <1>1, WaitingTyped
<1> HIDE DEF u, n
<1>4. Len(a) = n /\ Len(b) = n + 1
  BY <1>1
<1>5. b[1] = x
  <2>1. 1 \in 1 .. Len(u) /\ Len(u) + 1 - 1 = n + 1
    BY <1>1
  <2>2. QED
    BY <1>1, <2>1
<1>6. \A i \in 1 .. n : b[i + 1] = a[i]
  <2>1. TAKE i \in 1 .. n
  <2>2. i + 1 \in 1 .. Len(u) /\ Len(u) + 1 - (i + 1) = n + 1 - i /\ n + 1 - i \in 1 .. n
    BY <1>1
  <2>3. b[i + 1] = FlattenSeq(ToCome(u[n + 1 - i])) /\ a[i] = FlattenSeq(ToCome(s[n + 1 - i]))
    BY <2>2
  <2> HIDE DEF a, b
  <2>4. QED
    BY <1>1, <2>2, <2>3
<1>7. Waiting(u) = FlattenSeq(b) /\ Waiting(s) = FlattenSeq(a)
  BY DEF Waiting, n
<1> HIDE DEF a, b, x
<1>8. FlattenSeq(b) = x \o FlattenSeq(a)
  <2>1. InFront(x, a, b)
    BY <1>4, <1>5, <1>6 DEF InFront
  <2>2. QED
    BY <1>2, <1>3, <1>5, <2>1, FlattenInFront
<1>9. QED
  BY <1>7, <1>8 DEF u, x

\* Each block to come of a branch has good blocks under it, and none too deep; and so of
\* all the branches.
FrameSound(frame) == ToSet(frame.rest) \subseteq SoundWithin[MaxDepth - frame.depth]

SoundAhead(s) == \A i \in DOMAIN s : FrameSound(s[i])

LEMMA AheadPush ==
  ASSUME NEW s \in Seq(FrameType), NEW frame \in FrameType
  PROVE  SoundAhead(Append(s, frame)) <=> SoundAhead(s) /\ FrameSound(frame)
<1> DEFINE n == Len(s)
           u == Append(s, frame)
<1>1. n \in Nat /\ u \in Seq(FrameType) /\ Len(u) = n + 1 /\ u[n + 1] = frame /\ \A i \in 1 .. n : u[i] = s[i]
  BY AppendProperties
<1>2. DOMAIN s = 1 .. n
  BY LenProperties
<1> HIDE DEF u, n
<1>3. DOMAIN u = 1 .. n + 1
  BY <1>1, LenProperties
<1>4. ASSUME SoundAhead(u) PROVE SoundAhead(s) /\ FrameSound(frame)
  <2>1. \A i \in 1 .. n + 1 : FrameSound(u[i])
    BY <1>3, <1>4 DEF SoundAhead
  <2>2. n + 1 \in 1 .. n + 1 /\ \A i \in 1 .. n : i \in 1 .. n + 1
    BY <1>1
  <2>3. \A i \in 1 .. n : FrameSound(s[i])
    BY <1>1, <2>1, <2>2
  <2>4. QED
    BY <1>1, <1>2, <2>1, <2>2, <2>3 DEF SoundAhead
<1>5. ASSUME SoundAhead(s), FrameSound(frame) PROVE SoundAhead(u)
  <2>1. ASSUME NEW i \in 1 .. n + 1 PROVE FrameSound(u[i])
    <3>1. i \in 1 .. n \/ i = n + 1
      BY <1>1
    <3>2. CASE i \in 1 .. n
      BY <1>1, <1>2, <1>5, <3>2 DEF SoundAhead
    <3>3. CASE i = n + 1
      BY <1>1, <1>5, <3>3
    <3>4. QED
      BY <3>1, <3>2, <3>3
  <2>2. QED
    BY <1>3, <2>1 DEF SoundAhead
<1>6. QED
  BY <1>4, <1>5 DEF u

LEMMA FrameFirst ==
  ASSUME NEW frame \in FrameType, frame.rest # <<>>
  PROVE  FrameSound(frame) <=>
           /\ Head(frame.rest) \in SoundWithin[MaxDepth - frame.depth]
           /\ FrameSound(Frame(Tail(frame.rest), frame.depth))
<1>1. PICK r \in Seq(DOMAIN fork.blocks), t \in Seq(DOMAIN fork.blocks) : r = frame.rest /\ t = Tail(frame.rest)
  <2>1. frame.rest \in Seq(DOMAIN fork.blocks)
    BY DEF FrameType
  <2>2. Tail(frame.rest) \in Seq(DOMAIN fork.blocks)
    BY <2>1, HeadTailProperties
  <2>3. QED
    BY <2>1, <2>2
<1>2. Len(r) \in Nat \ {0} /\ Len(t) = Len(r) - 1 /\ \A i \in 1 .. Len(t) : t[i] = r[i + 1]
  <2>1. r # <<>>
    BY <1>1
  <2>2. Len(r) \in Nat \ {0}
    BY <2>1, EmptySeq
  <2>3. Len(Tail(r)) = Len(r) - 1
    BY <2>1, HeadTailProperties
  <2>4. \A i \in 1 .. Len(Tail(r)) : Tail(r)[i] = r[i + 1]
    BY <2>1, HeadTailProperties
  <2>5. QED
    BY <1>1, <2>2, <2>3, <2>4
<1>3. Head(frame.rest) = r[1]
  BY <1>1
<1>4. DOMAIN r = 1 .. Len(r) /\ DOMAIN t = 1 .. Len(t)
  BY LenProperties
<1>5. ToSet(r) = {r[1]} \cup ToSet(t)
  <2>1. ASSUME NEW i \in 1 .. Len(r) PROVE r[i] \in {r[1]} \cup ToSet(t)
    <3>1. CASE i = 1
      BY <3>1
    <3>2. CASE i # 1
      <4>1. i - 1 \in 1 .. Len(t) /\ (i - 1) + 1 = i
        BY <1>2, <3>2
      <4>2. t[i - 1] = r[i]
        BY <1>2, <4>1
      <4>3. QED
        BY <1>4, <4>1, <4>2 DEF ToSet
    <3>3. QED
      BY <3>1, <3>2
  <2>2. 1 \in 1 .. Len(r) /\ \A i \in 1 .. Len(t) : i + 1 \in 1 .. Len(r)
    BY <1>2
  <2>3. ASSUME NEW i \in 1 .. Len(t) PROVE t[i] \in ToSet(r)
    <3>1. t[i] = r[i + 1] /\ i + 1 \in 1 .. Len(r)
      BY <1>2, <2>2
    <3>2. QED
      BY <1>4, <3>1 DEF ToSet
  <2>4. r[1] \in ToSet(r)
    BY <1>4, <2>2 DEF ToSet
  <2>5. QED
    BY <1>4, <2>1, <2>3, <2>4 DEF ToSet
<1>6. Frame(Tail(frame.rest), frame.depth).rest = t /\ Frame(Tail(frame.rest), frame.depth).depth = frame.depth
  BY <1>1 DEF Frame
<1>7. QED
  BY <1>1, <1>3, <1>5, <1>6 DEF FrameSound

\* The next block of the last branch, and the rest.
LEMMA TopWaiting ==
  ASSUME fork \in Forks, fork.type = "btree", stack \in Seq(FrameType), stack # <<>>, Top.rest # <<>>
  PROVE  LET k == MaxDepth - Top.depth
             x == RecordsUnder[k][Child]
         IN  /\ Top.depth \in 0 .. MaxDepth /\ k \in 0 .. MaxDepth /\ Child \in DOMAIN fork.blocks
             /\ x \in Seq(ExtentType) /\ Advanced \in Seq(FrameType)
             /\ Waiting(Advanced) \in Seq(ExtentType)
             /\ Waiting(stack) = x \o Waiting(Advanced)
             /\ SoundAhead(stack) <=> SoundAhead(Advanced) /\ Child \in SoundWithin[k]
<1> DEFINE k == MaxDepth - Top.depth
           x == RecordsUnder[k][Child]
           f == Front(stack)
           less == Frame(Tail(Top.rest), Top.depth)
           l == FlattenSeq(ToCome(less))
           p == Waiting(f)
<1>1. Top \in FrameType /\ f \in Seq(FrameType) /\ stack = Append(f, Top)
  BY TopOf DEF Top
<1>2. /\ less \in FrameType /\ Child \in DOMAIN fork.blocks /\ k \in 0 .. MaxDepth /\ x \in Seq(ExtentType)
      /\ FlattenSeq(ToCome(Top)) = x \o l
  BY <1>1, ToComeFirst DEF Child
<1>3. Advanced = Append(f, less)
  BY DEF Advanced
<1>4. SoundAhead(stack) <=> SoundAhead(Advanced) /\ Child \in SoundWithin[k]
  <2>1. FrameSound(Top) <=> Child \in SoundWithin[k] /\ FrameSound(less)
    BY <1>1, FrameFirst DEF Child
  <2> HIDE DEF less, k, f
  <2>2. SoundAhead(stack) <=> SoundAhead(f) /\ FrameSound(Top)
    BY <1>1, AheadPush
  <2>3. SoundAhead(Advanced) <=> SoundAhead(f) /\ FrameSound(less)
    BY <1>1, <1>2, <1>3, AheadPush
  <2>4. QED
    BY <2>1, <2>2, <2>3
<1> HIDE DEF less, x, k, f
<1>5. Waiting(stack) = (x \o l) \o p /\ Waiting(Advanced) = l \o p
  BY <1>1, <1>2, <1>3, WaitingPush
<1>6. l \in Seq(ExtentType) /\ p \in Seq(ExtentType) /\ Advanced \in Seq(FrameType)
  <2>1. l \in Seq(ExtentType)
    BY <1>2, ToComeTyped
  <2>2. p \in Seq(ExtentType)
    BY <1>1, WaitingTyped
  <2>3. Advanced \in Seq(FrameType)
    BY <1>1, <1>2, <1>3, AppendProperties
  <2>4. QED
    BY <2>1, <2>2, <2>3
<1> HIDE DEF l, p
<1>7. (x \o l) \o p = x \o (l \o p) /\ l \o p \in Seq(ExtentType)
  <2>1. Associated(x, l, p)
    BY <1>2, <1>6, Associates
  <2>2. l \o p \in Seq(ExtentType)
    BY <1>6, ConcatProperties
  <2>3. QED
    BY <2>1, <2>2 DEF Associated
<1>8. Top.depth \in 0 .. MaxDepth
  BY <1>1 DEF FrameType
<1>9. QED
  BY <1>2, <1>4, <1>5, <1>6, <1>7, <1>8 DEF x, k

\* The walk: what it has decoded and what it has still to come to are the records of the
\* tree, and the tree is sound if what is still to come is.
TreeInv ==
  /\ pc = "open" => extents = <<>>
  /\ pc = "walk" =>
       fork.level # 0 /\ LeafRecords = extents \o Waiting(stack) /\ (Sound <=> SoundAhead(stack))
  /\ DecodedIffSound

LEMMA WaitingStays ==
  ASSUME fork' = fork
  PROVE  \A s : Waiting(s)' = Waiting(s) /\ (SoundAhead(s)' <=> SoundAhead(s))
<1>1. ASSUME NEW f PROVE ToCome(f)' = ToCome(f)
  BY TreeStays DEF ToCome
<1>2. ASSUME NEW f PROVE FrameSound(f)' <=> FrameSound(f)
  BY TreeStays DEF FrameSound
<1>3. ASSUME NEW s PROVE Waiting(s)' = Waiting(s)
  BY <1>1 DEF Waiting
<1>4. ASSUME NEW s PROVE SoundAhead(s)' <=> SoundAhead(s)
  BY <1>2 DEF SoundAhead
<1>5. QED
  BY <1>3, <1>4

LEMMA WalksOn ==
  ASSUME pc' = "walk", fork' = fork, fork.level # 0,
         NEW s, stack' = s, NEW e, extents' = e, LeafRecords = e \o Waiting(s), Sound <=> SoundAhead(s)
  PROVE  TreeInv'
<1>1. Waiting(s)' = Waiting(s) /\ (SoundAhead(s)' <=> SoundAhead(s)) /\ LeafRecords' = LeafRecords /\ Sound' = Sound
  BY WaitingStays, TreeStays
<1>2. LeafRecords' = extents' \o Waiting(stack)'
  BY <1>1
<1>3. Sound' <=> SoundAhead(stack)'
  BY <1>1
<1>4. DecodedIffSound'
  BY DEF DecodedIffSound
<1>5. QED
  BY <1>2, <1>3, <1>4 DEF TreeInv

\* A walk that fails, over a tree that is not sound.
LEMMA WalkFails ==
  ASSUME fork' = fork, fork.type = "btree", pc' = "failed", ~Sound
  PROVE  TreeInv'
BY TreeStays DEF TreeInv, DecodedIffSound

LEMMA OpenRootTree == ASSUME IInv, TreeInv, OpenRoot PROVE TreeInv'
<1>1. fork \in Forks /\ fork.type = "btree" /\ extents = <<>>
  BY DEF OpenRoot, IInv, WalkInv, TreeInv
<1>2. CASE fork.level = 0
  <2>1. ~Sound
    BY <1>2 DEF Sound
  <2>2. fork' = fork /\ pc' = "failed"
    BY <1>2 DEF OpenRoot, Fail
  <2>3. QED
    BY <1>1, <2>1, <2>2, WalkFails
<1>3. CASE fork.level # 0
  <2> DEFINE frame == Frame(fork.root, 0)
             e == <<>>
             x == FlattenSeq(ToCome(frame))
  <2>1. pc' = "walk" /\ fork' = fork /\ stack' = <<frame>> /\ extents' = e
    BY <1>1, <1>3 DEF OpenRoot
  <2>2. frame \in FrameType /\ frame.rest = fork.root /\ MaxDepth - frame.depth = MaxDepth
    BY <1>1, RootAssumption, DepthAssumption DEF Frame, FrameType
  <2> HIDE DEF frame
  <2>3. e \in Seq(FrameType) /\ e \in Seq(ExtentType) /\ DOMAIN e = {} /\ Append(e, frame) = <<frame>>
    BY EmptySeq
  <2>4. x = LeafRecords /\ x \in Seq(ExtentType)
    <3>1. x = LeafRecords
      BY <2>2 DEF ToCome, LeafRecords
    <3>2. x \in Seq(ExtentType)
      BY <1>1, <2>2, ToComeTyped
    <3>3. QED
      BY <3>1, <3>2
  <2>5. Sound <=> FrameSound(frame)
    BY <1>3, <2>2 DEF Sound, FrameSound
  <2>6. SoundAhead(e)
    BY <2>3 DEF SoundAhead
  <2>7. SoundAhead(<<frame>>) <=> FrameSound(frame)
    BY <2>2, <2>3, <2>6, AheadPush
  <2>8. Waiting(<<frame>>) = x \o e
    BY <1>1, <2>2, <2>3, WaitingPush, WaitingNothing
  <2> HIDE DEF x
  <2>9. x \o e = x /\ e \o x = x
    BY <2>4, ConcatEmptySeq
  <2>10. LeafRecords = e \o Waiting(<<frame>>)
    BY <2>4, <2>8, <2>9
  <2> HIDE DEF e
  <2>11. QED
    BY <1>3, <2>1, <2>5, <2>7, <2>10, WalksOn
<1>4. QED
  BY <1>2, <1>3

LEMMA InWalk ==
  ASSUME IInv, TreeInv, pc = "walk"
  PROVE  /\ fork \in Forks /\ fork.type = "btree" /\ stack \in Seq(FrameType) /\ extents \in Seq(ExtentType)
         /\ fork.level # 0 /\ LeafRecords = extents \o Waiting(stack) /\ (Sound <=> SoundAhead(stack))
BY DEF IInv, WalkInv, TreeInv

LEMMA ReadFailsTree == ASSUME IInv, TreeInv, ReadFails PROVE TreeInv'
<1> DEFINE k == MaxDepth - Top.depth
<1>1. pc = "walk" /\ stack # <<>> /\ Top.rest # <<>> /\ (TooDeep \/ ~Good(Child)) /\ fork' = fork /\ pc' = "failed"
  BY DEF ReadFails, Fail
<1>2. fork \in Forks /\ fork.type = "btree" /\ stack \in Seq(FrameType) /\ (Sound <=> SoundAhead(stack))
  BY <1>1, InWalk
<1>3. /\ Top.depth \in 0 .. MaxDepth /\ k \in 0 .. MaxDepth /\ Child \in DOMAIN fork.blocks
      /\ SoundAhead(stack) => Child \in SoundWithin[k]
  BY <1>1, <1>2, TopWaiting
<1>4. TooDeep => k = 0
  BY <1>3, DepthAssumption DEF TooDeep, Below
<1> HIDE DEF k
<1>5. Child \notin SoundWithin[k]
  BY <1>1, <1>3, <1>4, SoundUnfolds DEF SoundAmong
<1>6. QED
  BY <1>1, <1>2, <1>3, <1>5, WalkFails

LEMMA ReadBlockTree == ASSUME IInv, TreeInv, ReadBlock PROVE TreeInv'
<1> DEFINE k == MaxDepth - Top.depth
           x == RecordsUnder[k][Child]
           w == Waiting(Advanced)
<1>1. /\ pc = "walk" /\ stack # <<>> /\ Top.rest # <<>> /\ ~TooDeep /\ Good(Child)
      /\ fork' = fork /\ pc' = "walk"
  BY DEF ReadBlock
<1>2. /\ fork \in Forks /\ fork.type = "btree" /\ stack \in Seq(FrameType) /\ extents \in Seq(ExtentType)
      /\ fork.level # 0 /\ LeafRecords = extents \o Waiting(stack) /\ (Sound <=> SoundAhead(stack))
  BY <1>1, InWalk
<1>3. /\ Top.depth \in 0 .. MaxDepth /\ k \in 0 .. MaxDepth /\ Child \in DOMAIN fork.blocks
      /\ x \in Seq(ExtentType) /\ Advanced \in Seq(FrameType) /\ w \in Seq(ExtentType)
      /\ Waiting(stack) = x \o w
  BY <1>1, <1>2, TopWaiting
<1>4. SoundAhead(stack) <=> SoundAhead(Advanced) /\ Child \in SoundWithin[k]
  BY <1>1, <1>2, TopWaiting
<1>5. k # 0 /\ Below \in 0 .. MaxDepth /\ k - 1 \in 0 .. MaxDepth /\ MaxDepth - Below = k - 1
  BY <1>1, <1>3, DepthAssumption DEF TooDeep, Below
<1>6. x = RecordsOf(Child, RecordsUnder[k - 1])
  BY <1>1, <1>3, <1>5, RecordsUnfold
<1>7. Child \in SoundWithin[k] <=>
        fork.blocks[Child].level = 0 \/ ToSet(fork.blocks[Child].children) \subseteq SoundWithin[k - 1]
  BY <1>1, <1>3, <1>5, SoundUnfolds DEF SoundAmong
<1> HIDE DEF x, k, w
<1>8. CASE fork.blocks[Child].level = 0
  <2>1. extents' = extents \o x /\ stack' = Advanced
    BY <1>6, <1>8 DEF ReadBlock, With, RecordsOf
  <2>2. PICK e \in Seq(ExtentType) : e = extents \o x
    BY <1>2, <1>3, ConcatProperties
  <2>3. extents \o (x \o w) = (extents \o x) \o w
    <3>1. Associated(extents, x, w)
      BY <1>2, <1>3, Associates
    <3>2. QED
      BY <3>1 DEF Associated
  <2>4. LeafRecords = e \o Waiting(Advanced)
    BY <1>2, <1>3, <2>2, <2>3 DEF w
  <2>5. Sound <=> SoundAhead(Advanced)
    BY <1>2, <1>4, <1>7, <1>8
  <2>6. PICK s : s = Advanced
    OBVIOUS
  <2>7. QED
    BY <1>1, <1>2, <2>1, <2>2, <2>4, <2>5, <2>6, WalksOn
<1>9. CASE fork.blocks[Child].level # 0
  <2> DEFINE frame == Frame(fork.blocks[Child].children, Below)
             s == Append(Advanced, frame)
  <2>1. extents' = extents /\ stack' = s
    BY <1>9 DEF ReadBlock
  <2>2. frame \in FrameType /\ frame.rest = fork.blocks[Child].children /\ MaxDepth - frame.depth = k - 1
    BY <1>1, <1>2, <1>3, <1>5, <1>9, TreeTyped DEF FrameType, Frame
  <2> HIDE DEF frame
  <2>3. FlattenSeq(ToCome(frame)) = x
    BY <1>6, <1>9, <2>2 DEF RecordsOf, ToCome
  <2>4. FrameSound(frame) <=> Child \in SoundWithin[k]
    BY <1>7, <1>9, <2>2 DEF FrameSound
  <2>5. Waiting(s) = x \o w
    BY <1>2, <1>3, <2>2, <2>3, WaitingPush DEF w
  <2>6. SoundAhead(s) <=> SoundAhead(Advanced) /\ FrameSound(frame)
    BY <1>3, <2>2, AheadPush
  <2> HIDE DEF s
  <2>7. LeafRecords = extents \o Waiting(s)
    BY <1>2, <1>3, <2>5
  <2>8. Sound <=> SoundAhead(s)
    BY <1>2, <1>4, <2>4, <2>6
  <2>9. PICK t, e : t = s /\ e = extents
    OBVIOUS
  <2>10. QED
    BY <1>1, <1>2, <2>1, <2>7, <2>8, <2>9, WalksOn
<1>10. QED
  BY <1>8, <1>9

LEMMA BranchEndsTree == ASSUME IInv, TreeInv, BranchEnds PROVE TreeInv'
<1> DEFINE f == Front(stack)
           e == <<>>
<1>1. pc = "walk" /\ stack # <<>> /\ Top.rest = <<>> /\ fork' = fork /\ pc' = "walk" /\ stack' = f /\ extents' = extents
  BY DEF BranchEnds, Left
<1>2. /\ fork \in Forks /\ fork.type = "btree" /\ stack \in Seq(FrameType) /\ extents \in Seq(ExtentType)
      /\ fork.level # 0 /\ LeafRecords = extents \o Waiting(stack) /\ (Sound <=> SoundAhead(stack))
  BY <1>1, InWalk
<1>3. Top \in FrameType /\ f \in Seq(FrameType) /\ stack = Append(f, Top)
  BY <1>1, <1>2, TopOf DEF Top
<1> HIDE DEF f
<1>4. FlattenSeq(ToCome(Top)) = e
  <2>1. Len(<<>>) = 0
    BY EmptySeq
  <2>2. Len(ToCome(Top)) = 0
    BY <1>1, <1>2, <1>3, <2>1, ToComeTyped
  <2>3. ToCome(Top) \in Seq(Seq(ExtentType))
    BY <1>2, <1>3, ToComeTyped
  <2>4. ToCome(Top) = <<>>
    BY <2>2, <2>3, EmptySeq
  <2>5. QED
    BY <2>1, <2>4, FlattenNothing
<1>5. FrameSound(Top)
  <2>1. DOMAIN <<>> = {}
    OBVIOUS
  <2>2. QED
    BY <1>1, <2>1 DEF FrameSound, ToSet
<1>6. Waiting(stack) = e \o Waiting(f) /\ Waiting(f) \in Seq(ExtentType)
  BY <1>2, <1>3, <1>4, WaitingPush, WaitingTyped
<1>7. e \o Waiting(f) = Waiting(f)
  BY <1>6, ConcatEmptySeq
<1>8. SoundAhead(stack) <=> SoundAhead(f)
  BY <1>3, <1>5, AheadPush
<1> HIDE DEF e
<1>9. LeafRecords = extents \o Waiting(f)
  BY <1>2, <1>6, <1>7
<1>10. PICK t, d : t = f /\ d = extents
  OBVIOUS
<1>11. QED
  BY <1>1, <1>2, <1>8, <1>9, <1>10, WalksOn

LEMMA WalkEndsTree == ASSUME IInv, TreeInv, WalkEnds PROVE TreeInv'
<1>1. pc = "walk" /\ stack = <<>> /\ pc' = "collected" /\ fork' = fork /\ extents' = extents
  BY DEF WalkEnds
<1>2. /\ fork.type = "btree" /\ extents \in Seq(ExtentType)
      /\ LeafRecords = extents \o Waiting(stack) /\ (Sound <=> SoundAhead(stack))
  BY <1>1, InWalk
<1>3. DOMAIN <<>> = {}
  OBVIOUS
<1>4. SoundAhead(stack)
  BY <1>1, <1>3 DEF SoundAhead
<1>5. extents \o <<>> = extents
  BY <1>2, ConcatEmptySeq
<1>6. LeafRecords = extents
  BY <1>1, <1>2, <1>5, WaitingNothing
<1>7. Sound' /\ LeafRecords' = extents'
  BY <1>1, <1>2, <1>4, <1>6, TreeStays
<1>8. DecodedIffSound'
  BY <1>1, <1>2, <1>7 DEF DecodedIffSound, OnDisk
<1>9. QED
  BY <1>1, <1>8 DEF TreeInv

LEMMA OpenExtentsTree == ASSUME IInv, TreeInv, OpenExtents PROVE TreeInv'
<1>1. fork' = fork /\ fork.type = "extents" /\ extents = <<>> /\ pc' \in {"idle", "failed", "collected"}
  BY DEF OpenExtents, TreeInv
<1>2. pc' # "failed" => extents' = SubSeq(fork.records, 1, Count)
  <2>1. CASE Count = 0
    <3>1. SubSeq(fork.records, 1, 0) = <<>>
      <4>1. fork.records \in Seq(ExtentType)
        BY <1>1, RecordAssumption DEF IInv, WalkInv
      <4>2. QED
        BY <4>1, SubSeqEmpty
    <3>2. QED
      BY <1>1, <2>1, <3>1 DEF OpenExtents
  <2>2. CASE Count # 0
    BY <2>2 DEF OpenExtents
  <2>3. QED
    BY <2>1, <2>2
<1>3. Count' = Count
  BY <1>1 DEF Count, InferredCount
<1>4. OnDisk' = SubSeq(fork.records, 1, Count)
  BY <1>1, <1>3 DEF OnDisk
<1>5. QED
  BY <1>1, <1>2, <1>4 DEF TreeInv, DecodedIffSound

\* What comes after the walk leaves the records alone.
LEMMA AfterWalk ==
  ASSUME TreeInv, fork' = fork, extents' = extents, pc \notin {"open", "walk"}, pc' \notin {"open", "walk"},
         pc = "failed" <=> pc' = "failed"
  PROVE  TreeInv'
<1>1. Count' = Count
  BY DEF Count, InferredCount
<1>2. OnDisk' = OnDisk
  BY <1>1, TreeStays DEF OnDisk
<1>3. Sound' = Sound
  BY TreeStays
<1>4. QED
  BY <1>2, <1>3 DEF TreeInv, DecodedIffSound

LEMMA TreeStep == IInv /\ TreeInv /\ [Next]_vars => TreeInv'
<1> SUFFICES ASSUME IInv, TreeInv, [Next]_vars PROVE TreeInv'
  OBVIOUS
<1>1. CASE OpenExtents
  BY <1>1, OpenExtentsTree
<1>2. CASE OpenOther
  BY <1>2 DEF OpenOther, TreeInv, DecodedIffSound
<1>3. CASE Walk
  BY <1>3, OpenRootTree, ReadFailsTree, ReadBlockTree, BranchEndsTree, WalkEndsTree DEF Walk, WalkStep
<1>4. CASE Collected \/ NormalizeDrop \/ NormalizeKeep \/ Normalized \/ Fill \/ Filled
  BY <1>4, AfterWalk DEF Collected, NormalizeDrop, NormalizeKeep, Normalized, Fill, Filled, walk
<1>5. CASE Ask \/ ReadHole \/ ReadSparse \/ ReadChunk \/ ReadEnds
  BY <1>5, AfterWalk DEF Ask, ReadHole, ReadSparse, ReadChunk, ReadEnds, Return, walk
<1>6. CASE UNCHANGED vars
  <2>1. fork' = fork /\ pc' = pc /\ stack' = stack /\ extents' = extents
    BY <1>6 DEF vars, walk
  <2>2. CASE pc = "open"
    BY <2>1, <2>2 DEF TreeInv, DecodedIffSound
  <2>3. CASE pc = "walk"
    <3>1. PICK t, e : t = stack /\ e = extents
      OBVIOUS
    <3>2. QED
      BY <2>1, <2>3, <3>1, InWalk, WalksOn
  <2>4. CASE pc \notin {"open", "walk"}
    BY <2>1, <2>4, AfterWalk
  <2>5. QED
    BY <2>2, <2>3, <2>4
<1>7. QED
  BY <1>1, <1>2, <1>3, <1>4, <1>5, <1>6 DEF Next, Step

\* parseExtentsFromBtreeRoot: whatever graph the blocks of a tree make, it is decoded
\* if and only if each block under its root is good and none is too deep, and then to
\* all of its records from left to right; those of an inode are all decoded too.
THEOREM TreeDecodedIffSound == Spec => []DecodedIffSound
<1>1. Init => TreeInv
  BY DEF Init, TreeInv, DecodedIffSound
<1>2. Spec => []TreeInv
  BY <1>1, Invariance, TreeStep, PTL DEF Spec
<1>3. TreeInv => DecodedIffSound
  BY DEF TreeInv
<1>4. QED
  BY <1>2, <1>3, PTL

-------------------------------------------------------------------------------
(* AnalyzeInodeFragmentation: which blocks the list has *)

Held(s) == \A b \in Nat : Covered(s, b) => Holders(b) # {}

Inner(s) == \A b \in Nat : Covered(s, b) => b \in Extension

NoRecords == fork.type = "extents" /\ Count = 0

\* The list has no block that is not of the file; when it has been filled, and the gaps
\* were narrow, it has them all.
CoverInv ==
  NoneAtZero =>
    /\ Inner(list)
    /\ pc = "normalize" => Held(list)
    /\ pc = "fill" => Held(todo) /\ (NarrowGaps => \A b \in Nat : b < position => Covered(list, b))
    /\ pc = "idle" /\ IsOpen /\ addSparse /\ NarrowGaps /\ ~NoRecords => \A b \in Extension : Covered(list, b)

LEMMA ExtensionHas ==
  ASSUME NEW b
  PROVE  b \in Extension <=>
           \/ \E i \in DOMAIN extents : extents[i].n # 0 /\ b \in 0 .. End(extents[i]) - 1
           \/ b \in 0 .. ForkBlocks - 1
<1> DEFINE U == UNION {0 .. End(extents[i]) - 1 : i \in {j \in DOMAIN extents : extents[j].n # 0}}
<1>1. b \in U <=> \E i \in DOMAIN extents : extents[i].n # 0 /\ b \in 0 .. End(extents[i]) - 1
  OBVIOUS
<1>2. Extension = U \cup 0 .. ForkBlocks - 1
  BY DEF Extension
<1> HIDE DEF U
<1>3. QED
  BY <1>1, <1>2

LEMMA ForkBlocksInt == ASSUME IInv PROVE ForkBlocks \in Int
<1>1. size \in Nat /\ geometry.blockSize \in Nat \ {0}
  BY Words DEF IInv, WalkInv, BlockSize
<1>2. QED
  BY <1>1 DEF ForkBlocks, BlockSize

\* A block of the file is behind no record and the end of the file.
LEMMA InExtension ==
  ASSUME IInv, NEW b \in Nat
  PROVE  b \in Extension <=> b < ForkBlocks \/ \E i \in DOMAIN extents : extents[i].n # 0 /\ b < End(extents[i])
<1>1. extents \in Seq(ExtentType) /\ ForkBlocks \in Int
  BY ForkBlocksInt DEF IInv, WalkInv
<1>2. \A i \in DOMAIN extents : End(extents[i]) \in Nat
  BY <1>1, LenProperties, ElementOfSeq, Numbers
<1>3. b \in 0 .. ForkBlocks - 1 <=> b < ForkBlocks
  BY <1>1
<1>4. \A i \in DOMAIN extents : b \in 0 .. End(extents[i]) - 1 <=> b < End(extents[i])
  BY <1>2
<1>5. QED
  BY <1>3, <1>4, ExtensionHas

LEMMA ExtensionNat == ASSUME IInv PROVE Extension \subseteq Nat
<1>1. extents \in Seq(ExtentType) /\ ForkBlocks \in Int
  BY ForkBlocksInt DEF IInv, WalkInv
<1>2. \A i \in DOMAIN extents : End(extents[i]) \in Nat
  BY <1>1, LenProperties, ElementOfSeq, Numbers
<1>3. \A i \in DOMAIN extents : 0 .. End(extents[i]) - 1 \subseteq Nat
  BY <1>2
<1>4. 0 .. ForkBlocks - 1 \subseteq Nat
  BY <1>1
<1>5. QED
  BY <1>3, <1>4, ExtensionHas

\* What is in front of a block of the file is one.
LEMMA ExtensionDown ==
  ASSUME IInv, NEW c \in Extension, NEW b \in Nat, b <= c
  PROVE  b \in Extension
<1>1. c \in Nat
  BY ExtensionNat
<1>2. extents \in Seq(ExtentType) /\ ForkBlocks \in Int
  BY ForkBlocksInt DEF IInv, WalkInv
<1>3. \A i \in DOMAIN extents : End(extents[i]) \in Nat
  BY <1>2, LenProperties, ElementOfSeq, Numbers
<1>4. CASE c < ForkBlocks
  <2>1. b < ForkBlocks
    BY <1>1, <1>2, <1>4
  <2>2. QED
    BY <2>1, InExtension
<1>5. CASE \E i \in DOMAIN extents : extents[i].n # 0 /\ c < End(extents[i])
  <2>1. PICK i \in DOMAIN extents : extents[i].n # 0 /\ c < End(extents[i])
    BY <1>5
  <2>2. b < End(extents[i])
    BY <1>1, <1>3, <2>1
  <2>3. QED
    BY <2>1, <2>2, InExtension
<1>6. QED
  BY <1>1, <1>4, <1>5, InExtension

LEMMA HeldInside ==
  ASSUME IInv, NEW b \in Nat, Holders(b) # {}
  PROVE  b \in Extension
<1>1. PICK i \in DOMAIN extents : Covers(extents[i], b)
  BY DEF Holders
<1>2. extents[i] \in ExtentType
  BY LenProperties, ElementOfSeq DEF IInv, WalkInv
<1>3. b < End(extents[i]) /\ extents[i].n # 0
  BY <1>1, <1>2, Numbers DEF Covers, End
<1>4. QED
  BY <1>3, InExtension

LEMMA HeldInner == ASSUME IInv, NEW s, Held(s) PROVE Inner(s)
  BY HeldInside DEF Held, Inner

LEMMA ExtensionStays ==
  ASSUME extents' = extents, size' = size
  PROVE  Extension' = Extension /\ (NarrowGaps' <=> NarrowGaps)
<1>1. ForkBlocks' = ForkBlocks
  BY DEF ForkBlocks
<1>2. Extension' = Extension
  BY <1>1 DEF Extension
<1>3. \A b : Holders(b)' = Holders(b)
  BY RecordsStay
<1>4. QED
  BY <1>2, <1>3 DEF NarrowGaps

\* The same for lists after a step.
LEMMA CoverStays ==
  ASSUME extents' = extents, size' = size
  PROVE  /\ Inner(list') => (Inner(list))'
         /\ Held(list') => (Held(list))'
         /\ Held(todo') => (Held(todo))'
<1>1. Extension' = Extension /\ \A b : Holders(b)' = Holders(b)
  BY RecordsStay, ExtensionStays
<1>2. \A b : (Covered(list, b))' <=> Covered(list', b)
  BY DEF Covered
<1>3. \A b : (Covered(todo, b))' <=> Covered(todo', b)
  BY DEF Covered
<1>4. QED
  BY <1>1, <1>2, <1>3 DEF Inner, Held

\* A gap between a block and one of the file, with no record over it, is a short one.
LEMMA GapIsShort ==
  ASSUME IInv, NarrowGaps, NEW from \in Nat, NEW to \in Nat, from < to, to - 1 \in Extension,
         \A b \in Nat : from <= b /\ b < to => Holders(b) = {}
  PROVE  to - from < CountModulus
<1>1. SUFFICES ASSUME ~(to - from < CountModulus) PROVE FALSE
  OBVIOUS
<1>2. CountModulus \in Nat \ {0}
  BY ReadAssumption
<1>3. from + CountModulus - 1 \in Nat /\ from + CountModulus - 1 <= to - 1 /\ from <= to - 1
  BY <1>1, <1>2
<1>4. from \in Extension /\ from + CountModulus - 1 \in Extension
  BY <1>3, ExtensionDown
<1>5. PICK c \in from .. from + CountModulus - 1 : Holders(c) # {}
  BY <1>4 DEF NarrowGaps
<1>6. c \in Nat /\ from <= c /\ c < to
  BY <1>1, <1>2, <1>5
<1>7. QED
  BY <1>5, <1>6

LEMMA NothingCovered == ASSUME NEW s, DOMAIN s = {} PROVE \A b : ~Covered(s, b)
  BY DEF Covered

LEMMA CoverInit == Init => CoverInv
<1> SUFFICES ASSUME Init PROVE CoverInv
  OBVIOUS
<1>1. DOMAIN list = {} /\ pc = "open"
  BY DEF Init
<1>2. QED
  BY <1>1, NothingCovered DEF CoverInv, Inner

LEMMA CollectedCovers == IInv /\ CoverInv /\ Collected => CoverInv'
<1> SUFFICES ASSUME IInv, CoverInv, Collected, NoneAtZero' PROVE CoverInv'
  BY DEF CoverInv, Collected
<1>1. /\ pc' = "normalize" /\ extents' = extents /\ size' = size /\ DOMAIN list' = {}
  BY DEF Collected, IInv, WalkInv, ListInv
<1>2. Inner(list') /\ Held(list')
  BY <1>1, NothingCovered DEF Inner, Held
<1>3. QED
  BY <1>1, <1>2, CoverStays DEF CoverInv

LEMMA NormalizeDropCovers == IInv /\ MapInv /\ CoverInv /\ NormalizeDrop => CoverInv'
<1> SUFFICES ASSUME IInv, MapInv, CoverInv, NormalizeDrop, NoneAtZero' PROVE CoverInv'
  BY DEF CoverInv, NormalizeDrop, walk
<1>1. pc = "normalize" /\ pc' = pc /\ extents' = extents /\ size' = size /\ list' = list
  BY DEF NormalizeDrop, walk
<1>2. Inner(list) /\ Held(list)
  BY <1>1, RecordsStay DEF CoverInv
<1>3. QED
  BY <1>1, <1>2, CoverStays DEF CoverInv

LEMMA NormalizeKeepCovers == IInv /\ MapInv /\ CoverInv /\ NormalizeKeep => CoverInv'
<1> SUFFICES ASSUME IInv, MapInv, CoverInv, NormalizeKeep, NoneAtZero' PROVE CoverInv'
  BY DEF CoverInv, NormalizeKeep, walk
<1>1. /\ pc = "normalize" /\ pc' = pc /\ extents' = extents /\ size' = size
      /\ list \in Seq(ExtentType) /\ todo \in Seq(ExtentType) /\ position \in Nat
  BY DEF NormalizeKeep, walk, IInv, ListInv
<1>2. NoneAtZero /\ Held(list)
  BY <1>1, RecordsStay DEF CoverInv
<1>3. PICK f : Pending(f)
  BY <1>1, <1>2 DEF MapInv
<1>4. PICK i \in DOMAIN todo : ~Swallowed(todo[i]) /\ list' = Append(list, Clipped(todo[i]))
  BY DEF NormalizeKeep
<1> DEFINE e == todo[i]
           c == Clipped(e)
<1>5. e \in ExtentType /\ f[i] \in DOMAIN extents /\ e = extents[f[i]] /\ (e.p = 0 => e.sparse)
  BY <1>1, <1>2, <1>3, LenProperties, ElementOfSeq DEF Pending, NoneAtZero
<1>6. c \in ExtentType
  BY <1>1, <1>4, <1>5, Clip
<1>7. \A b \in Nat : Covers(c, b) => Covers(e, b)
  BY <1>1, <1>4, <1>5, ClipKeeps
<1>8. \A b : Covered(list', b) <=> Covered(list, b) \/ Covers(c, b)
  <2> HIDE DEF c
  <2>1. QED
    BY <1>1, <1>4, <1>6, OneMore DEF c
<1>9. \A b \in Nat : Covers(e, b) => Holders(b) # {}
  BY <1>5 DEF Holders
<1> HIDE DEF c, e
<1>10. Held(list')
  BY <1>2, <1>7, <1>8, <1>9 DEF Held
<1>11. Inner(list')
  BY <1>10, HeldInner
<1>12. QED
  BY <1>1, <1>10, <1>11, CoverStays DEF CoverInv

LEMMA NormalizedCovers == IInv /\ CoverInv /\ Normalized => CoverInv'
<1> SUFFICES ASSUME IInv, CoverInv, Normalized, NoneAtZero' PROVE CoverInv'
  BY DEF CoverInv, Normalized
<1>1. pc = "normalize" /\ extents' = extents /\ size' = size /\ addSparse' = addSparse
  BY DEF Normalized
<1>2. Inner(list) /\ Held(list)
  BY <1>1, RecordsStay DEF CoverInv
<1>3. CASE addSparse
  <2>1. pc' = "fill" /\ todo' = list /\ DOMAIN list' = {} /\ position' = 0
    BY <1>3 DEF Normalized
  <2>2. Inner(list') /\ Held(todo')
    BY <1>2, <2>1, NothingCovered DEF Inner
  <2>3. \A b \in Nat : ~(b < position')
    BY <2>1
  <2>4. QED
    BY <1>1, <2>1, <2>2, <2>3, CoverStays DEF CoverInv
<1>4. CASE ~addSparse
  <2>1. pc' = "idle" /\ list' = list
    BY <1>4 DEF Normalized, building
  <2>2. QED
    BY <1>1, <1>2, <1>4, <2>1, CoverStays DEF CoverInv
<1>5. QED
  BY <1>3, <1>4

\* What an inserted run covers.
LEMMA RunCovers ==
  ASSUME NEW from \in Nat, NEW to \in Nat, from < to, NEW b \in Nat
  PROVE  /\ Covers(Sparse(from, to - from), b) => from <= b /\ b < to
         /\ to - from < CountModulus /\ from <= b /\ b < to => Covers(Sparse(from, to - from), b)
<1> DEFINE hole == Sparse(from, to - from)
<1>1. /\ hole \in ExtentType /\ hole.l = from /\ End(hole) <= to
      /\ to - from < CountModulus => End(hole) = to
  BY Run
<1> HIDE DEF hole
<1>2. End(hole) \in Nat
  BY <1>1, Numbers
<1>3. (Covers(hole, b) => from <= b /\ b < to)
  BY <1>1, <1>2 DEF Covers
<1>4. to - from < CountModulus /\ from <= b /\ b < to => Covers(hole, b)
  BY <1>1, <1>2 DEF Covers
<1>5. QED
  BY <1>3, <1>4 DEF hole

LEMMA FillCovers == IInv /\ MapInv /\ CoverInv /\ Fill => CoverInv'
<1> SUFFICES ASSUME IInv, MapInv, CoverInv, Fill, NoneAtZero' PROVE CoverInv'
  BY DEF CoverInv, Fill, walk
<1> DEFINE e == todo[1]
           hole == Sparse(position, e.l - position)
           filled == Patched
<1>1. /\ pc = "fill" /\ pc' = pc /\ extents' = extents /\ size' = size /\ todo # <<>> /\ todo' = Tail(todo)
      /\ list \in Seq(ExtentType) /\ todo \in Seq(ExtentType) /\ position \in Nat
      /\ Disjoint(todo) /\ Mapping(todo) /\ Beginning(todo, position)
  BY DEF Fill, walk, IInv, ListInv
<1>2. /\ NoneAtZero /\ Inner(list) /\ Held(todo)
      /\ NarrowGaps => \A b \in Nat : b < position => Covered(list, b)
      /\ \A b \in Nat : Holders(b) # {} => Covered(list, b) \/ Covered(todo, b)
  BY <1>1, RecordsStay DEF CoverInv, MapInv
<1>3. /\ Len(todo) \in Nat \ {0} /\ DOMAIN todo = 1 .. Len(todo)
      /\ DOMAIN Tail(todo) = 1 .. Len(todo) - 1
      /\ \A k \in 1 .. Len(todo) - 1 : Tail(todo)[k] = todo[k + 1]
  <2>1. Len(Tail(todo)) = Len(todo) - 1 /\ Tail(todo) \in Seq(ExtentType)
    BY <1>1, HeadTailProperties
  <2>2. QED
    BY <1>1, <2>1, EmptySeq, LenProperties, HeadTailProperties
<1>4. /\ e \in ExtentType /\ 1 \in DOMAIN todo /\ position <= e.l /\ e.l \in Nat /\ End(e) \in Nat
      /\ e.l < End(e)
  <2>1. e \in ExtentType /\ 1 \in DOMAIN todo /\ position <= e.l /\ e.n > 0
    BY <1>1, <1>3, ElementOfSeq DEF Beginning, Mapping
  <2>2. QED
    BY <2>1, Numbers DEF End
<1>5. filled \in Seq(ExtentType) /\ list' = Append(filled, e) /\ position' = End(e)
  BY <1>1, FillAppends
<1>6. e.l \in Extension
  <2>1. Covers(e, e.l)
    BY <1>4 DEF Covers
  <2>2. Covered(todo, e.l)
    BY <1>4, <2>1 DEF Covered
  <2>3. QED
    BY <1>2, <1>4, <2>2, HeldInside DEF Held
<1>7. ASSUME NEW b \in Nat, position <= b, b < e.l PROVE Holders(b) = {}
  <2>1. ~Covered(list, b)
    BY <1>1, <1>7, Behind
  <2>2. ~Covered(todo, b)
    <3>1. SUFFICES ASSUME NEW m \in DOMAIN todo, Covers(todo[m], b) PROVE FALSE
      BY DEF Covered
    <3>2. m = 1 \/ e.l < todo[m].l
      <4>1. m = 1 \/ 1 < m
        BY <1>3
      <4>2. QED
        BY <1>1, <1>4, <4>1, Ordered
    <3>3. todo[m] \in ExtentType /\ todo[m].l <= b
      BY <1>1, <3>1, LenProperties, ElementOfSeq DEF Covers
    <3>4. QED
      BY <1>4, <1>7, <3>2, <3>3, Numbers
  <2>3. QED
    BY <1>2, <2>1, <2>2
<1>8. /\ Inner(filled)
      /\ NarrowGaps => \A b \in Nat : b < e.l => Covered(filled, b)
  <2>1. CASE e.l > position
    <3>1. hole \in ExtentType /\ filled = Append(list, hole)
      BY <1>1, <1>4, <2>1, Run DEF Patched
    <3>2. \A b \in Nat : /\ Covers(hole, b) => position <= b /\ b < e.l
                         /\ e.l - position < CountModulus /\ position <= b /\ b < e.l => Covers(hole, b)
      BY <1>1, <1>4, <2>1, RunCovers
    <3>3. NarrowGaps => e.l - position < CountModulus
      <4>1. e.l - 1 \in Nat /\ e.l - 1 \in Extension
        BY <1>1, <1>4, <1>6, <2>1, ExtensionDown
      <4>2. QED
        BY <1>1, <1>4, <1>7, <2>1, <4>1, GapIsShort
    <3> HIDE DEF hole, e, filled
    <3>4. \A b : Covered(filled, b) <=> Covered(list, b) \/ Covers(hole, b)
      BY <1>1, <3>1, OneMore
    <3>5. ASSUME NEW b \in Nat, Covered(filled, b) PROVE b \in Extension
      <4>1. Covers(hole, b) => b <= e.l
        BY <1>4, <3>2
      <4>2. QED
        BY <1>2, <1>4, <1>6, <3>4, <3>5, <4>1, ExtensionDown DEF Inner
    <3>6. ASSUME NarrowGaps, NEW b \in Nat, b < e.l PROVE Covered(filled, b)
      <4>1. b < position \/ position <= b
        BY <1>1
      <4>2. QED
        BY <1>2, <3>2, <3>3, <3>4, <3>6, <4>1
    <3>7. QED
      BY <3>5, <3>6 DEF Inner
  <2>2. CASE ~(e.l > position)
    <3>1. filled = list /\ e.l = position
      BY <1>1, <1>4, <2>2 DEF Patched
    <3>2. QED
      BY <1>2, <3>1
  <2>3. QED
    BY <2>1, <2>2
<1> HIDE DEF hole, filled
<1>9. \A b : Covered(list', b) <=> Covered(filled, b) \/ Covers(e, b)
  <2> HIDE DEF e
  <2>1. QED
    BY <1>4, <1>5, OneMore
<1>10. Inner(list')
  <2>1. \A b \in Nat : Covers(e, b) => Covered(todo, b)
    BY <1>4 DEF Covered
  <2>2. Inner(todo)
    BY <1>2, HeldInner
  <2>3. QED
    BY <1>8, <1>9, <2>1, <2>2 DEF Inner
<1>11. Held(todo')
  <2>1. \A k \in DOMAIN todo' : k + 1 \in DOMAIN todo /\ todo'[k] = todo[k + 1]
    BY <1>1, <1>3
  <2>2. \A b : Covered(todo', b) => Covered(todo, b)
    BY <2>1 DEF Covered
  <2>3. QED
    BY <1>2, <2>2 DEF Held
<1>12. ASSUME NarrowGaps, NEW b \in Nat, b < position' PROVE Covered(list', b)
  <2>1. b < e.l \/ Covers(e, b)
    BY <1>4, <1>5, <1>12 DEF Covers
  <2>2. QED
    BY <1>8, <1>9, <1>12, <2>1
<1> HIDE DEF e
<1>13. \A b : (Covered(list, b))' <=> Covered(list', b)
  BY DEF Covered
<1>14. NarrowGaps' <=> NarrowGaps
  BY <1>1, ExtensionStays
<1>15. NarrowGaps' => \A b \in Nat : b < position' => (Covered(list, b))'
  BY <1>12, <1>13, <1>14
<1>16. (Inner(list))' /\ (Held(todo))' /\ pc' = "fill"
  BY <1>1, <1>10, <1>11, CoverStays
<1>17. QED
  BY <1>15, <1>16 DEF CoverInv

LEMMA FilledCovers == IInv /\ MapInv /\ CoverInv /\ Filled => CoverInv'
<1> SUFFICES ASSUME IInv, MapInv, CoverInv, Filled, NoneAtZero' PROVE CoverInv'
  BY DEF CoverInv, Filled
<1>1. /\ pc = "fill" /\ pc' = "idle" /\ extents' = extents /\ size' = size /\ todo = <<>> /\ DOMAIN todo = {}
      /\ list \in Seq(ExtentType) /\ position \in Nat
      /\ list' = IF position < ForkBlocks THEN Append(list, Sparse(position, ForkBlocks - position)) ELSE list
  BY EmptySeq DEF Filled, IInv, ListInv
<1>2. /\ Inner(list)
      /\ NarrowGaps => \A b \in Nat : b < position => Covered(list, b)
      /\ \A b \in Nat : Holders(b) # {} => Covered(list, b)
  BY <1>1, NothingCovered, RecordsStay DEF CoverInv, MapInv
<1>3. ForkBlocks \in Int /\ extents \in Seq(ExtentType)
  BY ForkBlocksInt DEF IInv, WalkInv
<1>4. ASSUME NEW b \in Nat, position <= b PROVE Holders(b) = {}
  BY <1>1, <1>2, <1>4, Behind
\* What is behind the position is there only because the file is so long.
<1>5. ASSUME NEW b \in Extension, position <= b PROVE b \in Nat /\ b < ForkBlocks
  <2>1. b \in Nat
    BY ExtensionNat
  <2>2. SUFFICES ASSUME NEW i \in DOMAIN extents, extents[i].n # 0, b < End(extents[i]) PROVE FALSE
    BY <2>1, InExtension
  <2>3. extents[i] \in ExtentType
    BY <1>3, LenProperties, ElementOfSeq
  <2>4. End(extents[i]) - 1 \in Nat /\ b <= End(extents[i]) - 1 /\ Covers(extents[i], End(extents[i]) - 1)
    BY <2>1, <2>2, <2>3, Numbers DEF Covers, End
  <2>5. Holders(End(extents[i]) - 1) # {}
    BY <2>4 DEF Holders
  <2>6. position <= End(extents[i]) - 1
    BY <1>1, <1>5, <2>1, <2>4
  <2>7. QED
    BY <1>4, <2>4, <2>5, <2>6
<1>6. /\ Inner(list')
      /\ NarrowGaps => \A b \in Extension : Covered(list', b)
  <2>1. CASE position < ForkBlocks
    <3> DEFINE hole == Sparse(position, ForkBlocks - position)
    <3>1. ForkBlocks \in Nat /\ hole \in ExtentType /\ list' = Append(list, hole)
      <4>1. ForkBlocks \in Nat
        BY <1>1, <1>3, <2>1
      <4>2. QED
        BY <1>1, <2>1, <4>1, Run
    <3>2. \A b \in Nat : /\ Covers(hole, b) => position <= b /\ b < ForkBlocks
                         /\ ForkBlocks - position < CountModulus /\ position <= b /\ b < ForkBlocks => Covers(hole, b)
      BY <1>1, <2>1, <3>1, RunCovers
    <3> HIDE DEF hole
    <3>3. NarrowGaps => ForkBlocks - position < CountModulus
      <4>1. ForkBlocks - 1 \in Nat /\ ForkBlocks - 1 < ForkBlocks
        BY <1>1, <2>1, <3>1
      <4>2. ForkBlocks - 1 \in Extension
        BY <4>1, InExtension
      <4>3. QED
        BY <1>1, <1>4, <2>1, <3>1, <4>2, GapIsShort
    <3>4. \A b : Covered(list', b) <=> Covered(list, b) \/ Covers(hole, b)
      BY <1>1, <3>1, OneMore
    <3>5. Inner(list')
      <4>1. ASSUME NEW b \in Nat, Covers(hole, b) PROVE b \in Extension
        BY <3>2, <4>1, InExtension
      <4>2. QED
        BY <1>2, <3>4, <4>1 DEF Inner
    <3>6. ASSUME NarrowGaps, NEW b \in Extension PROVE Covered(list', b)
      <4>1. b \in Nat /\ (b < position \/ position <= b)
        BY <1>1, ExtensionNat
      <4>2. position <= b => b < ForkBlocks
        BY <1>5
      <4>3. QED
        BY <1>2, <3>2, <3>3, <3>4, <3>6, <4>1, <4>2
    <3>7. QED
      BY <3>5, <3>6
  <2>2. CASE ~(position < ForkBlocks)
    <3>1. list' = list
      BY <1>1, <2>2
    <3>2. ASSUME NEW b \in Extension PROVE b \in Nat /\ b < position
      <4>1. b \in Nat
        BY ExtensionNat
      <4>2. position <= b => b < ForkBlocks
        BY <1>5
      <4>3. QED
        BY <1>1, <1>3, <2>2, <4>1, <4>2
    <3>3. QED
      BY <1>2, <3>1, <3>2
  <2>3. QED
    BY <2>1, <2>2
<1>7. \A b : (Covered(list, b))' <=> Covered(list', b)
  BY DEF Covered
<1>8. Extension' = Extension /\ (NarrowGaps' <=> NarrowGaps) /\ (Inner(list))'
  BY <1>1, <1>6, ExtensionStays, CoverStays
<1>9. NarrowGaps' => \A b \in Extension' : (Covered(list, b))'
  BY <1>6, <1>7, <1>8
<1>10. QED
  BY <1>1, <1>8, <1>9 DEF CoverInv

LEMMA RestCovers ==
  ASSUME IInv, CoverInv,
         OpenExtents \/ OpenOther \/ Walk \/ Ask \/ ReadHole \/ ReadSparse \/ ReadChunk \/ ReadEnds
         \/ UNCHANGED vars
  PROVE  CoverInv'
<1>1. CASE OpenExtents \/ OpenOther \/ Walk
  <2>1. DOMAIN list' = {} /\ pc' \in {"idle", "walk", "collected", "failed"} /\ fork' = fork
    BY <1>1 DEF OpenExtents, OpenOther, Walk, WalkStep, OpenRoot, ReadFails, ReadBlock, BranchEnds, WalkEnds,
                Fail, building, IInv, ListInv
  <2>2. pc' = "idle" => NoRecords' \/ ~IsOpen'
    <3>1. CASE OpenExtents
      <4>1. pc' = "idle" => fork.type = "extents" /\ Count = 0
        BY <3>1 DEF OpenExtents
      <4>2. Count' = Count
        BY <2>1 DEF Count, InferredCount
      <4>3. QED
        BY <2>1, <4>1, <4>2 DEF NoRecords
    <3>2. CASE OpenOther
      BY <2>1, <3>2 DEF OpenOther, IsOpen
    <3>3. CASE Walk
      BY <3>3 DEF Walk, WalkStep, OpenRoot, ReadFails, ReadBlock, BranchEnds, WalkEnds, Fail
    <3>4. QED
      BY <1>1, <3>1, <3>2, <3>3
  <2>3. (Inner(list))'
    BY <2>1 DEF Inner, Covered
  <2>4. QED
    BY <2>1, <2>2, <2>3 DEF CoverInv
<1>2. CASE Ask \/ ReadHole \/ ReadSparse \/ ReadChunk \/ ReadEnds
  <2>1. list' = list /\ extents' = extents /\ size' = size /\ pc' \in {"read", "done"}
    BY <1>2 DEF Ask, ReadHole, ReadSparse, ReadChunk, ReadEnds, Return, walk, building
  <2>2. (NoneAtZero' <=> NoneAtZero) /\ (Inner(list) => (Inner(list))')
    BY <2>1, RecordsStay, CoverStays
  <2>3. QED
    BY <2>1, <2>2 DEF CoverInv
<1>3. CASE UNCHANGED vars
  <2>1. UNCHANGED <<fork, pc, extents, list, todo, position, size, addSparse>>
    BY <1>3 DEF vars, walk, building
  <2>2. (NoneAtZero' <=> NoneAtZero) /\ Extension' = Extension /\ (NarrowGaps' <=> NarrowGaps)
        /\ (Inner(list) => (Inner(list))') /\ (Held(list) => (Held(list))') /\ (Held(todo) => (Held(todo))')
    BY <2>1, RecordsStay, CoverStays, ExtensionStays
  <2>3. \A b : (Covered(list, b))' <=> Covered(list, b)
    BY <2>1 DEF Covered
  <2>4. (NoRecords' <=> NoRecords) /\ (IsOpen' <=> IsOpen)
    BY <2>1 DEF NoRecords, Count, InferredCount, IsOpen
  <2>5. QED
    BY <2>1, <2>2, <2>3, <2>4 DEF CoverInv
<1>4. QED
  BY <1>1, <1>2, <1>3

LEMMA CoverStep == IInv /\ MapInv /\ CoverInv /\ [Next]_vars => CoverInv'
  BY CollectedCovers, NormalizeDropCovers, NormalizeKeepCovers, NormalizedCovers, FillCovers, FilledCovers, RestCovers
  DEF Next, Step

-------------------------------------------------------------------------------
(* AnalyzeInodeFragmentation: what it makes of them *)

LEMMA Pair == ASSUME NEW x, NEW y PROVE <<x>>[1] = x /\ <<x>> # <<>> /\ (<<x>> = <<y>> => x = y)
OBVIOUS

LEMMA Greatest ==
  ASSUME NEW S, S # {}, NEW n \in Nat, S \subseteq 1 .. n
  PROVE  Max(S) \in S /\ \A j \in S : j <= Max(S)
<1> DEFINE T == {n - s : s \in S}
<1>0. \A s \in S : s \in 1 .. n
  OBVIOUS
<1>1. T \subseteq Nat /\ T # {}
  <2>1. \A s \in S : n - s \in Nat
    BY <1>0
  <2>2. PICK s \in S : TRUE
    OBVIOUS
  <2>3. n - s \in T
    OBVIOUS
  <2>4. QED
    BY <2>1, <2>3
<1>2. PICK m \in T : \A k \in T : m <= k
  BY <1>1, Least
<1>3. PICK s \in S : m = n - s
  BY <1>2
<1>4. ASSUME NEW r \in S PROVE s >= r
  <2>0. n - r \in T
    OBVIOUS
  <2>1. n - r \in T /\ r \in Int /\ s \in Int
    BY <1>0, <2>0
  <2>2. m <= n - r
    BY <1>2, <2>1
  <2>3. QED
    BY <1>3, <2>1, <2>2
<1> HIDE DEF T
<1>5. Max(S) \in S /\ \A r \in S : Max(S) >= r
  BY <1>3, <1>4 DEF Max
<1>6. ASSUME NEW j \in S PROVE j <= Max(S)
  <2>0. PICK x \in S : x = Max(S)
    BY <1>5
  <2>1. x \in Int /\ j \in Int /\ x >= j
    BY <1>0, <1>5, <2>0
  <2>2. j <= x
    BY <2>1
  <2>3. QED
    BY <2>0, <2>2
<1>7. QED
  BY <1>5, <1>6

\* An allocated extent has the blocks of the file that it covers, one after the other.
LEMMA AllocatedMaps ==
  ASSUME IInv, Truthful(list), NEW i \in Allocated
  PROVE  /\ i \in DOMAIN list /\ i \in Nat
         /\ list[i].l \in Nat /\ list[i].n \in Nat \ {0} /\ list[i].p \in Nat /\ End(list[i]) = list[i].l + list[i].n
         /\ \A b \in Nat : list[i].l <= b /\ b < End(list[i]) => Mapped(b) = <<list[i].p + (b - list[i].l)>>
<1>1. /\ i \in DOMAIN list /\ ~list[i].sparse /\ list[i].n # 0
  BY DEF Allocated
<1>2. list[i] \in ExtentType /\ i \in Nat
  BY <1>1, LenProperties, ElementOfSeq DEF IInv, ListInv
<1>3. \A b \in Nat : list[i].l <= b /\ b < End(list[i]) => On(list[i], b) = Mapped(b)
  BY <1>1 DEF Truthful, Covers
<1>4. \A b : On(list[i], b) = <<list[i].p + (b - list[i].l)>>
  BY <1>1 DEF On
<1>5. list[i].l \in Nat /\ list[i].n \in Nat \ {0} /\ list[i].p \in Nat
  BY <1>1, <1>2, Numbers
<1>6. QED
  BY <1>1, <1>2, <1>3, <1>4, <1>5 DEF End

\* A block that is on the disk is one of an allocated extent.
LEMMA MappedAllocated ==
  ASSUME IInv, Truthful(list), \A b \in Nat : Holders(b) # {} => Covered(list, b),
         NEW b \in Nat, Mapped(b) # <<>>
  PROVE  \E i \in Allocated : list[i].l <= b /\ b < End(list[i])
<1>1. Holders(b) # {}
  BY NothingThere
<1>2. PICK i \in DOMAIN list : Covers(list[i], b)
  BY <1>1 DEF Covered
<1>3. On(list[i], b) # <<>>
  BY <1>2 DEF Truthful
<1>4. ~list[i].sparse
  BY <1>3 DEF On
<1>5. list[i] \in ExtentType
  BY LenProperties, ElementOfSeq DEF IInv, ListInv
<1>6. list[i].l <= b /\ b < End(list[i]) /\ list[i].n # 0
  BY <1>2, <1>5, Numbers DEF Covers, End
<1>7. QED
  BY <1>4, <1>6 DEF Allocated

\* The extent before.
LEMMA PrevIs ==
  ASSUME IInv, NEW i \in Turns
  PROVE  \E k \in Allocated : /\ k < i /\ Prev(i) = list[k] /\ End(list[k]) <= list[i].l
                             /\ \A j \in Allocated : j < i => j <= k
<1>1. list \in Seq(ExtentType) /\ Disjoint(list)
  BY DEF IInv, ListInv
<1>2. /\ Earlier(i) # {} /\ i \in Allocated
      /\ \A j \in Earlier(i) : j \in Allocated /\ j < i /\ \A x \in Allocated : x < i => x \in Earlier(i)
  BY DEF Turns, Earlier
<1>3. Len(list) \in Nat /\ DOMAIN list = 1 .. Len(list) /\ Allocated \subseteq DOMAIN list
  BY <1>1, LenProperties DEF Allocated
<1>4. Max(Earlier(i)) \in Earlier(i) /\ \A j \in Earlier(i) : j <= Max(Earlier(i))
  BY <1>2, <1>3, Greatest
<1>5. PICK k \in Earlier(i) : k = Max(Earlier(i))
  BY <1>4
<1>6. k \in Allocated /\ k < i /\ Prev(i) = list[k] /\ \A j \in Allocated : j < i => j <= k
  BY <1>2, <1>4, <1>5 DEF Prev
<1>7. End(list[k]) <= list[i].l
  BY <1>1, <1>2, <1>3, <1>6, Ordered
<1>8. QED
  BY <1>6, <1>7

\* The extents that begin a run.
Starts == Allocated \ {i \in Turns : Continues(Prev(i), list[i])}

LEMMA StartsFinite == ASSUME IInv PROVE IsFiniteSet(Starts)
<1>1. Len(list) \in Nat /\ Starts \subseteq 1 .. Len(list)
  BY LenProperties DEF Starts, Allocated, IInv, ListInv
<1>2. IsFiniteSet(1 .. Len(list))
  BY <1>1, FS_Interval
<1>3. QED
  BY <1>1, <1>2, FS_Subset

LEMMA RunsAreStarts == ASSUME IInv PROVE PhysicalFragmentRuns = Cardinality(Starts)
<1>1. Allocated \subseteq Nat
  BY LenProperties DEF Allocated, IInv, ListInv
<1>2. CASE Allocated = {}
  <2>1. Starts = {}
    BY <1>2 DEF Starts
  <2>2. QED
    BY <1>2, <2>1, FS_EmptySet DEF PhysicalFragmentRuns
<1>3. CASE Allocated # {}
  <2>1. PICK m \in Allocated : \A k \in Allocated : m <= k
    BY <1>1, <1>3, Least
  <2>2. \A i \in Allocated : i \in Turns <=> i # m
    <3>0. \A i \in Allocated : (m < i <=> i # m) /\ ~(i < m)
      BY <1>1, <2>1
    <3>1. \A i \in Allocated : i # m => m \in Earlier(i)
      BY <3>0 DEF Earlier
    <3>2. Earlier(m) = {}
      BY <3>0 DEF Earlier
    <3>3. QED
      BY <3>1, <3>2 DEF Turns
  <2> DEFINE T == {i \in Turns : ~Continues(Prev(i), list[i])}
  <2>3. Turns \subseteq Allocated
    BY DEF Turns
  <2>4. Starts = T \cup {m} /\ m \notin T
    BY <2>1, <2>2, <2>3 DEF Starts
  <2>5. IsFiniteSet(T)
    BY <2>4, StartsFinite, FS_Subset
  <2>6. Cardinality(T \cup {m}) = Cardinality(T) + 1 /\ Cardinality(T) \in Nat
    BY <2>4, <2>5, FS_AddElement, FS_CardinalityType
  <2>7. QED
    BY <1>3, <2>4, <2>6 DEF PhysicalFragmentRuns
<1>4. QED
  BY <1>2, <1>3

\* One block further.
LEMMA Onward ==
  ASSUME NEW p \in Nat, NEW c \in Nat, NEW l \in Nat
  PROVE  p + (c - l) = p + (c - 1 - l) + 1
OBVIOUS

LEMMA StartsBegin ==
  ASSUME IInv, Truthful(list), \A b \in Nat : Holders(b) # {} => Covered(list, b), NEW i \in Starts
  PROVE  list[i].l \in Extension /\ BeginsRun(list[i].l)
<1> DEFINE b == list[i].l
<1>1. i \in Allocated /\ (i \in Turns => ~Continues(Prev(i), list[i]))
  BY DEF Starts
<1>2. /\ i \in DOMAIN list /\ i \in Nat /\ b \in Nat /\ list[i].n \in Nat \ {0} /\ list[i].p \in Nat
      /\ End(list[i]) = b + list[i].n
      /\ \A c \in Nat : b <= c /\ c < End(list[i]) => Mapped(c) = <<list[i].p + (c - b)>>
  BY <1>1, AllocatedMaps
<1>3. Mapped(b) = <<list[i].p>>
  <2>1. b <= b /\ b < End(list[i]) /\ list[i].p + (b - b) = list[i].p
    BY <1>2
  <2>2. QED
    BY <1>2, <2>1
<1>4. Mapped(b)[1] = list[i].p /\ Mapped(b) # <<>>
  BY <1>3, Pair
<1>5. b \in Extension
  BY <1>2, <1>4, NothingThere, HeldInside
<1>6. ASSUME b > 0, Mapped(b - 1) # <<>>, Mapped(b)[1] = Mapped(b - 1)[1] + 1 PROVE FALSE
  <2>1. b - 1 \in Nat
    BY <1>2, <1>6
  <2>2. PICK j \in Allocated : list[j].l <= b - 1 /\ b - 1 < End(list[j])
    BY <1>6, <2>1, MappedAllocated
  <2>3. /\ j \in DOMAIN list /\ j \in Nat /\ list[j].l \in Nat /\ list[j].n \in Nat \ {0} /\ list[j].p \in Nat
        /\ End(list[j]) = list[j].l + list[j].n
        /\ \A c \in Nat : list[j].l <= c /\ c < End(list[j]) => Mapped(c) = <<list[j].p + (c - list[j].l)>>
    BY AllocatedMaps
  <2>4. list \in Seq(ExtentType) /\ Disjoint(list)
    BY DEF IInv, ListInv
  <2>5. j < i
    <3>1. j # i
      BY <1>2, <2>1, <2>2
    <3>2. ~(i < j)
      <4>1. i < j => b < list[j].l
        BY <1>2, <2>3, <2>4, Ordered
      <4>2. QED
        BY <1>2, <2>2, <2>3, <4>1
    <3>3. QED
      BY <1>2, <2>3, <3>1, <3>2
  <2>6. End(list[j]) = b
    <3>1. End(list[j]) <= b
      BY <1>2, <2>3, <2>4, <2>5, Ordered
    <3>2. QED
      BY <1>2, <2>2, <2>3, <3>1
  <2>7. i \in Turns
    BY <1>1, <2>5 DEF Turns, Earlier
  <2>8. PICK k \in Allocated : k < i /\ Prev(i) = list[k] /\ End(list[k]) <= b /\ \A x \in Allocated : x < i => x <= k
    BY <2>7, PrevIs
  <2>9. k = j
    <3>1. k \in DOMAIN list /\ k \in Nat /\ j <= k /\ list[k].n \in Nat \ {0} /\ End(list[k]) = list[k].l + list[k].n
          /\ list[k].l \in Nat
      BY <2>5, <2>8, AllocatedMaps
    <3>2. j < k => End(list[j]) <= list[k].l
      BY <2>3, <2>4, <3>1, Ordered
    <3>3. ~(b <= list[k].l)
      <4>1. list[k].l + list[k].n <= b
        BY <2>8, <3>1
      <4>2. QED
        BY <1>2, <3>1, <4>1
    <3>4. QED
      BY <2>3, <2>6, <3>1, <3>2, <3>3
  <2>10. Mapped(b - 1) = <<list[j].p + (b - 1 - list[j].l)>>
    BY <2>1, <2>2, <2>3
  <2>11. Mapped(b - 1)[1] = list[j].p + (b - 1 - list[j].l)
    BY <2>10, Pair
  <2>12. list[i].p = list[j].p + list[j].n
    <3>1. list[i].p = list[j].p + (b - 1 - list[j].l) + 1
      BY <1>4, <1>6, <2>11
    <3>2. QED
      BY <1>2, <2>3, <2>6, <3>1
  <2>13. Continues(Prev(i), list[i])
    BY <2>6, <2>8, <2>9, <2>12 DEF Continues
  <2>14. QED
    BY <1>1, <2>7, <2>13
<1>7. QED
  BY <1>4, <1>5, <1>6 DEF BeginsRun

LEMMA BeginsStart ==
  ASSUME IInv, Truthful(list), \A b \in Nat : Holders(b) # {} => Covered(list, b),
         NEW c \in Extension, BeginsRun(c)
  PROVE  \E i \in Starts : list[i].l = c
<1>1. c \in Nat /\ Mapped(c) # <<>> /\ (c > 0 /\ Mapped(c - 1) # <<>> => Mapped(c)[1] # Mapped(c - 1)[1] + 1)
  BY ExtensionNat DEF BeginsRun
<1>2. PICK i \in Allocated : list[i].l <= c /\ c < End(list[i])
  BY <1>1, MappedAllocated
<1>3. /\ list[i].l \in Nat /\ list[i].n \in Nat \ {0} /\ list[i].p \in Nat /\ End(list[i]) = list[i].l + list[i].n
      /\ \A b \in Nat : list[i].l <= b /\ b < End(list[i]) => Mapped(b) = <<list[i].p + (b - list[i].l)>>
  BY AllocatedMaps
<1>4. Mapped(c) = <<list[i].p + (c - list[i].l)>>
  BY <1>1, <1>2, <1>3
<1>5. Mapped(c)[1] = list[i].p + (c - list[i].l)
  BY <1>4, Pair
<1>6. list[i].l = c
  <2>1. SUFFICES ASSUME list[i].l < c PROVE FALSE
    BY <1>1, <1>2, <1>3
  <2>2. c - 1 \in Nat /\ c > 0 /\ list[i].l <= c - 1 /\ c - 1 < End(list[i])
    BY <1>1, <1>2, <1>3, <2>1
  <2>3. Mapped(c - 1) = <<list[i].p + (c - 1 - list[i].l)>>
    BY <1>3, <2>2
  <2>4. Mapped(c - 1)[1] = list[i].p + (c - 1 - list[i].l) /\ Mapped(c - 1) # <<>>
    BY <2>3, Pair
  <2>5. list[i].p + (c - list[i].l) = list[i].p + (c - 1 - list[i].l) + 1
    BY <1>1, <1>3, Onward
  <2>6. QED
    BY <1>1, <1>5, <2>2, <2>4, <2>5
<1>7. ASSUME i \in Turns, Continues(Prev(i), list[i]) PROVE FALSE
  <2>1. PICK k \in Allocated : Prev(i) = list[k]
    BY <1>7, PrevIs
  <2>2. /\ list[k].l \in Nat /\ list[k].n \in Nat \ {0} /\ list[k].p \in Nat /\ End(list[k]) = list[k].l + list[k].n
        /\ \A b \in Nat : list[k].l <= b /\ b < End(list[k]) => Mapped(b) = <<list[k].p + (b - list[k].l)>>
    BY AllocatedMaps
  <2>3. c = End(list[k]) /\ list[i].p = list[k].p + list[k].n
    BY <1>6, <1>7, <2>1 DEF Continues
  <2>4. c - 1 \in Nat /\ c > 0 /\ list[k].l <= c - 1 /\ c - 1 < End(list[k])
    BY <2>2, <2>3
  <2>5. Mapped(c - 1) = <<list[k].p + (c - 1 - list[k].l)>>
    BY <2>2, <2>4
  <2>6. Mapped(c - 1)[1] = list[k].p + (c - 1 - list[k].l) /\ Mapped(c - 1) # <<>>
    BY <2>5, Pair
  <2>7. list[k].p + (c - 1 - list[k].l) + 1 = list[i].p + (c - list[i].l)
    <3>1. list[k].p + (c - list[k].l) = list[k].p + (c - 1 - list[k].l) + 1
      BY <1>1, <2>2, Onward
    <3>2. c - list[k].l = list[k].n
      BY <2>2, <2>3
    <3>3. list[i].p + (c - list[i].l) = list[i].p
      BY <1>1, <1>3, <1>6
    <3>4. QED
      BY <2>3, <3>1, <3>2, <3>3
  <2>8. QED
    BY <1>1, <1>5, <2>4, <2>6, <2>7
<1>8. QED
  BY <1>6, <1>7 DEF Starts

LEMMA RunsCounted ==
  ASSUME IInv, Truthful(list), \A b \in Nat : Holders(b) # {} => Covered(list, b)
  PROVE  PhysicalFragmentRuns = Cardinality({b \in Extension : BeginsRun(b)})
<1> DEFINE B == {b \in Extension : BeginsRun(b)}
           f == [i \in Starts |-> list[i].l]
<1>1. \A i \in Starts : f[i] \in B
  BY StartsBegin
<1>2. \A b \in B : \E i \in Starts : f[i] = b
  BY BeginsStart
<1>3. ASSUME NEW i \in Starts, NEW j \in Starts, f[i] = f[j] PROVE i = j
  <2>1. list \in Seq(ExtentType) /\ Disjoint(list)
    BY DEF IInv, ListInv
  <2>2. i \in Allocated /\ j \in Allocated
    BY DEF Starts
  <2>3. i \in DOMAIN list /\ j \in DOMAIN list /\ i \in Nat /\ j \in Nat /\ list[i].l \in Nat /\ list[j].l \in Nat
    BY <2>2, AllocatedMaps
  <2>4. list[i].l = list[j].l
    BY <1>3
  <2>5. ~(i < j) /\ ~(j < i)
    BY <2>1, <2>3, <2>4, Ordered
  <2>6. QED
    BY <2>3, <2>5
<1>4. f \in [Starts -> B]
  BY <1>1
<1> HIDE DEF B, f
<1>5. f \in Bijection(Starts, B)
  BY <1>2, <1>3, <1>4 DEF Bijection, Injection, Surjection, IsInjective
<1>6. ExistsBijection(Starts, B)
  BY <1>5 DEF ExistsBijection
<1>7. Cardinality(B) = Cardinality(Starts)
  BY <1>6, StartsFinite, FS_Bijection
<1>8. QED
  BY <1>7, RunsAreStarts DEF B

LEMMA HolesFound ==
  ASSUME IInv, Truthful(list), Inner(list), \A b \in Extension : Covered(list, b)
  PROVE  HasLogicalHoles <=> \E b \in Extension : Mapped(b) = <<>>
<1>1. /\ list \in Seq(ExtentType) /\ Disjoint(list)
      /\ \A m \in DOMAIN list : list[m] \in ExtentType /\ m \in Nat
  BY LenProperties, ElementOfSeq DEF IInv, ListInv
<1>2. \A m \in DOMAIN list : /\ list[m].l \in Nat /\ list[m].n \in Nat /\ End(list[m]) = list[m].l + list[m].n
                             /\ list[m].n # 0 => Covers(list[m], list[m].l)
  <2>1. ASSUME NEW m \in DOMAIN list PROVE list[m].l \in Nat /\ list[m].n \in Nat /\ End(list[m]) = list[m].l + list[m].n
    BY <1>1, Numbers DEF End
  <2>2. ASSUME NEW m \in DOMAIN list, list[m].n # 0 PROVE Covers(list[m], list[m].l)
    BY <2>1, <2>2 DEF Covers
  <2>3. QED
    BY <2>1, <2>2
<1>3. \A m \in DOMAIN list : list[m].n # 0 => list[m].l \in Extension
  BY <1>2 DEF Inner, Covered
<1>4. \A m \in DOMAIN list : \A b \in Nat : Covers(list[m], b) => On(list[m], b) = Mapped(b)
  BY DEF Truthful
<1>5. \A m \in DOMAIN list : \A b \in Nat : Covers(list[m], b) => list[m].n # 0 /\ list[m].l <= b /\ b < End(list[m])
  <2>1. ASSUME NEW m \in DOMAIN list, NEW b \in Nat, Covers(list[m], b)
        PROVE  list[m].n # 0 /\ list[m].l <= b /\ b < End(list[m])
    BY <1>2, <2>1 DEF Covers
  <2>2. QED
    BY <2>1
<1>6. ASSUME NEW i \in SparseRuns PROVE \E b \in Extension : Mapped(b) = <<>>
  <2>1. i \in DOMAIN list /\ list[i].n # 0 /\ list[i].sparse
    BY DEF SparseRuns
  <2>2. On(list[i], list[i].l) = <<>>
    BY <2>1 DEF On
  <2>3. Mapped(list[i].l) = <<>>
    BY <1>2, <1>4, <2>1, <2>2
  <2>4. QED
    BY <1>3, <2>1, <2>3
<1>7. ASSUME NEW i \in Turns, list[i].l > End(Prev(i)) PROVE \E b \in Extension : Mapped(b) = <<>>
  <2>1. PICK k \in Allocated : k < i /\ Prev(i) = list[k] /\ \A j \in Allocated : j < i => j <= k
    BY PrevIs
  <2>2. i \in DOMAIN list /\ list[i].n # 0 /\ k \in DOMAIN list
    BY <2>1 DEF Turns, Allocated
  <2>3. PICK b \in Nat : b = End(list[k])
    BY <1>2, <2>2
  <2>4. b < list[i].l /\ list[i].l \in Nat
    BY <1>2, <1>7, <2>1, <2>2, <2>3
  <2>5. b \in Extension
    BY <1>3, <2>2, <2>4, ExtensionDown
  <2>6. PICK m \in DOMAIN list : Covers(list[m], b)
    BY <2>5 DEF Covered
  <2>7. list[m].n # 0 /\ list[m].l <= b /\ b < End(list[m]) /\ list[m].l \in Nat /\ End(list[m]) \in Nat
    BY <1>2, <1>5, <2>6
  <2>8. ~(i < m) /\ m # i
    <3>1. i < m => list[i].l < list[m].l
      BY <1>1, <2>2, Ordered
    <3>2. QED
      BY <2>4, <2>7, <3>1
  <2>9. m < i
    BY <1>1, <2>2, <2>8
  <2>10. CASE list[m].sparse
    <3>1. On(list[m], b) = <<>>
      BY <2>10 DEF On
    <3>2. QED
      BY <1>4, <2>5, <2>6, <3>1
  <2>11. CASE ~list[m].sparse
    <3>1. m <= k
      BY <2>1, <2>7, <2>9, <2>11 DEF Allocated
    <3>2. m # k
      BY <2>3, <2>7
    <3>3. End(list[m]) <= list[k].l
      <4>1. m < k
        BY <1>1, <2>2, <3>1, <3>2
      <4>2. QED
        BY <1>1, <2>2, <4>1, Ordered
    <3>4. list[k].l <= b
      <4>1. list[k].l \in Nat /\ list[k].n \in Nat /\ b = list[k].l + list[k].n
        BY <1>2, <2>2, <2>3
      <4>2. QED
        BY <4>1
    <3>5. list[k].l \in Nat
      BY <1>2, <2>2
    <3>6. QED
      BY <2>7, <3>3, <3>4, <3>5
  <2>12. QED
    BY <2>10, <2>11
<1>8. ASSUME NEW b \in Extension, Mapped(b) = <<>> PROVE SparseRuns # {}
  <2>1. b \in Nat
    BY ExtensionNat
  <2>2. PICK m \in DOMAIN list : Covers(list[m], b)
    BY DEF Covered
  <2>3. On(list[m], b) = <<>> /\ list[m].n # 0
    BY <1>4, <1>5, <1>8, <2>1, <2>2
  <2>4. list[m].sparse
    BY <2>3, Pair DEF On
  <2>5. QED
    BY <2>3, <2>4 DEF SparseRuns
<1>9. QED
  BY <1>6, <1>7, <1>8 DEF HasLogicalHoles

\* AnalyzeInodeFragmentation: for any records, it counts the runs that the blocks of the
\* fork lie in on the disk; and in a file, no gap of which is too long for a count of
\* blocks, it finds a hole if and only if a block of the file reads as zeros.
THEOREM ReportDescribesLayout == Spec => []LayoutDescribed
<1>1. Spec => [](IInv /\ MapInv /\ CoverInv)
  BY InitInv, StepInv, MapInit, MapStep, CoverInit, CoverStep, PTL DEF Spec
<1>2. IInv /\ MapInv /\ CoverInv => LayoutDescribed
  <2>1. SUFFICES ASSUME IInv, MapInv, CoverInv, pc = "idle", IsOpen, NoneAtZero
                 PROVE  /\ PhysicalFragmentRuns = Cardinality({b \in Extension : BeginsRun(b)})
                        /\ addSparse /\ NarrowGaps /\ ~NoRecords =>
                             (HasLogicalHoles <=> \E b \in Extension : Mapped(b) = <<>>)
    BY DEF LayoutDescribed, NoRecords
  <2>2. Truthful(list) /\ \A b \in Nat : Holders(b) # {} => Covered(list, b)
    BY <2>1 DEF MapInv
  <2>3. Inner(list) /\ (addSparse /\ NarrowGaps /\ ~NoRecords => \A b \in Extension : Covered(list, b))
    BY <2>1 DEF CoverInv
  <2>4. QED
    BY <2>1, <2>2, <2>3, RunsCounted, HolesFound
<1>3. QED
  BY <1>1, <1>2, PTL
===============================================================================
