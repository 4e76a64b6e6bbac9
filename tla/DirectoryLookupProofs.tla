------------------------- MODULE DirectoryLookupProofs ------------------------
(***************************************************************************)
(* How a name and a path are looked up.                                    *)
(*                                                                         *)
(* Why a damaged or altered hash index (DirectoryIndex) cannot mislead a   *)
(* lookup more than VerifyDirectoryIndex tells: for indexes and directories*)
(* of any size, and whatever the collection of the index entries brought.  *)
(*                                                                         *)
(* Why a path (PathResolve) leads to its inode or to an error, however much*)
(* of the directories on the way is lost: for trees and paths of any size, *)
(* and a Close at any step.                                                *)
(***************************************************************************)
EXTENDS DirectoryIndex, PathResolve, SequenceLemmas, FiniteSetTheorems, SequenceTheorems, TLAPS

(* DirectoryIndex *)

\* An index entry that is a hit for the name: nothing but the name at its address is
\* looked at.
Hit(e) == e \in Indexed /\ Decodes(e.address) /\ Matches(e.address)

\* An answer is the walk's, or that of a hit, which only an index that was read to its
\* end can give.
IInv ==
  /\ call \in Calls /\ DOMAIN data \subseteq Nat
  /\ pc # "done" => answer = NoAnswer
  /\ pc \in {"candidates", "walk"} => call.op = "lookup"
  /\ pc = "candidates" => readable
  /\ pc = "done" /\ call.op = "lookup" =>
       \/ answer = WalkAnswer(call.name)
       \/ readable /\ \E e \in Indexed : Hit(e) /\ answer = [by |-> "index", ino |-> e.address]
  /\ pc = "done" /\ call.op = "verify" => answer \in {[by |-> "error"], Report}

-------------------------------------------------------------------------------
LEMMA InitInv == Init => IInv
  BY AddressAssumption DEF Init, IInv

LEMMA StepInv == IInv /\ [Next]_vars => IInv'
<1> SUFFICES ASSUME IInv, [Next]_vars PROVE IInv'
  OBVIOUS
<1>1. CASE UNCHANGED vars
  BY <1>1 DEF vars, input, collection, IInv, Hit, Indexed, Decodes, Matches, Entry, WalkAnswer,
              Listed, ListFails, Report, Scanned, HashIndexed, IsIndexed, Dangling
<1>2. ASSUME UNCHANGED <<input, answer>>, pc # "done", pc' \notin {"done", "candidates", "walk"}
      PROVE  IInv'
  BY <1>2 DEF IInv, input
<1>3. CASE OpenIndex \/ TakeNode \/ SkipChild \/ ReadChild \/ CollectEnds
  BY <1>2, <1>3 DEF OpenIndex, TakeNode, SkipChild, ReadChild, CollectEnds, Collected,
                    CollectFails, input
<1>4. CASE Search \/ NoCandidate \/ NextCandidate
  BY <1>4 DEF Search, NoCandidate, GiveUp, NextCandidate, IInv, input, collection
<1>5. CASE FoundByHash
  <2>1. /\ pc = "candidates" /\ pc' = "done" /\ UNCHANGED <<input, collection>>
        /\ readable /\ call.op = "lookup"
    BY <1>5 DEF FoundByHash, IInv
  <2>2. PICK e \in Indexed : Hit(e) /\ answer' = [by |-> "index", ino |-> e.address]
    BY <1>5 DEF FoundByHash, IsCandidate, Hit, Indexed, ToSet, Entry
  <2>3. Hit(e)' /\ e \in Indexed'
    BY <2>1, <2>2 DEF Hit, Indexed, Decodes, Matches, Entry, input, collection
  <2>4. QED
    BY <2>1, <2>2, <2>3 DEF IInv, input, collection
<1>6. CASE Walk
  <2>1. call.op = "lookup" => answer' = WalkAnswer(call.name)'
    BY <1>6 DEF Walk, WalkAnswer, Listed, ListFails, input
  <2>2. QED
    BY <1>6, <2>1 DEF Walk, IInv, input
<1>7. CASE Verify
  BY <1>7 DEF Verify, IInv, Report, Indexed, Scanned, HashIndexed, IsIndexed, Dangling, input,
              collection
<1>8. QED
  BY <1>1, <1>3, <1>4, <1>5, <1>6, <1>7 DEF Next, Step

LEMMA Invariance == Spec => []IInv
<1>1. QED
  BY InitInv, StepInv, PTL DEF Spec

\* "An optimisation must never reduce recall on a damaged image": what lookupDirectoryEntryByHash
\* does with an index of any content, a name that the walk of lookupDirectoryEntry finds is
\* found.
THEOREM NothingHidden == Spec => []IndexHidesNothing
<1>1. ASSUME IInv PROVE IndexHidesNothing
  BY <1>1 DEF IInv, IndexHidesNothing, LookupDone, Found
<1>2. QED
  BY <1>1, Invariance, PTL

\* A hit of an index that VerifyDirectoryIndex has no complaint about is an entry of the
\* directory, and its names being unique the one that the walk finds.
LEMMA HitIsListed ==
  ASSUME NEW e \in Indexed, Hit(e), Undamaged, NamesUnique, Dangling = {},
         call.name \notin DotNames, DOMAIN data \subseteq Nat
  PROVE  WalkAnswer(call.name) = [by |-> "walk", ino |-> e.address]
<1> DEFINE found == {a \in Listed : data[a].name = call.name}
<1>1. e.address \in Scanned
  BY DEF Dangling
<1>2. e.address \in Listed /\ data[e.address].name = call.name
  BY <1>1 DEF Hit, Matches, Entry, Scanned, Listed, Undamaged
<1>3. found = {e.address}
  BY <1>2 DEF NamesUnique, Listed
<1>4. e.address \in Nat
  BY <1>1 DEF Scanned
<1>5. (CHOOSE a \in found : \A b \in found : a <= b) = e.address
  BY <1>3, <1>4
<1>6. QED
  BY <1>3, <1>5 DEF WalkAnswer

\* An altered index is harmless or reported: on an undamaged directory, for whose index
\* VerifyDirectoryIndex reports nothing, the lookup of a name through it and the walk agree.
THEOREM SilentIndexAgrees == Spec => []ConsistentMeansAgree
<1>1. ASSUME IInv PROVE ConsistentMeansAgree
  <2> SUFFICES ASSUME LookupDone, Undamaged, NamesUnique, Consistent(Report), call.name \notin DotNames
               PROVE  \/ Found /\ WalkAnswer(call.name).by = "walk" /\ answer.ino = WalkAnswer(call.name).ino
                      \/ answer = WalkAnswer(call.name)
    BY DEF ConsistentMeansAgree
  <2>1. ASSUME readable,
               NEW e \in Indexed, Hit(e), answer = [by |-> "index", ino |-> e.address]
        PROVE  Found /\ WalkAnswer(call.name).by = "walk" /\ answer.ino = WalkAnswer(call.name).ino
    <3>1. Dangling = {}
      BY <2>1 DEF Consistent, Report
    <3>2. WalkAnswer(call.name) = [by |-> "walk", ino |-> e.address]
      BY <1>1, <2>1, <3>1, HitIsListed DEF IInv
    <3>3. QED
      BY <2>1, <3>2 DEF Found
  <2>2. QED
    BY <1>1, <2>1 DEF IInv, LookupDone
<1>2. QED
  BY <1>1, Invariance, PTL

\* Entries that the walk skips, the dot entries, are not taken for tampering: an index of
\* exactly the entries that are there has nothing reported of it.
THEOREM NoFalseAlarm == Spec => []IntactIsConsistent
<1>1. ASSUME IInv PROVE IntactIsConsistent
  <2> SUFFICES ASSUME pc = "done", answer.by = "report", readable,
                      Indexed = {[hash |-> Hash[data[a].name], address |-> a] : a \in Scanned}
               PROVE  Consistent(answer)
    BY DEF IntactIsConsistent
  <2>1. answer = Report
    BY <1>1 DEF IInv, Calls, WalkAnswer
  <2>2. \A a \in Scanned : HashIndexed(a) /\ IsIndexed(a)
    BY DEF HashIndexed, IsIndexed
  <2>3. Dangling = {}
    BY DEF Dangling
  <2>4. QED
    BY <2>1, <2>2, <2>3 DEF Report, Consistent
<1>2. QED
  BY <1>1, Invariance, PTL

-------------------------------------------------------------------------------
(* The collection *)

Shape ==
  /\ Root \in DOMAIN tree /\ IsFiniteSet(DOMAIN tree)
  /\ \A b \in DOMAIN tree :
       /\ tree[b].kind \in {"leaf", "node", "unmapped", "bad"}
       /\ tree[b].kind = "node" => tree[b].children \in Seq(DOMAIN tree)

IsIndexBlock(b) == tree[b].kind \in {"leaf", "node"}

\* What has been read is of the tree, and what is pointed at from there has been read, or
\* is to come: from a block that waits, or as a child of the current one.
WalkInv ==
  /\ pending \in Seq(DOMAIN tree) /\ children \in Seq(DOMAIN tree)
  /\ ToSet(pending) \subseteq visited \cup {Root} /\ ToSet(children) \subseteq Targets
  /\ visited \subseteq Targets /\ \A b \in visited \cup {Root} : IsIndexBlock(b)
  /\ blocksRead = Cardinality(visited) /\ blocksRead <= MaxLeafBlocks
  /\ \A b \in visited \cup {Root} :
       b \in ToSet(pending) \/ Children(b) \subseteq visited \cup ToSet(children)
  /\ \A b \in ToSet(pending) : tree[b].kind = "node"

CollectInv ==
  /\ Shape
  /\ pc = "open" => /\ visited = {} /\ blocksRead = 0 /\ children = <<>> /\ readable
  /\ pc = "collect" => readable /\ WalkInv
  /\ ReadableUnlessDamaged

LEMMA Sets ==
  ASSUME NEW S, NEW s \in Seq(S)
  PROVE  /\ ToSet(s) \subseteq S /\ Len(s) \in Nat /\ DOMAIN s = 1 .. Len(s)
         /\ s = <<>> => ToSet(s) = {}
         /\ s # <<>> => /\ Head(s) \in ToSet(s) /\ Tail(s) \in Seq(S)
                        /\ ToSet(s) = {Head(s)} \cup ToSet(Tail(s))
<1>1. s \in [1 .. Len(s) -> S] /\ Len(s) \in Nat /\ DOMAIN s = 1 .. Len(s)
  BY LenProperties
<1>2. ToSet(s) \subseteq S
  BY <1>1 DEF ToSet
<1>3. ASSUME s = <<>> PROVE ToSet(s) = {}
  BY <1>1, <1>3, EmptySeq DEF ToSet
<1>4. ASSUME s # <<>>
      PROVE  /\ Head(s) \in ToSet(s) /\ Tail(s) \in Seq(S)
             /\ ToSet(s) = {Head(s)} \cup ToSet(Tail(s))
  <2> DEFINE t == Tail(s)
  <2>1. /\ t \in Seq(S) /\ Len(t) = Len(s) - 1 /\ \A k \in 1 .. Len(t) : t[k] = s[k + 1]
        /\ Len(s) \in Nat \ {0} /\ DOMAIN t = 1 .. Len(t) /\ Head(s) = s[1]
    BY <1>4, HeadTailProperties, EmptySeq, LenProperties
  <2> HIDE DEF t
  <2>2. ToSet(t) \subseteq ToSet(s) /\ Head(s) \in ToSet(s)
    <3>1. \A k \in DOMAIN t : k + 1 \in DOMAIN s /\ t[k] = s[k + 1]
      BY <1>1, <2>1
    <3>2. Head(s) = s[1] /\ 1 \in DOMAIN s
      BY <1>1, <2>1
    <3>3. QED
      BY <3>1, <3>2 DEF ToSet
  <2>3. ASSUME NEW k \in DOMAIN s PROVE s[k] \in {Head(s)} \cup ToSet(t)
    <3>1. CASE k = 1
      BY <2>1, <3>1
    <3>2. CASE k # 1
      <4>1. k - 1 \in 1 .. Len(t) /\ t[k - 1] = s[k]
        BY <1>1, <2>1, <2>3, <3>2
      <4>2. QED
        BY <2>1, <4>1 DEF ToSet
    <3>3. QED
      BY <3>1, <3>2
  <2>4. ToSet(s) \subseteq {Head(s)} \cup ToSet(t)
    BY <2>3 DEF ToSet
  <2>5. QED
    BY <2>1, <2>2, <2>4 DEF t
<1>5. QED
  BY <1>1, <1>2, <1>3, <1>4

LEMMA SetOfAppended ==
  ASSUME NEW S, NEW s \in Seq(S), NEW e \in S
  PROVE  Append(s, e) \in Seq(S) /\ ToSet(Append(s, e)) = ToSet(s) \cup {e}
<1> DEFINE t == Append(s, e)
<1>1. /\ t \in Seq(S) /\ Len(t) = Len(s) + 1 /\ t[Len(s) + 1] = e
      /\ \A i \in 1 .. Len(s) : t[i] = s[i]
      /\ DOMAIN t = 1 .. Len(s) + 1 /\ DOMAIN s = 1 .. Len(s) /\ Len(s) \in Nat
  BY AppendProperties, LenProperties
<1> HIDE DEF t
<1>2. ToSet(s) \subseteq ToSet(t) /\ e \in ToSet(t)
  BY <1>1 DEF ToSet
<1>3. \A i \in DOMAIN t : t[i] \in ToSet(s) \cup {e}
  BY <1>1 DEF ToSet
<1>4. ToSet(t) \subseteq ToSet(s) \cup {e}
  BY <1>3 DEF ToSet
<1>5. QED
  BY <1>1, <1>2, <1>4 DEF t

\* The targets are closed, and finitely many.
LEMMA TargetsClosed ==
  ASSUME Shape
  PROVE  /\ IsFiniteSet(Targets) /\ Cardinality(Targets) \in Nat /\ Targets \subseteq DOMAIN tree
         /\ Closed(Targets)
         /\ \A blocks \in SUBSET DOMAIN tree : Closed(blocks) => Targets \subseteq blocks
<1>1. Targets \subseteq DOMAIN tree
  BY DEF Targets
<1>2. \A b \in DOMAIN tree : Children(b) \subseteq DOMAIN tree
  BY Sets DEF Shape, Children
<1>3. ASSUME NEW b \in Targets \cup {Root}, NEW c \in Children(b) PROVE c \in Targets
  <2>1. c \in DOMAIN tree
    BY <1>1, <1>2, <1>3 DEF Shape
  <2>2. ASSUME NEW blocks \in SUBSET DOMAIN tree, Closed(blocks) PROVE c \in blocks
    <3>1. b \in blocks \cup {Root}
      BY <1>3, <2>2 DEF Targets
    <3>2. QED
      BY <1>3, <2>2, <3>1 DEF Closed
  <2>3. QED
    BY <2>1, <2>2 DEF Targets
<1>4. IsFiniteSet(Targets) /\ Cardinality(Targets) \in Nat
  BY <1>1, FS_Subset, FS_CardinalityType DEF Shape
<1>5. QED
  BY <1>1, <1>3, <1>4 DEF Closed, Targets

LEMMA LeafRoot == ASSUME Shape, tree[Root].kind # "node" PROVE Targets = {}
<1>1. Closed({})
  BY DEF Closed, Children
<1>2. QED
  BY <1>1, TargetsClosed

LEMMA InitCollect == Init => CollectInv
<1> SUFFICES ASSUME Init PROVE CollectInv
  OBVIOUS
<1>1. Shape
  BY BlockAssumption, TreeAssumption DEF Init, Shape
<1>2. QED
  BY <1>1 DEF Init, CollectInv, ReadableUnlessDamaged, CollectDone

\* The tree stays, and so does what is said of it.
LEMMA TreeStays ==
  ASSUME tree' = tree
  PROVE  /\ Targets' = Targets /\ (Shape => Shape')
         /\ \A b : Children(b)' = Children(b) /\ IsIndexBlock(b)' = IsIndexBlock(b)
  BY DEF Targets, Closed, Children, Shape, IsIndexBlock

LEMMA OpenStep == ASSUME CollectInv, OpenIndex PROVE CollectInv'
<1>1. /\ pc = "open" /\ visited = {} /\ blocksRead = 0 /\ children = <<>> /\ readable /\ Shape
      /\ UNCHANGED <<input, visited, blocksRead, children>> /\ tree' = tree
  BY DEF CollectInv, OpenIndex, CollectFails, input
<1>2. CASE tree[Root].kind \in {"unmapped", "bad"} /\ CollectFails
  <2>1. ReadableUnlessDamaged'
    BY <1>1, <1>2, TreeStays DEF CollectFails, ReadableUnlessDamaged, CollectDone
  <2>2. QED
    BY <1>1, <1>2, <2>1, TreeStays DEF CollectFails, CollectInv
<1>3. CASE tree[Root].kind = "leaf" /\ pc' = "use" /\ UNCHANGED readable
  <2>2. Targets = {}
    BY <1>1, <1>3, LeafRoot
  <2>3. Cardinality(Targets) <= MaxLeafBlocks
    BY <2>2, FS_EmptySet, BlockAssumption
  <2>4. ReadableUnlessDamaged'
    BY <1>1, <1>3, <2>2, <2>3, TreeStays DEF ReadableUnlessDamaged, CollectDone
  <2>5. QED
    BY <1>1, <1>3, <2>4, TreeStays DEF CollectInv
<1>4. CASE tree[Root].kind = "node" /\ pending' = <<Root>> /\ pc' = "collect" /\ UNCHANGED readable
  <2>1. pending' \in Seq(DOMAIN tree) /\ ToSet(pending') = {Root} /\ ToSet(children) = {} /\ children \in Seq(DOMAIN tree)
    <3>1. ToSet(<<Root>>) = {Root} /\ <<Root>> \in Seq(DOMAIN tree)
      BY <1>1 DEF Shape, ToSet
    <3>2. children \in Seq(DOMAIN tree)
      BY <1>1, EmptySeq
    <3>3. QED
      BY <1>1, <1>4, <3>1, <3>2, Sets
  <2>2. Cardinality(visited) = 0 /\ 0 <= MaxLeafBlocks
    BY <1>1, FS_EmptySet, BlockAssumption
  <2>3. ToSet(pending)' = {Root} /\ ToSet(children)' = {}
    BY <1>1, <2>1 DEF ToSet
  <2>4. WalkInv'
    BY <1>1, <1>4, <2>1, <2>2, <2>3, TreeStays DEF WalkInv, IsIndexBlock
  <2>5. QED
    BY <1>1, <1>4, <2>4, TreeStays DEF CollectInv, ReadableUnlessDamaged, CollectDone
<1>5. QED
  BY <1>1, <1>2, <1>3, <1>4 DEF OpenIndex

LEMMA TakeNodeStep == ASSUME CollectInv, TakeNode PROVE CollectInv'
<1> DEFINE b == Head(pending)
<1>1. /\ pc = "collect" /\ pc' = pc /\ children = <<>> /\ pending # <<>> /\ WalkInv /\ Shape /\ readable
      /\ children' = tree[b].children /\ pending' = Tail(pending)
      /\ UNCHANGED <<visited, blocksRead, readable>> /\ tree' = tree
  BY DEF CollectInv, TakeNode, Rest, input
<1>2. /\ ToSet(pending) = {b} \cup ToSet(pending') /\ pending' \in Seq(DOMAIN tree)
      /\ b \in ToSet(pending) /\ ToSet(children) = {}
  BY <1>1, Sets DEF WalkInv
<1>3. tree[b].kind = "node" /\ b \in visited \cup {Root} /\ b \in DOMAIN tree
  BY <1>1, <1>2, Sets DEF WalkInv
<1>4. children' \in Seq(DOMAIN tree) /\ ToSet(children') = Children(b)
  BY <1>1, <1>3 DEF Shape, Children
<1>5. Children(b) \subseteq Targets
  BY <1>1, <1>3, TargetsClosed DEF Closed, WalkInv
<1> HIDE DEF b
<1>6. ToSet(pending)' = ToSet(pending') /\ ToSet(children)' = ToSet(children')
  BY DEF ToSet
<1>7. WalkInv'
  BY <1>1, <1>2, <1>3, <1>4, <1>5, <1>6, TreeStays DEF WalkInv
<1>8. QED
  BY <1>1, <1>7, TreeStays DEF CollectInv, ReadableUnlessDamaged, CollectDone

LEMMA SkipChildStep == ASSUME CollectInv, SkipChild PROVE CollectInv'
<1>1. /\ pc = "collect" /\ pc' = pc /\ children # <<>> /\ Head(children) \in visited
      /\ WalkInv /\ Shape /\ readable
      /\ children' = Tail(children)
      /\ UNCHANGED <<pending, visited, blocksRead, readable>> /\ tree' = tree
  BY DEF CollectInv, SkipChild, input
<1>2. /\ ToSet(children) = {Head(children)} \cup ToSet(children') /\ children' \in Seq(DOMAIN tree)
  BY <1>1, Sets DEF WalkInv
<1>3. ToSet(pending)' = ToSet(pending) /\ ToSet(children)' = ToSet(children')
  BY <1>1 DEF ToSet
<1>4. WalkInv'
  BY <1>1, <1>2, <1>3, TreeStays DEF WalkInv
<1>5. QED
  BY <1>1, <1>4, TreeStays DEF CollectInv, ReadableUnlessDamaged, CollectDone

LEMMA ReadChildStep == ASSUME CollectInv, ReadChild PROVE CollectInv'
<1> DEFINE c == Head(children)
<1>1. /\ pc = "collect" /\ children # <<>> /\ c \notin visited /\ WalkInv /\ Shape /\ readable
      /\ tree' = tree
  BY DEF CollectInv, ReadChild, CollectFails, input
<1>2. /\ ToSet(children) = {c} \cup ToSet(Tail(children)) /\ Tail(children) \in Seq(DOMAIN tree)
      /\ c \in Targets /\ c \in DOMAIN tree
  BY <1>1, Sets DEF WalkInv
<1>3. /\ IsFiniteSet(visited \cup {c}) /\ Cardinality(visited \cup {c}) = blocksRead + 1
      /\ visited \cup {c} \subseteq Targets /\ Cardinality(visited \cup {c}) <= Cardinality(Targets)
      /\ blocksRead \in Nat /\ Cardinality(Targets) \in Nat
  <2>1. IsFiniteSet(Targets) /\ visited \subseteq Targets /\ Cardinality(Targets) \in Nat
    BY <1>1, TargetsClosed DEF WalkInv
  <2>2. IsFiniteSet(visited) /\ blocksRead = Cardinality(visited) /\ blocksRead \in Nat
    BY <1>1, <2>1, FS_Subset, FS_CardinalityType DEF WalkInv
  <2>3. IsFiniteSet(visited \cup {c}) /\ Cardinality(visited \cup {c}) = blocksRead + 1
    BY <1>1, <2>2, FS_AddElement
  <2>4. visited \cup {c} \in SUBSET Targets
    BY <1>2, <2>1
  <2>5. Cardinality(visited \cup {c}) <= Cardinality(Targets)
    BY <2>1, <2>4, FS_Subset
  <2>6. QED
    BY <2>1, <2>2, <2>3, <2>4, <2>5
<1>4. CASE CollectFails /\ (OverBudget \/ tree[c].kind \in {"unmapped", "bad"})
  <2>1. ~(/\ \A b \in Targets \cup {Root} : tree[b].kind \in {"leaf", "node"}
          /\ Cardinality(Targets) <= MaxLeafBlocks)
    BY <1>2, <1>3, <1>4, BlockAssumption DEF OverBudget
  <2>2. QED
    BY <1>1, <1>4, <2>1, TreeStays DEF CollectFails, CollectInv, ReadableUnlessDamaged,
       CollectDone
<1>5. CASE /\ ~OverBudget /\ tree[c].kind \notin {"unmapped", "bad"}
           /\ visited' = visited \cup {c} /\ blocksRead' = blocksRead + 1
           /\ children' = Tail(children) /\ UNCHANGED <<input, pc, readable, cursor, answer>>
           /\ IF tree[c].kind = "node" THEN pending' = Append(pending, c) ELSE UNCHANGED pending
  <2>1. tree[c].kind \in {"leaf", "node"}
    BY <1>1, <1>2, <1>5 DEF Shape
  <2> HIDE DEF c
  <2>2. /\ pending' \in Seq(DOMAIN tree)
        /\ ToSet(pending') = IF tree[c].kind = "node" THEN ToSet(pending) \cup {c} ELSE ToSet(pending)
    <3>1. pending \in Seq(DOMAIN tree)
      BY <1>1 DEF WalkInv
    <3>2. Append(pending, c) \in Seq(DOMAIN tree) /\ ToSet(Append(pending, c)) = ToSet(pending) \cup {c}
      BY <1>2, <3>1, SetOfAppended
    <3>3. CASE tree[c].kind = "node"
      <4>1. pending' = Append(pending, c)
        BY <1>5, <3>3
      <4>2. QED
        BY <3>2, <3>3, <4>1
    <3>4. CASE tree[c].kind # "node"
      <4>1. pending' = pending
        BY <1>5, <3>4
      <4>2. QED
        BY <3>1, <3>4, <4>1
    <3>5. QED
      BY <3>3, <3>4
  <2>3. tree[c].kind # "node" => Children(c) = {}
    BY DEF Children
  <2>4. ToSet(pending)' = ToSet(pending') /\ ToSet(children)' = ToSet(children')
    BY DEF ToSet
  <2>5. blocksRead' <= MaxLeafBlocks
    BY <1>3, <1>5, BlockAssumption DEF OverBudget
  <2>6. WalkInv'
    <3>1. ToSet(pending)' \subseteq visited' \cup {Root} /\ \A b \in ToSet(pending)' : tree[b].kind = "node"
      BY <1>1, <1>5, <2>2, <2>4 DEF WalkInv
    <3>2. \A b \in visited' \cup {Root} :
            IsIndexBlock(b) /\ (b \in ToSet(pending)' \/ Children(b) \subseteq visited' \cup ToSet(children)')
      BY <1>1, <1>2, <1>5, <2>1, <2>2, <2>3, <2>4 DEF WalkInv, IsIndexBlock
    <3>3. ToSet(children)' \subseteq Targets
      BY <1>1, <1>2, <1>5, <2>4 DEF WalkInv
    <3>4. QED
      BY <1>1, <1>2, <1>3, <1>5, <2>2, <2>5, <3>1, <3>2, <3>3, TreeStays DEF WalkInv
  <2>7. QED
    BY <1>1, <1>5, <2>6, TreeStays DEF CollectInv, ReadableUnlessDamaged, CollectDone
<1>6. QED
  BY <1>4, <1>5 DEF ReadChild, Seen

\* When nothing is to come, what has been read is closed: it is all that the root leads to.
LEMMA AllVisited ==
  ASSUME Shape, WalkInv, children = <<>>, pending = <<>>
  PROVE  visited = Targets
<1>1. ToSet(children) = {} /\ ToSet(pending) = {}
  BY Sets DEF WalkInv
<1>2. Closed(visited)
  BY <1>1 DEF WalkInv, Closed
<1>3. visited \in SUBSET DOMAIN tree
  BY TargetsClosed DEF WalkInv
<1>4. QED
  BY <1>2, <1>3, TargetsClosed DEF WalkInv

LEMMA CollectEndsStep == ASSUME CollectInv, CollectEnds PROVE CollectInv'
<1>1. /\ pc = "collect" /\ children = <<>> /\ pending = <<>> /\ WalkInv /\ Shape /\ readable
      /\ pc' = "use" /\ UNCHANGED <<readable, tree>>
  BY DEF CollectInv, CollectEnds, Collected, input, collection
<1>4. visited = Targets
  BY <1>1, AllVisited
<1>5. ReadableUnlessDamaged'
  BY <1>1, <1>4, TreeStays DEF WalkInv, ReadableUnlessDamaged, CollectDone, IsIndexBlock
<1>6. QED
  BY <1>1, <1>5, TreeStays DEF CollectInv

LEMMA CollectSteps == CollectInv /\ [Next]_vars => CollectInv'
<1> SUFFICES ASSUME CollectInv, [Next]_vars PROVE CollectInv'
  OBVIOUS
<1>1. CASE UNCHANGED vars
  BY <1>1, TreeStays DEF vars, input, collection, CollectInv, WalkInv, ReadableUnlessDamaged,
     CollectDone, ToSet
<1>2. CASE Search \/ NoCandidate \/ NextCandidate \/ FoundByHash \/ Walk \/ Verify
  <2>1. CollectDone /\ CollectDone' /\ UNCHANGED <<tree, readable>> /\ pc' \notin {"open", "collect"}
    BY <1>2 DEF Search, NoCandidate, GiveUp, NextCandidate, FoundByHash, Walk, Verify,
       CollectDone,
                input, collection
  <2>2. QED
    BY <2>1, TreeStays DEF CollectInv, ReadableUnlessDamaged
<1>3. QED
  BY <1>1, <1>2, OpenStep, TakeNodeStep, SkipChildStep, ReadChildStep, CollectEndsStep DEF Next,
     Step

\* collectDirectoryLeafEntries: cycles and blocks that are pointed at twice neither make an
\* index unreadable nor use up its budget of blocks; a block of another kind, however deep,
\* always does, and so does one block too many.
THEOREM GivenUpForCause == Spec => []ReadableUnlessDamaged
<1>1. CollectInv => ReadableUnlessDamaged
  BY DEF CollectInv
<1>2. QED
  BY <1>1, InitCollect, CollectSteps, PTL DEF Spec

-------------------------------------------------------------------------------
(* What is collected *)

IndexEntries == [hash : Nat, address : Nat]
LeafShape == \A b \in DOMAIN tree : tree[b].kind = "leaf" => tree[b].entries \in Seq(IndexEntries)

Gathered(blocks) ==
  \E leaves \in SetToSeqs(LeavesOf(blocks)) : entries = EntriesAlong(leaves)

GatherInv ==
  /\ LeafShape
  /\ pc = "open" => entries = <<>>
  /\ pc = "collect" => tree[Root].kind = "node" /\ Gathered(visited)
  /\ EveryLeafOnce

\* The entries of a leaf that was not there before.
LEMMA GatherMore ==
  ASSUME LeafShape, NEW L, IsFiniteSet(L), \A b \in L : b \in DOMAIN tree /\ tree[b].kind = "leaf",
         NEW leaves \in SetToSeqs(L), NEW c \in DOMAIN tree, tree[c].kind = "leaf", c \notin L
  PROVE  /\ Append(leaves, c) \in SetToSeqs(L \cup {c})
         /\ EntriesAlong(Append(leaves, c)) = EntriesAlong(leaves) \o tree[c].entries
<1> DEFINE n == Cardinality(L)
           more == Append(leaves, c)
           lists == [i \in DOMAIN leaves |-> tree[leaves[i]].entries]
<1>1. n \in Nat /\ Cardinality(L \cup {c}) = n + 1
  BY FS_CardinalityType, FS_AddElement
<1>2. leaves \in [1 .. n -> L] /\ \A i, j \in 1 .. n : i # j => leaves[i] # leaves[j]
  BY DEF SetToSeqs
<1> HIDE DEF n
<1>3. leaves \in Seq(L \cup {c}) /\ Len(leaves) = n /\ DOMAIN leaves = 1 .. n
  <2>1. leaves \in Seq(L) /\ DOMAIN leaves = 1 .. n
    BY <1>1, <1>2, SeqDef
  <2>2. Len(leaves) = n
    BY <1>1, <2>1, LenProperties
  <2>3. leaves \in Seq(L \cup {c})
    BY <2>1, SeqMonotonic
  <2>4. QED
    BY <2>1, <2>2, <2>3
<1>4. /\ more \in Seq(L \cup {c}) /\ Len(more) = n + 1 /\ more[n + 1] = c
      /\ \A i \in 1 .. n : more[i] = leaves[i]
  BY <1>3, AppendProperties
<1>5. DOMAIN more = 1 .. n + 1 /\ more \in [1 .. n + 1 -> L \cup {c}]
  BY <1>4, LenProperties
<1> HIDE DEF more
<1>6. ASSUME NEW i \in 1 .. n + 1, NEW j \in 1 .. n + 1, i # j PROVE more[i] # more[j]
  <2>1. (i = n + 1 \/ i \in 1 .. n) /\ (j = n + 1 \/ j \in 1 .. n)
    BY <1>1
  <2>2. \A k \in 1 .. n : leaves[k] \in L
    BY <1>2
  <2>3. QED
    BY <1>2, <1>4, <1>6, <2>1, <2>2
<1>7. more \in SetToSeqs(L \cup {c})
  BY <1>1, <1>5, <1>6 DEF SetToSeqs
<1>8. lists \in Seq(Seq(IndexEntries)) /\ Len(lists) = n /\ \A i \in 1 .. n : lists[i] = tree[leaves[i]].entries
  <2>1. \A i \in 1 .. n : tree[leaves[i]].entries \in Seq(IndexEntries)
    BY <1>2 DEF LeafShape
  <2>2. lists \in [1 .. n -> Seq(IndexEntries)]
    BY <1>3, <2>1
  <2>3. QED
    BY <1>1, <1>3, <2>2, SeqDef, LenProperties
<1>9. tree[c].entries \in Seq(IndexEntries)
  BY DEF LeafShape
<1>10. [i \in DOMAIN more |-> tree[more[i]].entries] = Append(lists, tree[c].entries)
  <2> HIDE DEF lists
  <2> DEFINE x == tree[c].entries
             l == [i \in DOMAIN more |-> tree[more[i]].entries]
             r == Append(lists, x)
  <2>1. /\ r \in Seq(Seq(IndexEntries)) /\ Len(r) = n + 1 /\ r[n + 1] = x
        /\ \A i \in 1 .. n : r[i] = lists[i]
    BY <1>8, <1>9, AppendProperties
  <2>2. r = [i \in 1 .. n + 1 |-> r[i]]
    BY <2>1, LenProperties
  <2> HIDE DEF r
  <2>3. ASSUME NEW i \in 1 .. n + 1 PROVE l[i] = r[i]
    <3>1. i = n + 1 \/ i \in 1 .. n
      BY <1>1
    <3>2. l[i] = tree[more[i]].entries
      BY <1>5
    <3> HIDE DEF l
    <3>3. QED
      BY <1>4, <1>8, <2>1, <3>1, <3>2
  <2>4. l = [i \in 1 .. n + 1 |-> l[i]]
    BY <1>5
  <2> HIDE DEF l
  <2>5. l = r
    BY <2>2, <2>3, <2>4
  <2>6. QED
    BY <2>5 DEF l, r
<1>11. FlattenSeq(Append(lists, tree[c].entries)) = FlattenSeq(lists) \o tree[c].entries
  <2> HIDE DEF lists
  <2>1. QED
    BY <1>8, <1>9, FlattenOneMore
<1>12. QED
  BY <1>7, <1>10, <1>11 DEF EntriesAlong, more

LEMMA NothingGathered == <<>> \in SetToSeqs({}) /\ EntriesAlong(<<>>) = <<>>
<1>1. Cardinality({}) = 0 /\ 1 .. 0 = {} /\ DOMAIN <<>> = {}
  BY FS_EmptySet
<1>2. <<>> \in SetToSeqs({})
  BY <1>1 DEF SetToSeqs
<1>3. [i \in DOMAIN <<>> |-> tree[<<>>[i]].entries] = <<>>
  OBVIOUS
<1>4. FlattenSeq(<<>>) = <<>>
  BY DEF FlattenSeq
<1>5. QED
  BY <1>2, <1>3, <1>4 DEF EntriesAlong

LEMMA GatherStays ==
  ASSUME tree' = tree, entries' = entries
  PROVE  /\ \A blocks : LeavesOf(blocks)' = LeavesOf(blocks) /\ Gathered(blocks)' = Gathered(blocks)
         /\ \A leaves : EntriesAlong(leaves)' = EntriesAlong(leaves)
         /\ LeafShape' = LeafShape
  BY DEF LeavesOf, Gathered, EntriesAlong, LeafShape

LEMMA InitGather == Init => GatherInv
<1> SUFFICES ASSUME Init PROVE GatherInv
  OBVIOUS
<1>1. LeafShape
  BY TreeAssumption DEF Init, LeafShape, IndexEntries
<1>2. QED
  BY <1>1 DEF Init, GatherInv, EveryLeafOnce, CollectDone

LEMMA OpenGathers == ASSUME CollectInv, GatherInv, OpenIndex PROVE GatherInv'
<1>1. /\ pc = "open" /\ visited = {} /\ visited' = visited /\ entries = <<>> /\ Shape /\ tree' = tree
      /\ IsFiniteSet({}) /\ Root \in DOMAIN tree
  BY FS_EmptySet DEF CollectInv, GatherInv, OpenIndex, CollectFails, input, Shape
<1>2. LeafShape'
  BY <1>1 DEF GatherInv, LeafShape
<1>3. CASE readable' = FALSE /\ pc' = "use"
  BY <1>2, <1>3 DEF GatherInv, EveryLeafOnce
<1>4. CASE tree[Root].kind = "leaf" /\ pc' = "use" /\ entries' = tree[Root].entries
  <2>1. LeavesOf(Targets)' = {} \cup {Root}
    BY <1>1, <1>4, LeafRoot, TreeStays DEF LeavesOf
  <2>2. /\ Append(<<>>, Root) \in SetToSeqs({} \cup {Root})
        /\ EntriesAlong(Append(<<>>, Root)) = <<>> \o tree[Root].entries
    <3>1. PICK none, nil : none = {} /\ nil = <<>>
      OBVIOUS
    <3>2. /\ LeafShape /\ IsFiniteSet(none) /\ nil \in SetToSeqs(none) /\ Root \in DOMAIN tree
          /\ tree[Root].kind = "leaf" /\ Root \notin none
          /\ \A b \in none : b \in DOMAIN tree /\ tree[b].kind = "leaf"
      BY <1>1, <1>4, <3>1, NothingGathered DEF GatherInv
    <3>3. /\ Append(nil, Root) \in SetToSeqs(none \cup {Root})
          /\ EntriesAlong(Append(nil, Root)) = EntriesAlong(nil) \o tree[Root].entries
      BY <3>2, GatherMore
    <3>4. QED
      BY <3>1, <3>3, NothingGathered
  <2>3. tree[Root].entries \in Seq(IndexEntries)
    BY <1>1, <1>4 DEF GatherInv, LeafShape
  <2>4. <<>> \o tree[Root].entries = tree[Root].entries
    BY <2>3, ConcatEmptySeq
  <2>5. EntriesAlong(Append(<<>>, Root))' = EntriesAlong(Append(<<>>, Root))
    BY <1>1 DEF EntriesAlong
  <2>6. EveryLeafOnce'
    BY <1>4, <2>1, <2>2, <2>4, <2>5 DEF EveryLeafOnce
  <2>7. QED
    BY <1>2, <1>4, <2>6 DEF GatherInv
<1>5. CASE tree[Root].kind = "node" /\ pc' = "collect" /\ UNCHANGED entries
  <2>1. LeavesOf({}) = {}
    BY <1>5 DEF LeavesOf
  <2>2. Gathered({})
    BY <1>1, <2>1, NothingGathered DEF Gathered
  <2>3. Gathered(visited)'
    BY <1>1, <1>5, <2>2, GatherStays
  <2>4. QED
    BY <1>1, <1>2, <1>5, <2>3 DEF GatherInv, EveryLeafOnce, CollectDone
<1>6. QED
  BY <1>3, <1>4, <1>5 DEF OpenIndex, CollectFails

LEMMA ReadGathers == ASSUME CollectInv, GatherInv, ReadChild PROVE GatherInv'
<1> DEFINE c == Head(children)
<1>1. /\ pc = "collect" /\ children # <<>> /\ c \notin visited /\ WalkInv /\ Shape
      /\ tree' = tree /\ tree[Root].kind = "node" /\ Gathered(visited) /\ LeafShape
  BY DEF CollectInv, GatherInv, ReadChild, CollectFails, input
<1>2. c \in DOMAIN tree /\ visited \subseteq DOMAIN tree /\ IsFiniteSet(DOMAIN tree)
  BY <1>1, Sets, TargetsClosed DEF WalkInv, Shape
<1>3. LeafShape'
  BY <1>1 DEF LeafShape
<1>4. CASE CollectFails
  BY <1>3, <1>4 DEF CollectFails, GatherInv, EveryLeafOnce
<1>5. CASE /\ tree[c].kind \notin {"unmapped", "bad"} /\ visited' = visited \cup {c} /\ pc' = pc
           /\ IF tree[c].kind = "node" THEN UNCHANGED entries ELSE entries' = entries \o tree[c].entries
  <2>1. tree[c].kind \in {"leaf", "node"}
    BY <1>1, <1>2, <1>5 DEF Shape
  <2> HIDE DEF c
  <2>2. CASE tree[c].kind = "node"
    <3>1. LeavesOf(visited \cup {c}) = LeavesOf(visited)
      BY <2>2 DEF LeavesOf
    <3>2. Gathered(visited \cup {c})
      BY <1>1, <3>1 DEF Gathered
    <3>3. entries' = entries
      BY <1>5, <2>2
    <3>4. Gathered(visited)'
      <4>1. \A blocks : Gathered(blocks)' = Gathered(blocks)
        BY <1>1, <3>3, GatherStays
      <4>2. Gathered(visited)' = (\E leaves \in SetToSeqs(LeavesOf(visited)') : entries' = EntriesAlong(leaves)')
        BY DEF Gathered
      <4>3. LeavesOf(visited)' = LeavesOf(visited \cup {c})
        BY <1>1, <1>5 DEF LeavesOf
      <4>4. \A leaves : EntriesAlong(leaves)' = EntriesAlong(leaves)
        BY <1>1 DEF EntriesAlong
      <4>5. QED
        BY <3>2, <3>3, <4>2, <4>3, <4>4 DEF Gathered
    <3>5. QED
      BY <1>1, <1>3, <1>5, <3>4 DEF GatherInv, EveryLeafOnce, CollectDone
  <2>3. CASE tree[c].kind = "leaf"
    <3> DEFINE L == LeavesOf(visited)
    <3>1. PICK leaves \in SetToSeqs(L) : entries = EntriesAlong(leaves)
      BY <1>1 DEF Gathered
    <3>2. L \subseteq visited /\ L \in SUBSET DOMAIN tree /\ \A b \in L : tree[b].kind = "leaf"
      BY <1>1, <1>2 DEF LeavesOf
    <3>3. IsFiniteSet(L) /\ c \notin L
      BY <1>1, <1>2, <3>2, FS_Subset
    <3>4. LeavesOf(visited)' = L \cup {c}
      BY <1>1, <1>5, <2>3 DEF LeavesOf
    <3> HIDE DEF L
    <3>5. /\ Append(leaves, c) \in SetToSeqs(L \cup {c})
          /\ EntriesAlong(Append(leaves, c)) = EntriesAlong(leaves) \o tree[c].entries
      BY <1>1, <1>2, <2>3, <3>1, <3>2, <3>3, GatherMore
    <3>6. entries' = EntriesAlong(Append(leaves, c))
      BY <1>5, <2>3, <3>1, <3>5
    <3>7. \A s : EntriesAlong(s)' = EntriesAlong(s)
      BY <1>1 DEF EntriesAlong
    <3>8. Gathered(visited)'
      <4>1. Gathered(visited)' = (\E s \in SetToSeqs(LeavesOf(visited)') : entries' = EntriesAlong(s)')
        BY DEF Gathered
      <4>2. QED
        BY <3>4, <3>5, <3>6, <3>7, <4>1
    <3>9. QED
      BY <1>1, <1>3, <1>5, <3>8 DEF GatherInv, EveryLeafOnce, CollectDone
  <2>4. QED
    BY <2>1, <2>2, <2>3
<1>6. QED
  BY <1>4, <1>5 DEF ReadChild, Seen

LEMMA EndGathers == ASSUME CollectInv, GatherInv, CollectEnds PROVE GatherInv'
<1>1. /\ visited = Targets /\ Gathered(visited) /\ pc' = "use" /\ UNCHANGED <<tree, entries>> /\ LeafShape
  BY AllVisited DEF CollectInv, GatherInv, CollectEnds, Collected, input, collection
<1>2. Gathered(Targets)'
  BY <1>1, GatherStays, TreeStays DEF Gathered
<1>3. QED
  BY <1>1, <1>2, GatherStays DEF GatherInv, EveryLeafOnce, Gathered

LEMMA GatherSteps == CollectInv /\ GatherInv /\ [Next]_vars => GatherInv'
<1> SUFFICES ASSUME CollectInv, GatherInv, [Next]_vars PROVE GatherInv'
  OBVIOUS
<1>1. ASSUME UNCHANGED <<tree, entries, readable>>, pc = "collect" => UNCHANGED visited,
             UNCHANGED pc \/ (CollectDone /\ pc' \notin {"open", "collect"})
      PROVE  GatherInv'
  <2>1. EveryLeafOnce = (CollectDone /\ readable => Gathered(Targets))
    BY DEF EveryLeafOnce, Gathered
  <2>2. EveryLeafOnce' = (CollectDone' /\ readable' => Gathered(Targets)')
    BY DEF EveryLeafOnce, Gathered
  <2>3. Gathered(Targets)' = Gathered(Targets)
    BY <1>1, GatherStays, TreeStays DEF Gathered
  <2>4. pc = "collect" => Gathered(visited)' = Gathered(visited)
    BY <1>1, GatherStays DEF Gathered
  <2>5. CollectDone' => CollectDone
    BY <1>1 DEF CollectDone
  <2>6. QED
    BY <1>1, <2>1, <2>2, <2>3, <2>4, <2>5, GatherStays DEF GatherInv, CollectDone
<1>2. CASE UNCHANGED vars
  BY <1>1, <1>2 DEF vars, input, collection
<1>3. CASE TakeNode \/ SkipChild
  BY <1>1, <1>3 DEF TakeNode, SkipChild, input
<1>4. CASE Search \/ NoCandidate \/ NextCandidate \/ FoundByHash \/ Walk \/ Verify
  BY <1>1, <1>4 DEF Search, NoCandidate, GiveUp, NextCandidate, FoundByHash, Walk, Verify,
     CollectDone,
                    input, collection
<1>5. QED
  BY <1>2, <1>3, <1>4, OpenGathers, ReadGathers, EndGathers DEF Next, Step

\* collectDirectoryLeafEntries on any tree of index blocks, cyclic ones included: an index that
\* is used is the entries of all leaves, of none twice.
THEOREM LeavesOnce == Spec => []EveryLeafOnce
<1>1. GatherInv => EveryLeafOnce
  BY DEF GatherInv
<1>2. CollectInv /\ GatherInv /\ [Next]_vars => CollectInv' /\ GatherInv'
  BY CollectSteps, GatherSteps
<1>3. QED
  BY <1>1, <1>2, InitCollect, InitGather, PTL DEF Spec

-------------------------------------------------------------------------------
(* PathResolve *)


Holding(number, name, how) ==
  IF how = "read" THEN HeldReadably(number, name)
  ELSE IF how = "reach" THEN HeldInReach(number, name) ELSE Held(number, name)

\* Where the names of a path lead to, one after the other.
Follow(numbers, name, how) ==
  IF name \in {"", "."} THEN numbers
  ELSE UNION {Holding(number, name, how) : number \in numbers}

Trail(f, parts, m, how) ==
  f = [n \in 0 .. m |->
         IF n = 0 THEN {RootInode} ELSE Follow(f[n - 1], parts[n], how)]

LEMMA TrailAt ==
  ASSUME NEW f, NEW parts, NEW m \in Nat, NEW r, Trail(f, parts, m, r), NEW n \in 0 .. m
  PROVE  f[n] = IF n = 0 THEN {RootInode} ELSE Follow(f[n - 1], parts[n], r)
  BY DEF Trail

LEMMA TrailNext ==
  ASSUME NEW f, NEW parts, NEW m \in Nat, NEW r, Trail(f, parts, m, r),
         NEW i \in Nat, i + 1 \in 0 .. m
  PROVE  f[i + 1] = Follow(f[i], parts[i + 1], r)
<1>1. f[i + 1] = IF i + 1 = 0 THEN {RootInode} ELSE Follow(f[i + 1 - 1], parts[i + 1], r)
  BY DEF Trail
<1>2. i + 1 # 0 /\ i + 1 - 1 = i
  OBVIOUS
<1>3. QED
  BY <1>1, <1>2

\* What agrees with the equation of a trail everywhere is one.
LEMMA TrailMade ==
  ASSUME NEW parts, NEW m \in Nat, NEW r, NEW f, f = [n \in 0 .. m |-> f[n]],
         \A n \in 0 .. m :
           f[n] = IF n = 0 THEN {RootInode} ELSE Follow(f[n - 1], parts[n], r)
  PROVE  Trail(f, parts, m, r)
<1> DEFINE next(n) == IF n = 0 THEN {RootInode} ELSE Follow(f[n - 1], parts[n], r)
           h == [n \in 0 .. m |-> next(n)]
<1>1. \A n \in 0 .. m : h[n] = f[n]
  OBVIOUS
<1>2. h = [n \in 0 .. m |-> h[n]]
  OBVIOUS
<1>3. f = h
  <2> HIDE DEF h
  <2>1. [n \in 0 .. m |-> h[n]] = [n \in 0 .. m |-> f[n]]
    BY <1>1
  <2>2. QED
    BY <1>2, <2>1
<1>4. QED
  BY <1>3 DEF Trail

\* Every path has a trail: by the least length of one that had none.
LEMMA TrailExists ==
  ASSUME NEW parts, NEW top \in Nat, NEW r
  PROVE  \E f : Trail(f, parts, top, r)
<1> DEFINE T == {k \in Nat : ~\E f : Trail(f, parts, k, r)}
<1>1. SUFFICES ASSUME T # {} PROVE FALSE
  OBVIOUS
<1>2. T \subseteq Nat
  OBVIOUS
<1>3. PICK m \in T : \A k \in T : m <= k
  BY <1>1, <1>2, Least
<1>4. m # 0
  <2> DEFINE f == [k \in 0 .. 0 |-> {RootInode}]
  <2>1. f = [k \in 0 .. 0 |-> f[k]] /\ \A k \in 0 .. 0 : k = 0 /\ f[k] = {RootInode}
    OBVIOUS
  <2> HIDE DEF f
  <2>2. Trail(f, parts, 0, r)
    BY <2>1, TrailMade
  <2>3. QED
    BY <1>3, <2>2
<1>5. m - 1 \in Nat /\ m - 1 \notin T
  BY <1>3, <1>4
<1>6. PICK f : Trail(f, parts, m - 1, r)
  BY <1>5
<1> DEFINE next(x, k) == IF k = 0 THEN {RootInode} ELSE Follow(x[k - 1], parts[k], r)
           g == [k \in 0 .. m |-> next(f, k)]
<1>7. \A k \in 0 .. m - 1 : g[k] = f[k]
  <2>1. ASSUME NEW k \in 0 .. m - 1 PROVE g[k] = f[k]
    <3>1. f[k] = next(f, k)
      <4>1. m - 1 \in Nat
        BY <1>5
      <4>2. PICK l \in Nat : l = m - 1
        BY <4>1
      <4>3. Trail(f, parts, l, r) /\ k \in 0 .. l
        BY <1>6, <2>1, <4>2
      <4> HIDE DEF T, g, next
      <4>4. \A n \in 0 .. l :
              f[n] = IF n = 0 THEN {RootInode} ELSE Follow(f[n - 1], parts[n], r)
        BY <4>3 DEF Trail
      <4>5. f[k] = IF k = 0 THEN {RootInode} ELSE Follow(f[k - 1], parts[k], r)
        BY <4>3, <4>4
      <4>6. QED
        BY <4>5 DEF next
    <3>2. k \in 0 .. m
      BY <1>3, <2>1
    <3> HIDE DEF next
    <3>3. QED
      BY <3>1, <3>2
  <2>2. QED
    BY <2>1
<1>8. \A k \in 0 .. m : g[k] = next(g, k)
  <2>1. ASSUME NEW k \in 0 .. m PROVE g[k] = next(g, k)
    <3>1. k = 0 \/ k - 1 \in 0 .. m - 1
      BY <1>3, <2>1
    <3>2. g[k] = next(f, k)
      BY <2>1
    <3> HIDE DEF g
    <3>3. QED
      BY <1>7, <3>1, <3>2
  <2>2. QED
    BY <2>1
<1>9. Trail(g, parts, m, r)
  <2>1. g = [k \in 0 .. m |-> g[k]]
    OBVIOUS
  <2> HIDE DEF g
  <2>2. QED
    BY <1>3, <1>8, <2>1, TrailMade
<1>10. QED
  BY <1>9

\* Leads is the end of a trail.
LEMMA LeadsAlong ==
  ASSUME NEW parts, Len(parts) \in Nat
  PROVE  /\ \E f : Trail(f, parts, Len(parts), "held") /\ Leads(parts, Held) = f[Len(parts)]
         /\ \E f : /\ Trail(f, parts, Len(parts), "read")
                   /\ Leads(parts, HeldReadably) = f[Len(parts)]
         /\ \E f : /\ Trail(f, parts, Len(parts), "reach")
                   /\ Leads(parts, HeldInReach) = f[Len(parts)]
<1> DEFINE f == CHOOSE f : Trail(f, parts, Len(parts), "held")
           u == CHOOSE u : Trail(u, parts, Len(parts), "read")
           w == CHOOSE w : Trail(w, parts, Len(parts), "reach")
<1>1. /\ Trail(f, parts, Len(parts), "held") /\ Trail(u, parts, Len(parts), "read")
      /\ Trail(w, parts, Len(parts), "reach")
  BY TrailExists
<1>2. Leads(parts, Held) = f[Len(parts)]
  BY DEF Leads, Trail, Follow, Holding
<1>3. Leads(parts, HeldReadably) = u[Len(parts)]
  BY DEF Leads, Trail, Follow, Holding
<1>4. Leads(parts, HeldInReach) = w[Len(parts)]
  BY DEF Leads, Trail, Follow, Holding
<1>5. QED
  BY <1>1, <1>2, <1>3, <1>4

LEMMA FollowMore ==
  ASSUME NEW S, NEW T, S \subseteq T, NEW name, NEW how \in {"read", "reach"}
  PROVE  Follow(S, name, how) \subseteq Follow(T, name, "held")
<1>1. \A number : Holding(number, name, how) \subseteq Holding(number, name, "held")
  BY DEF Holding, Held, HeldReadably, HeldInReach
<1>2. QED
  BY <1>1 DEF Follow

LEMMA FollowNothing == ASSUME NEW name, NEW r PROVE Follow({}, name, r) = {}
  BY DEF Follow

\* Trails of the same names are the same.
LEMMA TrailsAgree ==
  ASSUME NEW f, NEW g, NEW p, NEW q, NEW m \in Nat, NEW n \in Nat, NEW r,
         n <= m, Trail(f, p, m, r), Trail(g, q, n, r), \A i \in 1 .. n : p[i] = q[i]
  PROVE  f[n] = g[n]
<1> DEFINE T == {i \in 0 .. n : f[i] # g[i]}
<1>1. SUFFICES ASSUME T # {} PROVE FALSE
  OBVIOUS
<1>2. T \subseteq Nat
  OBVIOUS
<1>3. PICK i \in T : \A j \in T : i <= j
  BY <1>1, <1>2, Least
<1>4. i \in 0 .. m /\ i \in 0 .. n
  BY <1>3
<1>5. CASE i = 0
  BY <1>3, <1>4, <1>5, TrailAt
<1>6. CASE i # 0
  <2>1. i - 1 \in 0 .. n /\ i - 1 \notin T /\ p[i] = q[i]
    BY <1>3, <1>6
  <2>2. f[i - 1] = g[i - 1]
    BY <2>1
  <2>3. f[i] = g[i]
    BY <1>4, <1>6, <2>1, <2>2, TrailAt
  <2>4. QED
    BY <1>3, <2>3
<1>7. QED
  BY <1>5, <1>6

\* A trail that has ended leads nowhere.
LEMMA TrailEnds ==
  ASSUME NEW f, NEW parts, NEW m \in Nat, NEW r, Trail(f, parts, m, r),
         NEW k \in 0 .. m, f[k] = {}
  PROVE  f[m] = {}
<1> DEFINE T == {i \in k .. m : f[i] # {}}
<1>1. SUFFICES ASSUME T # {} PROVE FALSE
  OBVIOUS
<1>2. T \subseteq Nat
  OBVIOUS
<1>3. PICK i \in T : \A j \in T : i <= j
  BY <1>1, <1>2, Least
<1>4. i # k /\ i \in 0 .. m /\ i # 0
  BY <1>3
<1>5. i - 1 \in k .. m /\ i - 1 \notin T
  BY <1>3, <1>4
<1>6. f[i - 1] = {}
  BY <1>5
<1>7. f[i] = {}
  <2>1. f[i] = Follow(f[i - 1], parts[i], r)
    <3> HIDE DEF T
    <3>1. QED
      BY <1>4, TrailAt
  <2>2. QED
    BY <1>6, <2>1, FollowNothing
<1>8. QED
  BY <1>3, <1>7

\* What can be read, or is in reach, is part of what is held.
LEMMA ReadablyWithin ==
  ASSUME NEW u, NEW f, NEW parts, NEW m \in Nat, NEW how \in {"read", "reach"},
         Trail(u, parts, m, how), Trail(f, parts, m, "held"), NEW k \in 0 .. m
  PROVE  u[k] \subseteq f[k]
<1> DEFINE T == {i \in 0 .. m : ~(u[i] \subseteq f[i])}
<1>1. SUFFICES ASSUME T # {} PROVE FALSE
  OBVIOUS
<1>2. T \subseteq Nat
  OBVIOUS
<1>3. PICK i \in T : \A j \in T : i <= j
  BY <1>1, <1>2, Least
<1>4. CASE i = 0
  BY <1>3, <1>4, TrailAt
<1>5. CASE i # 0
  <2>1. i - 1 \in 0 .. m /\ i - 1 \notin T
    BY <1>3, <1>5
  <2>2. u[i - 1] \subseteq f[i - 1]
    BY <2>1
  <2>3. i \in 0 .. m
    BY <1>3
  <2>4. u[i] = Follow(u[i - 1], parts[i], how) /\ f[i] = Follow(f[i - 1], parts[i], "held")
    <3> HIDE DEF T
    <3>1. QED
      BY <1>5, <2>3, TrailAt
  <2>5. u[i] \subseteq f[i]
    <3> HIDE DEF T
    <3>1. Follow(u[i - 1], parts[i], how) \subseteq Follow(f[i - 1], parts[i], "held")
      BY <2>2, FollowMore
    <3>2. QED
      BY <2>4, <3>1
  <2>6. QED
    BY <1>3, <2>5
<1>6. QED
  BY <1>4, <1>5

-------------------------------------------------------------------------------
Trails(f, how) == Trail(f, path.parts, Len(path.parts), how)

PathShape ==
  /\ image \in Filesystems /\ path \in Paths /\ operation \in Operations
  /\ stage \in {"check", "walk", "list", "listing", "done"}
  /\ at \in 0 .. Len(path.parts) /\ closed \in BOOLEAN
  /\ stage = "done" <=> result # "none"
  /\ stage \in {"list", "listing"} => at < Len(path.parts) /\ Name \notin {"", "."}
  /\ stage = "listing" => IsDirectory

\* The trail leads through one inode after the other to the current one.
OnTrail ==
  \A f : Trails(f, "held") => f[at] = {current} /\ \A j \in 0 .. at : \E x : f[j] = {x}

\* What has been visited was entered from directories visited before the current inode.
FromDirectories ==
  /\ current \in entered
  /\ \A v \in entered \ {current} : v \in DOMAIN image /\ image[v].kind = "directory"
  /\ \A v \in entered \ {RootInode} :
       \E d \in entered \ {current} : \E e \in Entries(d) : e.number = v

Walking == stage # "done" /\ Sound /\ Downward => OnTrail /\ FromDirectories

RightAnswer(f, verdict, number) ==
  /\ operation # "DirectoryParentInodeByPath" =>
       /\ verdict = "ok" => f[Len(path.parts)] = {number}
       /\ verdict = "notFound" => \A w : Trails(w, "reach") => w[Len(path.parts)] = {}
       /\ verdict # "loop"
  /\ operation = "DirectoryParentInodeByPath" /\ verdict = "ok" /\ Len(path.parts) # 0
       /\ path.parts[Len(path.parts)] \notin {"", "."} =>
       f[Len(path.parts) - 1] = {number}
  /\ operation = "ResolveInodeByPath" /\ ~closed /\ verdict \notin {"ok", "invalid"} =>
       \A u : Trails(u, "read") => u[Len(path.parts)] = {}

Answered ==
  stage = "done" /\ Sound /\ Downward =>
    \A f : Trails(f, "held") => RightAnswer(f, result, current)

PathInv == PathShape /\ Walking /\ Answered

LEMMA PathTyped ==
  ASSUME PathShape
  PROVE  /\ path.parts \in Seq(STRING) /\ Len(path.parts) \in Nat
         /\ at \in Nat /\ at \in 0 .. Len(path.parts)
         /\ DOMAIN path.parts = 1 .. Len(path.parts)
<1>1. path.parts \in Seq(STRING)
  BY PathAssumption DEF PathShape
<1>2. Len(path.parts) \in Nat /\ DOMAIN path.parts = 1 .. Len(path.parts)
  BY <1>1, LenProperties
<1>3. at \in 0 .. Len(path.parts)
  BY DEF PathShape
<1>4. at \in Nat
  BY <1>2, <1>3
<1>5. QED
  BY <1>1, <1>2, <1>3, <1>4

LEMMA EntriesTyped ==
  ASSUME PathShape, IsDirectory
  PROVE  /\ current \in DOMAIN image /\ Inode = image[current]
         /\ Inode.entries \in Seq([name : STRING, number : Nat, block : {"readable", "lost", "passed"}])
         /\ Entries(current) = ToSet(Inode.entries)
  BY EntryAssumption DEF PathShape, IsDirectory, Inode, Entries

LEMMA NotADirectory ==
  ASSUME ~IsDirectory
  PROVE  Entries(current) = {}
  BY DEF IsDirectory, Inode, Entries

-------------------------------------------------------------------------------
(* What the request says stays. *)

LEMMA HoldingStays ==
  ASSUME UNCHANGED request, NEW number, NEW name, NEW how
  PROVE  Holding(number, name, how)' = Holding(number, name, how)
  BY DEF Holding, Held, HeldReadably, HeldInReach, Entries, request

LEMMA FollowStays ==
  ASSUME UNCHANGED request, NEW S, NEW name, NEW how
  PROVE  Follow(S, name, how)' = Follow(S, name, how)
  BY HoldingStays DEF Follow

LEMMA TrailsStay ==
  ASSUME UNCHANGED request, NEW f, NEW how
  PROVE  Trails(f, how)' <=> Trails(f, how)
  BY FollowStays DEF Trails, Trail, request

LEMMA SoundStays ==
  ASSUME UNCHANGED request
  PROVE  (Sound' <=> Sound) /\ (Downward' <=> Downward)
  BY DEF Sound, Downward, Held, Entries, request

-------------------------------------------------------------------------------
(* Where the next name leads. *)

Naming == stage # "done" /\ at < Len(path.parts) /\ Name \notin {"", "."}

LEMMA FollowOne ==
  ASSUME NEW number, NEW name, name \notin {"", "."}, NEW how
  PROVE  Follow({number}, name, how) = Holding(number, name, how)
  BY DEF Follow

LEMMA OneAhead ==
  ASSUME PathShape, Naming
  PROVE  /\ Len(path.parts) \in Nat /\ at \in 0 .. Len(path.parts)
         /\ at + 1 \in 0 .. Len(path.parts) /\ at + 1 # 0 /\ at + 1 - 1 = at
<1>1. Len(path.parts) \in Nat /\ at \in 0 .. Len(path.parts)
  BY PathTyped
<1>2. at < Len(path.parts)
  BY DEF Naming
<1>3. QED
  BY <1>1, <1>2

LEMMA TrailAhead ==
  ASSUME PathShape, Naming, OnTrail, NEW f, Trails(f, "held")
  PROVE  f[at] = {current} /\ f[at + 1] = Held(current, Name)
<1>1. /\ Len(path.parts) \in Nat /\ at + 1 \in 0 .. Len(path.parts)
      /\ at + 1 # 0 /\ at + 1 - 1 = at
  BY OneAhead
<1>2. f[at] = {current}
  BY DEF OnTrail
<1>3. f[at + 1] = Follow(f[at], path.parts[at + 1], "held")
  BY <1>1, PathTyped, TrailNext DEF Trails
<1>4. Name \notin {"", "."} /\ Name = path.parts[at + 1]
  BY DEF Naming, Name
<1>5. Follow({current}, Name, "held") = Holding(current, Name, "held")
  BY <1>4, FollowOne
<1>6. QED
  BY <1>2, <1>3, <1>4, <1>5 DEF Holding

\* A name that is not held so ends what can be read, or is in reach, of a path.
LEMMA ReadingEnds ==
  ASSUME PathShape, Naming, OnTrail, NEW how \in {"read", "reach"}, Holding(current, Name, how) = {},
         NEW u, Trails(u, how)
  PROVE  u[Len(path.parts)] = {}
<1>1. PICK f : Trails(f, "held")
  BY PathTyped, TrailExists DEF Trails
<1>2. /\ Len(path.parts) \in Nat /\ at \in 0 .. Len(path.parts)
      /\ at + 1 \in 0 .. Len(path.parts) /\ at + 1 # 0 /\ at + 1 - 1 = at
  BY OneAhead
<1>3. u[at] \subseteq {current}
  <2>1. u[at] \subseteq f[at]
    BY <1>1, <1>2, ReadablyWithin DEF Trails
  <2>2. QED
    BY <1>1, <2>1, TrailAhead
<1>4. u[at + 1] = Follow(u[at], Name, how)
  BY <1>2, PathTyped, TrailNext DEF Trails, Name
<1>5. Follow({current}, Name, how) = {} /\ Follow({}, Name, how) = {}
  <2>1. Name \notin {"", "."}
    BY DEF Naming
  <2>2. Follow({current}, Name, how) = Holding(current, Name, how)
    BY <2>1, FollowOne
  <2>3. QED
    BY <2>2, FollowNothing
<1>6. u[at] = {current} \/ u[at] = {}
  BY <1>3
<1>7. u[at + 1] = {}
  BY <1>4, <1>5, <1>6
<1>8. QED
  BY <1>2, <1>7, TrailEnds DEF Trails

\* In a sound tree a name that is held leads to one inode, which has not been visited.
LEMMA LeadsOn ==
  ASSUME PathShape, Naming, Sound, FromDirectories, NEW number \in Held(current, Name)
  PROVE  /\ Held(current, Name) = {number} /\ number # 0 /\ number \notin entered
         /\ IsDirectory /\ \E e \in Entries(current) : e.number = number
<1>1. PICK e \in Entries(current) : e.name = Name /\ e.number = number
  BY DEF Held
<1>2. IsDirectory
  BY <1>1, NotADirectory
<1>3. current \in DOMAIN image /\ image[current].kind = "directory"
  BY <1>2, EntriesTyped DEF IsDirectory
<1>4. /\ number \in DOMAIN image \ {0, RootInode}
      /\ \A other \in Entries(current) : other.name = Name => other = e
      /\ image[number].kind = "directory" =>
           \A c \in DOMAIN image : \A other \in Entries(c) :
             other.number = number => c = current
  BY <1>1, <1>3 DEF Sound
<1>5. Held(current, Name) = {number}
  BY <1>1, <1>4 DEF Held
<1>6. ASSUME number \in entered PROVE FALSE
  <2>1. PICK d \in entered \ {current} : \E other \in Entries(d) : other.number = number
    BY <1>4, <1>6 DEF FromDirectories
  <2>2. d \in DOMAIN image /\ d # current
    BY <2>1 DEF FromDirectories
  <2>3. image[number].kind = "directory"
    BY <1>3, <1>6 DEF FromDirectories
  <2>4. QED
    BY <1>4, <2>1, <2>2, <2>3
<1>7. QED
  BY <1>1, <1>2, <1>4, <1>5, <1>6

\* What of a name can be read.
LEMMA FoundByReading ==
  ASSUME PathShape, IsDirectory, NEW places, places \subseteq Recovered, Named(places) # {}
  PROVE  Inode.entries[Min(Named(places))].number \in Held(current, Name)
<1>1. /\ Inode.entries \in Seq([name : STRING, number : Nat, block : {"readable", "lost", "passed"}])
      /\ Entries(current) = ToSet(Inode.entries)
  BY EntriesTyped
<1>2. Named(places) \subseteq DOMAIN Inode.entries
  BY DEF Named, Recovered
<1>3. DOMAIN Inode.entries \subseteq Nat
  BY <1>1, LenProperties
<1>4. PICK i \in Named(places) : \A j \in Named(places) : i <= j
  BY <1>2, <1>3, Least
<1>5. Min(Named(places)) \in Named(places)
  BY <1>4 DEF Min
<1>6. QED
  BY <1>1, <1>2, <1>5 DEF Held, Named, ToSet

LEMMA UnfoundByReading ==
  ASSUME PathShape, IsDirectory, Named(Recovered) = {}
  PROVE  /\ Holding(current, Name, "read") = {}
         /\ Complete => Holding(current, Name, "reach") = {}
<1>1. /\ Inode.entries \in Seq([name : STRING, number : Nat, block : {"readable", "lost", "passed"}])
      /\ Entries(current) = ToSet(Inode.entries)
  BY EntriesTyped
<1>2. \A e \in Entries(current) : e.name = Name => e.block # "readable"
  BY <1>1 DEF Named, Recovered, ToSet
<1>3. Complete => \A e \in Entries(current) : e.block # "lost"
  BY <1>1 DEF Complete, ToSet
<1>4. \A e \in Entries(current) : e.block \in {"readable", "lost", "passed"}
  <2> DEFINE T == [name : STRING, number : Nat, block : {"readable", "lost", "passed"}]
  <2>1. PICK s \in Seq(T) : s = Inode.entries
    BY <1>1
  <2>2. \A i \in DOMAIN s : s[i] \in T
    <3> HIDE DEF T
    <3>1. DOMAIN s = 1 .. Len(s)
      BY LenProperties
    <3>2. QED
      BY <3>1, ElementOfSeq
  <2>3. \A e \in Entries(current) : e \in T
    <3> HIDE DEF T
    <3>1. QED
      BY <1>1, <2>1, <2>2 DEF ToSet
  <2>4. QED
    BY <2>3
<1>5. HeldReadably(current, Name) = {}
  BY <1>2 DEF HeldReadably
<1>6. Complete => HeldInReach(current, Name) = {}
  BY <1>2, <1>3, <1>4 DEF HeldInReach
<1>7. QED
  BY <1>5, <1>6 DEF Holding

-------------------------------------------------------------------------------
(* The steps. *)

LEMMA NotAnsweredYet == ASSUME stage # "done" PROVE Answered
  BY DEF Answered

LEMMA KeepsWalking ==
  ASSUME Walking, stage # "done", UNCHANGED <<request, at, current, entered>>
  PROVE  Walking'
<1>1. (Sound' <=> Sound) /\ (Downward' <=> Downward)
  BY SoundStays
<1>2. ASSUME Sound', Downward' PROVE OnTrail' /\ FromDirectories'
  <2>1. OnTrail /\ FromDirectories
    BY <1>1, <1>2 DEF Walking
  <2>2. OnTrail'
    BY <2>1, TrailsStay DEF OnTrail
  <2>3. FromDirectories'
    BY <2>1 DEF FromDirectories, Entries, request
  <2>4. QED
    BY <2>2, <2>3
<1>3. QED
  BY <1>2 DEF Walking

\* A return with an answer that is right.
LEMMA ReturnKeeps ==
  ASSUME PathInv, stage # "done",
         NEW verdict \in {"invalid", "loop", "notFound", "error", "ok"}, Return(verdict),
         Sound /\ Downward =>
           \A f : Trails(f, "held") => RightAnswer(f, verdict, current)
  PROVE  PathInv'
<1>1. UNCHANGED request
  BY DEF Return
<1>2. PathShape'
  BY DEF PathInv, PathShape, Return, request
<1>3. Walking'
  BY DEF Walking, Return
<1>4. Answered'
  <2>1. (Sound' <=> Sound) /\ (Downward' <=> Downward)
    BY <1>1, SoundStays
  <2>2. ASSUME Sound', Downward', NEW f, Trails(f, "held")' PROVE RightAnswer(f, result, current)'
    <3>1. RightAnswer(f, verdict, current)
      BY <1>1, <2>1, <2>2, TrailsStay
    <3>2. \A u, how : Trails(u, how)' <=> Trails(u, how)
      BY <1>1, TrailsStay
    <3>3. result' = verdict /\ current' = current /\ closed' = closed
      BY DEF Return
    <3>4. QED
      BY <1>1, <3>1, <3>2, <3>3 DEF RightAnswer, request
  <2>3. QED
    BY <2>2 DEF Answered
<1>5. QED
  BY <1>2, <1>3, <1>4 DEF PathInv

\* The number of a name that is held leads on along the trail.
LEMMA EnterKeeps ==
  ASSUME PathInv, Naming, NEW number, Enter(number),
         Sound /\ Downward => number \in Held(current, Name)
  PROVE  PathInv'
<1>1. PathShape /\ Walking /\ stage # "done"
  BY DEF PathInv, Naming
<1>2. ASSUME Sound, Downward
      PROVE  /\ OnTrail /\ FromDirectories /\ number # 0 /\ number \notin entered
             /\ Held(current, Name) = {number} /\ IsDirectory
             /\ \E e \in Entries(current) : e.number = number
  <2>1. OnTrail /\ FromDirectories
    BY <1>1, <1>2 DEF Walking
  <2>2. number \in Held(current, Name)
    BY <1>2
  <2>3. QED
    BY <1>1, <1>2, <2>1, <2>2, LeadsOn
<1>3. CASE number = 0
  <2>1. Return("notFound")
    BY <1>3 DEF Enter
  <2>2. ~(Sound /\ Downward)
    BY <1>2, <1>3
  <2>3. QED
    BY <1>1, <2>1, <2>2, ReturnKeeps
<1>4. CASE number # 0 /\ number \in entered
  <2>1. Return("loop")
    BY <1>4 DEF Enter
  <2>2. ~(Sound /\ Downward)
    BY <1>2, <1>4
  <2>3. QED
    BY <1>1, <2>1, <2>2, ReturnKeeps
<1>5. CASE number # 0 /\ number \notin entered
  <2>1. /\ stage' = "walk" /\ at' = at + 1 /\ current' = number
        /\ entered' = entered \cup {number} /\ UNCHANGED <<request, closed, result>>
    BY <1>5 DEF Enter
  <2>2. PathShape'
    <3>1. at + 1 \in 0 .. Len(path.parts)
      BY <1>1, OneAhead
    <3>2. QED
      BY <1>1, <2>1, <3>1 DEF PathShape, request
  <2>3. ASSUME Sound, Downward PROVE OnTrail' /\ FromDirectories'
    <3>1. OnTrail'
      <4>1. ASSUME NEW f, Trails(f, "held")'
            PROVE  f[at + 1] = {number} /\ \A j \in 0 .. at + 1 : \E x : f[j] = {x}
        <5>1. Trails(f, "held")
          BY <2>1, <4>1, TrailsStay
        <5>2. f[at + 1] = {number}
          BY <1>1, <1>2, <2>3, <5>1, TrailAhead
        <5>3. \A j \in 0 .. at : \E x : f[j] = {x}
          BY <1>2, <2>3, <5>1 DEF OnTrail
        <5>4. \A j \in 0 .. at + 1 : j \in 0 .. at \/ j = at + 1
          BY <1>1, OneAhead
        <5>5. QED
          BY <5>2, <5>3, <5>4
      <4>2. QED
        BY <2>1, <4>1 DEF OnTrail
    <3>2. FromDirectories'
      <4>1. FromDirectories /\ current # number
        BY <1>2, <1>5, <2>3 DEF FromDirectories
      <4>2. current \in DOMAIN image /\ image[current].kind = "directory"
        BY <1>1, <1>2, <2>3, EntriesTyped DEF IsDirectory
      <4>3. \A d : Entries(d)' = Entries(d)
        BY <2>1 DEF Entries, request
      <4>4. image' = image
        BY <2>1 DEF request
      <4>5. entered' \ {number} = entered
        BY <1>5, <2>1
      <4>6. \A v \in entered : v \in DOMAIN image /\ image[v].kind = "directory"
        BY <4>1, <4>2 DEF FromDirectories
      <4>7. \A v \in entered' \ {RootInode} :
              \E d \in entered : \E e \in Entries(d) : e.number = v
        BY <1>2, <2>1, <2>3, <4>1 DEF FromDirectories
      <4>8. QED
        BY <2>1, <4>3, <4>4, <4>5, <4>6, <4>7 DEF FromDirectories
    <3>3. QED
      BY <3>1, <3>2
  <2>4. Walking'
    BY <2>1, <2>3, SoundStays DEF Walking
  <2>5. Answered'
    BY <2>1 DEF Answered
  <2>6. QED
    BY <2>2, <2>4, <2>5 DEF PathInv
<1>6. QED
  BY <1>3, <1>4, <1>5

LEMMA HashKeeps == ASSUME PathInv, LookupByHash PROVE PathInv'
<1>1. Naming
  BY DEF LookupByHash, Naming
<1>2. ASSUME Resolvable, Enter(Inode.index[Name]) PROVE PathInv'
  <2>1. ASSUME Sound, Downward PROVE Inode.index[Name] \in Held(current, Name)
    <3>1. IsDirectory /\ Name \in DOMAIN Inode.index
      BY <1>2 DEF Resolvable
    <3>2. current \in DOMAIN image /\ Inode = image[current] /\ image[current].kind = "directory"
      BY <3>1, EntriesTyped DEF PathInv, IsDirectory
    <3>3. Name # ".."
      <4>1. at + 1 \in DOMAIN path.parts
        BY <1>1, OneAhead, PathTyped DEF PathInv
      <4>2. QED
        BY <2>1, <4>1 DEF Downward, Name, ToSet
    <3>4. {Inode.index[Name]} = Held(current, Name)
      BY <2>1, <3>1, <3>2, <3>3 DEF Sound
    <3>5. QED
      BY <3>4
  <2>2. QED
    BY <1>1, <1>2, <2>1, EnterKeeps
<1>3. ASSUME stage' = "list", UNCHANGED <<request, at, current, entered, closed, result>>
      PROVE  PathInv'
  <2>1. Walking'
    BY <1>1, <1>3, KeepsWalking DEF PathInv, Naming
  <2>2. Answered'
    BY <1>3 DEF Answered
  <2>3. PathShape'
    BY <1>1, <1>3 DEF PathInv, PathShape, Naming, Name, request
  <2>4. QED
    BY <2>1, <2>2, <2>3 DEF PathInv
<1>4. QED
  BY <1>2, <1>3 DEF LookupByHash

\* A listing that misses nothing answers, one that does gives what it holds or an error.
LEMMA SearchKeeps ==
  ASSUME PathInv, stage = "listing", NEW places, places \subseteq Recovered, NEW complete,
         SearchListing(places, complete),
         complete => places = Recovered /\ Complete, ~complete => closed \/ places = Recovered
  PROVE  PathInv'
<1>1. PathShape /\ Walking /\ stage # "done" /\ Naming /\ IsDirectory
  BY DEF PathInv, PathShape, Naming
<1>2. CASE Named(places) # {}
  <2>1. Enter(Inode.entries[Min(Named(places))].number)
    BY <1>2 DEF SearchListing, EnterFirst
  <2>2. Inode.entries[Min(Named(places))].number \in Held(current, Name)
    BY <1>1, <1>2, FoundByReading
  <2>3. QED
    BY <1>1, <2>1, <2>2, EnterKeeps
<1>3. CASE Named(places) = {}
  <2> DEFINE verdict == IF complete THEN "notFound" ELSE "error"
  <2>1. Return(verdict) /\ verdict \in {"invalid", "loop", "notFound", "error", "ok"}
    BY <1>3 DEF SearchListing
  <2>2. ASSUME Sound, Downward, NEW f, Trails(f, "held") PROVE RightAnswer(f, verdict, current)
    <3>1. OnTrail
      BY <1>1, <2>2 DEF Walking
    <3>2. verdict = "notFound" => \A w : Trails(w, "reach") => w[Len(path.parts)] = {}
      <4>1. ASSUME complete PROVE Holding(current, Name, "reach") = {}
        BY <1>1, <1>3, <4>1, UnfoundByReading
      <4>2. QED
        BY <1>1, <3>1, <4>1, ReadingEnds
    <3>3. ~closed => \A u : Trails(u, "read") => u[Len(path.parts)] = {}
      <4>1. ASSUME ~closed PROVE Holding(current, Name, "read") = {}
        <5>1. places = Recovered
          BY <4>1
        <5>2. QED
          BY <1>1, <1>3, <5>1, UnfoundByReading
      <4>2. QED
        BY <1>1, <3>1, <4>1, ReadingEnds
    <3>4. verdict \notin {"ok", "loop"}
      OBVIOUS
    <3> HIDE DEF verdict
    <3>5. QED
      BY <3>2, <3>3, <3>4 DEF RightAnswer
  <2> HIDE DEF verdict
  <2>3. QED
    BY <1>1, <2>1, <2>2, ReturnKeeps
<1>4. QED
  BY <1>2, <1>3

LEMMA ListingKeeps == ASSUME PathInv, LookupByListing PROVE PathInv'
<1>1. CASE ~closed /\ SearchListing(Recovered, Complete)
  BY <1>1, SearchKeeps DEF LookupByListing
<1>2. ASSUME closed, NEW n \in 0 .. Len(Inode.entries),
             SearchListing({i \in Recovered : i <= n}, FALSE)
      PROVE  PathInv'
  <2> DEFINE places == {i \in Recovered : i <= n}
  <2>1. places \subseteq Recovered
    OBVIOUS
  <2> HIDE DEF places
  <2>2. SearchListing(places, FALSE)
    BY <1>2 DEF places
  <2>3. QED
    BY <1>2, <2>1, <2>2, SearchKeeps DEF LookupByListing
<1>3. QED
  BY <1>1, <1>2 DEF LookupByListing

LEMMA ListKeeps == ASSUME PathInv, ListEntries PROVE PathInv'
<1>1. PathShape /\ Walking /\ stage # "done" /\ stage = "list" /\ Naming
  BY DEF PathInv, PathShape, Naming, ListEntries
<1>2. CASE closed \/ ~IsDirectory
  <2>1. Return("error")
    BY <1>2 DEF ListEntries
  <2>2. ASSUME Sound, Downward, NEW f, Trails(f, "held") PROVE RightAnswer(f, "error", current)
    <3>1. OnTrail
      BY <1>1, <2>2 DEF Walking
    <3>2. ~closed => Holding(current, Name, "read") = {}
      BY <1>2, NotADirectory DEF Holding, HeldReadably
    <3>3. ~closed => \A u : Trails(u, "read") => u[Len(path.parts)] = {}
      BY <1>1, <3>1, <3>2, ReadingEnds
    <3>4. QED
      BY <3>3 DEF RightAnswer
  <2>3. QED
    BY <1>1, <2>1, <2>2, ReturnKeeps
<1>3. CASE ~(closed \/ ~IsDirectory)
  <2>1. stage' = "listing" /\ UNCHANGED <<request, at, current, entered, closed, result>>
    BY <1>3 DEF ListEntries
  <2>2. Walking'
    BY <1>1, <2>1, KeepsWalking
  <2>3. Answered'
    BY <2>1 DEF Answered
  <2>4. PathShape'
    BY <1>1, <1>3, <2>1 DEF PathShape, Naming, Name, IsDirectory, Inode, request
  <2>5. QED
    BY <2>2, <2>3, <2>4 DEF PathInv
<1>4. QED
  BY <1>2, <1>3

LEMMA CheckKeeps == ASSUME PathInv, Check PROVE PathInv'
<1>1. PathShape /\ Walking /\ stage # "done"
  BY DEF PathInv, Check
<1>2. CASE Return("invalid")
  <2>1. \A f : RightAnswer(f, "invalid", current)
    BY DEF RightAnswer
  <2>2. QED
    BY <1>1, <1>2, <2>1, ReturnKeeps
<1>3. CASE stage' = "walk" /\ UNCHANGED <<request, at, current, entered, closed, result>>
  <2>1. Walking'
    BY <1>1, <1>3, KeepsWalking
  <2>2. Answered'
    BY <1>3 DEF Answered
  <2>3. PathShape'
    BY <1>1, <1>3 DEF PathShape, request
  <2>4. QED
    BY <2>1, <2>2, <2>3 DEF PathInv
<1>4. QED
  BY <1>2, <1>3 DEF Check

LEMMA SkipKeeps == ASSUME PathInv, Skip PROVE PathInv'
<1>1. /\ PathShape /\ Walking /\ stage = "walk" /\ at < Len(path.parts) /\ Name \in {"", "."}
      /\ at' = at + 1 /\ UNCHANGED <<request, stage, current, entered, closed, result>>
  BY DEF PathInv, Skip
<1>2. /\ Len(path.parts) \in Nat /\ at \in Nat /\ at + 1 \in 0 .. Len(path.parts)
      /\ \A j \in 0 .. at + 1 : j \in 0 .. at \/ j = at + 1
  <2>1. Len(path.parts) \in Nat /\ at \in Nat /\ at < Len(path.parts)
    BY <1>1, PathTyped
  <2>2. QED
    BY <2>1
<1>3. PathShape'
  BY <1>1, <1>2 DEF PathShape, request
<1>4. ASSUME Sound, Downward PROVE OnTrail' /\ FromDirectories'
  <2>1. OnTrail /\ FromDirectories
    BY <1>1, <1>4 DEF Walking
  <2>2. ASSUME NEW f, Trails(f, "held")'
        PROVE  f[at + 1] = {current} /\ \A j \in 0 .. at + 1 : \E x : f[j] = {x}
    <3>1. Trails(f, "held")
      BY <1>1, <2>2, TrailsStay
    <3>2. f[at] = {current} /\ \A j \in 0 .. at : \E x : f[j] = {x}
      BY <2>1, <3>1 DEF OnTrail
    <3>3. f[at + 1] = Follow(f[at], path.parts[at + 1], "held")
      <4>1. Trail(f, path.parts, Len(path.parts), "held")
        BY <3>1 DEF Trails
      <4>2. Len(path.parts) \in Nat /\ at \in Nat /\ at + 1 \in 0 .. Len(path.parts)
        BY <1>1, <1>2, PathTyped
      <4>3. QED
        BY <4>1, <4>2, TrailNext
    <3>4. f[at + 1] = {current}
      BY <1>1, <3>2, <3>3 DEF Follow, Name
    <3>5. QED
      BY <1>2, <3>2, <3>4
  <2>3. OnTrail'
    BY <1>1, <2>2 DEF OnTrail
  <2>4. FromDirectories'
    BY <1>1, <2>1 DEF FromDirectories, Entries, request
  <2>5. QED
    BY <2>3, <2>4
<1>5. Walking'
  BY <1>1, <1>4, SoundStays DEF Walking
<1>6. Answered'
  BY <1>1 DEF Answered
<1>7. QED
  BY <1>3, <1>5, <1>6 DEF PathInv

LEMMA CloseKeeps == ASSUME PathInv, Close PROVE PathInv'
<1>1. UNCHANGED <<request, stage, at, current, entered, result>> /\ closed' = TRUE
  BY DEF Close
<1>2. PathShape'
  BY <1>1 DEF PathInv, PathShape, Name, IsDirectory, Inode, request
<1>3. (Sound' <=> Sound) /\ (Downward' <=> Downward)
  BY <1>1, SoundStays
<1>4. Walking'
  <2>1. CASE stage # "done"
    BY <1>1, <2>1, KeepsWalking DEF PathInv
  <2>2. CASE stage = "done"
    BY <1>1, <2>2 DEF Walking
  <2>3. QED
    BY <2>1, <2>2
<1>5. Answered'
  <2>1. ASSUME stage' = "done", Sound', Downward', NEW f, Trails(f, "held")'
        PROVE  RightAnswer(f, result, current)'
    <3>1. Trails(f, "held")
      BY <1>1, <2>1, TrailsStay
    <3>2. RightAnswer(f, result, current)
      BY <1>1, <1>3, <2>1, <3>1 DEF PathInv, Answered
    <3>3. \A u, how : Trails(u, how)' <=> Trails(u, how)
      BY <1>1, TrailsStay
    <3>4. QED
      BY <1>1, <3>2, <3>3 DEF RightAnswer, request
  <2>2. QED
    BY <2>1 DEF Answered
<1>6. QED
  BY <1>2, <1>4, <1>5 DEF PathInv

LEMMA FrontOf ==
  ASSUME NEW S, NEW p \in Seq(S), Len(p) # 0
  PROVE  /\ Len(p) - 1 \in Nat /\ Len(Front(p)) = Len(p) - 1
         /\ \A i \in 1 .. Len(p) - 1 : Front(p)[i] = p[i]
<1>1. Len(p) \in Nat
  BY LenProperties
<1>2. PICK n \in Int : n = Len(p) - 1
  BY <1>1
<1>3. n \in Nat
  BY <1>1, <1>2
<1>4. \A i \in 1 .. n : p[i] \in S
  <2>1. ASSUME NEW i \in 1 .. n PROVE i \in 1 .. Len(p)
    BY <1>1, <1>2
  <2>2. QED
    BY <2>1, ElementOfSeq
<1>5. /\ Len(SubSeq(p, 1, n)) = IF 1 <= n THEN n - 1 + 1 ELSE 0
      /\ \A i \in 1 .. n - 1 + 1 : SubSeq(p, 1, n)[i] = p[1 + i - 1]
  BY <1>4, SubSeqProperties
<1>6. Len(SubSeq(p, 1, n)) = n /\ \A i \in 1 .. n : SubSeq(p, 1, n)[i] = p[i]
  BY <1>3, <1>5
<1>7. Front(p) = SubSeq(p, 1, n)
  BY <1>2 DEF Front
<1>8. QED
  BY <1>2, <1>3, <1>6, <1>7

\* The last step of a trail.
LEMMA LastName ==
  ASSUME NEW S, NEW parts \in Seq(S), Len(parts) # 0, NEW f, NEW r,
         Trail(f, parts, Len(parts), r)
  PROVE  /\ Len(parts) - 1 \in 0 .. Len(parts)
         /\ f[Len(parts)] = Follow(f[Len(parts) - 1], parts[Len(parts)], r)
<1>1. PICK m \in Nat : m = Len(parts)
  BY LenProperties
<1>2. PICK i \in Nat : i + 1 = m /\ m - 1 = i
  <2>1. m - 1 \in Nat /\ m - 1 + 1 = m
    BY <1>1
  <2>2. QED
    BY <2>1
<1>3. i + 1 \in 0 .. m /\ i \in 0 .. m
  BY <1>2
<1>4. Trail(f, parts, m, r)
  BY <1>1
<1>5. f[i + 1] = Follow(f[i], parts[i + 1], r)
  BY <1>3, <1>4, TrailNext
<1>6. QED
  BY <1>1, <1>2, <1>3, <1>5

\* The path without its last name.
LEMMA FrontLeads ==
  ASSUME NEW S, NEW parts \in Seq(S), Len(parts) # 0, NEW f,
         Trail(f, parts, Len(parts), "held")
  PROVE  Leads(Front(parts), Held) = f[Len(parts) - 1]
<1>1. PICK m \in Nat : m = Len(parts)
  BY LenProperties
<1>2. PICK n \in Nat : n = m - 1
  BY <1>1
<1>3. Len(Front(parts)) = n /\ \A i \in 1 .. n : Front(parts)[i] = parts[i]
  BY <1>1, <1>2, FrontOf
<1>4. Trail(f, parts, m, "held")
  BY <1>1
<1>5. PICK g : Trail(g, Front(parts), n, "held") /\ Leads(Front(parts), Held) = g[n]
  BY <1>3, LeadsAlong
<1>6. n <= m /\ \A i \in 1 .. n : parts[i] = Front(parts)[i]
  BY <1>2, <1>3
<1>7. f[n] = g[n]
  BY <1>4, <1>5, <1>6, TrailsAgree
<1>8. QED
  BY <1>1, <1>2, <1>5, <1>7

\* The directory that what a path leads to was entered from.
LEMMA EnteredFrom ==
  ASSUME PathShape, Sound, OnTrail, at = Len(path.parts), IsDirectory, Len(path.parts) # 0,
         path.parts[Len(path.parts)] \notin {"", "."}, NEW f, Trails(f, "held"),
         NEW number \in Inode.up
  PROVE  f[Len(path.parts) - 1] = {number}
<1>1. path.parts \in Seq(STRING) /\ Len(path.parts) \in Nat
  BY PathTyped
<1>2. /\ Len(path.parts) - 1 \in 0 .. Len(path.parts)
      /\ f[Len(path.parts)] =
           Follow(f[Len(path.parts) - 1], path.parts[Len(path.parts)], "held")
  BY <1>1, LastName DEF Trails
<1>3. f[Len(path.parts)] = {current} /\ \E x : f[Len(path.parts) - 1] = {x}
  BY <1>2 DEF OnTrail
<1>4. PICK d : f[Len(path.parts) - 1] = {d}
  BY <1>3
<1>5. {current} = Held(d, path.parts[Len(path.parts)])
  <2>1. Follow({d}, path.parts[Len(path.parts)], "held")
          = Holding(d, path.parts[Len(path.parts)], "held")
    BY FollowOne
  <2>2. QED
    BY <1>2, <1>3, <1>4, <2>1 DEF Holding
<1>6. PICK e \in Entries(d) : e.number = current
  BY <1>5 DEF Held
<1>7. d \in DOMAIN image
  BY <1>6 DEF Entries
<1>8. current \in DOMAIN image /\ Inode = image[current] /\ image[current].kind = "directory"
  BY EntriesTyped DEF IsDirectory
<1>9. image[current].up \subseteq {d}
  BY <1>6, <1>7, <1>8 DEF Sound
<1>10. QED
  BY <1>4, <1>8, <1>9

LEMMA FinishKeeps == ASSUME PathInv, Finish PROVE PathInv'
<1>1. PathShape /\ Walking /\ stage = "walk" /\ at = Len(path.parts)
  BY DEF PathInv, Finish
<1>2. ASSUME NEW verdict \in {"ok", "error", "notFound"}, Return(verdict),
             operation = "ResolveInodeByPath" => verdict = "ok",
             operation = "DirectoryParentInodeByPath" => verdict # "ok",
             operation # "DirectoryParentInodeByPath" => verdict # "notFound"
      PROVE  PathInv'
  <2>1. ASSUME Sound, Downward, NEW f, Trails(f, "held") PROVE RightAnswer(f, verdict, current)
    <3>1. f[Len(path.parts)] = {current}
      BY <1>1, <2>1 DEF Walking, OnTrail
    <3>2. QED
      BY <1>2, <3>1 DEF RightAnswer
  <2>2. QED
    BY <1>1, <1>2, <2>1, ReturnKeeps
<1>3. CASE operation = "ResolveInodeByPath"
  BY <1>2, <1>3 DEF Finish
<1>4. CASE operation \notin {"ResolveInodeByPath", "DirectoryParentInodeByPath"}
  <2>1. \E verdict \in {"ok", "error"} : Return(verdict)
    <3>1. operation \in {"OpenInodeByPath", "ReadFileDataByPath", "ListDirectoryEntriesByPath"}
      BY <1>1, <1>4 DEF PathShape, Operations
    <3>2. CASE operation = "OpenInodeByPath"
      BY <3>2 DEF Finish
    <3>3. CASE operation = "ReadFileDataByPath"
      BY <3>3 DEF Finish
    <3>4. CASE operation = "ListDirectoryEntriesByPath"
      BY <3>4 DEF Finish
    <3>5. QED
      BY <3>1, <3>2, <3>3, <3>4
  <2>2. QED
    BY <1>2, <1>4, <2>1
<1>5. CASE operation = "DirectoryParentInodeByPath"
  <2>1. Return("error") \/ (IsDirectory /\ ReturnParent)
    BY <1>5 DEF Finish
  <2>2. ASSUME IsDirectory, NEW number \in Parent,
               stage' = "done", result' = "ok", current' = number,
               UNCHANGED <<request, at, entered, closed>>
        PROVE  PathInv'
    <3>1. (Sound' <=> Sound) /\ (Downward' <=> Downward)
      BY <2>2, SoundStays
    <3>2. PathShape'
      BY <1>1, <2>2 DEF PathShape, request
    <3>3. Walking'
      BY <2>2 DEF Walking
    <3>4. ASSUME Sound', Downward', NEW f, Trails(f, "held")'
          PROVE  RightAnswer(f, result, current)'
      <4>1. Trails(f, "held")
        BY <2>2, <3>4, TrailsStay
      <4>2. Len(path.parts) # 0 /\ path.parts[Len(path.parts)] \notin {"", "."} =>
              f[Len(path.parts) - 1] = {number}
        BY <1>1, <2>2, <3>1, <3>4, <4>1, EnteredFrom DEF Walking, Parent
      <4>3. path' = path /\ operation' = operation
        BY <2>2 DEF request
      <4>4. QED
        BY <1>5, <2>2, <4>2, <4>3 DEF RightAnswer
    <3>5. Answered'
      BY <3>4 DEF Answered
    <3>6. QED
      BY <3>2, <3>3, <3>5 DEF PathInv
  <2>3. QED
    BY <1>2, <1>5, <2>1, <2>2 DEF ReturnParent
<1>6. QED
  BY <1>3, <1>4, <1>5

LEMMA PathInvInitially == PathInit => PathInv
<1> SUFFICES ASSUME PathInit PROVE PathInv
  OBVIOUS
<1>1. path.parts \in Seq(STRING) /\ Len(path.parts) \in Nat
  BY PathAssumption, LenProperties DEF PathInit
<1>2. PathShape
  <2>1. 0 \in 0 .. Len(path.parts)
    BY <1>1
  <2>2. QED
    BY <2>1 DEF PathInit, PathShape
<1>3. OnTrail
  <2>1. ASSUME NEW f, Trails(f, "held") PROVE f[0] = {RootInode}
    BY <1>1, <2>1 DEF Trails, Trail
  <2>2. at = 0 /\ current = RootInode
    BY DEF PathInit
  <2>3. QED
    BY <2>1, <2>2 DEF OnTrail
<1>4. FromDirectories
  BY DEF PathInit, FromDirectories
<1>5. Answered
  BY DEF PathInit, Answered
<1>6. QED
  BY <1>2, <1>3, <1>4, <1>5 DEF PathInv, Walking

LEMMA PathInvKept == PathInv /\ [PathNext]_pathVars => PathInv'
<1> SUFFICES ASSUME PathInv, [PathNext]_pathVars PROVE PathInv'
  OBVIOUS
<1>1. CASE Check
  BY <1>1, CheckKeeps
<1>2. CASE Skip
  BY <1>2, SkipKeeps
<1>3. CASE LookupByHash
  BY <1>3, HashKeeps
<1>4. CASE ListEntries
  BY <1>4, ListKeeps
<1>5. CASE LookupByListing
  BY <1>5, ListingKeeps
<1>6. CASE Finish
  BY <1>6, FinishKeeps
<1>7. CASE Close
  BY <1>7, CloseKeeps
<1>8. CASE UNCHANGED pathVars
  <2>1. UNCHANGED request
    BY <1>8 DEF pathVars
  <2>2. PathShape'
    BY <1>8 DEF PathInv, PathShape, pathVars, Name, IsDirectory, Inode, request
  <2>3. Walking'
    <3>1. CASE stage # "done"
      BY <1>8, <3>1, KeepsWalking DEF PathInv, pathVars
    <3>2. CASE stage = "done"
      BY <1>8, <3>2 DEF Walking, pathVars
    <3>3. QED
      BY <3>1, <3>2
  <2>4. Answered'
    <3>1. ASSUME stage' = "done", Sound', Downward', NEW f, Trails(f, "held")'
          PROVE  RightAnswer(f, result, current)'
      <4>1. Trails(f, "held") /\ Sound /\ Downward
        BY <2>1, <3>1, TrailsStay, SoundStays
      <4>2. RightAnswer(f, result, current)
        BY <1>8, <3>1, <4>1 DEF PathInv, Answered, pathVars
      <4>3. \A u, how : Trails(u, how)' <=> Trails(u, how)
        BY <2>1, TrailsStay
      <4>4. QED
        BY <1>8, <4>2, <4>3 DEF RightAnswer, pathVars, request
    <3>2. QED
      BY <3>1 DEF Answered
  <2>5. QED
    BY <2>2, <2>3, <2>4 DEF PathInv
<1>9. QED
  BY <1>1, <1>2, <1>3, <1>4, <1>5, <1>6, <1>7, <1>8 DEF PathNext

LEMMA PathInvAlways == PathSpec => []PathInv
  BY PathInvInitially, PathInvKept, PTL DEF PathSpec

-------------------------------------------------------------------------------
(* However much of a sound tree is lost, a path leads to its inode or to an error;  *)
(* but a name in a block that listings pass over is said not to be there.           *)
THEOREM PathsAreNotMisled == PathSpec => []DamageNeverMisleads
<1>1. PathInv => DamageNeverMisleads
  <2> SUFFICES ASSUME PathInv, Sound, Downward, operation # "DirectoryParentInodeByPath"
               PROVE  /\ result = "ok" => Leads(path.parts, Held) = {current}
                      /\ result = "notFound" => Leads(path.parts, HeldInReach) = {}
                      /\ result # "loop"
    BY DEF DamageNeverMisleads
  <2>1. PICK f : /\ Trail(f, path.parts, Len(path.parts), "held")
                 /\ Leads(path.parts, Held) = f[Len(path.parts)]
    BY PathTyped, LeadsAlong DEF PathInv
  <2>2. stage = "done" => RightAnswer(f, result, current)
    BY <2>1 DEF PathInv, Answered, Trails
  <2>5. PICK w : /\ Trail(w, path.parts, Len(path.parts), "reach")
                 /\ Leads(path.parts, HeldInReach) = w[Len(path.parts)]
    BY PathTyped, LeadsAlong DEF PathInv
  <2>3. stage # "done" => result = "none"
    BY DEF PathInv, PathShape
  <2>4. QED
    BY <2>1, <2>2, <2>3, <2>5 DEF RightAnswer, Trails
<1>2. QED
  BY <1>1, PathInvAlways, PTL

(* A path whose names can all be read resolves, whatever else is lost. *)
THEOREM ReadablePathsResolve == PathSpec => []ReadableNamesResolve
<1>1. PathInv => ReadableNamesResolve
  <2> SUFFICES ASSUME PathInv, stage = "done", Sound, Downward,
                      operation = "ResolveInodeByPath", ~closed,
                      Leads(path.parts, HeldReadably) # {}
               PROVE  result \in {"ok", "invalid"}
    BY DEF ReadableNamesResolve
  <2>1. PICK u : /\ Trail(u, path.parts, Len(path.parts), "read")
                 /\ Leads(path.parts, HeldReadably) = u[Len(path.parts)]
    BY PathTyped, LeadsAlong DEF PathInv
  <2>2. PICK f : Trail(f, path.parts, Len(path.parts), "held")
    BY PathTyped, LeadsAlong DEF PathInv
  <2>3. RightAnswer(f, result, current)
    BY <2>2 DEF PathInv, Answered, Trails
  <2>4. QED
    BY <2>1, <2>3 DEF RightAnswer, Trails
<1>2. QED
  BY <1>1, PathInvAlways, PTL

\* A parent that is returned is where the path without its last name leads.
LEMMA ParentFound ==
  ASSUME PathInv, operation = "DirectoryParentInodeByPath", result = "ok", Sound, Downward,
         Len(path.parts) # 0, path.parts[Len(path.parts)] \notin {"", "."}
  PROVE  Leads(Front(path.parts), Held) = {current}
<1>1. path.parts \in Seq(STRING) /\ Len(path.parts) \in Nat
  BY PathTyped DEF PathInv
<1>2. PICK f : Trail(f, path.parts, Len(path.parts), "held")
  BY <1>1, TrailExists
<1>3. stage = "done"
  BY DEF PathInv, PathShape
<1>4. f[Len(path.parts) - 1] = {current}
  BY <1>2, <1>3 DEF PathInv, Answered, RightAnswer, Trails
<1>5. QED
  BY <1>1, <1>2, <1>4, FrontLeads

(* The parent of what a path names is what the path without that name leads to. *)
THEOREM ParentsAgree == PathSpec => []ParentUndoesPath
<1>1. PathInv => ParentUndoesPath
  <2> SUFFICES ASSUME PathInv, operation = "DirectoryParentInodeByPath", result = "ok",
                      Sound, Downward, path.parts # <<>>, Last(path.parts) \notin {"", "."}
               PROVE  Leads(Front(path.parts), Held) = {current}
    BY DEF ParentUndoesPath
  <2>1. Len(path.parts) # 0
    BY PathTyped, EmptySeq DEF PathInv
  <2>2. path.parts[Len(path.parts)] \notin {"", "."}
    BY DEF Last
  <2>3. QED
    BY <2>1, <2>2, ParentFound
<1>2. QED
  BY <1>1, PathInvAlways, PTL
===============================================================================
