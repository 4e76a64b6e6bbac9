----------------------------- MODULE ReportProofs -----------------------------
(***************************************************************************)
(* What a report has, on file systems of any size and shape: no inode      *)
(* twice, no more than the cap, all that its directories lead to, all that *)
(* its tasks found, and in a strict one nothing unverified.                *)
(***************************************************************************)
EXTENDS Report, SequenceLemmas, SequenceTheorems, FiniteSetTheorems, TLAPS

\* Whatever the stack holds, only inodes that were not visited enter discovered, and
\* with that they are.
WalkInv ==
  /\ discovered \in Seq(ToSet(discovered))
  /\ \A i \in DOMAIN discovered : discovered[i].inode \in visited
  /\ \A i, j \in DOMAIN discovered : discovered[i].inode = discovered[j].inode => i = j
  /\ cap \in Int
  /\ cap > 0 => Len(discovered) <= cap

Started == {"walk", "list", "pool", "analyse", "collect"}

\* A slot is filled only from an inode whose checksum holds, and the walk is not begun
\* on a volume whose superblock's does not.
StrictInv ==
  mode = "strict" =>
    /\ poolResult # "report"
    /\ pc \in Started \/ result = "report" => ~volume.superblockBad
    /\ pc \in {"analyse", "collect"} => DOMAIN slot = TaskIds /\ DOMAIN status = TaskIds
    /\ pc \in {"analyse", "collect"} =>
         \A i \in DOMAIN slot :
           /\ DOMAIN slot[i] = {"file", "artifact", "anomalies"}
           /\ slot[i].file => volume.health[discovered[i].inode] = "sound"
    /\ result = "report" =>
         pc = "returned" /\ \A item \in files : volume.health[item.inode] = "sound"

IInv == WalkInv /\ StrictInv

-------------------------------------------------------------------------------
LEMMA OneMore ==
  ASSUME NEW s, s \in Seq(ToSet(s)), NEW e
  PROVE  /\ Append(s, e) \in Seq(ToSet(Append(s, e))) /\ Len(Append(s, e)) = Len(s) + 1
         /\ DOMAIN Append(s, e) = 1 .. Len(s) + 1 /\ DOMAIN s = 1 .. Len(s) /\ Len(s) \in Nat
         /\ Append(s, e)[Len(s) + 1] = e /\ \A i \in DOMAIN s : Append(s, e)[i] = s[i]
<1> DEFINE S == ToSet(s) \cup {e}
           t == Append(s, e)
<1>1. s \in Seq(S) /\ DOMAIN s = 1 .. Len(s) /\ Len(s) \in Nat
  <2>1. ToSet(s) \subseteq S
    OBVIOUS
  <2>2. QED
    BY <2>1, SeqMonotonic, LenProperties
<1>2. e \in S
  OBVIOUS
<1>3. /\ t \in Seq(S) /\ Len(t) = Len(s) + 1 /\ t[Len(s) + 1] = e
      /\ \A i \in 1 .. Len(s) : t[i] = s[i]
  BY <1>1, <1>2, AppendProperties
<1>4. DOMAIN t = 1 .. Len(s) + 1
  BY <1>3, LenProperties
<1>5. t \in Seq(ToSet(t))
  <2> HIDE DEF t, S
  <2>1. t \in [1 .. Len(t) -> S] /\ Len(t) \in Nat
    BY <1>3, LenProperties
  <2>2. t \in [1 .. Len(t) -> ToSet(t)]
    BY <2>1 DEF ToSet
  <2>3. QED
    BY <2>1, <2>2, SeqDef
<1>6. QED
  BY <1>1, <1>3, <1>4, <1>5

LEMMA InitInv == Init => IInv
<1> SUFFICES ASSUME Init PROVE IInv
  OBVIOUS
<1>1. cap \in Int
  BY OptionAssumption DEF Init
<1>2. discovered \in Seq(ToSet(discovered)) /\ DOMAIN discovered = {} /\ Len(discovered) = 0
  BY EmptySeq, LenProperties DEF Init
<1>3. QED
  BY <1>1, <1>2 DEF Init, IInv, WalkInv, StrictInv, Started

\* What a step leaves alone.
LEMMA Kept ==
  ASSUME IInv, UNCHANGED <<args, discovered, visited, slot, files>>,
         UNCHANGED status \/ pc' \notin {"analyse", "collect"} \/ DOMAIN status' = DOMAIN status,
         UNCHANGED poolResult \/ poolResult' # "report",
         pc' \in Started => pc \in Started,
         pc' \in {"analyse", "collect"} => pc \in {"analyse", "collect"},
         result' = "report" => result = "report", pc = "returned" => pc' = "returned"
  PROVE  IInv'
<1>1. WalkInv'
  BY DEF IInv, WalkInv, args
<1>2. StrictInv'
  BY DEF IInv, StrictInv, args, Started, TaskIds
<1>3. QED
  BY <1>1, <1>2 DEF IInv

LEMMA VisitStep == ASSUME IInv, Visit PROVE IInv'
<1> DEFINE item == Last(stack)
<1>1. /\ UNCHANGED <<args, slot, files, status, poolResult, result>> /\ pc = "walk" /\ pc' \in {"list", "walk"}
      /\ visited' = visited \cup {item.inode}
      /\ \/ UNCHANGED discovered
         \/ discovered' = Append(discovered, item) /\ item.inode \notin visited /\ ~CapReached
  BY DEF Visit, Fresh, args, tasks, report
<1> HIDE DEF item
<1>2. StrictInv'
  BY <1>1 DEF IInv, StrictInv, args, Started
<1>3. CASE UNCHANGED discovered
  BY <1>1, <1>2, <1>3 DEF IInv, WalkInv, args
<1>4. CASE discovered' = Append(discovered, item) /\ item.inode \notin visited /\ ~CapReached
  <2> DEFINE t == Append(discovered, item)
  <2>1. discovered \in Seq(ToSet(discovered))
    BY DEF IInv, WalkInv
  <2>2. /\ t \in Seq(ToSet(t)) /\ Len(t) = Len(discovered) + 1
        /\ DOMAIN t = 1 .. Len(discovered) + 1
        /\ DOMAIN discovered = 1 .. Len(discovered) /\ Len(discovered) \in Nat
        /\ t[Len(discovered) + 1] = item
        /\ \A i \in DOMAIN discovered : t[i] = discovered[i]
    BY <2>1, OneMore
  <2>3. discovered' = t
    BY <1>4
  <2> HIDE DEF t
  <2>4. \A i \in DOMAIN t : t[i].inode \in visited'
    BY <1>1, <2>2 DEF IInv, WalkInv
  <2>5. \A i, j \in DOMAIN t : t[i].inode = t[j].inode => i = j
    <3>1. \A i \in DOMAIN discovered : discovered[i].inode # item.inode
      BY <1>4 DEF IInv, WalkInv
    <3>2. QED
      BY <2>2, <3>1 DEF IInv, WalkInv
  <2>6. cap \in Int /\ (cap > 0 => Len(t) <= cap)
    BY <1>4, <2>2 DEF CapReached, IInv, WalkInv
  <2>7. WalkInv'
    BY <1>1, <2>2, <2>3, <2>4, <2>5, <2>6 DEF WalkInv, args
  <2>8. QED
    BY <1>2, <2>7 DEF IInv
<1>5. QED
  BY <1>1, <1>3, <1>4

LEMMA StartPoolStep == ASSUME IInv, StartPool PROVE IInv'
<1>1. WalkInv'
  BY DEF IInv, WalkInv, StartPool, args, walk
<1>2. EmptySlot.file = FALSE /\ DOMAIN EmptySlot = {"file", "artifact", "anomalies"}
  BY DEF EmptySlot
<1>3. StrictInv'
  BY <1>2 DEF IInv, StrictInv, StartPool, args, walk, report, Started, TaskIds
<1>4. QED
  BY <1>1, <1>3 DEF IInv

\* Only AnalyseInode fills a slot, and in a strict report only when the checksum
\* holds.
LEMMA AnalyseInodeStep == ASSUME IInv, NEW i \in DOMAIN status, AnalyseInode(i) PROVE IInv'
<1>1. WalkInv'
  BY DEF IInv, WalkInv, AnalyseInode, args, walk
<1>2. UNCHANGED <<args, pc, walk, report, poolResult, result>> /\ pc = "analyse" /\ DOMAIN status' = DOMAIN status
  BY DEF AnalyseInode, EndTask, Continue, Pool!End
<1>3. ASSUME mode = "strict"
      PROVE  /\ DOMAIN slot' = DOMAIN slot
             /\ \A k \in DOMAIN slot : DOMAIN slot'[k] = DOMAIN slot[k]
             /\ \A k \in DOMAIN slot : slot'[k].file =>
                  slot[k].file \/ volume.health[discovered[k].inode] = "sound"
  BY <1>2, <1>3 DEF IInv, StrictInv, AnalyseInode, InodeReports, Opens
<1>4. StrictInv'
  BY <1>2, <1>3 DEF IInv, StrictInv, args, walk, report, Started, TaskIds
<1>5. QED
  BY <1>1, <1>4 DEF IInv

LEMMA AnalyseDirectoryStep ==
  ASSUME IInv, NEW i \in DOMAIN status, AnalyseDirectory(i)
  PROVE  IInv'
<1>1. WalkInv'
  BY DEF IInv, WalkInv, AnalyseDirectory, args, walk
<1>2. UNCHANGED <<args, pc, walk, report, poolResult, result>> /\ pc = "analyse" /\ DOMAIN status' = DOMAIN status
  BY DEF AnalyseDirectory, EndTask, Pool!End
<1>3. ASSUME mode = "strict"
      PROVE  /\ DOMAIN slot' = DOMAIN slot
             /\ \A k \in DOMAIN slot : DOMAIN slot'[k] = DOMAIN slot[k]
             /\ \A k \in DOMAIN slot : slot'[k].file = slot[k].file
  BY <1>2, <1>3 DEF IInv, StrictInv, AnalyseDirectory
<1>4. StrictInv'
  BY <1>2, <1>3 DEF IInv, StrictInv, args, walk, report, Started, TaskIds
<1>5. QED
  BY <1>1, <1>4 DEF IInv

LEMMA CollectStep == ASSUME IInv, Collect PROVE IInv'
<1>1. WalkInv'
  BY DEF IInv, WalkInv, Collect, args, walk
<1>2. CASE poolResult = "ok"
  <2>1. mode = "strict" =>
          \A i \in {j \in DOMAIN slot : slot[j].file} :
            volume.health[discovered[i].inode] = "sound"
    BY DEF IInv, StrictInv, Collect
  <2>2. StrictInv'
    BY <1>2, <2>1 DEF IInv, StrictInv, Collect, Return, args, walk, tasks, Started
  <2>3. QED
    BY <1>1, <2>2 DEF IInv
<1>3. CASE poolResult # "ok"
  <2>1. StrictInv'
    BY <1>3 DEF IInv, StrictInv, Collect, Return, args, tasks, report, Started
  <2>2. QED
    BY <1>1, <2>1 DEF IInv
<1>4. QED
  BY <1>2, <1>3

LEMMA StepInv == IInv /\ [Next]_vars => IInv'
<1> SUFFICES ASSUME IInv, [Next]_vars PROVE IInv'
  OBVIOUS
<1>1. CASE Begin
  BY <1>1, Kept DEF Begin, Return, walk, tasks, report, Started
<1>2. CASE ResolveRoot
  BY <1>2, Kept DEF ResolveRoot, Return, walk, tasks, report, Started
<1>3. CASE VolumeIntegrity
  <2>1. WalkInv'
    BY <1>3 DEF VolumeIntegrity, IInv, WalkInv, args
  <2>2. StrictInv'
    BY <1>3 DEF VolumeIntegrity, Return, IInv, StrictInv, args, tasks, report, Started
  <2>3. QED
    BY <2>1, <2>2 DEF IInv
<1>4. CASE WalkEnds
  BY <1>4, Kept DEF WalkEnds, walk, tasks, report, Started
<1>5. CASE Visit
  BY <1>5, VisitStep
<1>6. CASE ListDirectory
  BY <1>6, Kept DEF ListDirectory, tasks, report, Started
<1>7. CASE StartPool
  BY <1>7, StartPoolStep
<1>8. CASE PoolReturns
  BY <1>8, Kept DEF PoolReturns, Pool!Return, walk, report, Started
<1>9. CASE Collect
  BY <1>9, CollectStep
<1>10. ASSUME NEW i \in DOMAIN status, Task(i) PROVE IInv'
  <2>1. CASE StartTask(i)
    BY <2>1, Kept DEF StartTask, Pool!Start, walk, report, Started
  <2>2. CASE CheckContext(i)
    BY <2>2, Kept DEF CheckContext, EndTask, Continue, Pool!End, walk, report, Started
  <2>3. CASE AnalyseInode(i)
    BY <2>3, AnalyseInodeStep
  <2>4. CASE AnalyseDirectory(i)
    BY <2>4, AnalyseDirectoryStep
  <2>5. QED
    BY <1>10, <2>1, <2>2, <2>3, <2>4 DEF Task
<1>11. CASE CloseVolume \/ CallerCancel
  BY <1>11, Kept DEF CloseVolume, CallerCancel, walk, tasks, report, Started
<1>12. CASE UNCHANGED vars
  BY <1>12, Kept DEF vars, walk, tasks, report, Started
<1>13. QED
  BY <1>1, <1>2, <1>3, <1>4, <1>5, <1>6, <1>7, <1>8, <1>9, <1>10, <1>11, <1>12
     DEF Next, Call, Returned

LEMMA Invariance == Spec => []IInv
<1>1. QED
  BY InitInv, StepInv, PTL DEF Spec

\* Every call of ReportWithContext, on every volume: hard links, cycles of directories and
\* listings that lead anywhere do not bring an inode into the report twice, nor the
\* report over the caller's cap.
THEOREM NoInodeTwice == Spec => []EachInodeOnce
<1>1. IInv => EachInodeOnce
  BY DEF IInv, WalkInv, EachInodeOnce
<1>2. QED
  BY <1>1, Invariance, PTL

\* In strict mode a report is given only of a volume whose superblock's checksum holds, and
\* has no inode whose checksum does not, whatever the tasks are interleaved with.
THEOREM StrictReport == Spec => []StrictIsVerified
<1>1. IInv => StrictIsVerified
  BY DEF IInv, StrictInv, StrictIsVerified
<1>2. QED
  BY <1>1, Invariance, PTL

-------------------------------------------------------------------------------
(* The walk *)

\* The first of some entries.
LEMMA SmallestEntry ==
  ASSUME NEW E, E \subseteq Nat \X Nat, E # {}
  PROVE  \E e \in E : \A f \in E \ {e} : Later(f, e)
<1> DEFINE names == {e[1] : e \in E}
<1>1. names \subseteq Nat /\ names # {}
  OBVIOUS
<1>2. PICK a \in names : \A b \in names : a <= b
  BY <1>1, Least
<1> DEFINE inodes == {e[2] : e \in {f \in E : f[1] = a}}
<1>3. inodes \subseteq Nat /\ inodes # {}
  BY <1>2
<1>4. PICK c \in inodes : \A d \in inodes : c <= d
  BY <1>3, Least
<1>5. PICK e \in E : e[1] = a /\ e[2] = c
  BY <1>4
<1>6. ASSUME NEW f \in E \ {e} PROVE Later(f, e)
  <2>1. f \in Nat \X Nat /\ e \in Nat \X Nat /\ a <= f[1] /\ (f[1] = a => c <= f[2])
    BY <1>2, <1>4
  <2>2. f[1] # e[1] \/ f[2] # e[2]
    BY <2>1, <1>6
  <2>3. f[1] \in Nat /\ f[2] \in Nat /\ a \in Nat /\ c \in Nat
    BY <2>1, <1>1, <1>3, <1>2, <1>4
  <2>4. QED
    BY <1>5, <2>1, <2>2, <2>3 DEF Later
<1>7. QED
  BY <1>6

Sorting(s, E) == s \in [1 .. Cardinality(E) -> E] /\ ToSet(s) = E /\ SortedDown(s)

LEMMA SortingExists ==
  ASSUME NEW E, E \subseteq Nat \X Nat, IsFiniteSet(E)
  PROVE  \E s : Sorting(s, E)
<1> DEFINE T == {n \in Nat : \E F \in SUBSET E : Cardinality(F) = n /\ ~\E s : Sorting(s, F)}
<1>1. SUFFICES ASSUME ~\E s : Sorting(s, E) PROVE FALSE
  OBVIOUS
<1>2. T \subseteq Nat /\ T # {}
  <2>1. Cardinality(E) \in Nat /\ E \in SUBSET E
    BY FS_CardinalityType
  <2>2. QED
    BY <1>1, <2>1
<1>3. PICK m \in T : \A k \in T : m <= k
  <2> HIDE DEF T
  <2>1. QED
    BY <1>2, Least
<1>4. PICK F \in SUBSET E : Cardinality(F) = m /\ ~\E s : Sorting(s, F)
  BY <1>3
<1>5. IsFiniteSet(F) /\ F \subseteq Nat \X Nat
  BY FS_Subset
<1>6. F # {}
  <2>1. ASSUME F = {} PROVE FALSE
    <3> DEFINE s == [i \in 1 .. 0 |-> <<0, 0>>]
    <3>1. Cardinality(F) = 0
      BY <2>1, FS_EmptySet
    <3>2. s \in [1 .. 0 -> F] /\ DOMAIN s = {} /\ ToSet(s) = F
      BY <2>1 DEF ToSet
    <3>3. SortedDown(s)
      BY <3>2 DEF SortedDown
    <3>4. QED
      BY <1>4, <3>1, <3>2, <3>3 DEF Sorting
  <2>2. QED
    BY <2>1
<1>7. PICK e \in F : \A f \in F \ {e} : Later(f, e)
  BY <1>5, <1>6, SmallestEntry
<1> DEFINE G == F \ {e}
<1>8. IsFiniteSet(G) /\ m \in Nat \ {0} /\ Cardinality(G) = m - 1
  <2>1. Cardinality(G) = Cardinality(F) - 1 /\ IsFiniteSet(G)
    BY <1>5, FS_RemoveElement
  <2>2. Cardinality(G) \in Nat
    BY <2>1, FS_CardinalityType
  <2>3. QED
    BY <1>3, <1>4, <2>1, <2>2
<1>9. \E s : Sorting(s, G)
  <2>1. G \in SUBSET E /\ m - 1 \in Nat /\ ~(m <= m - 1)
    BY <1>8
  <2>2. m - 1 \notin T
    BY <1>3, <2>1
  <2>3. QED
    BY <1>8, <2>1, <2>2
<1>10. PICK s : Sorting(s, G)
  BY <1>9
<1>11. /\ s \in [1 .. m - 1 -> G] /\ {s[i] : i \in 1 .. m - 1} = G
       /\ \A i, j \in 1 .. m - 1 : i < j => Later(s[i], s[j])
  BY <1>8, <1>10 DEF Sorting, SortedDown, ToSet
<1> DEFINE t == [i \in 1 .. m |-> IF i = m THEN e ELSE s[i]]
<1>12. t \in [1 .. m -> F]
  BY <1>8, <1>11
<1>13. ToSet(t) = F
  <2>1. ASSUME NEW f \in F PROVE f \in ToSet(t)
    <3>1. CASE f = e
      <4>1. m \in DOMAIN t /\ t[m] = f
        BY <1>8, <3>1
      <4>2. QED
        BY <4>1 DEF ToSet
    <3>2. CASE f # e
      <4>1. PICK i \in 1 .. m - 1 : s[i] = f
        BY <1>11, <3>2
      <4>2. i \in DOMAIN t /\ t[i] = f
        BY <1>8, <4>1
      <4>3. QED
        BY <4>2 DEF ToSet
    <3>3. QED
      BY <3>1, <3>2
  <2>2. QED
    BY <1>12, <2>1 DEF ToSet
<1>14. SortedDown(t)
  <2>1. ASSUME NEW i \in 1 .. m, NEW j \in 1 .. m, i < j PROVE Later(t[i], t[j])
    <3>1. i \in 1 .. m - 1 /\ t[i] = s[i] /\ s[i] \in G
      BY <1>8, <1>11, <2>1
    <3>2. CASE j = m
      BY <1>7, <3>1, <3>2
    <3>3. CASE j # m
      BY <1>8, <1>11, <2>1, <3>1, <3>3
    <3>4. QED
      BY <3>2, <3>3
  <2>2. QED
    BY <2>1 DEF SortedDown
<1> HIDE DEF t
<1>15. QED
  BY <1>4, <1>12, <1>13, <1>14 DEF Sorting

\* What is pushed is the entries.
LEMMA PushedEntries ==
  ASSUME volume \in Volumes, NEW item \in Items
  PROVE  /\ Pushed(item) \in Seq(Items)
         /\ \A e \in volume.entries[item.inode] :
              \E k \in DOMAIN Pushed(item) : Pushed(item)[k].inode = e[2]
<1> DEFINE E == volume.entries[item.inode]
           sorted == CHOOSE s \in [1 .. Cardinality(E) -> E] : ToSet(s) = E /\ SortedDown(s)
           p == Pushed(item)
<1>1. /\ item.inode \in DOMAIN volume.health /\ item.path \in Seq(Nat)
      /\ E \subseteq Nat \X DOMAIN volume.health /\ DOMAIN volume.health \subseteq Nat /\ IsFiniteSet(E)
  BY VolumeAssumption DEF Items
<1>2. E \subseteq Nat \X Nat
  BY <1>1
<1> HIDE DEF E
<1>3. \E s \in [1 .. Cardinality(E) -> E] : ToSet(s) = E /\ SortedDown(s)
  BY <1>1, <1>2, SortingExists DEF Sorting
<1>4. sorted \in [1 .. Cardinality(E) -> E] /\ ToSet(sorted) = E
  BY <1>3
<1>5. p = [i \in DOMAIN sorted |-> Item(sorted[i][2], Append(item.path, sorted[i][1]))]
  BY DEF Pushed, E
<1> HIDE DEF sorted, p
<1>6. Cardinality(E) \in Nat
  BY <1>1, FS_CardinalityType
<1>7. \A i \in DOMAIN sorted : p[i] \in Items /\ p[i].inode = sorted[i][2]
  <2>1. ASSUME NEW i \in DOMAIN sorted
        PROVE  Item(sorted[i][2], Append(item.path, sorted[i][1])) \in Items
    <3>1. sorted[i][1] \in Nat /\ sorted[i][2] \in DOMAIN volume.health
      BY <1>1, <1>4
    <3>2. Append(item.path, sorted[i][1]) \in Seq(Nat)
      BY <1>1, <3>1, AppendProperties
    <3>3. QED
      BY <3>1, <3>2 DEF Item, Items
  <2>2. QED
    BY <1>5, <2>1 DEF Item
<1>8. p \in [1 .. Cardinality(E) -> Items]
  BY <1>4, <1>5, <1>7
<1>9. p \in Seq(Items)
  BY <1>6, <1>8, SeqDef
<1>10. \A e \in E : \E k \in DOMAIN p : p[k].inode = e[2]
  BY <1>4, <1>5, <1>7 DEF ToSet
<1>11. QED
  BY <1>9, <1>10 DEF p, E

\* An inode that was visited is in the report, or has its anomaly; what a directory in
\* the report leads to was visited or is still on the stack, until the walk is cut off.
Found(n) == n \in Walked \/ Noted({"INODE_OPEN_FAILED"}, n)
OnStack(n) == \E k \in DOMAIN stack : stack[k].inode = n
AnomalyType == [code : Codes, inode : Nat]
WalkOver == stack = <<>> \/ Truncated
Early == {"begin", "resolve", "integrity"}

PathInv ==
  /\ volume \in Volumes /\ stack \in Seq(Items) /\ anomalies \in Seq(AnomalyType)
  /\ discovered \in Seq(Items)
  /\ \A n \in visited : Found(n)
  /\ \A d \in Walked \cap volume.isDir :
       \/ Noted({"DIRECTORY_LIST_FAILED"}, d)
       \/ pc = "list" /\ d = Last(discovered).inode
       \/ \A e \in volume.entries[d] : e[2] \in visited \/ OnStack(e[2])
  /\ pc \in Early => stack = <<>>
  /\ pc = "list" => discovered # <<>>
  /\ pc = "pool" => WalkOver \/ cancelled
  /\ pc = "analyse" => WalkOver
  /\ pc = "collect" /\ poolResult = "ok" /\ discovered # <<>> => WalkOver
  /\ result = "report" => pc = "returned" /\ (discovered # <<>> => WalkOver)

LEMMA Appending ==
  ASSUME NEW S, NEW s \in Seq(S), NEW e \in S
  PROVE  /\ Append(s, e) \in Seq(S) /\ Append(s, e) # <<>>
         /\ ToSet(Append(s, e)) = ToSet(s) \cup {e} /\ Last(Append(s, e)) = e
<1>1. /\ Append(s, e) \in Seq(S) /\ Len(Append(s, e)) = Len(s) + 1 /\ Len(s) \in Nat
      /\ DOMAIN Append(s, e) = 1 .. Len(s) + 1 /\ DOMAIN s = 1 .. Len(s)
      /\ Append(s, e)[Len(s) + 1] = e /\ \A i \in 1 .. Len(s) : Append(s, e)[i] = s[i]
  BY AppendProperties, LenProperties
<1> DEFINE t == Append(s, e)
<1> HIDE DEF t
<1>2. \A i \in DOMAIN t : t[i] \in ToSet(s) \cup {e}
  BY <1>1 DEF t, ToSet
<1>3. ToSet(s) \cup {e} \subseteq ToSet(t)
  BY <1>1 DEF t, ToSet
<1>4. ToSet(t) = ToSet(s) \cup {e}
  BY <1>2, <1>3 DEF ToSet
<1>5. Last(t) = e /\ t # <<>>
  BY <1>1 DEF t, Last
<1>6. QED
  BY <1>1, <1>4, <1>5 DEF t

\* What is noted stays noted.
LEMMA NotedStays ==
  ASSUME ToSet(anomalies) \subseteq ToSet(anomalies')
  PROVE  /\ \A codes, n : Noted(codes, n) => Noted(codes, n)'
         /\ Truncated => Truncated'
  BY DEF Noted, Truncated

\* Of a step that leaves the walk alone.
LEMMA WalkKept ==
  ASSUME PathInv, UNCHANGED <<args, walk>>, anomalies' \in Seq(AnomalyType),
         ToSet(anomalies) \subseteq ToSet(anomalies'),
         pc # "list", pc' # "list", pc' \in Early => pc \in Early,
         pc' = "pool" => pc = "pool" /\ (cancelled => cancelled'),
         pc' = "analyse" => WalkOver,
         pc' = "collect" /\ poolResult' = "ok" /\ discovered # <<>> => WalkOver,
         result' = "report" => pc' = "returned" /\ (discovered # <<>> => WalkOver)
  PROVE  PathInv'
<1>1. Items' = Items /\ AnomalyType' = AnomalyType
  BY DEF Items, args, AnomalyType, Codes
<1>2. UNCHANGED <<volume, stack, visited, discovered>>
  BY DEF args, walk
<1>3. WalkOver => WalkOver'
  BY <1>2, NotedStays DEF WalkOver
<1>4. \A n : (n \in Walked <=> n \in Walked') /\ (OnStack(n) <=> OnStack(n)')
  BY <1>2 DEF Walked, OnStack
<1>5. \A n : Found(n) => Found(n)'
  BY <1>4, NotedStays DEF Found
<1>6. \A d \in (Walked \cap volume.isDir)' :
        \/ Noted({"DIRECTORY_LIST_FAILED"}, d)'
        \/ (\A e \in volume.entries[d] : e[2] \in visited \/ OnStack(e[2]))'
  BY <1>2, <1>4, NotedStays DEF PathInv
<1>7. QED
  BY <1>1, <1>2, <1>3, <1>5, <1>6 DEF PathInv

LEMMA VisitPath == ASSUME IInv, PathInv, Visit PROVE PathInv'
<1>a. /\ stack \in Seq(Items) /\ Len(stack) \in Nat \ {0} /\ DOMAIN stack = 1 .. Len(stack)
      /\ Last(stack) = stack[Len(stack)] /\ Last(stack) \in Items
  <2>1. stack \in Seq(Items) /\ stack # <<>>
    BY DEF PathInv, Visit
  <2>2. Len(stack) \in DOMAIN stack
    BY <2>1, LenProperties, EmptySeq
  <2>3. QED
    BY <2>1, <2>2, LenProperties DEF Last
<1>b. PICK item \in Items : item = Last(stack)
  BY <1>a
<1> DEFINE lost == Fresh(item) /\ ~Opens(item.inode)
           enters == Fresh(item) /\ Opens(item.inode)
<1>1. /\ UNCHANGED <<args, result>> /\ pc = "walk" /\ result # "report"
      /\ stack # <<>> /\ stack' = Front(stack) /\ visited' = visited \cup {item.inode}
      /\ discovered' = IF enters THEN Append(discovered, item) ELSE discovered
      /\ anomalies' = IF lost THEN Append(anomalies, Anomaly("INODE_OPEN_FAILED", item.inode)) ELSE anomalies
      /\ pc' \in {"list", "walk"}
      /\ pc' = "walk" => ~enters \/ item.inode \notin volume.isDir
      /\ pc' = "list" => enters
  BY <1>b DEF Visit, Popped, args, PathInv
<1>2. /\ stack' \in Seq(Items)
      /\ \A n : OnStack(n) => OnStack(n)' \/ n = item.inode
  <2>1. /\ stack \in Seq(Items) /\ Len(stack) \in Nat \ {0} /\ DOMAIN stack = 1 .. Len(stack)
        /\ item = stack[Len(stack)]
    BY <1>a, <1>b
  <2>2. /\ Front(stack) \in Seq(Items) /\ DOMAIN Front(stack) = 1 .. Len(stack) - 1
        /\ \A k \in 1 .. Len(stack) - 1 : Front(stack)[k] = stack[k]
    <3>1. Front(stack) = [k \in 1 .. Len(stack) - 1 |-> stack[k]]
      BY <2>1 DEF Front
    <3>2. \A k \in 1 .. Len(stack) - 1 : stack[k] \in Items
      BY <2>1
    <3>3. QED
      BY <2>1, <3>1, <3>2, SeqDef
  <2>4. ASSUME NEW n, OnStack(n) PROVE OnStack(n)' \/ n = item.inode
    <3>1. PICK k \in DOMAIN stack : stack[k].inode = n
      BY <2>4 DEF OnStack
    <3>2. k = Len(stack) \/ k \in 1 .. Len(stack) - 1
      BY <2>1
    <3>3. QED
      BY <1>1, <2>1, <2>2, <3>1, <3>2 DEF OnStack
  <2>5. QED
    BY <1>1, <2>2, <2>4
<1>3. Items' = Items /\ AnomalyType' = AnomalyType /\ volume' = volume
  BY <1>1 DEF Items, args, AnomalyType, Codes
<1>4. item.inode \in Nat
  BY <1>2, VolumeAssumption DEF Items, PathInv
<1>5. /\ anomalies' \in Seq(AnomalyType) /\ ToSet(anomalies) \subseteq ToSet(anomalies')
      /\ lost => Noted({"INODE_OPEN_FAILED"}, item.inode)'
  <2>1. CASE lost
    <3> DEFINE a == Anomaly("INODE_OPEN_FAILED", item.inode)
    <3>1. a \in AnomalyType /\ a.code = "INODE_OPEN_FAILED" /\ a.inode = item.inode
      BY <1>4 DEF AnomalyType, Codes, Anomaly
    <3> HIDE DEF a
    <3>2. anomalies' = Append(anomalies, a)
      BY <1>1, <2>1 DEF a
    <3>3. anomalies' \in Seq(AnomalyType) /\ ToSet(anomalies') = ToSet(anomalies) \cup {a}
      BY <3>1, <3>2, Appending DEF PathInv
    <3>4. QED
      BY <3>1, <3>3 DEF Noted
  <2>2. CASE ~lost
    BY <1>1, <2>2 DEF PathInv
  <2>3. QED
    BY <2>1, <2>2
<1>6. /\ discovered' \in Seq(Items)
      /\ Walked \subseteq Walked' /\ Walked' \subseteq Walked \cup (IF enters THEN {item.inode} ELSE {})
      /\ enters => item.inode \in Walked' /\ Last(discovered') = item /\ discovered' # <<>>
  <2>1. CASE enters
    <3>1. /\ discovered' \in Seq(Items) /\ ToSet(discovered') = ToSet(discovered) \cup {item}
          /\ Last(discovered') = item /\ discovered' # <<>>
      BY <1>1, <1>2, <2>1, Appending DEF PathInv
    <3>2. QED
      BY <2>1, <3>1 DEF Walked
  <2>2. CASE ~enters
    BY <1>1, <2>2 DEF PathInv, Walked
  <2>3. QED
    BY <2>1, <2>2
<1>7. \A n \in visited' : Found(n)'
  <2>1. \A n \in visited : Found(n)'
    BY <1>5, <1>6, NotedStays DEF PathInv, Found
  <2>2. Found(item.inode)'
    <3>1. CASE Fresh(item)
      BY <1>5, <1>6, <3>1 DEF Found
    <3>2. CASE ~Fresh(item)
      BY <2>1, <3>2 DEF Fresh
    <3>3. QED
      BY <3>1, <3>2
  <2>3. QED
    BY <1>1, <2>1, <2>2
<1>8. ASSUME NEW d \in (Walked \cap volume.isDir)'
      PROVE  \/ Noted({"DIRECTORY_LIST_FAILED"}, d)'
             \/ pc' = "list" /\ d = Last(discovered').inode
             \/ (\A e \in volume.entries[d] : e[2] \in visited \/ OnStack(e[2]))'
  <2>1. CASE d \in Walked
    <3>1. \/ Noted({"DIRECTORY_LIST_FAILED"}, d)
          \/ \A e \in volume.entries[d] : e[2] \in visited \/ OnStack(e[2])
      BY <1>1, <1>3, <1>8, <2>1 DEF PathInv
    <3>2. QED
      BY <1>1, <1>2, <1>3, <1>5, <3>1, NotedStays
  <2>2. CASE d \notin Walked
    BY <1>1, <1>3, <1>6, <1>8, <2>2
  <2>3. QED
    BY <2>1, <2>2
<1>9. QED
  BY <1>1, <1>2, <1>3, <1>5, <1>6, <1>7, <1>8 DEF PathInv, Early

LEMMA ListPath == ASSUME PathInv, ListDirectory PROVE PathInv'
<1>a. Last(discovered) \in Items
  <2>1. discovered \in Seq(Items) /\ discovered # <<>>
    BY DEF PathInv, ListDirectory
  <2>2. Len(discovered) \in DOMAIN discovered
    BY <2>1, LenProperties, EmptySeq
  <2>3. QED
    BY <2>1, <2>2, LenProperties DEF Last
<1>b. PICK item \in Items : item = Last(discovered)
  BY <1>a
<1>c. PICK p : p = Pushed(item)
  OBVIOUS
<1>1. /\ UNCHANGED <<args, visited, discovered, result>> /\ pc = "list" /\ pc' = "walk"
      /\ \/ stack' = stack \o p /\ UNCHANGED anomalies
         \/ anomalies' = Append(anomalies, Anomaly("DIRECTORY_LIST_FAILED", item.inode)) /\ UNCHANGED stack
  BY <1>b, <1>c DEF ListDirectory, tasks, report
<1>3. p \in Seq(Items) /\ \A e \in volume.entries[item.inode] : \E k \in DOMAIN p : p[k].inode = e[2]
  BY <1>c, PushedEntries DEF PathInv
<1>4. /\ stack' \in Seq(Items) /\ \A n : OnStack(n) => OnStack(n)'
      /\ stack' # stack => \A k \in DOMAIN p : OnStack(p[k].inode)'
  <2>1. CASE stack' = stack \o p
    <3>1. /\ stack \in Seq(Items) /\ Len(stack) \in Nat /\ DOMAIN stack = 1 .. Len(stack)
          /\ Len(p) \in Nat /\ DOMAIN p = 1 .. Len(p)
      BY <1>3, LenProperties DEF PathInv
    <3>2. /\ stack' \in Seq(Items) /\ DOMAIN stack' = 1 .. Len(stack) + Len(p)
          /\ \A k \in 1 .. Len(stack) + Len(p) :
               stack'[k] = IF k <= Len(stack) THEN stack[k] ELSE p[k - Len(stack)]
      BY <1>3, <2>1, <3>1, ConcatProperties, LenProperties
    <3>3. \A k \in DOMAIN stack : k \in DOMAIN stack' /\ stack'[k] = stack[k]
      BY <3>1, <3>2
    <3>4. \A k \in DOMAIN p : k + Len(stack) \in DOMAIN stack' /\ stack'[k + Len(stack)] = p[k]
      BY <3>1, <3>2
    <3>5. QED
      BY <3>2, <3>3, <3>4 DEF OnStack
  <2>2. CASE stack' = stack
    BY <2>2 DEF PathInv, OnStack
  <2>3. QED
    BY <1>1, <2>1, <2>2
<1>5. \/ \A e \in volume.entries[item.inode] : OnStack(e[2])'
      \/ anomalies' = Append(anomalies, Anomaly("DIRECTORY_LIST_FAILED", item.inode))
  <2>1. CASE stack' = stack \o p /\ stack' # stack
    BY <1>3, <1>4, <2>1
  <2>2. CASE stack' = stack \o p /\ stack' = stack
    <3>1. Len(p) \in Nat /\ DOMAIN p = 1 .. Len(p) /\ Len(stack) \in Nat /\ Len(stack') = Len(stack) + Len(p)
      BY <1>3, <2>2, LenProperties, ConcatProperties DEF PathInv
    <3>2. DOMAIN p = {}
      BY <2>2, <3>1
    <3>3. QED
      BY <1>3, <3>2
  <2>3. QED
    BY <1>1, <2>1, <2>2
<1>6. Items' = Items /\ AnomalyType' = AnomalyType /\ volume' = volume /\ Walked' = Walked
  BY <1>1 DEF Items, args, AnomalyType, Codes, Walked
<1>7. /\ anomalies' \in Seq(AnomalyType) /\ ToSet(anomalies) \subseteq ToSet(anomalies')
      /\ \/ \A e \in volume.entries[item.inode] : OnStack(e[2])'
         \/ Noted({"DIRECTORY_LIST_FAILED"}, item.inode)'
  <2>1. CASE anomalies' = Append(anomalies, Anomaly("DIRECTORY_LIST_FAILED", item.inode))
    <3> DEFINE a == Anomaly("DIRECTORY_LIST_FAILED", item.inode)
    <3>1. item.inode \in Nat
      BY VolumeAssumption DEF Items, PathInv
    <3>2. a \in AnomalyType /\ a.code = "DIRECTORY_LIST_FAILED" /\ a.inode = item.inode
      BY <3>1 DEF AnomalyType, Codes, Anomaly
    <3> HIDE DEF a
    <3>3. anomalies' = Append(anomalies, a)
      BY <2>1 DEF a
    <3>4. anomalies' \in Seq(AnomalyType) /\ ToSet(anomalies') = ToSet(anomalies) \cup {a}
      BY <3>2, <3>3, Appending DEF PathInv
    <3>5. QED
      BY <3>2, <3>4 DEF Noted
  <2>2. CASE UNCHANGED anomalies
    BY <1>5, <2>2, <1>1, <1>3, <1>4 DEF PathInv, Anomaly
  <2>3. QED
    BY <1>1, <2>1, <2>2
<1>8. \A n \in visited' : Found(n)'
  BY <1>1, <1>6, <1>7, NotedStays DEF PathInv, Found
<1>9. ASSUME NEW d \in (Walked \cap volume.isDir)'
      PROVE  \/ Noted({"DIRECTORY_LIST_FAILED"}, d)'
             \/ (\A e \in volume.entries[d] : e[2] \in visited \/ OnStack(e[2]))'
  <2>1. CASE d = item.inode
    BY <1>6, <1>7, <2>1
  <2>2. CASE d # item.inode
    <3>1. \/ Noted({"DIRECTORY_LIST_FAILED"}, d)
          \/ \A e \in volume.entries[d] : e[2] \in visited \/ OnStack(e[2])
      BY <1>b, <1>6, <1>9, <2>2 DEF PathInv
    <3>2. QED
      BY <1>1, <1>4, <1>6, <1>7, <3>1, NotedStays
  <2>3. QED
    BY <2>1, <2>2
<1>10. result' # "report"
  BY <1>1 DEF PathInv
<1>11. QED
  BY <1>1, <1>4, <1>6, <1>7, <1>8, <1>9, <1>10 DEF PathInv, Early

-------------------------------------------------------------------------------
(* The tasks *)

\* What the tasks have found so far is in their slots, each in its own.
TaskAnomaly(i) == [code : TaskCodes, inode : {discovered[i].inode}]
InSlot(i, code) == \E a \in ToSet(slot[i].anomalies) : a.code = code /\ a.inode = discovered[i].inode
Done(i) ==
  /\ slot[i].file \/ InSlot(i, "INODE_REPORT_FAILED")
  /\ slot[i].file /\ artifacts /\ discovered[i].inode \in volume.isDir =>
       slot[i].artifact \/ InSlot(i, "DIRECTORY_ARTIFACT_SCAN_FAILED")
SlotSound(i) ==
  /\ slot[i] \in [file : BOOLEAN, artifact : BOOLEAN, anomalies : Seq(TaskAnomaly(i))]
  /\ stage[i] = "directory" => slot[i].file
  /\ stage[i] \in {"check", "inode"} \/ status[i] = "todo" => ~slot[i].file
  /\ stage[i] # "idle" => status[i] = "running"
  /\ status[i] = "ok" => Done(i)

Analysed == pc = "analyse" \/ (pc = "collect" /\ poolResult = "ok")

TaskInv ==
  /\ Analysed => /\ DOMAIN slot = TaskIds /\ DOMAIN status = TaskIds /\ DOMAIN stage = TaskIds
                 /\ \A i \in TaskIds : SlotSound(i)
  /\ pc = "collect" /\ poolResult = "ok" => \A i \in TaskIds : status[i] = "ok"
  /\ result # "report" => \A a \in ToSet(anomalies) : a.code \notin TaskCodes
  /\ poolResult # "report"
  /\ EveryFindingKept

\* A step of one task leaves the slots of the others alone.
LEMMA OneTask ==
  ASSUME PathInv, TaskInv, NEW i \in DOMAIN status, pc = "analyse",
         UNCHANGED <<args, pc, discovered, anomalies, poolResult, result>>,
         DOMAIN slot' = DOMAIN slot, DOMAIN stage' = DOMAIN stage, DOMAIN status' = DOMAIN status,
         \A k \in DOMAIN status \ {i} : slot'[k] = slot[k] /\ stage'[k] = stage[k] /\ status'[k] = status[k],
         SlotSound(i)'
  PROVE  TaskInv'
<1>1. DOMAIN slot = TaskIds /\ DOMAIN stage = TaskIds /\ DOMAIN status = TaskIds /\ TaskIds' = TaskIds
  BY DEF TaskInv, Analysed, TaskIds
<1>2. \A k \in TaskIds : SlotSound(k)'
  <2>1. ASSUME NEW k \in TaskIds, k # i PROVE SlotSound(k)'
    <3>1. SlotSound(k) /\ slot'[k] = slot[k] /\ stage'[k] = stage[k] /\ status'[k] = status[k]
      BY <1>1, <2>1 DEF TaskInv, Analysed
    <3>2. discovered' = discovered /\ artifacts' = artifacts /\ volume' = volume
      BY DEF args
    <3>3. TaskAnomaly(k)' = TaskAnomaly(k)
      BY <3>2 DEF TaskAnomaly, TaskCodes
    <3>4. Done(k) => Done(k)'
      BY <3>1, <3>2 DEF Done, InSlot
    <3>5. QED
      BY <3>1, <3>3, <3>4 DEF SlotSound
  <2>2. QED
    BY <2>1
<1>3. result # "report"
  BY DEF PathInv
<1>4. QED
  BY <1>1, <1>2, <1>3 DEF TaskInv, EveryFindingKept, Analysed, TaskCodes

LEMMA TaskStep == ASSUME PathInv, TaskInv, NEW i \in DOMAIN status, Task(i) PROVE TaskInv'
<1>1. pc = "analyse" /\ i \in DOMAIN slot /\ i \in DOMAIN stage /\ DOMAIN slot = DOMAIN status /\ DOMAIN stage = DOMAIN status
  BY DEF Task, StartTask, CheckContext, AnalyseInode, AnalyseDirectory, TaskInv, Analysed
<1> DEFINE Others == \A k \in DOMAIN status \ {i} :
                       slot'[k] = slot[k] /\ stage'[k] = stage[k] /\ status'[k] = status[k]
           Same == /\ UNCHANGED <<args, pc, walk, anomalies, report, poolResult, result>>
                   /\ DOMAIN slot' = DOMAIN slot /\ DOMAIN stage' = DOMAIN stage /\ DOMAIN status' = DOMAIN status
<1>2. SlotSound(i) /\ TaskAnomaly(i) = [code : TaskCodes, inode : {discovered[i].inode}]
  BY <1>1 DEF TaskInv, Analysed, TaskAnomaly
<1> DEFINE inode == discovered[i].inode
<1>3. slot[i] \in [file : BOOLEAN, artifact : BOOLEAN, anomalies : Seq(TaskAnomaly(i))]
  BY <1>2 DEF SlotSound
<1>4. SUFFICES Same /\ Others /\ SlotSound(i)'
  <2>1. UNCHANGED <<args, pc, discovered, anomalies, poolResult, result>>
    BY <1>4 DEF walk
  <2>2. QED
    BY <1>1, <1>4, <2>1, OneTask
<1>5. CASE StartTask(i)
  <2>1. Same /\ Others
    BY <1>1, <1>5 DEF StartTask, Pool!Start
  <2>2. /\ status[i] = "todo" /\ status'[i] = "running" /\ stage'[i] = "check" /\ slot' = slot
        /\ discovered' = discovered
    BY <1>1, <1>5 DEF StartTask, Pool!Start, walk
  <2>3. TaskAnomaly(i)' = TaskAnomaly(i)
    BY <2>2 DEF TaskAnomaly, TaskCodes
  <2>4. QED
    BY <1>2, <2>1, <2>2, <2>3 DEF SlotSound
<1>6. CASE CheckContext(i)
  <2>1. Same /\ Others
    BY <1>1, <1>6 DEF CheckContext, EndTask, Continue, Pool!End
  <2>2. /\ stage[i] = "check" /\ slot' = slot /\ discovered' = discovered
        /\ \/ status'[i] = "cancelled" /\ stage'[i] = "idle"
           \/ status' = status /\ stage'[i] = "inode"
    BY <1>1, <1>6 DEF CheckContext, EndTask, Continue, walk
  <2>3. TaskAnomaly(i)' = TaskAnomaly(i)
    BY <2>2 DEF TaskAnomaly, TaskCodes
  <2>4. status[i] = "running" /\ ~slot[i].file
    BY <1>2, <2>2 DEF SlotSound
  <2>5. QED
    BY <1>2, <2>1, <2>2, <2>3, <2>4 DEF SlotSound
<1>7. CASE AnalyseInode(i)
  <2> DEFINE failed == Anomaly("INODE_REPORT_FAILED", inode)
  <2>1. Same /\ Others
    BY <1>1, <1>7 DEF AnalyseInode, EndTask, Continue, Pool!End
  <2>2. discovered' = discovered /\ artifacts' = artifacts /\ volume' = volume
    BY <2>1 DEF args, walk
  <2>3. stage[i] = "inode" /\ status[i] = "running" /\ ~slot[i].file
    BY <1>2, <1>7 DEF AnalyseInode, SlotSound
  <2>4. TaskAnomaly(i)' = TaskAnomaly(i)
    BY <2>2 DEF TaskAnomaly, TaskCodes
  <2>5. CASE slot' = [slot EXCEPT ![i].file = TRUE]
    <3>1. slot'[i].file /\ slot'[i] \in [file : BOOLEAN, artifact : BOOLEAN, anomalies : Seq(TaskAnomaly(i))]
      BY <1>1, <1>3, <2>5
    <3>2. \/ status'[i] = "running" /\ stage'[i] = "directory"
          \/ stage'[i] = "idle" /\ status'[i] = "ok" /\ (inode \notin volume.isDir \/ ~artifacts)
      <4>1. CASE InodeReports(inode)
        BY <1>1, <1>7, <2>3, <2>5, <4>1 DEF AnalyseInode, EndTask, Continue
      <4>2. CASE ~InodeReports(inode)
        <5>1. slot' = slot \/ slot' = [slot EXCEPT ![i].anomalies = Append(@, failed)]
          BY <1>7, <4>2 DEF AnalyseInode
        <5>2. slot'[i].file = slot[i].file
          BY <1>1, <1>3, <5>1
        <5>3. QED
          BY <2>3, <3>1, <5>2
      <4>3. QED
        BY <4>1, <4>2
    <3>3. status'[i] = "ok" => Done(i)'
      BY <2>2, <3>1, <3>2 DEF Done
    <3>4. SlotSound(i)'
      BY <2>4, <3>1, <3>2, <3>3 DEF SlotSound
    <3>5. QED
      BY <2>1, <3>4
  <2>6. CASE EndTask(i, "failed") /\ slot' = slot
    <3>1. status'[i] = "failed" /\ stage'[i] = "idle"
      BY <1>1, <2>6 DEF EndTask
    <3>2. SlotSound(i)'
      BY <1>2, <2>4, <2>6, <3>1 DEF SlotSound
    <3>3. QED
      BY <2>1, <3>2
  <2>7. CASE slot' = [slot EXCEPT ![i].anomalies = Append(@, failed)] /\ EndTask(i, "ok")
    <3>1. failed \in TaskAnomaly(i) /\ failed.code = "INODE_REPORT_FAILED" /\ failed.inode = inode
      BY DEF Anomaly, TaskAnomaly, TaskCodes
    <3> HIDE DEF failed
    <3>2. slot[i].anomalies \in Seq(TaskAnomaly(i)) /\ slot'[i] = [slot[i] EXCEPT !.anomalies = Append(@, failed)]
      BY <1>1, <1>3, <2>7
    <3>3. Append(slot[i].anomalies, failed) \in Seq(TaskAnomaly(i)) /\ failed \in ToSet(Append(slot[i].anomalies, failed))
      BY <3>1, <3>2, Appending
    <3>4. /\ slot'[i] \in [file : BOOLEAN, artifact : BOOLEAN, anomalies : Seq(TaskAnomaly(i))]
          /\ ~slot'[i].file /\ failed \in ToSet(slot'[i].anomalies)
      BY <1>3, <2>3, <3>2, <3>3
    <3>5. stage'[i] = "idle" /\ status'[i] = "ok"
      BY <1>1, <2>7 DEF EndTask
    <3>6. Done(i)'
      BY <2>2, <3>1, <3>4 DEF Done, InSlot
    <3>7. SlotSound(i)'
      BY <2>4, <3>4, <3>5, <3>6 DEF SlotSound
    <3>8. QED
      BY <2>1, <3>7
  <2>8. QED
    BY <1>7, <2>5, <2>6, <2>7 DEF AnalyseInode
<1>8. CASE AnalyseDirectory(i)
  <2> DEFINE failed == Anomaly("DIRECTORY_ARTIFACT_SCAN_FAILED", inode)
  <2>1. Same /\ Others
    BY <1>1, <1>8 DEF AnalyseDirectory, EndTask, Pool!End
  <2>2. discovered' = discovered /\ artifacts' = artifacts /\ volume' = volume
    BY <2>1 DEF args, walk
  <2>3. /\ stage[i] = "directory" /\ slot[i].file /\ stage'[i] = "idle" /\ status'[i] = "ok"
    BY <1>1, <1>2, <1>8 DEF AnalyseDirectory, SlotSound, EndTask
  <2>4. TaskAnomaly(i)' = TaskAnomaly(i)
    BY <2>2 DEF TaskAnomaly, TaskCodes
  <2>5. CASE slot' = [slot EXCEPT ![i].artifact = TRUE]
    <3>1. /\ slot'[i] \in [file : BOOLEAN, artifact : BOOLEAN, anomalies : Seq(TaskAnomaly(i))]
          /\ slot'[i].file /\ slot'[i].artifact
      BY <1>1, <1>3, <2>3, <2>5
    <3>2. SlotSound(i)'
      BY <2>3, <2>4, <3>1 DEF SlotSound, Done
    <3>3. QED
      BY <2>1, <3>2
  <2>6. CASE slot' = [slot EXCEPT ![i].anomalies = Append(@, failed)]
    <3>1. failed \in TaskAnomaly(i) /\ failed.code = "DIRECTORY_ARTIFACT_SCAN_FAILED" /\ failed.inode = inode
      BY DEF Anomaly, TaskAnomaly, TaskCodes
    <3> HIDE DEF failed
    <3>2. slot[i].anomalies \in Seq(TaskAnomaly(i)) /\ slot'[i] = [slot[i] EXCEPT !.anomalies = Append(@, failed)]
      BY <1>1, <1>3, <2>6
    <3>3. Append(slot[i].anomalies, failed) \in Seq(TaskAnomaly(i)) /\ failed \in ToSet(Append(slot[i].anomalies, failed))
      BY <3>1, <3>2, Appending
    <3>4. /\ slot'[i] \in [file : BOOLEAN, artifact : BOOLEAN, anomalies : Seq(TaskAnomaly(i))]
          /\ slot'[i].file /\ failed \in ToSet(slot'[i].anomalies)
      BY <1>3, <2>3, <3>2, <3>3
    <3>5. Done(i)'
      BY <2>2, <3>1, <3>4 DEF Done, InSlot
    <3>6. SlotSound(i)'
      BY <2>3, <2>4, <3>4, <3>5 DEF SlotSound
    <3>7. QED
      BY <2>1, <3>6
  <2>7. QED
    BY <1>8, <2>5, <2>6 DEF AnalyseDirectory
<1>9. QED
  BY <1>5, <1>6, <1>7, <1>8 DEF Task

\* What is collected: the findings of each slot, in the order of discovery.
LEMMA Collected ==
  ASSUME IInv, PathInv, TaskInv, Collect, poolResult = "ok"
  PROVE  /\ anomalies' \in Seq(AnomalyType) /\ ToSet(anomalies) \subseteq ToSet(anomalies')
         /\ EveryFindingKept'
<1> DEFINE lists == [i \in DOMAIN slot |-> slot[i].anomalies]
           found == FlattenSeq(lists)
<1>1. /\ UNCHANGED <<args, discovered, slot, status>> /\ pc = "collect"
      /\ anomalies' = anomalies \o found
      /\ files' = {discovered[i] : i \in {j \in DOMAIN slot : slot[j].file}}
      /\ dirReports' = {discovered[i] : i \in {j \in DOMAIN slot : slot[j].artifact}}
  BY DEF Collect, walk, tasks
<1>2. /\ Len(discovered) \in Nat /\ DOMAIN discovered = 1 .. Len(discovered) /\ TaskIds = DOMAIN discovered
      /\ DOMAIN slot = TaskIds /\ \A i \in TaskIds : SlotSound(i) /\ Done(i)
  <2>1. Len(discovered) \in Nat /\ DOMAIN discovered = 1 .. Len(discovered)
    BY LenProperties DEF PathInv
  <2>2. DOMAIN slot = TaskIds /\ \A i \in TaskIds : SlotSound(i) /\ status[i] = "ok"
    BY <1>1 DEF TaskInv, Analysed
  <2>3. QED
    BY <2>1, <2>2 DEF TaskIds, SlotSound
<1>3. \A i \in TaskIds : discovered[i].inode \in Nat
  <2>1. volume \in Volumes /\ discovered \in Seq(Items)
    BY DEF PathInv
  <2>2. DOMAIN volume.health \subseteq Nat
    BY <2>1, VolumeAssumption
  <2>3. \A i \in TaskIds : discovered[i] \in Items
    BY <1>2, <2>1, LenProperties
  <2>4. QED
    BY <2>2, <2>3 DEF Items
<1>4. \A i \in TaskIds : /\ slot[i].anomalies \in Seq(AnomalyType)
                          /\ \A a \in ToSet(slot[i].anomalies) :
                               a.code \in TaskCodes /\ a.inode = discovered[i].inode
  <2>1. ASSUME NEW i \in TaskIds
        PROVE  /\ slot[i].anomalies \in Seq(AnomalyType)
               /\ \A a \in ToSet(slot[i].anomalies) : a.code \in TaskCodes /\ a.inode = discovered[i].inode
    <3>1. slot[i].anomalies \in Seq(TaskAnomaly(i))
      BY <1>2 DEF SlotSound
    <3>2. TaskAnomaly(i) \subseteq AnomalyType
      BY <1>3 DEF TaskAnomaly, AnomalyType, TaskCodes, Codes
    <3>3. slot[i].anomalies \in Seq(AnomalyType)
      BY <3>1, <3>2, SeqMonotonic
    <3>4. \A a \in ToSet(slot[i].anomalies) : a \in TaskAnomaly(i)
      BY <3>1, LenProperties DEF ToSet
    <3>5. QED
      BY <3>3, <3>4 DEF TaskAnomaly
  <2>2. QED
    BY <2>1
<1>5. lists \in Seq(Seq(AnomalyType)) /\ Len(lists) = Len(discovered) /\ \A i \in TaskIds : lists[i] = slot[i].anomalies
  <2>1. lists \in [1 .. Len(discovered) -> Seq(AnomalyType)]
    BY <1>2, <1>4
  <2>2. lists \in Seq(Seq(AnomalyType)) /\ Len(lists) = Len(discovered)
    BY <1>2, <2>1, SeqDef, LenProperties
  <2>3. QED
    BY <1>2, <2>2
<1>6. found \in Seq(AnomalyType) /\ Joined(lists, found, Len(lists))
  <2> HIDE DEF lists
  <2>1. QED
    BY <1>5, Flattening
<1> HIDE DEF found, lists
<1>7. /\ Len(anomalies) \in Nat /\ DOMAIN anomalies = 1 .. Len(anomalies)
      /\ Len(found) \in Nat /\ DOMAIN found = 1 .. Len(found)
      /\ anomalies' \in Seq(AnomalyType) /\ DOMAIN anomalies' = 1 .. Len(anomalies) + Len(found)
      /\ \A k \in 1 .. Len(anomalies) + Len(found) :
           anomalies'[k] = IF k <= Len(anomalies) THEN anomalies[k] ELSE found[k - Len(anomalies)]
  <2>1. anomalies \in Seq(AnomalyType)
    BY DEF PathInv
  <2>2. anomalies' \in Seq(AnomalyType) /\ Len(anomalies') = Len(anomalies) + Len(found)
    BY <1>1, <1>6, <2>1, ConcatProperties
  <2>3. \A k \in 1 .. Len(anomalies) + Len(found) :
           anomalies'[k] = IF k <= Len(anomalies) THEN anomalies[k] ELSE found[k - Len(anomalies)]
    BY <1>1, <1>6, <2>1, ConcatProperties
  <2>4. QED
    BY <1>6, <2>1, <2>2, <2>3, LenProperties
<1>8. ToSet(anomalies) \subseteq ToSet(anomalies') /\ ToSet(found) \subseteq ToSet(anomalies')
  <2>1. \A k \in DOMAIN anomalies : k \in DOMAIN anomalies' /\ anomalies'[k] = anomalies[k]
    BY <1>7
  <2>2. \A k \in DOMAIN found : k + Len(anomalies) \in DOMAIN anomalies' /\ anomalies'[k + Len(anomalies)] = found[k]
    BY <1>7
  <2>3. QED
    BY <2>1, <2>2 DEF ToSet
<1>9. PICK owner \in [DOMAIN found -> TaskIds] :
        /\ \A k \in DOMAIN found : found[k] \in ToSet(lists[owner[k]])
        /\ \A k, l \in DOMAIN found : k <= l => owner[k] <= owner[l]
  BY <1>2, <1>5, <1>6 DEF Joined
<1>10. \A i \in TaskIds : ToSet(slot[i].anomalies) \subseteq ToSet(found)
  BY <1>2, <1>5, <1>6 DEF Joined
<1>11. \A i, j \in TaskIds : discovered[i].inode = discovered[j].inode => i = j
  BY <1>2 DEF IInv, WalkInv
<1>12. ASSUME NEW k \in DOMAIN anomalies', anomalies'[k].code \in TaskCodes
       PROVE  k > Len(anomalies)
  <2>1. ASSUME k <= Len(anomalies) PROVE FALSE
    <3>1. k \in DOMAIN anomalies /\ anomalies'[k] = anomalies[k]
      BY <1>7, <2>1
    <3>2. anomalies[k] \in ToSet(anomalies)
      BY <3>1 DEF ToSet
    <3>3. result # "report"
      BY <1>1 DEF PathInv
    <3>4. QED
      BY <1>12, <3>1, <3>2, <3>3 DEF TaskInv
  <2>2. QED
    BY <1>7, <2>1
<1>13. ASSUME NEW k \in DOMAIN anomalies', k > Len(anomalies)
       PROVE  /\ k - Len(anomalies) \in DOMAIN found /\ anomalies'[k].code \in TaskCodes
              /\ (Rank(anomalies[k]))' = owner[k - Len(anomalies)]
  <2>1. k - Len(anomalies) \in DOMAIN found /\ anomalies'[k] = found[k - Len(anomalies)]
    BY <1>7, <1>13
  <2>2. PICK i \in TaskIds : i = owner[k - Len(anomalies)]
    BY <1>9, <2>1
  <2>3. anomalies'[k] \in ToSet(slot[i].anomalies)
    BY <1>5, <1>9, <2>1, <2>2
  <2>4. anomalies'[k].code \in TaskCodes /\ anomalies'[k].inode = discovered[i].inode
    BY <1>4, <2>3
  <2>5. (Rank(anomalies[k]))' = CHOOSE j \in DOMAIN discovered : discovered[j].inode = discovered[i].inode
    BY <1>1, <2>4 DEF Rank
  <2>6. (CHOOSE j \in DOMAIN discovered : discovered[j].inode = discovered[i].inode) = i
    BY <1>2, <1>11
  <2>7. QED
    BY <2>1, <2>2, <2>4, <2>5, <2>6
<1>14. ASSUME NEW k \in DOMAIN anomalies', NEW l \in DOMAIN anomalies', k < l, anomalies'[k].code \in TaskCodes
       PROVE  anomalies'[l].code \in TaskCodes /\ (Rank(anomalies[k]) <= Rank(anomalies[l]))'
  <2>1. k > Len(anomalies) /\ l > Len(anomalies) /\ k \in Int /\ l \in Int
    BY <1>7, <1>12, <1>14
  <2>2. k - Len(anomalies) <= l - Len(anomalies)
    BY <1>7, <1>14, <2>1
  <2>3. owner[k - Len(anomalies)] <= owner[l - Len(anomalies)]
    BY <1>9, <1>13, <2>1, <2>2
  <2>4. QED
    BY <1>13, <2>1, <2>3
<1>15. ASSUME NEW item \in ToSet(discovered)
       PROVE  /\ item \in files' \/ Noted({"INODE_REPORT_FAILED"}, item.inode)'
              /\ item \in files' /\ artifacts /\ item.inode \in volume.isDir =>
                   item \in dirReports' \/ Noted({"DIRECTORY_ARTIFACT_SCAN_FAILED"}, item.inode)'
  <2>1. PICK i \in TaskIds : item = discovered[i]
    BY <1>2 DEF ToSet
  <2>2. \A code : InSlot(i, code) => Noted({code}, item.inode)'
    <3>1. ToSet(slot[i].anomalies) \subseteq ToSet(anomalies')
      BY <1>8, <1>10
    <3>2. QED
      BY <2>1, <3>1 DEF InSlot, Noted
  <2>3. item \in files' <=> slot[i].file
    BY <1>1, <1>2, <1>11, <2>1
  <2>4. slot[i].artifact => item \in dirReports'
    BY <1>1, <1>2, <2>1
  <2>5. Done(i)
    BY <1>2
  <2>6. QED
    BY <2>1, <2>2, <2>3, <2>4, <2>5 DEF Done
<1>16. ToSet(discovered)' = ToSet(discovered) /\ artifacts' = artifacts /\ volume' = volume
  BY <1>1 DEF args
<1>17. EveryFindingKept'
  <2>1. (\A k, l \in DOMAIN anomalies : k < l /\ anomalies[k].code \in TaskCodes =>
           anomalies[l].code \in TaskCodes /\ Rank(anomalies[k]) <= Rank(anomalies[l]))'
    BY <1>14 DEF TaskCodes
  <2>2. (\A item \in ToSet(discovered) :
           /\ item \in files \/ Noted({"INODE_REPORT_FAILED"}, item.inode)
           /\ item \in files /\ artifacts /\ item.inode \in volume.isDir =>
                item \in dirReports \/ Noted({"DIRECTORY_ARTIFACT_SCAN_FAILED"}, item.inode))'
    BY <1>15, <1>16
  <2>3. QED
    BY <2>1, <2>2 DEF EveryFindingKept
<1>18. QED
  BY <1>7, <1>8, <1>17

-------------------------------------------------------------------------------
(* All of it *)

WholeInv == IInv /\ PathInv /\ TaskInv

\* Of a step of another goroutine.
LEMMA Aside ==
  ASSUME PathInv, TaskInv, UNCHANGED <<args, pc, walk, anomalies, tasks, report, result>>,
         cancelled => cancelled'
  PROVE  PathInv' /\ TaskInv'
<1>1. Items' = Items /\ AnomalyType' = AnomalyType /\ TaskIds' = TaskIds
  BY DEF Items, args, AnomalyType, Codes, TaskIds, walk
<1>2. PathInv'
  BY <1>1 DEF PathInv, args, walk, tasks, WalkOver, Found, OnStack, Noted, Walked, Truncated
<1>3. \A i \in TaskIds : SlotSound(i) => SlotSound(i)'
  BY DEF SlotSound, TaskAnomaly, Done, InSlot, args, walk, tasks
<1>4. EveryFindingKept'
  BY DEF TaskInv, EveryFindingKept, args, walk, report, Noted, Rank
<1>5. TaskInv'
  BY <1>1, <1>3, <1>4 DEF TaskInv, Analysed, tasks
<1>6. QED
  BY <1>2, <1>5

\* Of a step outside the pool that does not end in a report.
LEMMA TasksKept ==
  ASSUME TaskInv, result # "report", result' # "report", UNCHANGED poolResult,
         pc' \notin {"analyse", "collect"},
         \A a \in ToSet(anomalies)' : a \in ToSet(anomalies) \/ a.code \notin TaskCodes
  PROVE  TaskInv'
BY DEF TaskInv, Analysed, EveryFindingKept, TaskCodes

LEMMA InitWhole == Init => WholeInv
<1> SUFFICES ASSUME Init PROVE WholeInv
  OBVIOUS
<1>1. IInv
  BY InitInv
<1>2. /\ stack \in Seq(Items) /\ anomalies \in Seq(AnomalyType) /\ discovered \in Seq(Items)
      /\ ToSet(anomalies) = {} /\ ToSet(discovered) = {}
  BY DEF Init, ToSet
<1>3. PathInv
  BY <1>2 DEF Init, PathInv, Walked, Early
<1>4. TaskInv
  BY <1>2 DEF Init, TaskInv, Analysed, EveryFindingKept
<1>5. QED
  BY <1>1, <1>3, <1>4 DEF WholeInv

LEMMA BeforeWalk == ASSUME WholeInv, Begin \/ ResolveRoot PROVE PathInv' /\ TaskInv'
<1>1. /\ UNCHANGED <<args, walk, anomalies, poolResult>> /\ pc \in {"begin", "resolve"}
      /\ pc' \in {"resolve", "integrity", "returned"} /\ result' # "report" /\ result # "report"
  BY DEF WholeInv, PathInv, Begin, ResolveRoot, Return, tasks
<1>2. PathInv'
  BY <1>1, WalkKept DEF WholeInv, PathInv, Early
<1>3. TaskInv'
  BY <1>1, TasksKept DEF WholeInv
<1>4. QED
  BY <1>2, <1>3

LEMMA IntegrityStep == ASSUME WholeInv, VolumeIntegrity PROVE PathInv' /\ TaskInv'
<1>1. /\ UNCHANGED <<args, visited, discovered, anomalies, poolResult>> /\ pc = "integrity"
      /\ pc' \in {"walk", "returned"} /\ result' # "report" /\ result # "report"
      /\ stack' = stack \/ stack' = <<Item(volume.root, <<>>)>>
  BY DEF WholeInv, PathInv, VolumeIntegrity, Return, tasks
<1>2. TaskInv'
  BY <1>1, TasksKept DEF WholeInv
<1>3. Items' = Items /\ AnomalyType' = AnomalyType /\ volume' = volume
  BY <1>1 DEF Items, args, AnomalyType, Codes
<1>4. stack' \in Seq(Items) /\ \A n : OnStack(n) => OnStack(n)'
  <2>1. stack = <<>>
    BY <1>1 DEF WholeInv, PathInv, Early
  <2>2. \A n : ~OnStack(n)
    BY <2>1 DEF OnStack
  <2>3. Item(volume.root, <<>>) \in Items
    BY VolumeAssumption DEF Item, Items, WholeInv, PathInv
  <2>4. <<Item(volume.root, <<>>)>> \in Seq(Items) /\ <<>> \in Seq(Items)
    BY <2>3
  <2>5. QED
    BY <1>1, <1>3, <2>1, <2>2, <2>4
<1>5. /\ \A n : (n \in Walked <=> n \in Walked') /\ (Found(n) => Found(n)')
      /\ \A codes, n : Noted(codes, n) <=> Noted(codes, n)'
  BY <1>1 DEF Walked, Found, Noted
<1>6. ASSUME NEW d \in (Walked \cap volume.isDir)'
      PROVE  \/ Noted({"DIRECTORY_LIST_FAILED"}, d)'
             \/ (\A e \in volume.entries[d] : e[2] \in visited \/ OnStack(e[2]))'
  BY <1>1, <1>3, <1>4, <1>5 DEF WholeInv, PathInv
<1>7. PathInv'
  BY <1>1, <1>3, <1>4, <1>5, <1>6 DEF WholeInv, PathInv, Early
<1>8. QED
  BY <1>2, <1>7

LEMMA WalkEndsStep == ASSUME WholeInv, WalkEnds PROVE PathInv' /\ TaskInv'
<1>1. /\ UNCHANGED <<args, cancelled, walk, poolResult, result>> /\ pc = "walk" /\ pc' = "pool" /\ result # "report"
      /\ stack = <<>> \/ cancelled \/ anomalies' = Append(anomalies, Anomaly("MAX_ENTRIES_REACHED", 0))
      /\ UNCHANGED anomalies \/ anomalies' = Append(anomalies, Anomaly("MAX_ENTRIES_REACHED", 0))
  BY DEF WholeInv, PathInv, WalkEnds, tasks
<1> DEFINE a == Anomaly("MAX_ENTRIES_REACHED", 0)
<1>2. a \in AnomalyType /\ a.code = "MAX_ENTRIES_REACHED" /\ a.code \notin TaskCodes
  BY DEF Anomaly, AnomalyType, Codes, TaskCodes
<1> HIDE DEF a
<1>3. /\ anomalies' \in Seq(AnomalyType) /\ ToSet(anomalies) \subseteq ToSet(anomalies')
      /\ ToSet(anomalies') \subseteq ToSet(anomalies) \cup {a}
      /\ UNCHANGED anomalies \/ a \in ToSet(anomalies')
  <2>1. CASE UNCHANGED anomalies
    BY <2>1 DEF WholeInv, PathInv
  <2>2. CASE anomalies' = Append(anomalies, a)
    BY <1>2, <2>2, Appending DEF WholeInv, PathInv
  <2>3. QED
    BY <1>1, <2>1, <2>2 DEF a
<1>4. a \in ToSet(anomalies') => Truncated'
  BY <1>2 DEF Truncated
<1>5. stack' = <<>> \/ Truncated' \/ cancelled'
  <2>1. CASE anomalies' = Append(anomalies, a)
    <3>1. a \in ToSet(anomalies')
      BY <1>2, <2>1, Appending DEF WholeInv, PathInv
    <3>2. QED
      BY <1>4, <3>1
  <2>2. QED
    BY <1>1, <2>1 DEF walk, a
<1>6. PathInv'
  <2>1. UNCHANGED <<volume, stack, visited, discovered>>
    BY <1>1 DEF args, walk
  <2>2. Items' = Items /\ AnomalyType' = AnomalyType
    BY <2>1 DEF Items, AnomalyType, Codes
  <2>3. /\ \A n : (n \in Walked <=> n \in Walked') /\ (OnStack(n) <=> OnStack(n)')
    BY <2>1 DEF Walked, OnStack
  <2>4. \A n : Found(n) => Found(n)'
    BY <1>3, <2>3, NotedStays DEF Found
  <2>5. ASSUME NEW d \in (Walked \cap volume.isDir)'
        PROVE  \/ Noted({"DIRECTORY_LIST_FAILED"}, d)'
               \/ (\A e \in volume.entries[d] : e[2] \in visited \/ OnStack(e[2]))'
    BY <1>1, <1>3, <2>1, <2>3, NotedStays DEF WholeInv, PathInv
  <2>6. (pc = "pool" => WalkOver \/ cancelled)'
    BY <1>5 DEF WalkOver
  <2>7. QED
    BY <1>1, <1>3, <2>1, <2>2, <2>4, <2>5, <2>6 DEF WholeInv, PathInv, Early
<1>7. TaskInv'
  BY <1>1, <1>2, <1>3, TasksKept DEF WholeInv
<1>8. QED
  BY <1>6, <1>7

LEMMA StartPoolTasks == ASSUME WholeInv, StartPool PROVE PathInv' /\ TaskInv'
<1>1. /\ UNCHANGED <<args, cancelled, walk, anomalies, report, result>> /\ pc = "pool" /\ result # "report"
      /\ status' = [i \in TaskIds |-> "todo"] /\ stage' = [i \in TaskIds |-> "idle"]
      /\ slot' = [i \in TaskIds |-> EmptySlot]
      /\ \/ discovered = <<>> /\ pc' = "collect" /\ poolResult' = "ok"
         \/ pc' = "collect" /\ poolResult' = "cancelled"
         \/ ~cancelled /\ pc' = "analyse" /\ UNCHANGED poolResult
  BY DEF StartPool, WholeInv, PathInv
<1>2. PathInv'
  BY <1>1, WalkKept DEF WholeInv, PathInv, Early
<1>3. discovered' = discovered /\ TaskIds' = TaskIds
  BY <1>1 DEF walk, TaskIds
<1>4. \A i \in TaskIds : SlotSound(i)'
  <2>1. ASSUME NEW i \in TaskIds PROVE SlotSound(i)'
    <3>1. slot'[i] = EmptySlot /\ status'[i] = "todo" /\ stage'[i] = "idle"
      BY <1>1
    <3>2. EmptySlot \in [file : BOOLEAN, artifact : BOOLEAN, anomalies : Seq(TaskAnomaly(i)')] /\ ~EmptySlot.file
      BY DEF EmptySlot
    <3>3. QED
      BY <3>1, <3>2 DEF SlotSound
  <2>2. QED
    BY <2>1
<1>5. discovered = <<>> => TaskIds = {}
  BY DEF TaskIds
<1>6. TaskInv'
  BY <1>1, <1>3, <1>4, <1>5 DEF WholeInv, TaskInv, Analysed, EveryFindingKept, TaskCodes
<1>7. QED
  BY <1>2, <1>6

LEMMA PoolReturnsTasks == ASSUME WholeInv, PoolReturns PROVE PathInv' /\ TaskInv'
<1>1. /\ UNCHANGED <<args, walk, anomalies, status, stage, slot, report, result>>
      /\ pc = "analyse" /\ pc' = "collect" /\ result # "report"
      /\ poolResult' \in {"ok", "failed", "cancelled"}
      /\ poolResult' = "ok" => \A i \in DOMAIN status : status[i] = "ok"
  BY DEF PoolReturns, Pool!Return, Pool!MayReturn, Pool!Indexes, WholeInv, PathInv
<1>2. PathInv'
  BY <1>1, WalkKept DEF WholeInv, PathInv, Early
<1>3. TaskIds' = TaskIds
  BY <1>1 DEF TaskIds, walk
<1>4. \A i \in TaskIds : SlotSound(i) => SlotSound(i)'
  BY <1>1 DEF SlotSound, TaskAnomaly, Done, InSlot, args, walk
<1>5. TaskInv'
  BY <1>1, <1>3, <1>4 DEF WholeInv, TaskInv, Analysed, EveryFindingKept, TaskCodes
<1>6. QED
  BY <1>2, <1>5

LEMMA CollectTasks == ASSUME WholeInv, Collect PROVE PathInv' /\ TaskInv'
<1>1. UNCHANGED <<args, walk, poolResult>> /\ pc = "collect" /\ pc' = "returned" /\ result # "report"
  BY DEF Collect, Return, tasks, WholeInv, PathInv
<1>2. CASE poolResult = "ok"
  <2>1. anomalies' \in Seq(AnomalyType) /\ ToSet(anomalies) \subseteq ToSet(anomalies') /\ EveryFindingKept'
    BY <1>2, Collected DEF WholeInv
  <2>2. PathInv'
    BY <1>1, <1>2, <2>1, WalkKept DEF WholeInv, PathInv, Early
  <2>3. result' = "report"
    BY <1>2 DEF Collect, Return
  <2>4. TaskInv'
    BY <1>1, <2>1, <2>3 DEF WholeInv, TaskInv, Analysed
  <2>5. QED
    BY <2>2, <2>4
<1>3. CASE poolResult # "ok"
  <2>1. UNCHANGED anomalies /\ result' # "report"
    BY <1>3 DEF Collect, Return, WholeInv, TaskInv
  <2>2. PathInv'
    BY <1>1, <2>1, WalkKept DEF WholeInv, PathInv, Early
  <2>3. TaskInv'
    BY <1>1, <2>1, TasksKept DEF WholeInv
  <2>4. QED
    BY <2>2, <2>3
<1>4. QED
  BY <1>2, <1>3

LEMMA AddedByWalk ==
  ASSUME NEW s \in Seq(AnomalyType), NEW n, NEW code \in {"INODE_OPEN_FAILED", "DIRECTORY_LIST_FAILED"}
  PROVE  \A a \in ToSet(Append(s, Anomaly(code, n))) : a \in ToSet(s) \/ a.code \notin TaskCodes
<1> DEFINE a == Anomaly(code, n)
           S == AnomalyType \cup {a}
<1>1. a.code \notin TaskCodes
  BY DEF Anomaly, TaskCodes
<1> HIDE DEF a
<1>2. s \in Seq(S) /\ a \in S
  BY SeqMonotonic
<1> HIDE DEF S
<1>3. ToSet(Append(s, a)) = ToSet(s) \cup {a}
  BY <1>2, Appending
<1>4. QED
  BY <1>1, <1>3 DEF a

LEMMA WholeStep == WholeInv /\ [Next]_vars => WholeInv'
<1> SUFFICES ASSUME WholeInv, [Next]_vars PROVE WholeInv'
  OBVIOUS
<1>1. IInv'
  BY StepInv DEF WholeInv
<1> SUFFICES PathInv' /\ TaskInv'
  BY <1>1 DEF WholeInv
<1>2. CASE Begin \/ ResolveRoot
  BY <1>2, BeforeWalk
<1>3. CASE VolumeIntegrity
  BY <1>3, IntegrityStep
<1>4. CASE WalkEnds
  BY <1>4, WalkEndsStep
<1>5. CASE Visit
  <2>1. PathInv'
    BY <1>5, VisitPath DEF WholeInv
  <2>2. /\ UNCHANGED <<poolResult, result>> /\ pc' \in {"list", "walk"} /\ result # "report"
        /\ \/ UNCHANGED anomalies
           \/ \E n : anomalies' = Append(anomalies, Anomaly("INODE_OPEN_FAILED", n))
    BY <1>5 DEF Visit, tasks, WholeInv, PathInv
  <2>3. \A a \in ToSet(anomalies)' : a \in ToSet(anomalies) \/ a.code \notin TaskCodes
    BY <2>2, AddedByWalk DEF WholeInv, PathInv
  <2>4. QED
    BY <2>1, <2>2, <2>3, TasksKept DEF WholeInv
<1>6. CASE ListDirectory
  <2>1. PathInv'
    BY <1>6, ListPath DEF WholeInv
  <2>2. /\ UNCHANGED <<poolResult, result>> /\ pc' = "walk" /\ result # "report"
        /\ \/ UNCHANGED anomalies
           \/ \E n : anomalies' = Append(anomalies, Anomaly("DIRECTORY_LIST_FAILED", n))
    BY <1>6 DEF ListDirectory, tasks, WholeInv, PathInv
  <2>3. \A a \in ToSet(anomalies)' : a \in ToSet(anomalies) \/ a.code \notin TaskCodes
    BY <2>2, AddedByWalk DEF WholeInv, PathInv
  <2>4. QED
    BY <2>1, <2>2, <2>3, TasksKept DEF WholeInv
<1>7. CASE StartPool
  BY <1>7, StartPoolTasks
<1>8. CASE PoolReturns
  BY <1>8, PoolReturnsTasks
<1>9. CASE Collect
  BY <1>9, CollectTasks
<1>10. ASSUME NEW i \in DOMAIN status, Task(i) PROVE PathInv' /\ TaskInv'
  <2>1. /\ UNCHANGED <<args, pc, walk, anomalies, poolResult, result>> /\ pc = "analyse"
    BY <1>10 DEF Task, StartTask, CheckContext, AnalyseInode, AnalyseDirectory, EndTask, Continue,
                 Pool!Start, Pool!End
  <2>2. PathInv'
    BY <2>1, WalkKept DEF WholeInv, PathInv, Early
  <2>3. QED
    BY <1>10, <2>2, TaskStep DEF WholeInv
<1>11. CASE CloseVolume \/ CallerCancel
  BY <1>11, Aside DEF CloseVolume, CallerCancel, WholeInv
<1>12. CASE UNCHANGED vars
  BY <1>12, Aside DEF vars, WholeInv
<1>13. QED
  BY <1>2, <1>3, <1>4, <1>5, <1>6, <1>7, <1>8, <1>9, <1>10, <1>11, <1>12 DEF Next, Call, Returned

LEMMA WholeInvariance == Spec => []WholeInv
<1>1. QED
  BY InitWhole, WholeStep, PTL DEF Spec

\* A report that was not cut off accounts for all that its directories lead to, on
\* volumes of any size and shape, whatever fails to open or to be listed on the way and
\* whenever the volume is closed or the context cancelled.
THEOREM WalkLosesNothing == Spec => []WalkComplete
<1>1. WholeInv => WalkComplete
  <2> SUFFICES ASSUME WholeInv, result = "report", discovered # <<>>, ~Truncated,
                      NEW d \in Walked \cap volume.isDir
               PROVE  \/ Noted({"DIRECTORY_LIST_FAILED"}, d)
                      \/ \A e \in volume.entries[d] : e[2] \in Walked \/ Noted({"INODE_OPEN_FAILED"}, e[2])
    BY DEF WalkComplete
  <2>1. stack = <<>> /\ pc = "returned"
    BY DEF WholeInv, PathInv, WalkOver
  <2>2. \A n : ~OnStack(n)
    BY <2>1 DEF OnStack
  <2>3. \/ Noted({"DIRECTORY_LIST_FAILED"}, d)
        \/ \A e \in volume.entries[d] : e[2] \in visited
    BY <2>1, <2>2 DEF WholeInv, PathInv
  <2>4. QED
    BY <2>3 DEF WholeInv, PathInv, Found
<1>2. QED
  BY <1>1, WholeInvariance, PTL

\* However the tasks of the pool are scheduled and whatever fails in them, a report has
\* for every inode discovered its findings or the anomaly, and in the order of discovery.
THEOREM FindingsSurvive == Spec => []EveryFindingKept
<1>1. WholeInv => EveryFindingKept
  BY DEF WholeInv, TaskInv
<1>2. QED
  BY <1>1, WholeInvariance, PTL
===============================================================================
