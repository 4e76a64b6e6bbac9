----------------------------- MODULE DirectoryIndex -----------------------------
(***************************************************************************)
(* The hash index of a directory: its collection from the blocks of the    *)
(* leaf space (collectDirectoryLeafEntries), the lookup of a name through  *)
(* it with the fall back to a walk of the data blocks                      *)
(* (lookupDirectoryEntry), and its comparison with the data blocks         *)
(* (VerifyDirectoryIndex).  The tree of index blocks, the index entries    *)
(* and the data are whatever a damaged or altered image holds.             *)
(***************************************************************************)
EXTENDS Integers, SequencesExt

CONSTANTS
  Names,
  DotNames,       \* "." and "..": indexed, but not listed
  Hash,           \* xfsDirHashName
  Images,         \* the data, functions from addresses to slots, each with a leaf
                  \* space, a function from block numbers to index blocks
  Root,           \* the block at dirLeafSpaceOffset
  MaxLeafBlocks   \* maxDirectoryLeafBlocks

ASSUME NameAssumption == DotNames \subseteq Names /\ Hash \in [Names -> Nat]
ASSUME BlockAssumption == MaxLeafBlocks \in Nat /\ \A i \in Images : Root \in DOMAIN i.tree
ASSUME TreeAssumption ==
  \A i \in Images :
    /\ IsFiniteSet(DOMAIN i.tree)
    /\ \A b \in DOMAIN i.tree :
         /\ i.tree[b].kind \in {"leaf", "node", "unmapped", "bad"}
         /\ i.tree[b].kind = "node" => i.tree[b].children \in Seq(DOMAIN i.tree)
         /\ i.tree[b].kind = "leaf" => i.tree[b].entries \in Seq([hash : Nat, address : Nat])
ASSUME AddressAssumption == \A i \in Images : DOMAIN i.data \subseteq Nat

\* What there is at an address of the data space.  The bytes of an "active" or a
\* "free" (deleted) entry are a name and an inode number; those of a "damaged" or
\* "lost" one are too, but in a block whose framing is broken: only a best-effort
\* scan still finds the damaged one, and none finds the lost one.  Nothing can be
\* read in the block of an "unreadable" one.
SlotStates == {"active", "free", "damaged", "lost", "unreadable"}

VARIABLES
  data, tree,
  call,         \* the lookup of a name, or a verification
  pc,
  pending,      \* the node blocks whose children are still to be read
  children,     \* the children of the current one still to come
  visited,
  blocksRead,
  entries,      \* the index entries collected
  readable,     \* collectDirectoryLeafEntries returned no error
  cursor,       \* i of the loop over the candidates
  answer

input == <<data, tree, call>>
collection == <<pending, children, visited, blocksRead, entries, readable>>
vars == <<input, pc, collection, cursor, answer>>

Calls == [op : {"lookup"}, name : Names] \cup {[op |-> "verify"]}
NoAnswer == [by |-> "none"]

Init ==
  /\ \E i \in Images : data = i.data /\ tree = i.tree
  /\ call \in Calls
  /\ pc = "open"
  /\ pending = <<>> /\ children = <<>> /\ visited = {} /\ blocksRead = 0
  /\ entries = <<>> /\ readable = TRUE
  /\ cursor = 0 /\ answer = NoAnswer

-------------------------------------------------------------------------------
(* collectDirectoryLeafEntries *)
Collected ==
  /\ pc' = "use"
  /\ UNCHANGED <<input, collection, cursor, answer>>

\* An error: no index, an unreadable block, a block that is not an index block,
\* or more blocks than the budget.
CollectFails ==
  /\ pc' = "use" /\ readable' = FALSE /\ entries' = <<>>
  /\ UNCHANGED <<input, pending, children, visited, blocksRead, cursor, answer>>

OpenIndex ==
  /\ pc = "open"
  /\ \/ tree[Root].kind \in {"unmapped", "bad"} /\ CollectFails
     \/ /\ tree[Root].kind = "leaf"
        /\ entries' = tree[Root].entries /\ pc' = "use"
        /\ UNCHANGED <<input, pending, children, visited, blocksRead, readable, cursor, answer>>
     \/ /\ tree[Root].kind = "node"
        /\ pending' = <<Root>> /\ pc' = "collect"
        /\ UNCHANGED <<input, children, visited, blocksRead, entries, readable, cursor, answer>>

Rest == Tail(pending)

TakeNode ==
  /\ pc = "collect" /\ children = <<>> /\ pending # <<>>
  /\ children' = tree[Head(pending)].children /\ pending' = Rest
  /\ UNCHANGED <<input, pc, visited, blocksRead, entries, readable, cursor, answer>>

\* Blocks that are not remembered.
SeenForgotten(child) == visited

Seen(child) == visited \cup {child}

SkipChild ==
  /\ pc = "collect" /\ children # <<>> /\ Head(children) \in visited
  /\ children' = Tail(children)
  /\ UNCHANGED <<input, pc, pending, visited, blocksRead, entries, readable, cursor, answer>>

\* A budget that is short by one block.
OverBudgetEarly == blocksRead + 1 >= MaxLeafBlocks

OverBudget == blocksRead + 1 > MaxLeafBlocks

ReadChild ==
  /\ pc = "collect" /\ children # <<>> /\ Head(children) \notin visited
  /\ LET child == tree[Head(children)]
     IN  IF OverBudget \/ child.kind \in {"unmapped", "bad"}
         THEN CollectFails
         ELSE /\ visited' = Seen(Head(children)) /\ blocksRead' = blocksRead + 1
              /\ children' = Tail(children)
              /\ IF child.kind = "node"
                 THEN pending' = Append(pending, Head(children)) /\ UNCHANGED entries
                 ELSE entries' = entries \o child.entries /\ UNCHANGED pending
              /\ UNCHANGED <<input, pc, readable, cursor, answer>>

CollectEnds == pc = "collect" /\ children = <<>> /\ pending = <<>> /\ Collected

-------------------------------------------------------------------------------
(* lookupDirectoryEntry, lookupDirectoryEntryByHash *)

\* sort.Search for the first entry of this hash or a greater one: a binary search,
\* that assumes the entries to be in order.
FirstCandidate(hash) ==
  LET search[low \in 1 .. Len(entries) + 1, high \in 1 .. Len(entries) + 1] ==
        IF low >= high THEN low
        ELSE LET middle == low + (high - low) \div 2
             IN  IF entries[middle].hash >= hash THEN search[low, middle] ELSE search[middle + 1, high]
  IN  search[1, Len(entries) + 1]

Search ==
  /\ pc = "use" /\ call.op = "lookup"
  /\ IF readable /\ entries # <<>>
     THEN pc' = "candidates" /\ cursor' = FirstCandidate(Hash[call.name])
     ELSE pc' = "walk" /\ UNCHANGED cursor
  /\ UNCHANGED <<input, collection, answer>>

\* The bytes at an address can be decoded as an entry.
Decodes(address) == address \in DOMAIN data /\ data[address].state # "unreadable"

\* The inode number of an entry is told from that of the others by its address.
Entry(address) == [name |-> data[address].name, ino |-> address]

IsCandidate == cursor \in DOMAIN entries /\ entries[cursor].hash = Hash[call.name]

\* The hash is taken for the name.
MatchesHash(address) == TRUE

Matches(address) == Entry(address).name = call.name

\* The index is taken at its word.
GiveUpAbsent == pc' = "done" /\ answer' = [by |-> "absent"]

GiveUp == pc' = "walk" /\ UNCHANGED answer

\* The end of the candidates, or one that cannot be decoded: the walk decides.
NoCandidate ==
  /\ pc = "candidates"
  /\ IsCandidate => entries[cursor].address # 0 /\ ~Decodes(entries[cursor].address)
  /\ GiveUp
  /\ UNCHANGED <<input, collection, cursor>>

NextCandidate ==
  /\ pc = "candidates" /\ IsCandidate
  /\ \/ entries[cursor].address = 0
     \/ Decodes(entries[cursor].address) /\ ~Matches(entries[cursor].address)
  /\ cursor' = cursor + 1
  /\ UNCHANGED <<input, pc, collection, answer>>

FoundByHash ==
  /\ pc = "candidates" /\ IsCandidate
  /\ LET address == entries[cursor].address
     IN  /\ address # 0 /\ Decodes(address) /\ Matches(address)
         /\ answer' = [by |-> "index", ino |-> Entry(address).ino]
  /\ pc' = "done"
  /\ UNCHANGED <<input, collection, cursor>>

\* ListDirectoryEntries is a strict scan: it loses the blocks that are broken.
Listed == {a \in DOMAIN data : data[a].state = "active" /\ data[a].name \notin DotNames}
ListFails == \E a \in DOMAIN data : data[a].state \in {"damaged", "lost", "unreadable"}

WalkAnswer(name) ==
  LET found == {a \in Listed : data[a].name = name}
  IN  IF found # {} THEN [by |-> "walk", ino |-> CHOOSE a \in found : \A b \in found : a <= b]
      ELSE IF ListFails THEN [by |-> "error"] ELSE [by |-> "absent"]

Walk ==
  /\ pc = "walk"
  /\ pc' = "done" /\ answer' = WalkAnswer(call.name)
  /\ UNCHANGED <<input, collection, cursor>>

-------------------------------------------------------------------------------
(* VerifyDirectoryIndex *)
Indexed == {e \in ToSet(entries) : e.address # 0}

\* A best-effort scan, with the dot entries.
Scanned == {a \in DOMAIN data : data[a].state \in {"active", "damaged"}}
ScanFails == \E a \in DOMAIN data : data[a].state = "unreadable"

HashIndexed(a) == \E e \in Indexed : e.hash = Hash[data[a].name]
IsIndexed(a) == [hash |-> Hash[data[a].name], address |-> a] \in Indexed

Dangling == {e \in Indexed : e.address \notin Scanned}

Report ==
  LET contents == {a \in Scanned : data[a].name \notin DotNames}
  IN  [by |-> "report", hasIndex |-> readable,
       missing    |-> IF readable THEN {a \in contents : ~HashIndexed(a)} ELSE {},
       mismatched |-> IF readable THEN {a \in contents : HashIndexed(a) /\ ~IsIndexed(a)} ELSE {},
       dangling   |-> IF readable THEN Dangling ELSE {}]

Consistent(report) == report.missing = {} /\ report.mismatched = {} /\ report.dangling = {}

Verify ==
  /\ pc = "use" /\ call.op = "verify"
  /\ pc' = "done" /\ answer' = IF ScanFails THEN [by |-> "error"] ELSE Report
  /\ UNCHANGED <<input, collection, cursor>>

Step ==
  \/ OpenIndex \/ TakeNode \/ SkipChild \/ ReadChild \/ CollectEnds
  \/ Search \/ NoCandidate \/ NextCandidate \/ FoundByHash \/ Walk
  \/ Verify

Next == Step \/ (pc = "done" /\ UNCHANGED vars)

Spec == Init /\ [][Next]_vars

\* A lookup is one goroutine's call: it runs to its end.
FairSpec == Spec /\ WF_vars(Step)

-------------------------------------------------------------------------------
TypeOK ==
  /\ call \in Calls
  /\ pc \in {"open", "collect", "use", "candidates", "walk", "done"}
  /\ pending \in Seq(DOMAIN tree) /\ children \in Seq(DOMAIN tree)
  /\ visited \subseteq DOMAIN tree /\ blocksRead \in 0 .. MaxLeafBlocks
  /\ entries \in Seq([hash : Nat, address : Nat]) /\ readable \in BOOLEAN
  /\ cursor \in 0 .. Len(entries) + 1
  /\ answer.by \in {"none", "index", "walk", "absent", "error", "report"}

Found == answer.by \in {"index", "walk"}
LookupDone == pc = "done" /\ call.op = "lookup"

\* "An optimisation must never reduce recall on a damaged image": a name that the
\* walk can recover is found, whatever the index and its blocks hold.
IndexHidesNothing ==
  LookupDone /\ WalkAnswer(call.name).by = "walk" => Found

Undamaged == \A a \in DOMAIN data : data[a].state \in {"active", "free"}
NamesUnique ==
  \A a, b \in DOMAIN data :
    data[a].state = "active" /\ data[b].state = "active" /\ data[a].name = data[b].name => a = b

\* A tampered index is reported: where VerifyDirectoryIndex finds nothing to report,
\* a lookup, of whatever it collected, answers what the walk answers.
ConsistentMeansAgree ==
  LookupDone /\ Undamaged /\ NamesUnique /\ Consistent(Report) /\ call.name \notin DotNames =>
    \/ Found /\ WalkAnswer(call.name).by = "walk" /\ answer.ino = WalkAnswer(call.name).ino
    \/ answer = WalkAnswer(call.name)

InOrder == \A i, j \in DOMAIN entries : i < j => entries[i].hash <= entries[j].hash

\* An intact index is enough: each name of the directory is found through it,
\* dot entries included, and no block of the directory is walked.
HealthyNeedsNoWalk ==
  LookupDone /\ Undamaged /\ readable /\ InOrder
    /\ (\A a \in DOMAIN data : data[a].state = "active" => IsIndexed(a)) /\ Dangling = {}
    /\ (\E a \in DOMAIN data : data[a].state = "active" /\ data[a].name = call.name) =>
    answer.by = "index"

\* The dot entries are indexed like the others: an index that has all the entries
\* of a directory and nothing else is not reported.
IntactIsConsistent ==
  pc = "done" /\ answer.by = "report" /\ readable
    /\ Indexed = {[hash |-> Hash[data[a].name], address |-> a] : a \in Scanned} =>
    Consistent(answer)

Children(b) == IF tree[b].kind = "node" THEN ToSet(tree[b].children) ELSE {}

\* A set of blocks that has all that its blocks and the root point at.
Closed(blocks) == \A b \in blocks \cup {Root} : Children(b) \subseteq blocks

\* The blocks that the root leads to, the least such set: the root is among them only if a
\* node points at it.
Targets == {b \in DOMAIN tree : \A blocks \in SUBSET DOMAIN tree : Closed(blocks) => b \in blocks}

CollectDone == pc \notin {"open", "collect"}

LeavesOf(blocks) == {b \in blocks \cup {Root} : tree[b].kind = "leaf"}
EntriesAlong(leaves) == FlattenSeq([i \in DOMAIN leaves |-> tree[leaves[i]].entries])

\* The collection is all or nothing: cycles, shared blocks and the budget
\* notwithstanding, what is collected without an error is the entries of each leaf
\* of the tree, once, and those of a leaf together.
EveryLeafOnce ==
  CollectDone /\ readable =>
    \E leaves \in SetToSeqs(LeavesOf(Targets)) : entries = EntriesAlong(leaves)

\* An index is given up only for what is wrong with it: a block that is no index
\* block, or more blocks than the budget.  A block that is pointed at twice is not.
ReadableUnlessDamaged ==
  CollectDone =>
    (readable <=> /\ \A b \in Targets \cup {Root} : tree[b].kind \in {"leaf", "node"}
                  /\ Cardinality(Targets) <= MaxLeafBlocks)

\* Every call returns, whatever the tree leads to.
CallReturns == <>(pc = "done")

-------------------------------------------------------------------------------
(* What the documents say, and the code does not do. *)

\* README.md: path resolution "falls back to a linear walk whenever it is absent,
\* unreadable, or inconsistent".
FallsBackWhenInconsistent ==
  LookupDone /\ Undamaged /\ ~Consistent(Report) => answer.by # "index"

\* DirectoryIndexReport.Consistent "reports whether the index and the data blocks agree".
ConsistentMeansEqual ==
  pc = "done" /\ answer.by = "report" /\ answer.hasIndex /\ Consistent(answer) =>
    Indexed = {[hash |-> Hash[data[a].name], address |-> a] : a \in Scanned}

\* "HashMismatches lists entries whose name does not hash to the value the index
\* records for it."
MismatchMeansWrongHash ==
  pc = "done" /\ answer.by = "report" =>
    \A a \in answer.mismatched :
      \E e \in Indexed : e.address = a /\ e.hash # Hash[data[a].name]

\* "HasIndex is false for short-form and single-block directories, which have no
\* separate hash index to check."
NoIndexMeansNone ==
  pc = "done" /\ answer.by = "report" /\ ~answer.hasIndex => tree[Root].kind = "unmapped"
===============================================================================
