------------------------------ MODULE ExtentBtree ------------------------------
(***************************************************************************)
(* The extents of a fork that is mapped by a b+tree: the depth-first walk  *)
(* of parseExtentsFromBtreeRoot, one block at a time, over a graph of      *)
(* blocks that on a damaged image may have cycles, shared blocks and       *)
(* levels that do not fall.  Module Extents goes on from what it collects. *)
(***************************************************************************)
EXTENDS Integers, SequencesExt

CONSTANTS
  Forks,      \* the forks an inode may have, see below
  MaxDepth    \* maxBtreeRecursionDepth

\* A fork of type "btree" has a root, the children of the root in the inode, the
\* root's level, and blocks, a function from block numbers to blocks.  A block has
\* a level, and its records at level 0, its children above; or it is "bad".
ASSUME DepthAssumption == MaxDepth \in Nat
ASSUME RootAssumption ==
  \A f \in Forks : f.type = "btree" =>
    /\ f.root \in Seq(DOMAIN f.blocks)
    /\ \A b \in DOMAIN f.blocks :
         f.blocks[b].kind = "block" /\ f.blocks[b].level # 0 => f.blocks[b].children \in Seq(DOMAIN f.blocks)

VARIABLES
  fork,
  pc,
  stack,      \* of the branches that are being read: children to come, depth
  extents     \* what has been decoded: at last, the fork's records

walk == <<fork, pc, stack, extents>>

Frame(blocks, depth) == [rest |-> blocks, depth |-> depth]

Fail == pc' = "failed" /\ UNCHANGED <<fork, stack, extents>>

OpenRoot ==
  /\ pc = "open" /\ fork.type = "btree"
  /\ IF fork.level = 0 THEN Fail
     ELSE pc' = "walk" /\ stack' = <<Frame(fork.root, 0)>> /\ UNCHANGED <<fork, extents>>

Top == Last(stack)
Child == Head(Top.rest)
Advanced == Append(Front(stack), Frame(Tail(Top.rest), Top.depth))

Below == Top.depth + 1

\* One level too few.
TooDeepEarly == Below >= MaxDepth

TooDeep == Below > MaxDepth

\* Not so: a number that is refused, a failed read, a wrong signature or wrong counts.
Good(b) == fork.blocks[b].kind = "block" /\ fork.blocks[b].level <= fork.level

ReadFails ==
  /\ pc = "walk" /\ stack # <<>> /\ Top.rest # <<>>
  /\ TooDeep \/ ~Good(Child)
  /\ Fail

With(records) == extents \o records

ReadBlock ==
  /\ pc = "walk" /\ stack # <<>> /\ Top.rest # <<>>
  /\ ~TooDeep /\ Good(Child)
  /\ LET child == fork.blocks[Child]
     IN  IF child.level = 0
         THEN extents' = With(child.records) /\ stack' = Advanced
         ELSE stack' = Append(Advanced, Frame(child.children, Below)) /\ UNCHANGED extents
  /\ UNCHANGED <<fork, pc>>

Left == Front(stack)

BranchEnds ==
  /\ pc = "walk" /\ stack # <<>> /\ Top.rest = <<>>
  /\ stack' = Left
  /\ UNCHANGED <<fork, pc, extents>>

WalkEnds ==
  /\ pc = "walk" /\ stack = <<>>
  /\ pc' = "collected"
  /\ UNCHANGED <<fork, stack, extents>>

WalkStep == OpenRoot \/ ReadFails \/ ReadBlock \/ BranchEnds \/ WalkEnds

-------------------------------------------------------------------------------
\* The blocks that are good, and lead to none but some of those below.
SoundAmong(below) ==
  {b \in DOMAIN fork.blocks :
     Good(b) /\ (fork.blocks[b].level = 0 \/ ToSet(fork.blocks[b].children) \subseteq below)}

\* The blocks under which, with so many levels left, each block is good and none is too
\* deep: a block that leads to itself never is among them.
SoundWithin ==
  LET within[levels \in 0 .. MaxDepth] == IF levels = 0 THEN {} ELSE SoundAmong(within[levels - 1])
  IN  within

Sound == fork.level # 0 /\ ToSet(fork.root) \subseteq SoundWithin[MaxDepth]

\* What a reader of the tree takes it for: the records of a leaf, or those under a
\* branch from left to right.
RecordsOf(b, under) ==
  IF fork.blocks[b].level = 0 THEN fork.blocks[b].records
  ELSE FlattenSeq([i \in DOMAIN fork.blocks[b].children |-> under[fork.blocks[b].children[i]]])

RecordsUnder ==
  LET under[levels \in 0 .. MaxDepth] ==
        [b \in DOMAIN fork.blocks |-> IF levels = 0 \/ ~Good(b) THEN <<>> ELSE RecordsOf(b, under[levels - 1])]
  IN  under

LeafRecords == FlattenSeq([i \in DOMAIN fork.root |-> RecordsUnder[MaxDepth][fork.root[i]]])
===============================================================================
