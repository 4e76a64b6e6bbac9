---------------------------- MODULE MCDirectoryIndex ----------------------------
(* Two addresses, three names of which two have the same hash, and either every  *)
(* leaf of up to three entries or every tree of up to four blocks.               *)
EXTENDS DirectoryIndex

MCNames == {"a", "b", ".."}
MCDots == {".."}
MCHash == [a |-> 1, b |-> 1] @@ (".." :> 2)

Slot(state, name) == [state |-> state, name |-> name]
MCSlots == {Slot(st, n) : st \in SlotStates \ {"unreadable"}, n \in MCNames} \cup {Slot("unreadable", "a")}
MCDirectories == [1 .. 2 -> MCSlots]

IndexEntry(hash, address) == [hash |-> hash, address |-> address]
Leaf(s) == [kind |-> "leaf", entries |-> s]
Node(s) == [kind |-> "node", children |-> s]
Other(k) == [kind |-> k]

\* An index of one leaf.  Address 0 is that of a stale entry, 3 is beyond the data.
MCEntries == {IndexEntry(1, 0)} \cup {IndexEntry(h, a) : h \in 1 .. 2, a \in 1 .. 2} \cup {IndexEntry(1, 3)}
MCLeaves == {0 :> Leaf(s) : s \in UNION {[1 .. k -> MCEntries] : k \in 0 .. 3}}
              \cup {0 :> Other("unmapped"), 0 :> Other("bad")}
\* Trees of four blocks: nodes, also with cycles and shared children, leaves, others.
MCBlocks == 0 .. 3
MCChildLists == {<<1, 2>>, <<2, 1>>, <<1, 2, 3>>, <<3, 0>>, <<1, 1>>, <<>>}
MCBlock(b) ==
  {Node(s) : s \in MCChildLists} \cup {Leaf(<<IndexEntry(1, b)>>), Other("bad")}
MCTrees ==
  {0 :> t0 @@ 1 :> t1 @@ 2 :> t2 @@ 3 :> t3 :
     t0 \in MCBlock(0), t1 \in MCBlock(1), t2 \in MCBlock(2), t3 \in MCBlock(3)}
MCImages ==
  [data : MCDirectories, tree : MCLeaves]
    \cup [data : {<<Slot("active", "a"), Slot("active", "b")>>}, tree : MCTrees]
===============================================================================
