------------------------------- MODULE MCExtents -------------------------------
(* Forks with a list of up to three records, or a tree of up to four blocks, in *)
(* a volume of three groups, whose size is no power of two, and a short one.    *)
EXTENDS Fragmentation

MCGeometry == [agSize |-> 6, blockStride |-> 8, blocks |-> 22, blockSize |-> 2]

\* Blocks 1 to 5 of group 1, and 2 to 4 of group 2.
Extent(l, n, p, sparse) == [l |-> l, n |-> n, p |-> p, sparse |-> sparse]
UpTo(k, records) == UNION {[1 .. i -> records] : i \in 0 .. k}

\* Any two records, either of which may be unwritten, and any three.
MCPairs == {Extent(l, n, p, FALSE) : l \in 0 .. 3, n \in 0 .. 3, p \in {9, 18}}
             \cup {Extent(l, n, 9, TRUE) : l \in 0 .. 3, n \in 1 .. 3}
MCTriples == {Extent(l, n, 8 + l, FALSE) : l \in 0 .. 3, n \in {1, 3}}
\* The last block of group 1, the last of the volume, one beyond it, and one that
\* runs over the border of a group.
MCBorders == {<<Extent(0, 2, p, FALSE)>> : p \in {12, 14, 15, 26, 27, 28}}
\* Gaps of 64 blocks, whose 128 bytes are more than a word can count, and of 65.
MCFar == {<<Extent(64, 1, 9, FALSE)>>, <<Extent(65, 1, 9, FALSE)>>,
          <<Extent(0, 1, 9, FALSE), Extent(65, 1, 10, FALSE)>>}
InInode(count, s) == [type |-> "extents", count |-> count, records |-> s]
MCLists ==
  {InInode(Len(s), s) : s \in UpTo(2, MCPairs) \cup [1 .. 3 -> MCTriples] \cup MCBorders}
    \cup {InInode(Len(s), s) : s \in MCFar}
    \cup {InInode(c, s) : c \in {0, 1, 3}, s \in UpTo(2, {Extent(l, n, 9, FALSE) : l \in 0 .. 1, n \in 0 .. 1})}

\* A root with up to two children, branches of up to two, leaves with a record or two.
Leaf(s) == [kind |-> "block", level |-> 0, records |-> s]
Branch(level, children) == [kind |-> "block", level |-> level, children |-> children]
Bad == [kind |-> "bad"]
MCRecords == << <<Extent(0, 1, 9, FALSE)>>, <<Extent(1, 2, 18, FALSE)>>,
                <<Extent(2, 1, 11, TRUE), Extent(3, 1, 12, FALSE)>>, <<Extent(4, 1, 20, FALSE)>> >>
MCBlock(b) ==
  {Leaf(MCRecords[b + 1]), Bad}
    \cup {Branch(level, s) : level \in 1 .. 2, s \in {<<>>, <<1>>, <<2>>, <<3>>, <<1, 2>>, <<2, 3>>, <<3, 3>>}}
MCTrees ==
  {[type |-> "btree", level |-> level, root |-> root, blocks |-> [b \in 0 .. 3 |-> <<b0, b1, b2, b3>>[b + 1]]] :
     level \in {0, 1, 2}, root \in {<<>>, <<0>>, <<0, 1>>},
     b0 \in MCBlock(0), b1 \in {b \in MCBlock(1) : b.kind = "block" => b.level < 2},
     b2 \in {Leaf(MCRecords[3]), Branch(1, <<3>>), Branch(1, <<1, 2>>), Bad},
     b3 \in {Leaf(MCRecords[4]), Branch(1, <<2, 3>>)}}

MCForks == MCLists \cup MCTrees \cup {[type |-> "local", room |-> 9], [type |-> "device"]}

MCReads == {<<0, 0>>, <<3, 6>>, <<5, 1>>, <<7, 4>>, <<9, 2>>}
===============================================================================
