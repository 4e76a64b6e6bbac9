-------------------------------- MODULE MCXattr --------------------------------
(* Trees of up to three blocks over a fork of five, which a list of extents maps *)
(* with a hole, an unwritten part or a block out of reach.                       *)
EXTENDS Xattr

Local(name, flags) == [name |-> name, flags |-> flags, value |-> << <<0, 1>> >>]
Remote_(start, size) == [name |-> "r", flags |-> {}, start |-> start, size |-> size]

MCEntries ==
  {<<>>, <<Local("a", {})>>, <<Local("a", {"root"}), Local("a", {"root"})>>,
   <<Local("a", {"root", "secure"})>>}
    \cup {<<Remote_(start, size), Local("b", {"secure"})>> : start \in 2 .. 3, size \in {0, 3, 4, 7}}

Leaf(s) == [kind |-> "leaf", entries |-> s]
Node(s) == [kind |-> "node", children |-> s]
Opaque == [kind |-> "other"]
Part(offset, size) == [kind |-> "value", offset |-> offset, size |-> size]

\* Logical blocks 0 to 4 are at 10 to 14.
MCMaps ==
  { <<[l |-> 0, n |-> 5, p |-> 10, sparse |-> FALSE]>>,
    <<[l |-> 0, n |-> 2, p |-> 10, sparse |-> FALSE], [l |-> 2, n |-> 3, p |-> 12, sparse |-> TRUE]>>,
    <<[l |-> 0, n |-> 1, p |-> 10, sparse |-> FALSE], [l |-> 2, n |-> 2, p |-> 12, sparse |-> FALSE]>>,
    <<[l |-> 1, n |-> 4, p |-> 11, sparse |-> FALSE]>>, <<>> }

MCBlocks ==
  {(10 :> b0) @@ (11 :> b1) @@ (12 :> b2) @@ (13 :> b3) @@ (14 :> Opaque) :
     b0 \in {Node(<<1>>), Node(<<1, 1>>), Node(<<1, 2>>), Node(<<>>), Opaque} \cup {Leaf(s) : s \in MCEntries},
     b1 \in {Leaf(<<Local("c", {})>>), Node(<<2>>), Node(<<0, 2>>), Leaf(<<Remote_(3, 4)>>)},
     b2 \in {Opaque, Part(1, 1), Part(1, 0), Part(0, 2), Part(2, 2), Leaf(<<Remote_(3, 5)>>), Node(<<1>>)},
     b3 \in {Opaque, Part(2, 1), Part(1, 0)}}

NotShort == [parses |-> FALSE]
MCShort == {NotShort} \cup {[parses |-> TRUE, entries |-> s] : s \in {<<>>, <<Local("s", {})>>, <<Local("s", {"root", "secure"})>>}}

MCForks ==
  {[type |-> "extents", short |-> NotShort, lead |-> 2, extents |-> e, blocks |-> b] :
     e \in MCMaps, b \in MCBlocks \cup {[i \in DOMAIN c \ {13} |-> c[i]] : c \in MCBlocks}}
    \cup {[type |-> t, short |-> s, lead |-> 1, extents |-> e, blocks |-> (10 :> Leaf(<<Local("a", {})>>))] :
             t \in {"none", "local", "device", "btree"}, s \in MCShort, e \in MCMaps}
===============================================================================
