---------------------------- MODULE MCInodeLookup ----------------------------
(* Two groups that share four blocks: every graph of branches of two keys and  *)
(* leaves of up to two chunks of two inodes.                                   *)
EXTENDS InodeLookup

MCNumbers == {0, 1, 2, 3, 4, 7, 8, 9, 10, 11, 15, 16, 17}

MCLimits == [minBlockSize |-> 4, maxBlockSize |-> 16, minInodeSize |-> 4, maxInodeSize |-> 8,
             minGroupSize |-> 2, maxGroupSize |-> 5, maxGroupBits |-> 3, addressBits |-> 4, maxInodeBits |-> 4, wordSize |-> 8]

\* Groups of 3 blocks, counted by 2 bits, of 2 inodes each.
Sound == [readable |-> TRUE, supported |-> TRUE, blockSize |-> 8, inodeSize |-> 4, groupSize |-> 3, groupBits |-> 2,
          inodeBits |-> 1, inodesPerBlock |-> 2, blocks |-> 6, count |-> 2]
Group(sb, root) == [superblock |-> sb, information |-> TRUE, root |-> root]
\* One field of the first or of the second group is wrong, or the second group is not there.
MCSuperblocks ==
  {[readable |-> FALSE], [Sound EXCEPT !.supported = FALSE], [Sound EXCEPT !.blockSize = 3],
   [Sound EXCEPT !.inodeSize = 8], [Sound EXCEPT !.inodeSize = 9], [Sound EXCEPT !.groupSize = 1],
   [Sound EXCEPT !.groupSize = 4], [Sound EXCEPT !.groupSize = 5],
   [Sound EXCEPT !.groupSize = 6], [Sound EXCEPT !.groupBits = 0], [Sound EXCEPT !.groupBits = 3],
   [Sound EXCEPT !.inodeBits = 3, !.inodesPerBlock = 0], [Sound EXCEPT !.inodesPerBlock = 3],
   [Sound EXCEPT !.count = 3], [Sound EXCEPT !.count = 0]}
\* Inodes of 4 or 8 bytes, with headers of 1 and 2.
MCInodes ==
  {[readable |-> FALSE]} \cup
  [readable : {TRUE}, magic : {TRUE}, version : {1, 3}, shift : 0 .. 3, format : {"local"},
   size : {1}, time : {<<0, 0>>}, bigTime : {TRUE}, mapped : BOOLEAN]
    \cup [readable : {TRUE}, magic : BOOLEAN, version : {0, 2}, shift : {0, 2}, format : {"local", "device", "extents"},
          size : {2, 4}, time : {<<0, 0>>}, bigTime : {TRUE}, mapped : {TRUE}]
    \cup [readable : {TRUE}, magic : {TRUE}, version : {2, 3}, shift : {0}, format : {"extents"},
          size : {0}, time : (0 .. 15) \X {0, 1, 5, 9, 15}, bigTime : BOOLEAN, mapped : {TRUE}]

Record(start, unused) == [start |-> start, free |-> Cardinality(unused), unused |-> unused]
Pair(key, child) == [key |-> key, child |-> child]
Leaf(s) == [kind |-> "leaf", records |-> s]
Branch(s) == [kind |-> "branch", pairs |-> s]

MCRecordLists ==
  {<<>>, <<Record(0, {1})>>, <<Record(2, {})>>, <<Record(2, {0}), Record(4, {1})>>, <<Record(4, {0, 1})>>}
MCLeaves == {Leaf(s) : s \in MCRecordLists}
MCBranches ==
  {Branch(<<Pair(k, c)>>) : k \in {0, 2}, c \in {2, 3}}
    \cup {Branch(<<Pair(k, 2), Pair(l, c)>>) : k \in {0, 2}, l \in {2, 4}, c \in {0, 3}}
Bad == [kind |-> "bad"]
MCTrees ==
  {[b \in 0 .. 3 |-> <<r0, r1, r2, r3>>[b + 1]] :
     r0 \in MCBranches \cup MCLeaves \cup {Bad}, r1 \in {Branch(<<Pair(0, 3), Pair(4, 2)>>), Leaf(<<Record(0, {1})>>)},
     r2 \in {Branch(<<Pair(2, 3)>>), Branch(<<Pair(0, 0)>>)} \cup MCLeaves, r3 \in MCLeaves \cup {Bad}}

\* Every tree under sound groups, and a tree with all inodes 0 to 3 under any groups.
MCTree ==
  [b \in 0 .. 3 |-> IF b < 2 THEN Leaf(<<Record(0, {}), Record(2, {})>>) ELSE Bad]
Image(groups, t, inodes) == [groups |-> groups, tree |-> t, inodes |-> inodes]
MCSoundGroups == <<Group(Sound, 0), Group(Sound, 1)>>
MCGroups ==
  {<<Group(sb, 0), Group(Sound, 1)>> : sb \in MCSuperblocks}
    \cup {<<Group(Sound, 0), Group(sb, 1)>> : sb \in MCSuperblocks}
    \cup {<<Group(sb, 0), Group(sb, 1)>> : sb \in MCSuperblocks}
    \cup {<<Group(Sound, 0)>>, <<>>, <<Group(Sound, 0), [Group(Sound, 1) EXCEPT !.information = FALSE]>>}
MCImages ==
  {Image(MCSoundGroups, t, {[readable |-> FALSE]}) : t \in MCTrees}
    \cup {Image(groups, MCTree, MCInodes) : groups \in MCGroups \cup {MCSoundGroups}}
===============================================================================
