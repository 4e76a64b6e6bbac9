----------------------------- MODULE MCPathResolve -----------------------------
(* A tree of three directories and two files of which anything may be lost, an *)
(* index that resolves any of its names, and images that are no tree at all.   *)
EXTENDS PathResolve

Named_(names, gone, how) ==
  [i \in DOMAIN names |-> [name |-> names[i][1], number |-> names[i][2],
                          block |-> IF i \in gone THEN how ELSE "readable"]]

\* Of the true entries: any may be lost, any may be indexed.
Index(names, up) == [n \in {names[i][1] : i \in DOMAIN names} |->
                       names[CHOOSE i \in DOMAIN names : names[i][1] = n][2]] @@ (".." :> up)
Directory(names, up, gone, how, indexed, known) ==
  [kind |-> "directory", entries |-> Named_(names, gone, how),
   index |-> [n \in indexed |-> Index(names, up)[n]], up |-> known]
Directories(names, up) ==
  LET all == {names[i][1] : i \in DOMAIN names} \cup {".."}
      one == {names[1][1], ".."}
  IN  {Directory(names, up, lost, "lost", indexed, {up}) :
         lost \in {{}, {1}, DOMAIN names}, indexed \in {{}, one, all}}
        \cup {Directory(names, up, {1}, "lost", {}, {})}
\* Passed over are the first blocks or all, and the ".." of the first with them.
PassedOver(names, up) == {Directory(names, up, passed, "passed", {}, {}) : passed \in {{1}, DOMAIN names}}

Unreadable == [kind |-> "unreadable"]
File == [kind |-> "file"]
AtRoot == << <<"a", 2>>, <<"f", 4>> >>
AtA == << <<"a", 3>>, <<"f", 5>> >>
AtB == << <<"g", 4>> >>

Tree(root, a, b, f) == (1 :> root) @@ (2 :> a) @@ (3 :> b) @@ (4 :> File) @@ (5 :> f)
MCTrees ==
  {Tree(root, a, b, f) : root \in Directories(AtRoot, 1), a \in Directories(AtA, 1) \cup {Unreadable},
                         b \in Directories(AtB, 2), f \in {File, Unreadable}}
    \cup {Tree(root, a, b, File) :
            root \in PassedOver(AtRoot, 1) \cup {Directory(AtRoot, 1, {}, "lost", {}, {1})},
            a \in PassedOver(AtA, 1) \cup Directories(AtA, 1), b \in PassedOver(AtB, 2) \cup Directories(AtB, 2)}

\* Directories that name themselves, each other, nothing, or a name twice, with an
\* index that is stale.
MCGraphs ==
  {[d \in 1 .. 2 |-> [kind |-> "directory", entries |-> Named_(IF d = 1 THEN n1 ELSE n2, lost, how),
                      index |-> IF d = 1 THEN i1 ELSE <<>>, up |-> up]] :
     n1 \in {<< <<"a", 2>>, <<"a", 1>> >>, << <<"a", 1>> >>, << <<"f", 0>>, <<"a", 2>> >>},
     n2 \in {<< <<"a", 1>> >>, << <<"a", 7>>, <<"f", 2>> >>, <<>>},
     i1 \in {<<>>, "a" :> 2, "f" :> 2, "f" :> 9},
     lost \in {{}, {1}}, how \in {"lost", "passed"}, up \in {{}, {0}, {2}}}

MCFilesystems == MCTrees \cup MCGraphs

Path(s) == [absolute |-> TRUE, parts |-> s]
MCPaths ==
  {Path(s) : s \in UNION {[1 .. n -> {"a", "f"}] : n \in 0 .. 3}}
    \cup {Path(<<"a", "", "a">>), Path(<<"a", ".", "f">>), Path(<<"a", "..">>), Path(<<"..">>),
          Path(<<"a", "a", "..">>), Path(<<"a", "a", "g">>), Path(<<".", ".", "a", "f">>),
          [absolute |-> FALSE, parts |-> <<"a">>]}
===============================================================================
