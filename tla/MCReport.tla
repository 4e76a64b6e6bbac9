------------------------------- MODULE MCReport -------------------------------
(* Small volumes for Report: a cycle with a hard link, and damage of each kind. *)
EXTENDS Report

Disk(root, isDir, entries, bad, damaged, superblockBad) ==
  [root |-> root, isDir |-> isDir, entries |-> entries,
   health |-> [n \in DOMAIN entries |->
                 IF \E b \in bad : b[1] = n THEN (CHOOSE b \in bad : b[1] = n)[2] ELSE "sound"],
   damage |-> [n \in DOMAIN entries |->
                 IF \E b \in damaged : b[1] = n
                 THEN (CHOOSE b \in damaged : b[1] = n)[2] ELSE "none"],
   superblockBad |-> superblockBad]

\* 1 holds 2 and 3; 2 holds its parent, itself and 3 again.
Loop == <<{<<1, 2>>, <<2, 3>>}, {<<1, 1>>, <<2, 2>>, <<3, 3>>}, {}>>
\* 1 holds 2 and 3; 2 holds the directory 4, which holds 1.
Deep == <<{<<1, 2>>, <<2, 3>>}, {<<1, 4>>}, {}, {<<1, 1>>}>>

MCVolumes == {
  Disk(1, {1, 2}, Loop, {}, {}, FALSE),
  Disk(1, {1, 2}, Loop, {<<3, "corrupt">>}, {<<2, "mild">>}, FALSE),
  Disk(1, {1, 2}, Loop, {<<1, "absent">>}, {}, FALSE),
  Disk(1, {1, 2}, Loop, {}, {}, TRUE),
  Disk(1, {1, 2, 4}, Deep, {<<3, "absent">>, <<4, "corrupt">>}, {<<4, "severe">>}, FALSE),
  Disk(1, {1, 2, 4}, Deep, {}, {<<2, "mild">>}, FALSE)}

MCLoops == {Disk(1, {1, 2}, Loop, {}, {}, FALSE), Disk(1, {1, 2}, Loop, {}, {<<2, "mild">>}, FALSE)}
===============================================================================
