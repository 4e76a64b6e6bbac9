--------------------------- MODULE MCDirectoryScan ---------------------------
(* A directory of up to 3 blocks of 2 units, in a data region of 6 and a       *)
(* volume of 5 units, with default caps of 2 blocks and 2 entries. Of the sizes  *)
(* that are no int, of up to 15, one puts the first block out of reach, one all. *)
EXTENDS DirectoryScan

\* Nothing refuses a negative cap.
MCEntryLimits == {-1, 0, 1}
===============================================================================
