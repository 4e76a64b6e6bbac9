--------------------------- MODULE MCDirectoryBlock ---------------------------
(* Blocks of up to 32 units with entries of 16 and 24 bytes and free runs of up to 48. *)
EXTENDS DirectoryBlock

Entry(len) == [kind |-> "active", len |-> len, remnants |-> {}]
Active == Entry(8)
Free(len, remnants) == [kind |-> "free", len |-> len, remnants |-> remnants]
Remnant(at, len) == [at |-> at, len |-> len]

MCLayouts == {
  [zeros |-> 28, records |-> 0 :> Active @@ 8 :> Entry(12) @@ 20 :> Active],
  [zeros |-> 32, records |-> 0 :> Active @@ 8 :> Free(16, {Remnant(16, 8)}) @@ 24 :> Active],
  [zeros |-> 24, records |-> 0 :> Free(24, {Remnant(4, 8), Remnant(12, 8)})],
  [zeros |-> 12, records |-> 0 :> Active @@ 8 :> Free(4, {})]}
MCEnds == {12, 17, 28, 32}
===============================================================================
