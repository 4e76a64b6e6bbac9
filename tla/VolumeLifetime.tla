---------------------------- MODULE VolumeLifetime ----------------------------
(***************************************************************************)
(* What a Volume promises its callers about Close, without locks, caches   *)
(* or the order of its steps: it is open until one call closes it; a call  *)
(* that began before that may succeed, fail, or notice that the volume has *)
(* closed; a call that began later reports ErrVolumeClosed; the source is  *)
(* read only on behalf of a call of the first kind and is never released   *)
(* under a read.  Calls that the parsed superblock answers are exempt:     *)
(* they succeed whether the volume is open or not.                         *)
(***************************************************************************)
CONSTANT Threads

VARIABLES open,     \* no Close has taken effect
          source,   \* the backing handle: "open" or "released"
          reading,  \* the goroutines inside the source's ReadAt
          call,     \* each goroutine's call: none, begun early or late, closing, exempt
          outcome   \* how its last call ended

vars == <<open, source, reading, call, outcome>>

Init ==
  /\ open = TRUE
  /\ source = "open"
  /\ reading = {}
  /\ call = [t \in Threads |-> "none"]
  /\ outcome = [t \in Threads |-> "none"]

Invoke(t) ==
  /\ call[t] = "none"
  /\ \E c \in {IF open THEN "early" ELSE "late", "exempt"} :
       call' = [call EXCEPT ![t] = c]
  /\ outcome' = [outcome EXCEPT ![t] = "none"]
  /\ UNCHANGED <<open, source, reading>>

StartRead(t) ==
  /\ call[t] = "early" /\ open /\ source = "open"
  /\ reading' = reading \cup {t}
  /\ UNCHANGED <<open, source, call, outcome>>

EndRead(t) ==
  /\ reading' = reading \ {t}
  /\ UNCHANGED <<open, source, call, outcome>>

\* Close takes effect once, when no read is in flight.
CloseVolume(t) ==
  /\ call[t] = "early" /\ open /\ reading = {}
  /\ open' = FALSE
  /\ call' = [call EXCEPT ![t] = "closing"]
  /\ UNCHANGED <<source, reading, outcome>>

MayReport(t, o) ==
  \/ call[t] = "early"   /\ (o = "closed" => ~open)
  \/ call[t] = "late"    /\ o = "closed"
  \/ call[t] = "closing" /\ o # "closed"
  \/ call[t] = "exempt"  /\ o = "ok"

Return(t) ==
  /\ call[t] # "none"
  /\ \E o \in {"ok", "failed", "closed"} :
       MayReport(t, o) /\ outcome' = [outcome EXCEPT ![t] = o]
  /\ call' = [call EXCEPT ![t] = "none"]
  /\ reading' = reading \ {t}
  /\ source' \in (IF call[t] = "closing" THEN {source, "released"} ELSE {source})
  /\ UNCHANGED open

Next == \E t \in Threads :
  Invoke(t) \/ StartRead(t) \/ EndRead(t) \/ CloseVolume(t) \/ Return(t)

Spec == Init /\ [][Next]_vars
===============================================================================
