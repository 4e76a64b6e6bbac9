----------------------------- MODULE ParallelFor -----------------------------
(***************************************************************************)
(* What runBounded promises: work is applied to the indexes in ascending   *)
(* order of start, each at most once; the call returns when nothing is     *)
(* running any more; nil means that every index was worked on with         *)
(* success, a task's error means that a task failed, and a context error   *)
(* means that the caller cancelled.                                        *)
(***************************************************************************)
EXTENDS Integers

VARIABLES status,     \* what became of each index
          cancelled,  \* the caller's context is done
          result      \* what the call returned, or "none"

vars == <<status, cancelled, result>>

Indexes == DOMAIN status

Init ==
  /\ \A i \in Indexes : status[i] = "todo"
  /\ cancelled = FALSE
  /\ result = "none"

Start(i) ==
  /\ result = "none"
  /\ status[i] = "todo"
  /\ \A j \in Indexes : j < i => status[j] # "todo"
  /\ status' = [status EXCEPT ![i] = "running"]
  /\ UNCHANGED <<cancelled, result>>

\* A task learns of a cancellation by the caller, or of one that the failure of
\* another task has caused.
End(i) ==
  /\ status[i] = "running"
  /\ \E o \in {"ok", "failed", "cancelled"} :
       /\ o = "cancelled" => cancelled \/ \E j \in Indexes : status[j] = "failed"
       /\ status' = [status EXCEPT ![i] = o]
  /\ UNCHANGED <<cancelled, result>>

MayReturn(r) ==
  CASE r = "ok"        -> \A i \in Indexes : status[i] = "ok"
    [] r = "failed"    -> \E i \in Indexes : status[i] = "failed"
    [] r = "cancelled" -> cancelled

Return ==
  /\ result = "none"
  /\ \A i \in Indexes : status[i] # "running"
  /\ \E r \in {"ok", "failed", "cancelled"} : MayReturn(r) /\ result' = r
  /\ UNCHANGED <<status, cancelled>>

Cancel == ~cancelled /\ cancelled' = TRUE /\ UNCHANGED <<status, result>>

Next == Return \/ Cancel \/ \E i \in Indexes : Start(i) \/ End(i)

Spec == Init /\ [][Next]_vars
==============================================================================
