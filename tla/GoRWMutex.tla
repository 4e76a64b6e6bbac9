------------------------------ MODULE GoRWMutex ------------------------------
(***************************************************************************)
(* Go's sync.RWMutex as Volume uses it, as operators on a lock record.     *)
(*                                                                         *)
(*   readers  the threads that hold the lock for reading                   *)
(*   waiting  the threads whose RLock arrived while a writer was pending   *)
(*            or active: they are admitted together by that writer's       *)
(*            Unlock, before any later writer                              *)
(*   owner    the writer that has announced itself, or NoThread; it holds  *)
(*            the lock once the readers it found have left                 *)
(*                                                                         *)
(* A pending writer therefore blocks later readers, which is what makes a  *)
(* recursive RLock a deadlock and a long run of readers unable to starve   *)
(* Close.                                                                  *)
(***************************************************************************)
CONSTANTS Threads,   \* the goroutines that use the volume
          NoThread   \* the owner of a lock that no writer has

ASSUME NoThreadAssumption == NoThread \notin Threads

Mutex == [readers : SUBSET Threads, waiting : SUBSET Threads,
          owner : Threads \cup {NoThread}]

NewMutex == [readers |-> {}, waiting |-> {}, owner |-> NoThread]

\* Reader t arrives: it enters, or queues behind the writer.
RLock(m, t) ==
  IF m.owner = NoThread
  THEN [m EXCEPT !.readers = @ \cup {t}]
  ELSE [m EXCEPT !.waiting = @ \cup {t}]

HoldsRead(m, t) == t \in m.readers

RUnlock(m, t) == [m EXCEPT !.readers = @ \ {t}]

\* Only one writer at a time can announce itself.
CanAnnounce(m) == m.owner = NoThread

Announce(m, t) == [m EXCEPT !.owner = t]

HoldsWrite(m, t) == m.owner = t /\ m.readers = {}

\* The writer leaves and admits every reader that queued behind it.
Unlock(m) == [readers |-> m.waiting, waiting |-> {}, owner |-> NoThread]
==============================================================================
