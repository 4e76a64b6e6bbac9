------------------------------ MODULE RunBounded ------------------------------
(***************************************************************************)
(* runBounded of concurrency.go: the pool that analyses the inodes of a    *)
(* report.  The calling goroutine feeds the indexes 0 .. taskCount-1 to    *)
(* worker goroutines through an unbuffered channel; the first task that    *)
(* returns an error records it and cancels the tasks' context, at which    *)
(* the feeder may stop.  With one worker it all happens on the calling     *)
(* goroutine.  The caller may cancel its context at any moment.            *)
(***************************************************************************)
EXTENDS Integers, FiniteSets

CONSTANTS TaskCounts,   \* the numbers of tasks a call may be given
          Settings,     \* the values of Concurrency.Workers
          NumCPU,       \* runtime.NumCPU()
          MaxAutomaticWorkers

ASSUME TaskCountsAssumption == TaskCounts \subseteq Nat
ASSUME SettingsAssumption == Settings \subseteq Int
ASSUME PoolAssumption == NumCPU \in Nat \ {0} /\ MaxAutomaticWorkers \in Nat \ {0}

VARIABLES
  taskCount,    \* the arguments of the call
  setting,
  pc,           \* the calling goroutine
  next,         \* the index it will hand out, or work on, next
  status,       \* what became of each task
  wpc, task,    \* each worker's place, and the task it has
  failure,      \* the error that worker is about to record
  chanClosed,   \* close(indexes) has happened
  once,         \* firstErrorOnce
  firstError,
  poolDone,     \* cancel() has been called on the tasks' context
  cancelled,    \* the caller's context is done
  result

args == <<taskCount, setting>>
pool == <<wpc, task, failure>>
outcome == <<once, firstError, poolDone>>
vars == <<args, pc, next, status, pool, chanClosed, outcome, cancelled, result>>

Lesser(a, b) == IF a < b THEN a ELSE b

\* Concurrency.workerCount
WorkerCount(s, tasks) ==
  LET wanted == IF s < 0 THEN Lesser(NumCPU, MaxAutomaticWorkers) ELSE s
  IN  IF tasks <= 1 \/ wanted <= 1 THEN 1 ELSE Lesser(wanted, tasks)

Tasks == 0 .. taskCount - 1
Workers == 1 .. WorkerCount(setting, taskCount)

\* The context that tasks are given: it is done with its parent.
TaskCtxDone == poolDone \/ cancelled

\* How a task may end: work is a parameter, and may return its context's error
\* once that is done.
TaskEnds(done) == {"ok", "failed"} \cup (IF done THEN {"cancelled"} ELSE {})

Init ==
  /\ taskCount \in TaskCounts /\ setting \in Settings
  /\ pc = "start" /\ next = 0
  /\ status = [i \in Tasks |-> "todo"]
  /\ wpc = [w \in Workers |-> "off"]
  /\ task = [w \in Workers |-> 0]
  /\ failure = [w \in Workers |-> "none"]
  /\ chanClosed = FALSE
  /\ once = "new" /\ firstError = "none" /\ poolDone = FALSE
  /\ cancelled = FALSE /\ result = "none"

-------------------------------------------------------------------------------
Return(r) == pc' = "returned" /\ result' = r

Start ==
  /\ pc = "start"
  /\ \/ /\ taskCount = 0
        /\ Return("ok") /\ UNCHANGED wpc
     \/ /\ taskCount > 0 /\ cancelled
        /\ Return("cancelled") /\ UNCHANGED wpc
     \/ /\ taskCount > 0 /\ ~cancelled
        /\ IF WorkerCount(setting, taskCount) = 1
           THEN pc' = "sequential" /\ UNCHANGED wpc
           ELSE pc' = "feed" /\ wpc' = [w \in Workers |-> "receive"]
        /\ UNCHANGED result
  /\ UNCHANGED <<args, next, status, task, failure, chanClosed, outcome, cancelled>>

(* The sequential path *)
SequentialCheck ==
  /\ pc = "sequential"
  /\ \/ next = taskCount /\ Return("ok") /\ UNCHANGED status
     \/ next < taskCount /\ cancelled /\ Return("cancelled") /\ UNCHANGED status
     \/ /\ next < taskCount /\ ~cancelled
        /\ pc' = "sequentialWork"
        /\ status' = [status EXCEPT ![next] = "running"]
        /\ UNCHANGED result
  /\ UNCHANGED <<args, next, pool, chanClosed, outcome, cancelled>>

\* The sequential path that goes on after an error.
SequentialWorkKeepsGoing ==
  /\ pc = "sequentialWork"
  /\ \E o \in TaskEnds(cancelled) : status' = [status EXCEPT ![next] = o]
  /\ pc' = "sequential" /\ next' = next + 1
  /\ UNCHANGED <<args, pool, chanClosed, outcome, cancelled, result>>

SequentialWork ==
  /\ pc = "sequentialWork"
  /\ \E o \in TaskEnds(cancelled) :
       /\ status' = [status EXCEPT ![next] = o]
       /\ IF o = "ok"
          THEN pc' = "sequential" /\ next' = next + 1
          ELSE pc' = "sequentialError" /\ UNCHANGED next
  /\ UNCHANGED <<args, pool, chanClosed, outcome, cancelled, result>>

SequentialError ==
  /\ pc = "sequentialError"
  /\ Return(status[next])
  /\ UNCHANGED <<args, next, status, pool, chanClosed, outcome, cancelled>>

-------------------------------------------------------------------------------
(* The feeder *)

\* The rendezvous on the unbuffered channel.  It may be chosen even when the
\* context is done: select picks either ready case.
Send(w) ==
  /\ pc = "feed" /\ next < taskCount
  /\ wpc[w] = "receive"
  /\ wpc' = [wpc EXCEPT ![w] = "work"]
  /\ task' = [task EXCEPT ![w] = next]
  /\ status' = [status EXCEPT ![next] = "running"]
  /\ next' = next + 1
  /\ UNCHANGED <<args, pc, failure, chanClosed, outcome, cancelled, result>>

\* A feeder that waits for a worker whatever happens to the context.
StopFeedingDeaf ==
  /\ pc = "feed" /\ next = taskCount
  /\ chanClosed' = TRUE /\ pc' = "wait"
  /\ UNCHANGED <<args, next, status, pool, outcome, cancelled, result>>

\* Out of tasks, or out of patience: close(indexes).
StopFeeding ==
  /\ pc = "feed"
  /\ next = taskCount \/ TaskCtxDone
  /\ chanClosed' = TRUE /\ pc' = "wait"
  /\ UNCHANGED <<args, next, status, pool, outcome, cancelled, result>>

\* runBounded that does not wait for the group.
WaitGroupEager ==
  /\ pc = "wait"
  /\ Return(IF firstError # "none" THEN firstError
            ELSE IF cancelled THEN "cancelled" ELSE "ok")
  /\ UNCHANGED <<args, next, status, pool, chanClosed, outcome, cancelled>>

WaitGroup ==
  /\ pc = "wait" /\ \A w \in Workers : wpc[w] = "exited"
  /\ Return(IF firstError # "none" THEN firstError
            ELSE IF cancelled THEN "cancelled" ELSE "ok")
  /\ UNCHANGED <<args, next, status, pool, chanClosed, outcome, cancelled>>

-------------------------------------------------------------------------------
(* The workers *)
WorkerExit(w) ==
  /\ wpc[w] = "receive" /\ chanClosed
  /\ wpc' = [wpc EXCEPT ![w] = "exited"]
  /\ UNCHANGED <<args, pc, next, status, task, failure, chanClosed, outcome, cancelled, result>>

Work(w) ==
  /\ wpc[w] = "work"
  /\ \E o \in TaskEnds(TaskCtxDone) :
       /\ status' = [status EXCEPT ![task[w]] = o]
       /\ wpc' = [wpc EXCEPT ![w] = IF o = "ok" THEN "receive" ELSE "once"]
       /\ failure' = [failure EXCEPT ![w] = IF o = "ok" THEN "none" ELSE o]
  /\ UNCHANGED <<args, pc, next, task, chanClosed, outcome, cancelled, result>>

\* firstErrorOnce.Do: one worker runs the function, the others wait for it to
\* have run.
RecordError(w) ==
  /\ wpc[w] = "once"
  /\ \/ /\ once = "new"
        /\ once' = "running" /\ firstError' = failure[w]
        /\ wpc' = [wpc EXCEPT ![w] = "cancel"]
     \/ /\ once = "done"
        /\ wpc' = [wpc EXCEPT ![w] = "exited"]
        /\ UNCHANGED <<once, firstError>>
  /\ UNCHANGED <<args, pc, next, status, task, failure, chanClosed, poolDone, cancelled, result>>

CancelTasks(w) ==
  /\ wpc[w] = "cancel"
  /\ poolDone' = TRUE /\ once' = "done"
  /\ wpc' = [wpc EXCEPT ![w] = "exited"]
  /\ UNCHANGED <<args, pc, next, status, task, failure, chanClosed, firstError, cancelled, result>>

\* The caller cancels its context, before the call or during it.
CallerCancel ==
  /\ result = "none" /\ ~cancelled
  /\ cancelled' = TRUE
  /\ UNCHANGED <<args, pc, next, status, pool, chanClosed, outcome, result>>

Returned == pc = "returned" /\ UNCHANGED vars

-------------------------------------------------------------------------------
Calling == Start \/ SequentialCheck \/ SequentialWork \/ SequentialError
           \/ StopFeeding \/ WaitGroup
Worker(w) == WorkerExit(w) \/ Work(w) \/ RecordError(w) \/ CancelTasks(w)

Next == \/ Calling \/ CallerCancel \/ Returned
        \/ \E w \in Workers : Send(w) \/ Worker(w)

Spec == Init /\ [][Next]_vars

(***************************************************************************)
(* Every goroutine is scheduled and every task returns.  Nothing is        *)
(* assumed of the caller's cancellation or of which ready case select      *)
(* picks.                                                                  *)
(***************************************************************************)
PoolIds == UNION {1 .. n : n \in TaskCounts}

FairSpec == /\ Spec
            /\ WF_vars(Calling \/ \E w \in Workers : Send(w))
            /\ \A w \in PoolIds : WF_vars(w \in Workers /\ Worker(w))

-------------------------------------------------------------------------------
Statuses == {"todo", "running", "ok", "failed", "cancelled"}
Errors == {"none", "failed", "cancelled"}

TypeOK ==
  /\ taskCount \in TaskCounts /\ setting \in Settings
  /\ pc \in {"start", "sequential", "sequentialWork", "sequentialError",
            "feed", "wait", "returned"}
  /\ next \in 0 .. taskCount
  /\ status \in [Tasks -> Statuses]
  /\ wpc \in [Workers -> {"off", "receive", "work", "once", "cancel", "exited"}]
  /\ task \in [Workers -> Nat]
  /\ failure \in [Workers -> Errors]
  /\ chanClosed \in BOOLEAN /\ poolDone \in BOOLEAN /\ cancelled \in BOOLEAN
  /\ once \in {"new", "running", "done"}
  /\ firstError \in Errors
  /\ result \in {"none", "ok", "failed", "cancelled"}

\* Two workers never hold the same index, so that each task has its own slot of
\* the caller's storage to itself ("no shared mutable state to guard").
OwnSlot ==
  \A v, w \in Workers :
    v # w /\ wpc[v] = "work" /\ wpc[w] = "work" => task[v] # task[w]

\* nil means that every task ran to success: a feeder that stopped early never
\* leaves the call looking complete.
NilMeansAllDone == result = "ok" => \A i \in Tasks : status[i] = "ok"

\* When a task has failed and the caller has not cancelled, the call reports a
\* task's failure, never the cancellation that this failure has caused in the
\* tasks beside it.
FailureReported ==
  /\ result = "cancelled" => cancelled
  /\ result = "failed" => \E i \in Tasks : status[i] = "failed"

\* No task is running and no worker is left once the call has returned.
NoneOutlives ==
  result # "none" => /\ \A w \in Workers : wpc[w] \in {"off", "exited"}
                     /\ \A i \in Tasks : status[i] # "running"

\* The call returns: no worker is left waiting for the channel, no feeder for a
\* worker, no second failure for the first.
Terminates == <>(result # "none")

Pool == INSTANCE ParallelFor

\* Whatever the number of workers, a call is a ParallelFor.
ImplementsParallelFor == Pool!Spec
===============================================================================
