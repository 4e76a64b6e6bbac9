---------------------------- MODULE RunBoundedProofs ----------------------------
(***************************************************************************)
(* Proofs about runBounded, for any number of tasks, any setting of the    *)
(* pool and any number of CPUs.                                            *)
(***************************************************************************)
EXTENDS RunBounded, TLAPS

Sequential == {"sequential", "sequentialWork", "sequentialError"}
Parallel == {"feed", "wait"}

(***************************************************************************)
(* The feeder: the tasks below next have been handed out, the others have  *)
(* not.  A task that runs is in the hands of one worker, or of the calling *)
(* goroutine.                                                              *)
(***************************************************************************)
FeedInv ==
  /\ \A i \in Tasks : i < next => status[i] # "todo"
  /\ \A i \in Tasks : i > next => status[i] = "todo"
  /\ pc \in {"start", "sequential", "feed", "wait"} =>
       \A i \in Tasks : i = next => status[i] = "todo"
  /\ pc \in {"sequentialWork", "sequentialError"} => next \in Tasks
  /\ pc = "sequentialWork" => status[next] = "running"
  /\ pc = "sequentialError" => status[next] \in {"failed", "cancelled"}
  /\ \A w \in Workers : wpc[w] = "work" => /\ task[w] \in Tasks
                                           /\ task[w] < next
                                           /\ status[task[w]] = "running"
  /\ \A i \in Tasks : status[i] = "running" =>
       \/ pc = "sequentialWork" /\ i = next
       \/ \E w \in Workers : wpc[w] = "work" /\ task[w] = i

\* Workers exist only in the parallel path, and are gone when it returns.
StageInv ==
  /\ pc \in {"start"} \cup Sequential => \A w \in Workers : wpc[w] = "off"
  /\ pc = "returned" => \A w \in Workers : wpc[w] \in {"off", "exited"}
  /\ pc \in Parallel => \A w \in Workers : wpc[w] # "off"
  /\ pc = "returned" <=> result # "none"
  /\ pc = "start" => next = 0

(***************************************************************************)
(* Errors: a task that did not end well has told, or is about to tell, and *)
(* what is told is true.                                                   *)
(***************************************************************************)
ErrorInv ==
  /\ poolDone => once = "done"
  /\ once # "new" => firstError # "none"
  /\ once = "new" => firstError = "none"
  /\ \A w \in Workers : wpc[w] = "cancel" => once = "running"
  /\ \A v, w \in Workers : wpc[v] = "cancel" /\ wpc[w] = "cancel" => v = w
  /\ firstError = "failed" => \E i \in Tasks : status[i] = "failed"
  /\ firstError = "cancelled" => cancelled
  /\ \A w \in Workers : wpc[w] = "once" =>
       \/ failure[w] = "failed" /\ \E i \in Tasks : status[i] = "failed"
       \/ failure[w] = "cancelled" /\ TaskCtxDone
  /\ pc = "sequentialError" => (status[next] = "cancelled" => cancelled)
  /\ pc \in {"sequential", "sequentialWork"} =>
       \A i \in Tasks : i < next => status[i] = "ok"
  /\ pc \in Parallel =>
       \A i \in Tasks : status[i] \in {"failed", "cancelled"} =>
         firstError # "none" \/ \E w \in Workers : wpc[w] = "once"
  /\ pc = "wait" => next = taskCount \/ TaskCtxDone

ResultInv == NilMeansAllDone /\ FailureReported

LEMMA TypeInit == Init => TypeOK
<1> SUFFICES ASSUME Init PROVE TypeOK
  OBVIOUS
<1>1. /\ taskCount \in TaskCounts /\ setting \in Settings
      /\ pc = "start" /\ next \in 0 .. taskCount
  BY TaskCountsAssumption DEF Init
<1>2. /\ status \in [Tasks -> Statuses]
      /\ wpc \in [Workers -> {"off", "receive", "work", "once", "cancel", "exited"}]
      /\ task \in [Workers -> Nat]
      /\ failure \in [Workers -> Errors]
  BY DEF Init, Statuses, Errors
<1>3. /\ chanClosed \in BOOLEAN /\ poolDone \in BOOLEAN /\ cancelled \in BOOLEAN
      /\ once = "new" /\ firstError = "none" /\ result = "none"
  BY DEF Init
<1> QED
  BY <1>1, <1>2, <1>3 DEF TypeOK, Errors

LEMMA TypeStep == TypeOK /\ FeedInv /\ [Next]_vars => TypeOK'
<1> SUFFICES ASSUME TypeOK, FeedInv, [Next]_vars PROVE TypeOK'
  OBVIOUS
<1> USE TaskCountsAssumption DEF TypeOK, FeedInv, Tasks, Workers, Statuses, Errors
<1>1. CASE UNCHANGED vars
  BY <1>1 DEF vars, args, pool, outcome
<1>2. CASE Start
  BY <1>2 DEF Start, Return, args, pool, outcome
<1>3. CASE SequentialCheck
  BY <1>3 DEF SequentialCheck, Return, args, pool, outcome
<1>4. CASE SequentialWork
  BY <1>4 DEF SequentialWork, TaskEnds, args, pool, outcome
<1>5. CASE SequentialError
  BY <1>5 DEF SequentialError, Return, args, pool, outcome
<1>6. CASE StopFeeding
  BY <1>6 DEF StopFeeding, TaskCtxDone, args, pool, outcome
<1>7. CASE WaitGroup
  BY <1>7 DEF WaitGroup, Return, args, pool, outcome
<1>8. CASE CallerCancel
  BY <1>8 DEF CallerCancel, args, pool, outcome
<1>9. ASSUME NEW w \in Workers, Send(w) PROVE TypeOK'
  BY <1>9 DEF Send, args, pool, outcome
<1>10. ASSUME NEW w \in Workers, WorkerExit(w) PROVE TypeOK'
  BY <1>10 DEF WorkerExit, args, pool, outcome
<1>11. ASSUME NEW w \in Workers, Work(w) PROVE TypeOK'
  BY <1>11 DEF Work, TaskEnds, TaskCtxDone, args, pool, outcome
<1>12. ASSUME NEW w \in Workers, RecordError(w) PROVE TypeOK'
  BY <1>12 DEF RecordError, args, pool, outcome
<1>13. ASSUME NEW w \in Workers, CancelTasks(w) PROVE TypeOK'
  BY <1>13 DEF CancelTasks, args, pool, outcome
<1>14. QED
  BY <1>1, <1>2, <1>3, <1>4, <1>5, <1>6, <1>7, <1>8, <1>9, <1>10, <1>11, <1>12, <1>13
     DEF Next, Calling, Worker, Returned

LEMMA FeedStep == TypeOK /\ StageInv /\ FeedInv /\ OwnSlot /\ [Next]_vars => FeedInv'
<1> SUFFICES ASSUME TypeOK, StageInv, FeedInv, OwnSlot, [Next]_vars PROVE FeedInv'
  OBVIOUS
<1> USE TaskCountsAssumption DEF TypeOK, StageInv, FeedInv, OwnSlot, Sequential, Parallel, Tasks, Workers, Statuses, Errors
<1>1. CASE UNCHANGED vars
  BY <1>1 DEF vars, args, pool, outcome
<1>2. CASE Start
  BY <1>2 DEF Start, Return, args, pool, outcome
<1>3. CASE SequentialCheck
  BY <1>3 DEF SequentialCheck, Return, args, pool, outcome
<1>4. CASE SequentialWork
  BY <1>4 DEF SequentialWork, TaskEnds, args, pool, outcome
<1>5. CASE SequentialError
  BY <1>5 DEF SequentialError, Return, args, pool, outcome
<1>6. CASE StopFeeding
  BY <1>6 DEF StopFeeding, TaskCtxDone, args, pool, outcome
<1>7. CASE WaitGroup
  BY <1>7 DEF WaitGroup, Return, args, pool, outcome
<1>8. CASE CallerCancel
  BY <1>8 DEF CallerCancel, args, pool, outcome
<1>9. ASSUME NEW w \in Workers, Send(w) PROVE FeedInv'
  BY <1>9 DEF Send, args, pool, outcome
<1>10. ASSUME NEW w \in Workers, WorkerExit(w) PROVE FeedInv'
  BY <1>10 DEF WorkerExit, args, pool, outcome
<1>11. ASSUME NEW w \in Workers, Work(w) PROVE FeedInv'
  BY <1>11 DEF Work, TaskEnds, TaskCtxDone, args, pool, outcome
<1>12. ASSUME NEW w \in Workers, RecordError(w) PROVE FeedInv'
  <2>1. UNCHANGED <<args, pc, next, status, task, result>>
    BY <1>12 DEF RecordError
  <2> PICK p \in {"cancel", "exited"} : wpc' = [wpc EXCEPT ![w] = p]
    BY <1>12 DEF RecordError
  <2>2. \A v \in Workers : wpc'[v] = "work" <=> wpc[v] = "work"
    BY <1>12 DEF RecordError
  <2>3. QED
    BY <2>1, <2>2 DEF args
<1>13. ASSUME NEW w \in Workers, CancelTasks(w) PROVE FeedInv'
  BY <1>13 DEF CancelTasks, args, pool, outcome
<1>14. QED
  BY <1>1, <1>2, <1>3, <1>4, <1>5, <1>6, <1>7, <1>8, <1>9, <1>10, <1>11, <1>12, <1>13
     DEF Next, Calling, Worker, Returned

LEMMA OwnSlotStep == TypeOK /\ FeedInv /\ OwnSlot /\ [Next]_vars => OwnSlot'
<1> SUFFICES ASSUME TypeOK, FeedInv, OwnSlot, [Next]_vars PROVE OwnSlot'
  OBVIOUS
<1> USE TaskCountsAssumption DEF TypeOK, FeedInv, OwnSlot, Tasks, Workers
<1>1. CASE UNCHANGED vars
  BY <1>1 DEF vars, args, pool, outcome
<1>2. CASE Start
  <2>1. UNCHANGED <<args, task>>
    BY <1>2 DEF Start
  <2>2. \A v \in Workers : wpc'[v] = "work" => wpc[v] = "work"
    BY <1>2 DEF Start
  <2>3. QED
    BY <2>1, <2>2 DEF args
<1>3. CASE SequentialCheck
  BY <1>3 DEF SequentialCheck, Return, args, pool, outcome
<1>4. CASE SequentialWork
  BY <1>4 DEF SequentialWork, TaskEnds, args, pool, outcome
<1>5. CASE SequentialError
  BY <1>5 DEF SequentialError, Return, args, pool, outcome
<1>6. CASE StopFeeding
  BY <1>6 DEF StopFeeding, TaskCtxDone, args, pool, outcome
<1>7. CASE WaitGroup
  BY <1>7 DEF WaitGroup, Return, args, pool, outcome
<1>8. CASE CallerCancel
  BY <1>8 DEF CallerCancel, args, pool, outcome
<1>9. ASSUME NEW w \in Workers, Send(w) PROVE OwnSlot'
  BY <1>9 DEF Send, args, pool, outcome
<1>10. ASSUME NEW w \in Workers, WorkerExit(w) PROVE OwnSlot'
  BY <1>10 DEF WorkerExit, args, pool, outcome
<1>11. ASSUME NEW w \in Workers, Work(w) PROVE OwnSlot'
  BY <1>11 DEF Work, TaskEnds, TaskCtxDone, args, pool, outcome
<1>12. ASSUME NEW w \in Workers, RecordError(w) PROVE OwnSlot'
  <2>1. UNCHANGED <<args, task>>
    BY <1>12 DEF RecordError
  <2> PICK p \in {"cancel", "exited"} : wpc' = [wpc EXCEPT ![w] = p]
    BY <1>12 DEF RecordError
  <2>2. \A v \in Workers : wpc'[v] = "work" <=> wpc[v] = "work"
    BY <1>12 DEF RecordError
  <2>3. QED
    BY <2>1, <2>2 DEF args
<1>13. ASSUME NEW w \in Workers, CancelTasks(w) PROVE OwnSlot'
  BY <1>13 DEF CancelTasks, args, pool, outcome
<1>14. QED
  BY <1>1, <1>2, <1>3, <1>4, <1>5, <1>6, <1>7, <1>8, <1>9, <1>10, <1>11, <1>12, <1>13
     DEF Next, Calling, Worker, Returned

LEMMA StageStep == TypeOK /\ StageInv /\ FeedInv /\ [Next]_vars => StageInv'
<1> SUFFICES ASSUME TypeOK, StageInv, FeedInv, [Next]_vars PROVE StageInv'
  OBVIOUS
<1> USE TaskCountsAssumption DEF TypeOK, StageInv, Sequential, Parallel, Workers, Errors
<1>1. CASE UNCHANGED vars
  BY <1>1 DEF vars, args, pool, outcome
<1>2. CASE Start
  BY <1>2 DEF Start, Return, args, pool, outcome
<1>3. CASE SequentialCheck
  BY <1>3 DEF SequentialCheck, Return, args, pool, outcome
<1>4. CASE SequentialWork
  BY <1>4 DEF SequentialWork, TaskEnds, args, pool, outcome
<1>5. CASE SequentialError
  BY <1>5 DEF SequentialError, Return, FeedInv, args, pool, outcome
<1>6. CASE StopFeeding
  BY <1>6 DEF StopFeeding, TaskCtxDone, args, pool, outcome
<1>7. CASE WaitGroup
  BY <1>7 DEF WaitGroup, Return, args, pool, outcome
<1>8. CASE CallerCancel
  BY <1>8 DEF CallerCancel, args, pool, outcome
<1>9. ASSUME NEW w \in Workers, Send(w) PROVE StageInv'
  BY <1>9 DEF Send, args, pool, outcome
<1>10. ASSUME NEW w \in Workers, WorkerExit(w) PROVE StageInv'
  BY <1>10 DEF WorkerExit, args, pool, outcome
<1>11. ASSUME NEW w \in Workers, Work(w) PROVE StageInv'
  BY <1>11 DEF Work, TaskEnds, TaskCtxDone, args, pool, outcome
<1>12. ASSUME NEW w \in Workers, RecordError(w) PROVE StageInv'
  BY <1>12 DEF RecordError, args, pool, outcome
<1>13. ASSUME NEW w \in Workers, CancelTasks(w) PROVE StageInv'
  BY <1>13 DEF CancelTasks, args, pool, outcome
<1>14. QED
  BY <1>1, <1>2, <1>3, <1>4, <1>5, <1>6, <1>7, <1>8, <1>9, <1>10, <1>11, <1>12, <1>13
     DEF Next, Calling, Worker, Returned

LEMMA ErrorStep == TypeOK /\ StageInv /\ FeedInv /\ OwnSlot /\ ErrorInv /\ [Next]_vars => ErrorInv'
<1> SUFFICES ASSUME TypeOK, StageInv, FeedInv, OwnSlot, ErrorInv, [Next]_vars PROVE ErrorInv'
  OBVIOUS
<1> USE TaskCountsAssumption DEF TypeOK, StageInv, FeedInv, OwnSlot, ErrorInv, Sequential, Parallel, Tasks, Workers, Statuses,
           Errors, TaskCtxDone
<1>1. CASE UNCHANGED vars
  BY <1>1 DEF vars, args, pool, outcome
<1>2. CASE Start
  <2>1. UNCHANGED <<args, next, status, task, failure, outcome, cancelled>>
    BY <1>2 DEF Start
  <2>2. \A w \in Workers : wpc[w] = "off" /\ wpc'[w] # "once"
    BY <1>2 DEF Start, Return
  <2>3. pc' \in {"returned", "sequential", "feed"} /\ next = 0
    BY <1>2 DEF Start, Return
  <2>4. \A i \in Tasks : status[i] = "todo"
    <3>1. \A i \in Tasks : i = 0 \/ i > 0
      BY DEF Tasks
    <3>2. QED
      BY <1>2, <2>3, <3>1 DEF Start
  <2>5. pc' \notin {"sequentialError", "sequentialWork", "wait", "start"}
    BY <2>3
  <2>6. \A w \in Workers : wpc'[w] \notin {"once", "cancel"}
    BY <1>2 DEF Start, Return
  <2>7. QED
    BY <2>1, <2>2, <2>3, <2>4, <2>5, <2>6 DEF args, outcome
<1>3. CASE SequentialCheck
  BY <1>3 DEF SequentialCheck, Return, args, pool, outcome
<1>4. CASE SequentialWork
  BY <1>4 DEF SequentialWork, TaskEnds, args, pool, outcome
<1>5. CASE SequentialError
  BY <1>5 DEF SequentialError, Return, args, pool, outcome
<1>6. CASE StopFeeding
  BY <1>6 DEF StopFeeding, TaskCtxDone, args, pool, outcome
<1>7. CASE WaitGroup
  BY <1>7 DEF WaitGroup, Return, args, pool, outcome
<1>8. CASE CallerCancel
  BY <1>8 DEF CallerCancel, args, pool, outcome
<1>9. ASSUME NEW w \in Workers, Send(w) PROVE ErrorInv'
  BY <1>9 DEF Send, args, pool, outcome
<1>10. ASSUME NEW w \in Workers, WorkerExit(w) PROVE ErrorInv'
  BY <1>10 DEF WorkerExit, args, pool, outcome
<1>11. ASSUME NEW w \in Workers, Work(w) PROVE ErrorInv'
  <2> PICK o \in TaskEnds(TaskCtxDone) :
          /\ status' = [status EXCEPT ![task[w]] = o]
          /\ wpc' = [wpc EXCEPT ![w] = IF o = "ok" THEN "receive" ELSE "once"]
          /\ failure' = [failure EXCEPT ![w] = IF o = "ok" THEN "none" ELSE o]
    BY <1>11 DEF Work
  <2>1. /\ o \in {"ok", "failed", "cancelled"}
        /\ o = "cancelled" => TaskCtxDone
    BY DEF TaskEnds
  <2>2. /\ UNCHANGED <<args, pc, next, task, chanClosed, outcome, cancelled, result>>
        /\ wpc[w] = "work" /\ task[w] \in Tasks /\ status[task[w]] = "running"
    BY <1>11 DEF Work
  <2>3. pc \notin {"start"} \cup Sequential
    BY <2>2
  <2>4. \A i \in Tasks : status[i] \in {"ok", "failed", "cancelled"} => status'[i] = status[i]
    BY <2>1, <2>2
  <2>5. \A v \in Workers : wpc[v] = "once" => /\ wpc'[v] = "once"
                                              /\ failure'[v] = failure[v]
    BY <2>1, <2>2
  <2>6. firstError' = "failed" => \E i \in Tasks' : status'[i] = "failed"
    BY <2>2, <2>4 DEF args, outcome
  <2>7. \A v \in Workers : wpc'[v] = "once" =>
          \/ failure'[v] = "failed" /\ \E i \in Tasks : status'[i] = "failed"
          \/ failure'[v] = "cancelled" /\ TaskCtxDone
    BY <2>1, <2>2, <2>4, <2>5
  <2>8. \A i \in Tasks : status'[i] \in {"failed", "cancelled"} =>
          firstError # "none" \/ \E v \in Workers : wpc'[v] = "once"
    <3>1. ASSUME NEW i \in Tasks, i # task[w], status'[i] \in {"failed", "cancelled"}
          PROVE  firstError # "none" \/ \E v \in Workers : wpc'[v] = "once"
      <4>1. status[i] \in {"failed", "cancelled"}
        BY <2>1, <2>2, <3>1
      <4>2. pc \in Parallel
        BY <2>3, <2>2
      <4>3. firstError # "none" \/ \E v \in Workers : wpc[v] = "once"
        BY <4>1, <4>2
      <4>4. QED
        BY <2>5, <4>3
    <3>2. ASSUME status'[task[w]] \in {"failed", "cancelled"}
          PROVE  wpc'[w] = "once"
      BY <2>1, <2>2, <3>2
    <3>3. QED
      BY <3>1, <3>2
  <2>9. QED
    BY <2>2, <2>3, <2>6, <2>7, <2>8 DEF args, outcome
<1>12. ASSUME NEW w \in Workers, RecordError(w) PROVE ErrorInv'
  <2>1. /\ UNCHANGED <<args, pc, next, status, task, failure, chanClosed, poolDone, cancelled,
                       result>>
        /\ wpc[w] = "once"
    BY <1>12 DEF RecordError
  <2>2. pc \notin {"start"} \cup Sequential
    BY <2>1
  <2>3. \A v \in Workers : wpc'[v] = "once" => wpc[v] = "once"
    <3> PICK p \in {"cancel", "exited"} : wpc' = [wpc EXCEPT ![w] = p]
      BY <1>12 DEF RecordError
    <3> QED
      OBVIOUS
  <2>4. firstError' # "none"
    BY <1>12 DEF RecordError
  <2>5. CASE /\ once = "new" /\ once' = "running" /\ firstError' = failure[w]
             /\ wpc' = [wpc EXCEPT ![w] = "cancel"]
    <3>1. ~poolDone /\ ~poolDone'
      BY <2>1, <2>5
    <3>2. firstError' = "failed" => \E i \in Tasks : status[i] = "failed"
      BY <2>1, <2>5
    <3>3. firstError' = "cancelled" => cancelled
      BY <2>1, <2>5, <3>1
    <3>4. /\ \A v \in Workers : wpc'[v] = "cancel" => v = w
          /\ once' = "running"
      BY <2>5
    <3>5. \A v \in Workers : wpc'[v] = "once" =>
            \/ failure'[v] = "failed" /\ \E i \in Tasks : status'[i] = "failed"
            \/ failure'[v] = "cancelled" /\ TaskCtxDone'
      BY <2>1, <2>3
    <3>6. QED
      BY <2>1, <2>2, <2>4, <3>1, <3>2, <3>3, <3>4, <3>5 DEF args
  <2>6. CASE /\ once = "done" /\ UNCHANGED <<once, firstError>>
             /\ wpc' = [wpc EXCEPT ![w] = "exited"]
    <3>1. \A v \in Workers : wpc'[v] # "cancel"
      BY <2>6
    <3>2. \A v \in Workers : wpc'[v] = "once" =>
            \/ failure'[v] = "failed" /\ \E i \in Tasks : status'[i] = "failed"
            \/ failure'[v] = "cancelled" /\ TaskCtxDone'
      BY <2>1, <2>3
    <3>3. QED
      BY <2>1, <2>2, <2>4, <2>6, <3>1, <3>2 DEF args
  <2>7. QED
    BY <1>12, <2>5, <2>6 DEF RecordError
<1>13. ASSUME NEW w \in Workers, CancelTasks(w) PROVE ErrorInv'
  <2>1. /\ UNCHANGED <<args, pc, next, status, task, failure, chanClosed, firstError, cancelled,
                       result>>
        /\ wpc[w] = "cancel" /\ wpc' = [wpc EXCEPT ![w] = "exited"]
        /\ poolDone' = TRUE /\ once' = "done"
    BY <1>13 DEF CancelTasks
  <2>2. /\ firstError # "none" /\ pc \notin {"start"} \cup Sequential
        /\ \A v \in Workers : wpc'[v] # "cancel"
    BY <2>1
  <2>3. \A v \in Workers : wpc'[v] = "once" =>
          \/ failure'[v] = "failed" /\ \E i \in Tasks : status'[i] = "failed"
          \/ failure'[v] = "cancelled" /\ TaskCtxDone'
    BY <2>1
  <2>4. QED
    BY <2>1, <2>2, <2>3 DEF args
<1>14. QED
  BY <1>1, <1>2, <1>3, <1>4, <1>5, <1>6, <1>7, <1>8, <1>9, <1>10, <1>11, <1>12, <1>13
     DEF Next, Calling, Worker, Returned

LEMMA ResultStep == TypeOK /\ StageInv /\ FeedInv /\ ErrorInv /\ ResultInv /\ [Next]_vars => ResultInv'
<1> SUFFICES ASSUME TypeOK, StageInv, FeedInv, ErrorInv, ResultInv, [Next]_vars PROVE ResultInv'
  OBVIOUS
<1> USE TaskCountsAssumption DEF TypeOK, StageInv, FeedInv, ErrorInv, ResultInv, NilMeansAllDone, FailureReported, Sequential,
           Parallel, Tasks, Workers, Statuses, Errors, TaskCtxDone
<1>1. CASE UNCHANGED vars
  BY <1>1 DEF vars, args, pool, outcome
<1>2. CASE Start
  BY <1>2 DEF Start, Return, args, pool, outcome
<1>3. CASE SequentialCheck
  BY <1>3 DEF SequentialCheck, Return, args, pool, outcome
<1>4. CASE SequentialWork
  BY <1>4 DEF SequentialWork, TaskEnds, args, pool, outcome
<1>5. CASE SequentialError
  BY <1>5 DEF SequentialError, Return, args, pool, outcome
<1>6. CASE StopFeeding
  BY <1>6 DEF StopFeeding, TaskCtxDone, args, pool, outcome
<1>7. CASE WaitGroup
  BY <1>7 DEF WaitGroup, Return, args, pool, outcome
<1>8. CASE CallerCancel
  BY <1>8 DEF CallerCancel, args, pool, outcome
<1>9. ASSUME NEW w \in Workers, Send(w) PROVE ResultInv'
  BY <1>9 DEF Send, args, pool, outcome
<1>10. ASSUME NEW w \in Workers, WorkerExit(w) PROVE ResultInv'
  BY <1>10 DEF WorkerExit, args, pool, outcome
<1>11. ASSUME NEW w \in Workers, Work(w) PROVE ResultInv'
  BY <1>11 DEF Work, TaskEnds, TaskCtxDone, args, pool, outcome
<1>12. ASSUME NEW w \in Workers, RecordError(w) PROVE ResultInv'
  BY <1>12 DEF RecordError, args, pool, outcome
<1>13. ASSUME NEW w \in Workers, CancelTasks(w) PROVE ResultInv'
  BY <1>13 DEF CancelTasks, args, pool, outcome
<1>14. QED
  BY <1>1, <1>2, <1>3, <1>4, <1>5, <1>6, <1>7, <1>8, <1>9, <1>10, <1>11, <1>12, <1>13
     DEF Next, Calling, Worker, Returned

(***************************************************************************)
(* The inductive invariant.                                                *)
(***************************************************************************)
IInv == TypeOK /\ StageInv /\ FeedInv /\ OwnSlot /\ ErrorInv /\ ResultInv

LEMMA InvInit == Init => IInv
<1> SUFFICES ASSUME Init PROVE IInv
  OBVIOUS
<1>1. TypeOK
  BY TypeInit
<1>2. /\ pc = "start" /\ next = 0 /\ once = "new" /\ firstError = "none"
      /\ poolDone = FALSE /\ result = "none"
      /\ \A i \in Tasks : status[i] = "todo"
      /\ \A w \in Workers : wpc[w] = "off"
  BY DEF Init
<1>3. taskCount \in Nat
  BY TaskCountsAssumption DEF Init
<1>4. StageInv /\ OwnSlot /\ ResultInv
  BY <1>2 DEF StageInv, OwnSlot, ResultInv, NilMeansAllDone, FailureReported, Sequential, Parallel
<1>5. FeedInv
  BY <1>2, <1>3 DEF FeedInv, Tasks
<1>6. ErrorInv
  BY <1>2 DEF ErrorInv, Sequential, Parallel
<1>7. QED
  BY <1>1, <1>4, <1>5, <1>6 DEF IInv

THEOREM Invariance == Spec => []IInv
<1>1. IInv /\ [Next]_vars => IInv'
  BY TypeStep, StageStep, FeedStep, OwnSlotStep, ErrorStep, ResultStep DEF IInv
<1>2. QED
  BY InvInit, <1>1, PTL DEF Spec

\* The variables keep their types: no index out of range is ever handed out.
THEOREM TypeCorrect == Spec => []TypeOK
<1>1. IInv => TypeOK
  BY DEF IInv
<1>2. QED
  BY Invariance, <1>1, PTL

\* For any number of workers, each task's slot is its own.
THEOREM SlotSafety == Spec => []OwnSlot
<1>1. IInv => OwnSlot
  BY DEF IInv
<1>2. QED
  BY Invariance, <1>1, PTL

\* For any number of workers and tasks, nil means that every task was done.
THEOREM Completeness == Spec => []NilMeansAllDone
<1>1. IInv => NilMeansAllDone
  BY DEF IInv, ResultInv
<1>2. QED
  BY Invariance, <1>1, PTL

\* For any number of workers and tasks, the error returned is one that a task
\* gave or the caller caused.
THEOREM ErrorTruth == Spec => []FailureReported
<1>1. IInv => FailureReported
  BY DEF IInv, ResultInv
<1>2. QED
  BY Invariance, <1>1, PTL

\* For any number of workers, none of them and no task is running once the call
\* has returned.
THEOREM Quiescence == Spec => []NoneOutlives
<1>1. IInv => NoneOutlives
  <2> SUFFICES ASSUME IInv, result # "none" PROVE NoneOutlives
    BY DEF NoneOutlives
  <2>1. pc = "returned" /\ \A w \in Workers : wpc[w] \in {"off", "exited"}
    BY DEF IInv, StageInv
  <2>2. \A i \in Tasks : status[i] # "running"
    BY <2>1 DEF IInv, FeedInv
  <2>3. QED
    BY <2>1, <2>2 DEF NoneOutlives
<1>2. QED
  BY Invariance, <1>1, PTL

(***************************************************************************)
(* Refinement: every step of the pool is a step of ParallelFor or changes  *)
(* nothing that ParallelFor speaks of.                                     *)
(***************************************************************************)
LEMMA PoolStarts ==
  ASSUME TypeOK, StageInv, FeedInv,
         pc \in {"sequential", "feed"}, next < taskCount,
         status' = [status EXCEPT ![next] = "running"], UNCHANGED <<cancelled, result>>
  PROVE  Pool!Next
<1>1. next \in Tasks /\ Tasks = DOMAIN status
  BY TaskCountsAssumption DEF TypeOK, Tasks
<1>2. status[next] = "todo" /\ \A j \in Tasks : j < next => status[j] # "todo"
  BY <1>1 DEF FeedInv
<1>3. result = "none"
  BY DEF StageInv
<1>4. Pool!Start(next)
  BY <1>1, <1>2, <1>3 DEF Pool!Start, Pool!Indexes
<1>5. QED
  BY <1>1, <1>4 DEF Pool!Next, Pool!Indexes

LEMMA PoolEnds ==
  ASSUME TypeOK, NEW i \in Tasks, status[i] = "running",
         NEW o \in {"ok", "failed", "cancelled"},
         o = "cancelled" => cancelled \/ \E j \in Tasks : status[j] = "failed",
         status' = [status EXCEPT ![i] = o], UNCHANGED <<cancelled, result>>
  PROVE  Pool!Next
<1>1. Tasks = DOMAIN status
  BY DEF TypeOK
<1>2. Pool!End(i)
  BY <1>1 DEF Pool!End, Pool!Indexes
<1>3. QED
  BY <1>1, <1>2 DEF Pool!Next, Pool!Indexes

LEMMA PoolReturns ==
  ASSUME IInv, IInv', result = "none", result' # "none", UNCHANGED <<args, status, cancelled>>
  PROVE  Pool!Next
<1>1. Tasks = DOMAIN status /\ Tasks' = Tasks
  BY DEF IInv, TypeOK, args, Tasks
<1>2. \A i \in Tasks : status[i] # "running"
  <2>1. pc' = "returned" /\ \A w \in Workers' : wpc'[w] \in {"off", "exited"}
    BY DEF IInv, StageInv
  <2>2. QED
    BY <1>1, <2>1 DEF IInv, FeedInv
<1>3. result' \in {"ok", "failed", "cancelled"}
  BY DEF IInv, TypeOK
<1>4. Pool!MayReturn(result')
  <2>1. CASE result' = "ok"
    BY <1>1, <2>1 DEF IInv, ResultInv, NilMeansAllDone, Pool!MayReturn, Pool!Indexes
  <2>2. CASE result' = "failed"
    BY <1>1, <2>2 DEF IInv, ResultInv, FailureReported, Pool!MayReturn, Pool!Indexes
  <2>3. CASE result' = "cancelled"
    BY <1>1, <2>3 DEF IInv, ResultInv, FailureReported, Pool!MayReturn, Pool!Indexes
  <2>4. QED
    BY <1>3, <2>1, <2>2, <2>3
<1>5. Pool!Return
  BY <1>1, <1>2, <1>3, <1>4 DEF Pool!Return, Pool!Indexes
<1>6. QED
  BY <1>5 DEF Pool!Next

LEMMA PoolStep == IInv /\ IInv' /\ [Next]_vars => [Pool!Next]_(Pool!vars)
<1> SUFFICES ASSUME IInv, IInv', [Next]_vars PROVE [Pool!Next]_(Pool!vars)
  OBVIOUS
<1>s. ASSUME UNCHANGED <<status, cancelled, result>> PROVE UNCHANGED Pool!vars
  BY <1>s DEF Pool!vars
<1>r. pc # "returned" => result = "none"
  BY DEF IInv, StageInv
<1>1. CASE UNCHANGED vars
  BY <1>1, <1>s DEF vars
<1>2. CASE Start
  <2>1. CASE UNCHANGED result
    BY <1>2, <1>s, <2>1 DEF Start
  <2>2. CASE result' \in {"ok", "cancelled"}
    BY <1>2, <1>r, <2>2, PoolReturns DEF Start
  <2>3. QED
    BY <1>2, <2>1, <2>2 DEF Start, Return
<1>3. CASE SequentialCheck
  <2>1. CASE pc' = "returned" /\ UNCHANGED status /\ result' \in {"ok", "cancelled"}
    BY <1>3, <1>r, <2>1, PoolReturns DEF SequentialCheck
  <2>2. CASE /\ next < taskCount /\ UNCHANGED result
             /\ status' = [status EXCEPT ![next] = "running"]
    BY <1>3, <2>2, PoolStarts DEF SequentialCheck, IInv
  <2>3. QED
    BY <1>3, <2>1, <2>2 DEF SequentialCheck, Return
<1>4. CASE SequentialWork
  <2>1. PICK o \in TaskEnds(cancelled) : status' = [status EXCEPT ![next] = o]
    BY <1>4 DEF SequentialWork
  <2>2. o \in {"ok", "failed", "cancelled"} /\ (o = "cancelled" => cancelled)
    BY DEF TaskEnds
  <2>3. next \in Tasks /\ status[next] = "running"
    BY <1>4 DEF SequentialWork, IInv, FeedInv
  <2>4. QED
    BY <1>4, <2>1, <2>2, <2>3, PoolEnds DEF SequentialWork, IInv
<1>5. CASE SequentialError
  <2>1. result' \in {"failed", "cancelled"} /\ result = "none"
    BY <1>5, <1>r DEF SequentialError, Return, IInv, FeedInv
  <2>2. QED
    BY <1>5, <2>1, PoolReturns DEF SequentialError
<1>6. CASE StopFeeding
  BY <1>6, <1>s DEF StopFeeding
<1>7. CASE WaitGroup
  <2>1. result = "none" /\ result' # "none"
    BY <1>7, <1>r DEF WaitGroup, Return
  <2>2. QED
    BY <1>7, <2>1, PoolReturns DEF WaitGroup
<1>8. CASE CallerCancel
  BY <1>8 DEF CallerCancel, Pool!Next, Pool!Cancel
<1>9. ASSUME NEW w \in Workers, Send(w) PROVE [Pool!Next]_(Pool!vars)
  BY <1>9, PoolStarts DEF Send, IInv
<1>10. ASSUME NEW w \in Workers, WorkerExit(w) PROVE [Pool!Next]_(Pool!vars)
  BY <1>10, <1>s DEF WorkerExit
<1>11. ASSUME NEW w \in Workers, Work(w) PROVE [Pool!Next]_(Pool!vars)
  <2>1. PICK o \in TaskEnds(TaskCtxDone) : status' = [status EXCEPT ![task[w]] = o]
    BY <1>11 DEF Work
  <2>2. o \in {"ok", "failed", "cancelled"} /\ (o = "cancelled" => TaskCtxDone)
    BY DEF TaskEnds
  <2>3. poolDone => cancelled \/ \E i \in Tasks : status[i] = "failed"
    BY DEF IInv, ErrorInv, TypeOK, Errors
  <2>4. task[w] \in Tasks /\ status[task[w]] = "running"
    BY <1>11 DEF Work, IInv, FeedInv
  <2>5. QED
    BY <1>11, <2>1, <2>2, <2>3, <2>4, PoolEnds DEF Work, TaskCtxDone, IInv
<1>12. ASSUME NEW w \in Workers, RecordError(w) PROVE [Pool!Next]_(Pool!vars)
  BY <1>12, <1>s DEF RecordError
<1>13. ASSUME NEW w \in Workers, CancelTasks(w) PROVE [Pool!Next]_(Pool!vars)
  BY <1>13, <1>s DEF CancelTasks
<1>14. QED
  BY <1>1, <1>2, <1>3, <1>4, <1>5, <1>6, <1>7, <1>8, <1>9, <1>10, <1>11, <1>12, <1>13
     DEF Next, Calling, Worker, Returned

\* With any number of workers, runBounded is a ParallelFor: tasks start in
\* order, end once, and the call returns what became of them.
THEOREM PoolRefinement == Spec => ImplementsParallelFor
<1>1. Init => Pool!Init
  BY DEF Init, Pool!Init, Pool!Indexes, Tasks
<1>2. QED
  BY <1>1, Invariance, PoolStep, PTL DEF Spec, ImplementsParallelFor, Pool!Spec

==================================================================================
