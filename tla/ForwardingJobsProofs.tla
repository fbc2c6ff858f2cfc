------------------------ MODULE ForwardingJobsProofs ------------------------
(***************************************************************************)
(* Proofs about ForwardingJobs for every set of requests and targets and   *)
(* every retry limit.                                                      *)
(***************************************************************************)
EXTENDS ForwardingJobs, TLAPS

-----------------------------------------------------------------------------
(* What the end of a transaction does to the tables. *)

\* A commit keeps the types, adds no pending delivery, and makes no row absent.
LEMMA CommitTables ==
  ASSUME NEW rw \in [Request -> RowState], NEW st \in [Delivery -> Status],
         NEW due \in SUBSET Request, \A r \in due : rw[r] # "absent",
         Commit(rw, st, due)
  PROVE  /\ row' \in [Request -> RowState]
         /\ status' \in [Delivery -> Status]
         /\ \A d \in Delivery : status'[d] \in {st[d], "none"}
         /\ \A r \in Request : row'[r] = "absent" <=> rw[r] = "absent"
BY DEF Commit, RowState, Status

\* A close keeps the types, leaves pending only what was, and makes no row
\* absent.
LEMMA CloseTables ==
  ASSUME TypeOK, NEW st \in [Delivery -> Status], Close(st)
  PROVE  /\ row' \in [Request -> RowState]
         /\ status' \in [Delivery -> Status]
         /\ \A d \in Delivery : status'[d] \in {st[d], "none"}
         /\ \A r \in Request : row'[r] = "absent" <=> row[r] = "absent"
<1> DEFINE due == {r \in Finished(st) : \E t \in Target : st[<<r, t>>] # status[<<r, t>>]}
<1>1. due \in SUBSET Request /\ \A r \in due : row[r] # "absent"
  BY DEF Finished
<1>2. Commit(row, st, due)
  BY DEF Close
<1>3. row \in [Request -> RowState]
  BY DEF TypeOK
<1> HIDE DEF due
<1> QED BY <1>1, <1>2, <1>3, CommitTables

\* What a capture leaves in the tables.
CaptureStatus(r) ==
  [d \in Delivery |->
     IF d \in {r} \X {t \in Target : target[t] = "enabled"} THEN "pending" ELSE status[d]]

\* A capture keeps the types and adds one row.
LEMMA CaptureTables ==
  ASSUME TypeOK, NEW r \in Request, Capture(r)
  PROVE  /\ row' \in [Request -> RowState]
         /\ status' \in [Delivery -> Status]
         /\ \A d \in Delivery : status'[d] \in {CaptureStatus(r)[d], "none"}
         /\ \A q \in Request : row'[q] = "absent" <=> row[q] = "absent" /\ q # r
<1> DEFINE rw == [row EXCEPT ![r] = "visible"]
<1>1. rw \in [Request -> RowState] /\ CaptureStatus(r) \in [Delivery -> Status]
  BY DEF TypeOK, CaptureStatus, RowState, Status
<1>2. /\ Finished(CaptureStatus(r)) \in SUBSET Request
      /\ \A q \in Finished(CaptureStatus(r)) : rw[q] # "absent"
  BY DEF Finished, TypeOK
<1>3. Commit(rw, CaptureStatus(r), Finished(CaptureStatus(r)))
  BY DEF Capture, CaptureStatus
<1>4. \A q \in Request : rw[q] = "absent" <=> row[q] = "absent" /\ q # r
  BY DEF TypeOK
<1> HIDE DEF rw
<1> QED BY <1>1, <1>2, <1>3, <1>4, CommitTables

-----------------------------------------------------------------------------
(* Types. *)

\* What a handler records is a status.
LEMMA RecordedStatus ==
  ASSUME NEW h, NEW outcome
  PROVE  /\ Recorded(h, outcome) \in {"pending", "delivered", "failed"}
         /\ Recorded(h, outcome) = "pending" => ~FinalAttempt(h)
BY DEF Recorded

\* The part of a handler's name.
LEMMA HandlerParts ==
  /\ \A h \in Handler : h[1] \in Delivery /\ h[2] \in 0..RetryLimit /\ h = <<h[1], h[2]>>
  /\ \A d \in Delivery, n \in 0..RetryLimit : <<d, n>> \in Handler
BY DEF Handler

\* A job waits for a retry only below the limit.
RetriesLeft == \A d \in Delivery : job[d] = "retry" => retries[d] < RetryLimit

\* Every step keeps the types.
LEMMA TypeInductive == TypeOK /\ RetriesLeft /\ [Next]_vars => TypeOK'
<1> SUFFICES ASSUME TypeOK, RetriesLeft, [Next]_vars PROVE TypeOK' OBVIOUS
<1> USE JobsAssumption, HandlerParts
<1>1. ASSUME NEW r \in Request, Capture(r) PROVE TypeOK'
  BY <1>1, CaptureTables DEF Capture, TypeOK, workerVars, JobState
<1>2. CASE Clear
  BY <1>2 DEF Clear, TypeOK, queueVars, workerVars, RowState, Status
<1>3. CASE DeleteEndpoint
  BY <1>3 DEF DeleteEndpoint, TypeOK, queueVars, workerVars, RowState, Status
<1>4. ASSUME NEW t \in Target, SwitchTarget(t) PROVE TypeOK'
  BY <1>4 DEF SwitchTarget, TypeOK, queueVars, workerVars
<1>5. ASSUME NEW t \in Target, RemoveTarget(t) PROVE TypeOK'
  <2> DEFINE st == [d \in Delivery |->
                      IF d[2] = t /\ status[d] = "pending" THEN "cancelled" ELSE status[d]]
  <2>1. st \in [Delivery -> Status]
    BY DEF TypeOK, Status, Final
  <2>2. Close(st)
    BY <1>5 DEF RemoveTarget
  <2>3. row' \in [Request -> RowState] /\ status' \in [Delivery -> Status]
    BY <2>1, <2>2, CloseTables
  <2> QED BY <1>5, <2>3 DEF RemoveTarget, TypeOK, queueVars, workerVars
<1>6. ASSUME NEW d \in Delivery, Fetch(d) PROVE TypeOK'
  <2> DEFINE n == IF job[d] = "retry" THEN retries[d] + 1 ELSE retries[d]
  <2>1. n \in 0..RetryLimit
    BY DEF TypeOK, RetriesLeft
  <2>2. retries' = [retries EXCEPT ![d] = n] /\ handler' = [handler EXCEPT ![<<d, n>>] = "load"]
    BY <1>6 DEF Fetch
  <2> HIDE DEF n
  <2>3. retries' \in [Delivery -> 0..RetryLimit] /\ handler' \in [Handler -> HandlerState]
    BY <2>1, <2>2 DEF TypeOK, HandlerState, Running
  <2> QED BY <1>6, <2>3 DEF Fetch, TypeOK, tableVars, JobState
<1>7. ASSUME NEW d \in Delivery, Expire(d) PROVE TypeOK'
  BY <1>7 DEF Expire, AfterFailure, TypeOK, tableVars, workerVars, JobState
<1>8. ASSUME NEW h \in Handler, Load(h) PROVE TypeOK'
  BY <1>8 DEF Load, Go, TypeOK, tableVars, queueVars, HandlerState, Running, Status, Final
<1>9. ASSUME NEW h \in Handler, NEW o, Deliver(h, o) PROVE TypeOK'
  BY <1>9, RecordedStatus
     DEF Deliver, Go, TypeOK, tableVars, queueVars, HandlerState, Running, Status, Final
<1>10. ASSUME NEW h \in Handler, Record(h) PROVE TypeOK'
  <2> DEFINE st == [status EXCEPT ![h[1]] = result[h]]
  <2>1. st \in [Delivery -> Status]
    BY DEF TypeOK
  <2>2. Close(st) => row' \in [Request -> RowState] /\ status' \in [Delivery -> Status]
    BY <2>1, CloseTables
  <2>3. row' \in [Request -> RowState] /\ status' \in [Delivery -> Status]
    BY <1>10, <2>2 DEF Record, TypeOK
  <2>4. NextAfterRecord(result[h]) \in HandlerState
    BY DEF NextAfterRecord, HandlerState, Running
  <2> QED BY <1>10, <2>3, <2>4 DEF Record, Go, TypeOK, queueVars, Status
<1>11. ASSUME NEW h \in Handler, DatabaseError(h) PROVE TypeOK'
  BY <1>11 DEF DatabaseError, Go, TypeOK, tableVars, queueVars, HandlerState, Running, Status
<1>12. ASSUME NEW h \in Handler, Report(h) PROVE TypeOK'
  <2>1. handler' \in [Handler -> HandlerState]
    BY <1>12 DEF Report, Go, TypeOK, HandlerState, Running
  <2>2. AfterFailure(h[1]) \in JobState
    BY DEF AfterFailure, TypeOK, JobState
  <2>3. job' \in [Delivery -> JobState]
    BY <1>12, <2>2 DEF Report, TypeOK, JobState
  <2> QED BY <1>12, <2>1, <2>3 DEF Report, TypeOK, tableVars
<1>13. CASE Crash
  BY <1>13 DEF Crash, TypeOK, tableVars, queueVars, HandlerState, Status
<1>14. CASE UNCHANGED vars
  BY <1>14 DEF vars, TypeOK
<1> QED
  BY <1>1, <1>2, <1>3, <1>4, <1>5, <1>6, <1>7, <1>8, <1>9, <1>10, <1>11, <1>12,
     <1>13, <1>14 DEF Next, Handling

\* Every step keeps a retry for every job that waits for one.
LEMMA RetriesLeftInductive == TypeOK /\ RetriesLeft /\ [Next]_vars => RetriesLeft'
<1> SUFFICES ASSUME TypeOK, RetriesLeft, [Next]_vars, NEW d \in Delivery
             PROVE  job'[d] = "retry" => retries'[d] < RetryLimit
  BY DEF RetriesLeft
<1> USE JobsAssumption, HandlerParts DEF TypeOK, RetriesLeft
<1>1. ASSUME NEW r \in Request, Capture(r) PROVE job'[d] = "retry" => retries'[d] < RetryLimit
  BY <1>1 DEF Capture
<1>2. CASE Clear
  BY <1>2 DEF Clear, queueVars
<1>3. CASE DeleteEndpoint
  BY <1>3 DEF DeleteEndpoint, queueVars
<1>4. ASSUME NEW t \in Target, SwitchTarget(t) \/ RemoveTarget(t)
      PROVE job'[d] = "retry" => retries'[d] < RetryLimit
  BY <1>4 DEF SwitchTarget, RemoveTarget, queueVars
<1>5. ASSUME NEW e \in Delivery, Fetch(e) PROVE job'[d] = "retry" => retries'[d] < RetryLimit
  BY <1>5 DEF Fetch
<1>6. ASSUME NEW e \in Delivery, Expire(e) PROVE job'[d] = "retry" => retries'[d] < RetryLimit
  BY <1>6 DEF Expire, AfterFailure
<1>7. ASSUME NEW h \in Handler, Report(h) PROVE job'[d] = "retry" => retries'[d] < RetryLimit
  BY <1>7 DEF Report, AfterFailure
<1>8. ASSUME NEW h \in Handler, NEW o, Load(h) \/ Deliver(h, o) \/ Record(h) \/ DatabaseError(h)
      PROVE job'[d] = "retry" => retries'[d] < RetryLimit
  BY <1>8 DEF Load, Deliver, Record, DatabaseError, queueVars
<1>9. CASE Crash
  BY <1>9 DEF Crash, queueVars
<1>10. CASE UNCHANGED vars
  BY <1>10 DEF vars
<1> QED
  BY <1>1, <1>2, <1>3, <1>4, <1>5, <1>6, <1>7, <1>8, <1>9, <1>10 DEF Next, Handling

\* The variables keep their types.
THEOREM JobsTypeCorrect == Spec => [](TypeOK /\ RetriesLeft)
<1>1. Init => TypeOK /\ RetriesLeft
  BY JobsAssumption
     DEF Init, TypeOK, RetriesLeft, RowState, Status, JobState, HandlerState
<1> QED BY <1>1, TypeInductive, RetriesLeftInductive, PTL DEF Spec

-----------------------------------------------------------------------------
(* The inductive invariant. *)

\* A request that was never captured has no delivery and no job.
AbsentIsClean ==
  \A d \in Delivery : row[d[1]] = "absent" => status[d] = "none" /\ job[d] = "none"

\* A job that is due for a retry, active or finished has been handled at its
\* retry count, and no handler is ahead of it.
HandledAsFetched ==
  /\ \A d \in Delivery :
       job[d] \notin {"none", "created"} => handler[<<d, retries[d]>>] # "idle"
  /\ \A h \in Handler : handler[h] # "idle" => job[h[1]] \notin {"none", "created"}
  /\ \A d \in Delivery : job[d] = "failed" => retries[d] = RetryLimit

\* What a handler's state says of its delivery.
HandlerPromise(h) ==
  /\ handler[h] = "return" => status[h[1]] # "pending"
  /\ handler[h] = "record"
       => /\ result[h] \in {"pending", "delivered", "failed", "cancelled"}
          /\ result[h] = "pending" => ~FinalAttempt(h)
          /\ result[h] = "cancelled" => target[h[1][2]] = "deleted"
  /\ handler[h] = "throw" => ~FinalAttempt(h)
  /\ handler[h] = "ended" /\ FinalAttempt(h) => status[h[1]] # "pending"

HandlersKeepPromise == \A h \in Handler : HandlerPromise(h)

\* A deleted target has no pending delivery.
WithdrawnIsQuiet ==
  \A d \in Delivery : target[d[2]] = "deleted" => status[d] # "pending"

JobsInv ==
  /\ TypeOK
  /\ RetriesLeft
  /\ AbsentIsClean
  /\ HandledAsFetched
  /\ HandlersKeepPromise
  /\ WithdrawnIsQuiet
  /\ CompletedIsSettled

-----------------------------------------------------------------------------
(* How a step changes the tables, the jobs and the handlers. *)

RemovedStatus(t) ==
  [d \in Delivery |-> IF d[2] = t /\ status[d] = "pending" THEN "cancelled" ELSE status[d]]

\* A removal closes the target's pending deliveries.
LEMMA RemoveTables ==
  ASSUME JobsInv, NEW t \in Target, RemoveTarget(t)
  PROVE  /\ \A d \in Delivery : status'[d] \in {RemovedStatus(t)[d], "none"}
         /\ \A r \in Request : row'[r] = "absent" <=> row[r] = "absent"
<1>1. RemovedStatus(t) \in [Delivery -> Status]
  BY DEF JobsInv, TypeOK, RemovedStatus, Status, Final
<1>2. Close(RemovedStatus(t))
  BY DEF RemoveTarget, RemovedStatus
<1> QED BY <1>1, <1>2, CloseTables DEF JobsInv

\* A record closes its delivery, or changes nothing in the tables.
LEMMA RecordTables ==
  ASSUME JobsInv, NEW h \in Handler, Record(h)
  PROVE  \/ /\ status[h[1]] = "pending" /\ result[h] # "pending"
            /\ \A d \in Delivery :
                 status'[d] \in {[status EXCEPT ![h[1]] = result[h]][d], "none"}
            /\ \A r \in Request : row'[r] = "absent" <=> row[r] = "absent"
         \/ /\ status[h[1]] # "pending" \/ result[h] = "pending"
            /\ UNCHANGED <<row, status>>
<1>1. [status EXCEPT ![h[1]] = result[h]] \in [Delivery -> Status]
  BY DEF JobsInv, TypeOK
<1> QED BY <1>1, CloseTables DEF Record, Recordable, JobsInv

\* The ways a delivery's status changes.
LEMMA StatusMoves ==
  ASSUME JobsInv, [Next]_vars, NEW d \in Delivery, status'[d] \notin {status[d], "none"}
  PROVE  \/ \E r \in Request : Capture(r) /\ r = d[1] /\ target[d[2]] = "enabled"
                               /\ status'[d] = "pending"
         \/ /\ \E t \in Target : RemoveTarget(t) /\ d[2] = t
            /\ status[d] = "pending" /\ status'[d] = "cancelled"
         \/ \E h \in Handler : /\ Record(h) /\ h[1] = d /\ status[d] = "pending"
                               /\ status'[d] = result[h] /\ result[h] # "pending"
<1> DEFINE goal ==
         \/ \E r \in Request : Capture(r) /\ r = d[1] /\ target[d[2]] = "enabled"
                               /\ status'[d] = "pending"
         \/ /\ \E t \in Target : RemoveTarget(t) /\ d[2] = t
            /\ status[d] = "pending" /\ status'[d] = "cancelled"
         \/ \E h \in Handler : /\ Record(h) /\ h[1] = d /\ status[d] = "pending"
                               /\ status'[d] = result[h] /\ result[h] # "pending"
<1>1. ASSUME NEW r \in Request, Capture(r) PROVE goal
  <2>1. status'[d] \in {CaptureStatus(r)[d], "none"}
    BY <1>1, CaptureTables DEF JobsInv
  <2>2. d \in {r} \X {t \in Target : target[t] = "enabled"} /\ status'[d] = "pending"
    BY <2>1 DEF CaptureStatus
  <2> QED BY <1>1, <2>2
<1>2. CASE Clear
  BY <1>2 DEF Clear
<1>3. CASE DeleteEndpoint
  BY <1>3 DEF DeleteEndpoint
<1>4. ASSUME NEW t \in Target, SwitchTarget(t) PROVE goal
  BY <1>4 DEF SwitchTarget
<1>5. ASSUME NEW t \in Target, RemoveTarget(t) PROVE goal
  BY <1>5, RemoveTables DEF RemovedStatus
<1>6. ASSUME NEW h \in Handler, Record(h) PROVE goal
  BY <1>6, RecordTables DEF JobsInv, TypeOK
<1>7. ASSUME NEW h \in Handler, NEW o, Load(h) \/ Deliver(h, o) \/ Report(h) \/ DatabaseError(h)
      PROVE goal
  BY <1>7 DEF Load, Deliver, Report, DatabaseError, tableVars
<1>8. ASSUME NEW e \in Delivery, Fetch(e) \/ Expire(e) PROVE goal
  BY <1>8 DEF Fetch, Expire, tableVars
<1>9. CASE Crash
  BY <1>9 DEF Crash, tableVars
<1>10. CASE UNCHANGED vars
  BY <1>10 DEF vars
<1> QED
  BY <1>1, <1>2, <1>3, <1>4, <1>5, <1>6, <1>7, <1>8, <1>9, <1>10 DEF Next, Handling

\* A delivery becomes pending only when its request is captured, with a new
\* job, and its target enabled.
LEMMA OnlyCaptureAddsPending ==
  ASSUME JobsInv, [Next]_vars, NEW d \in Delivery,
         status'[d] = "pending", status[d] # "pending"
  PROVE  /\ row[d[1]] = "absent"
         /\ job'[d] = "created"
         /\ target[d[2]] = "enabled"
         /\ UNCHANGED target
<1>1. PICK r \in Request : Capture(r) /\ r = d[1] /\ target[d[2]] = "enabled"
  BY StatusMoves
<1>2. d \in {r} \X {t \in Target : target[t] = "enabled"}
  BY <1>1 DEF Delivery
<1> QED BY <1>1, <1>2 DEF Capture

\* Rows are never forgotten: a request stays captured.
LEMMA CapturedStays ==
  ASSUME JobsInv, [Next]_vars, NEW r \in Request, row'[r] = "absent"
  PROVE  row[r] = "absent" /\ ~Capture(r)
<1> USE DEF JobsInv, TypeOK
<1>0. ~Capture(r)
  BY CaptureTables
<1> SUFFICES row[r] = "absent"
  BY <1>0
<1>1. ASSUME NEW q \in Request, Capture(q) PROVE row[r] = "absent"
  BY <1>1, CaptureTables
<1>2. ASSUME NEW t \in Target, RemoveTarget(t) PROVE row[r] = "absent"
  BY <1>2, RemoveTables
<1>3. ASSUME NEW h \in Handler, Record(h) PROVE row[r] = "absent"
  BY <1>3, RecordTables
<1>4. CASE Clear
  BY <1>4 DEF Clear
<1>5. CASE DeleteEndpoint
  BY <1>5 DEF DeleteEndpoint
<1>6. ASSUME NEW t \in Target, SwitchTarget(t) PROVE row[r] = "absent"
  BY <1>6 DEF SwitchTarget
<1>7. ASSUME NEW h \in Handler, NEW o, Load(h) \/ Deliver(h, o) \/ Report(h) \/ DatabaseError(h)
      PROVE row[r] = "absent"
  BY <1>7 DEF Load, Deliver, Report, DatabaseError, tableVars
<1>8. ASSUME NEW e \in Delivery, Fetch(e) \/ Expire(e) PROVE row[r] = "absent"
  BY <1>8 DEF Fetch, Expire, tableVars
<1>9. CASE Crash
  BY <1>9 DEF Crash, tableVars
<1>10. CASE UNCHANGED vars
  BY <1>10 DEF vars
<1> QED
  BY <1>1, <1>2, <1>3, <1>4, <1>5, <1>6, <1>7, <1>8, <1>9, <1>10 DEF Next, Handling

\* How a step moves a job: a capture creates it, the queue fetches it, the
\* queue or a handler ends it.  Only a returned handler completes it.
LEMMA JobMoves ==
  ASSUME JobsInv, [Next]_vars, NEW d \in Delivery, job'[d] # job[d]
  PROVE  \/ row[d[1]] = "absent" /\ job'[d] = "created" /\ (\E r \in Request : Capture(r) /\ r = d[1])
         \/ Fetch(d)
         \/ job[d] = "active" /\ job'[d] = AfterFailure(d) /\ UNCHANGED <<retries, status>>
         \/ /\ job[d] = "active" /\ job'[d] = "completed" /\ UNCHANGED <<retries, status>>
            /\ \E h \in Handler : h[1] = d /\ handler[h] = "return"
<1> DEFINE goal ==
         \/ row[d[1]] = "absent" /\ job'[d] = "created" /\ (\E r \in Request : Capture(r) /\ r = d[1])
         \/ Fetch(d)
         \/ job[d] = "active" /\ job'[d] = AfterFailure(d) /\ UNCHANGED <<retries, status>>
         \/ /\ job[d] = "active" /\ job'[d] = "completed" /\ UNCHANGED <<retries, status>>
            /\ \E h \in Handler : h[1] = d /\ handler[h] = "return"
<1> USE HandlerParts DEF JobsInv, TypeOK
<1>1. ASSUME NEW r \in Request, Capture(r) PROVE goal
  <2>1. d \in {r} \X {t \in Target : target[t] = "enabled"}
    BY <1>1 DEF Capture
  <2> QED BY <1>1, <2>1 DEF Capture
<1>2. CASE Clear
  BY <1>2 DEF Clear, queueVars
<1>3. CASE DeleteEndpoint
  BY <1>3 DEF DeleteEndpoint, queueVars
<1>4. ASSUME NEW t \in Target, SwitchTarget(t) \/ RemoveTarget(t) PROVE FALSE
  BY <1>4 DEF SwitchTarget, RemoveTarget, queueVars
<1>5. ASSUME NEW e \in Delivery, Fetch(e) PROVE goal
  BY <1>5 DEF Fetch
<1>6. ASSUME NEW e \in Delivery, Expire(e) PROVE goal
  BY <1>6 DEF Expire, AfterFailure, tableVars
<1>7. ASSUME NEW h \in Handler, Report(h) PROVE goal
  BY <1>7 DEF Report, AfterFailure, tableVars
<1>8. ASSUME NEW h \in Handler, NEW o, Load(h) \/ Deliver(h, o) \/ Record(h) \/ DatabaseError(h)
      PROVE FALSE
  BY <1>8 DEF Load, Deliver, Record, DatabaseError, queueVars
<1>9. CASE Crash
  BY <1>9 DEF Crash, queueVars
<1>10. CASE UNCHANGED vars
  BY <1>10 DEF vars
<1> QED
  BY <1>1, <1>2, <1>3, <1>4, <1>5, <1>6, <1>7, <1>8, <1>9, <1>10 DEF Next, Handling

\* Only a fetch changes a job's retry count.
LEMMA RetriesMove ==
  ASSUME JobsInv, [Next]_vars, NEW d \in Delivery, retries'[d] # retries[d]
  PROVE  Fetch(d)
<1> USE DEF JobsInv, TypeOK
<1>1. ASSUME NEW e \in Delivery, Fetch(e) PROVE Fetch(d)
  BY <1>1 DEF Fetch
<1>2. ASSUME NEW r \in Request, Capture(r) PROVE FALSE
  BY <1>2 DEF Capture
<1>3. CASE Clear \/ DeleteEndpoint \/ Crash
  BY <1>3 DEF Clear, DeleteEndpoint, Crash, queueVars
<1>4. ASSUME NEW t \in Target, SwitchTarget(t) \/ RemoveTarget(t) PROVE FALSE
  BY <1>4 DEF SwitchTarget, RemoveTarget, queueVars
<1>5. ASSUME NEW e \in Delivery, Expire(e) PROVE FALSE
  BY <1>5 DEF Expire
<1>6. ASSUME NEW h \in Handler, NEW o,
             Load(h) \/ Deliver(h, o) \/ Record(h) \/ DatabaseError(h) \/ Report(h)
      PROVE FALSE
  BY <1>6 DEF Load, Deliver, Record, DatabaseError, Report, queueVars
<1>7. CASE UNCHANGED vars
  BY <1>7 DEF vars
<1> QED BY <1>1, <1>2, <1>3, <1>4, <1>5, <1>6, <1>7 DEF Next, Handling

\* The ways a handler's state changes.
HandlerMove(h) ==
  \/ Fetch(h[1]) /\ handler'[h] = "load" /\ h[2] = retries'[h[1]]
  \/ Load(h) \/ Record(h) \/ DatabaseError(h) \/ Report(h) \/ Crash
  \/ \E o \in {"accepted", "permanent", "retryable"} : Deliver(h, o)

\* No other step moves a handler or changes what it is about to record.
LEMMA HandlerMoves ==
  ASSUME JobsInv, [Next]_vars, NEW h \in Handler,
         handler'[h] # handler[h] \/ result'[h] # result[h]
  PROVE  HandlerMove(h)
<1> USE HandlerParts DEF JobsInv, TypeOK, HandlerMove
<1>1. ASSUME NEW d \in Delivery, Fetch(d) PROVE HandlerMove(h)
  <2> DEFINE n == IF job[d] = "retry" THEN retries[d] + 1 ELSE retries[d]
  <2>1. h = <<d, n>> /\ handler'[h] = "load" /\ retries'[d] = n
    BY <1>1 DEF Fetch
  <2> HIDE DEF n
  <2>2. h[1] = d /\ h[2] = n
    BY <2>1
  <2> QED BY <1>1, <2>1, <2>2
<1>2. ASSUME NEW r \in Request, Capture(r) PROVE FALSE
  BY <1>2 DEF Capture, workerVars
<1>3. CASE Clear \/ DeleteEndpoint
  BY <1>3 DEF Clear, DeleteEndpoint, workerVars
<1>4. ASSUME NEW t \in Target, SwitchTarget(t) \/ RemoveTarget(t) PROVE FALSE
  BY <1>4 DEF SwitchTarget, RemoveTarget, workerVars
<1>5. ASSUME NEW d \in Delivery, Expire(d) PROVE FALSE
  BY <1>5 DEF Expire, workerVars
<1>6. ASSUME NEW g \in Handler, Load(g) PROVE HandlerMove(h)
  BY <1>6 DEF Load, Go
<1>7. ASSUME NEW g \in Handler, Record(g) PROVE HandlerMove(h)
  BY <1>7 DEF Record, Go
<1>8. ASSUME NEW g \in Handler, DatabaseError(g) PROVE HandlerMove(h)
  BY <1>8 DEF DatabaseError, Go
<1>9. ASSUME NEW g \in Handler, Report(g) PROVE HandlerMove(h)
  BY <1>9 DEF Report, Go
<1>10. ASSUME NEW g \in Handler, NEW o \in {"accepted", "permanent", "retryable"}, Deliver(g, o)
       PROVE  HandlerMove(h)
  BY <1>10 DEF Deliver, Go
<1>11. CASE Crash
  BY <1>11
<1>12. CASE UNCHANGED vars
  BY <1>12 DEF vars
<1> QED
  BY <1>1, <1>2, <1>3, <1>4, <1>5, <1>6, <1>7, <1>8, <1>9, <1>10, <1>11, <1>12
     DEF Next, Handling

\* A handler never becomes idle again.
LEMMA NeverIdleAgain ==
  ASSUME JobsInv, [Next]_vars, NEW h \in Handler, handler[h] # "idle"
  PROVE  handler'[h] # "idle"
<1>1. HandlerMove(h) => handler'[h] # "idle"
  BY DEF HandlerMove, Load, Record, DatabaseError, Report, Crash, Deliver, Go,
         NextAfterRecord, JobsInv, TypeOK, Running
<1> QED BY <1>1, HandlerMoves

\* The targets change when the endpoint goes and at their own routes.
LEMMA TargetMoves ==
  ASSUME [Next]_vars
  PROVE  \/ target' = target
         \/ DeleteEndpoint
         \/ \E t \in Target : SwitchTarget(t) \/ RemoveTarget(t)
BY DEF Next, Handling, vars, Capture, Clear, Fetch, Expire, Load, Deliver, Record,
       DatabaseError, Report, Crash, tableVars

\* A deleted target stays deleted.
LEMMA DeletedStays ==
  ASSUME JobsInv, [Next]_vars, NEW t \in Target, target[t] = "deleted"
  PROVE  target'[t] = "deleted"
BY TargetMoves DEF JobsInv, TypeOK, DeleteEndpoint, SwitchTarget, RemoveTarget

-----------------------------------------------------------------------------
(* Every part of the invariant is kept. *)

\* Every step keeps uncaptured requests without deliveries and jobs.
LEMMA AbsentIsCleanInductive == JobsInv /\ [Next]_vars => AbsentIsClean'
<1> SUFFICES ASSUME JobsInv, [Next]_vars, NEW d \in Delivery, row'[d[1]] = "absent"
             PROVE  status'[d] = "none" /\ job'[d] = "none"
  BY DEF AbsentIsClean
<1>1. d[1] \in Request
  BY DEF Delivery
<1>2. row[d[1]] = "absent" /\ ~Capture(d[1])
  BY <1>1, CapturedStays
<1>3. status[d] = "none" /\ job[d] = "none"
  BY <1>2 DEF JobsInv, AbsentIsClean
<1>4. job'[d] = "none"
  BY <1>2, <1>3, JobMoves DEF Fetch
<1>5. status'[d] = "none"
  BY <1>2, <1>3, StatusMoves
<1> QED BY <1>4, <1>5

\* Every step keeps the handlers behind their jobs.
LEMMA HandledAsFetchedInductive == JobsInv /\ [Next]_vars => HandledAsFetched'
<1> SUFFICES ASSUME JobsInv, [Next]_vars PROVE HandledAsFetched'
  OBVIOUS
<1> USE HandlerParts, JobsAssumption
<1>1. ASSUME NEW d \in Delivery, job'[d] \notin {"none", "created"}
      PROVE  handler'[<<d, retries'[d]>>] # "idle"
  <2>1. CASE Fetch(d)
    <3> DEFINE n == IF job[d] = "retry" THEN retries[d] + 1 ELSE retries[d]
    <3>1. n \in 0..RetryLimit
      BY DEF JobsInv, TypeOK, RetriesLeft
    <3>2. retries' = [retries EXCEPT ![d] = n] /\ handler' = [handler EXCEPT ![<<d, n>>] = "load"]
      BY <2>1 DEF Fetch
    <3> HIDE DEF n
    <3> QED BY <3>1, <3>2 DEF JobsInv, TypeOK
  <2>2. CASE ~Fetch(d)
    <3>1. retries'[d] = retries[d] /\ job[d] \notin {"none", "created"}
      BY <1>1, <2>2, RetriesMove, JobMoves
    <3>2. <<d, retries[d]>> \in Handler /\ handler[<<d, retries[d]>>] # "idle"
      BY <3>1 DEF JobsInv, TypeOK, HandledAsFetched
    <3> QED BY <3>1, <3>2, NeverIdleAgain
  <2> QED BY <2>1, <2>2
<1>2. ASSUME NEW h \in Handler, handler'[h] # "idle" PROVE job'[h[1]] \notin {"none", "created"}
  <2>1. CASE Fetch(h[1])
    BY <2>1 DEF Fetch, JobsInv, TypeOK
  <2>2. CASE ~Fetch(h[1])
    <3>1. handler[h] # "idle"
      BY <1>2, <2>2, HandlerMoves
         DEF HandlerMove, Load, Record, DatabaseError, Report, Crash, Deliver, Running, JobsInv, TypeOK
    <3>2. job[h[1]] \notin {"none", "created"} /\ row[h[1][1]] # "absent"
      BY <3>1 DEF JobsInv, HandledAsFetched, AbsentIsClean
    <3> QED BY <2>2, <3>2, JobMoves DEF AfterFailure
  <2> QED BY <2>1, <2>2
<1>3. ASSUME NEW d \in Delivery, job'[d] = "failed" PROVE retries'[d] = RetryLimit
  <2>1. ~Fetch(d)
    BY <1>3 DEF Fetch, JobsInv, TypeOK
  <2>2. retries'[d] = retries[d]
    BY <2>1, RetriesMove
  <2>3. job[d] = "failed" \/ (job[d] = "active" /\ AfterFailure(d) = "failed")
    BY <1>3, <2>1, JobMoves
  <2>4. job[d] = "failed" => retries[d] = RetryLimit
    BY DEF JobsInv, HandledAsFetched
  <2>5. AfterFailure(d) = "failed" /\ job[d] = "active" => ~(retries[d] < RetryLimit)
    BY DEF AfterFailure
  <2>6. retries[d] \in 0..RetryLimit
    BY DEF JobsInv, TypeOK
  <2> QED BY <2>2, <2>3, <2>4, <2>5, <2>6
<1> QED BY <1>1, <1>2, <1>3 DEF HandledAsFetched

\* A delivery that has been handled and is settled stays settled.
LEMMA HandledStaysSettled ==
  ASSUME JobsInv, [Next]_vars, NEW h \in Handler, handler[h] # "idle", status[h[1]] # "pending"
  PROVE  status'[h[1]] # "pending"
<1>1. h[1] \in Delivery /\ row[h[1][1]] # "absent"
  BY HandlerParts DEF JobsInv, HandledAsFetched, AbsentIsClean
<1> QED BY <1>1, OnlyCaptureAddsPending

\* Every step keeps what the handlers' states say.
LEMMA PromiseInductive == JobsInv /\ [Next]_vars => HandlersKeepPromise'
<1> SUFFICES ASSUME JobsInv, [Next]_vars, NEW h \in Handler PROVE HandlerPromise(h)'
  BY DEF HandlersKeepPromise
<1>1. HandlerPromise(h) /\ handler[h] \in HandlerState /\ h[1] \in Delivery /\ h[1][2] \in Target
  BY HandlerParts DEF JobsInv, HandlersKeepPromise, TypeOK, Delivery
<1>2. target[h[1][2]] = "deleted" => target'[h[1][2]] = "deleted"
  BY <1>1, DeletedStays
<1>3. handler[h] # "idle" /\ status[h[1]] # "pending" => status'[h[1]] # "pending"
  BY HandledStaysSettled
<1>4. CASE UNCHANGED <<handler[h], result[h]>>
  BY <1>1, <1>2, <1>3, <1>4 DEF HandlerPromise, FinalAttempt
<1>5. CASE Fetch(h[1]) /\ handler'[h] = "load"
  BY <1>5 DEF HandlerPromise
<1>6. CASE Load(h)
  <2>1. h \in DOMAIN handler /\ h \in DOMAIN result
    BY DEF JobsInv, TypeOK
  <2> QED BY <1>1, <1>2, <1>3, <1>6, <2>1 DEF HandlerPromise, Load, Loadable, Go, FinalAttempt
<1>7. ASSUME NEW o, Deliver(h, o) PROVE HandlerPromise(h)'
  BY <1>7, RecordedStatus DEF HandlerPromise, Deliver, Go, FinalAttempt, JobsInv, TypeOK
<1>8. CASE Record(h)
  <2>1. handler'[h] = NextAfterRecord(result[h]) /\ handler[h] = "record"
    BY <1>8 DEF Record, Go, JobsInv, TypeOK
  <2>2. result[h] = "pending" => handler'[h] = "throw" /\ ~FinalAttempt(h)
    BY <1>1, <2>1 DEF NextAfterRecord, HandlerPromise
  <2>3. result[h] # "pending" => handler'[h] = "return" /\ status'[h[1]] # "pending"
    BY <1>1, <1>8, <2>1, RecordTables DEF NextAfterRecord, JobsInv, TypeOK
  <2> QED BY <2>2, <2>3 DEF HandlerPromise, FinalAttempt
<1>9. CASE DatabaseError(h)
  BY <1>9 DEF DatabaseError, Go, HandlerPromise, JobsInv, TypeOK
<1>10. CASE Report(h)
  <2>1. /\ handler'[h] \in {"dead", "ended"}
        /\ handler'[h] = "ended" => handler[h] \in {"return", "throw"}
    BY <1>10 DEF Report, Go, JobsInv, TypeOK
  <2> QED BY <1>1, <1>3, <2>1 DEF HandlerPromise, FinalAttempt
<1>11. CASE Crash
  <2>1. \/ handler'[h] = handler[h] /\ handler[h] \in {"idle", "ended", "dead"}
        \/ handler'[h] = "dead"
        \/ handler'[h] = "ended" /\ handler[h] \in {"return", "throw"}
    BY <1>1, <1>11 DEF Crash, HandlerState
  <2> QED BY <1>1, <1>3, <2>1 DEF HandlerPromise, FinalAttempt
<1> QED
  BY <1>4, <1>5, <1>6, <1>7, <1>8, <1>9, <1>10, <1>11, HandlerMoves DEF HandlerMove

\* Every step keeps deleted targets without pending deliveries.
LEMMA WithdrawnInductive == JobsInv /\ [Next]_vars => WithdrawnIsQuiet'
<1> SUFFICES ASSUME JobsInv, [Next]_vars, NEW d \in Delivery,
                    target'[d[2]] = "deleted", status'[d] = "pending"
             PROVE  FALSE
  BY DEF WithdrawnIsQuiet
<1>1. status[d] = "pending" /\ target[d[2]] # "deleted"
  BY OnlyCaptureAddsPending DEF JobsInv, WithdrawnIsQuiet
<1>3. d[2] \in Target
  BY DEF Delivery
<1>2. DeleteEndpoint \/ RemoveTarget(d[2])
  <2>1. target \in [Target -> {"enabled", "disabled", "deleted"}]
    BY DEF JobsInv, TypeOK
  <2>2. ASSUME NEW t \in Target, SwitchTarget(t)  PROVE FALSE
    BY <1>1, <1>3, <2>1, <2>2 DEF SwitchTarget
  <2>3. ASSUME NEW t \in Target, RemoveTarget(t), t # d[2]  PROVE FALSE
    BY <1>1, <1>3, <2>1, <2>3 DEF RemoveTarget
  <2> QED BY <1>1, <1>3, <2>2, <2>3, TargetMoves
<1> QED BY <1>1, <1>2, <1>3, RemoveTables DEF DeleteEndpoint, RemovedStatus

\* Every step keeps completed jobs settled.
LEMMA CompletedInductive == JobsInv /\ [Next]_vars => CompletedIsSettled'
<1> SUFFICES ASSUME JobsInv, [Next]_vars, NEW d \in Delivery,
                    job'[d] = "completed", status'[d] = "pending"
             PROVE  FALSE
  BY DEF CompletedIsSettled
<1>1. status[d] = "pending"
  BY OnlyCaptureAddsPending
<1>2. job[d] # "completed"
  BY <1>1 DEF JobsInv, CompletedIsSettled
<1>3. ~Fetch(d)
  BY DEF Fetch, JobsInv, TypeOK
<1>4. job[d] = "active" => AfterFailure(d) # "completed"
  BY DEF AfterFailure
<1>5. \E h \in Handler : h[1] = d /\ handler[h] = "return"
  BY <1>2, <1>3, <1>4, JobMoves
<1> QED BY <1>1, <1>5 DEF JobsInv, HandlersKeepPromise, HandlerPromise

\* The initial states satisfy the invariant.
LEMMA JobsInit == Init => JobsInv
<1> SUFFICES ASSUME Init PROVE JobsInv
  OBVIOUS
<1>1. TypeOK /\ RetriesLeft
  BY JobsAssumption
     DEF Init, TypeOK, RetriesLeft, RowState, Status, JobState, HandlerState
<1> QED
  BY <1>1, HandlerParts
     DEF Init, JobsInv, AbsentIsClean, HandledAsFetched, HandlersKeepPromise, HandlerPromise,
         WithdrawnIsQuiet, CompletedIsSettled

\* The inductive invariant holds.
THEOREM JobsInvariant == Spec => []JobsInv
<1>1. JobsInv /\ [Next]_vars => JobsInv'
  BY TypeInductive, RetriesLeftInductive, AbsentIsCleanInductive, HandledAsFetchedInductive,
     PromiseInductive, WithdrawnInductive, CompletedInductive
     DEF JobsInv
<1> QED BY JobsInit, <1>1, PTL DEF Spec

-----------------------------------------------------------------------------
(* The properties. *)

\* No completed job leaves its delivery pending, whichever handlers of it
\* outlive their jobs.
THEOREM CompletedJobsAreSettled == Spec => []CompletedIsSettled
<1>1. JobsInv => CompletedIsSettled
  BY DEF JobsInv
<1> QED BY <1>1, JobsInvariant, PTL

\* By the invariant the final attempt of a job that was given up has been fetched, and
\* its handler, once it has ended, leaves nothing pending.
LEMMA GivenUpByInvariant == JobsInv => GivenUpIsSettled
<1>1. ASSUME JobsInv, NEW d \in Delivery, job[d] = "failed", status[d] = "pending"
      PROVE  handler[<<d, RetryLimit>>] \notin {"idle", "ended"}
  <2> DEFINE h == <<d, RetryLimit>>
  <2>1. h \in Handler /\ h[1] = d /\ FinalAttempt(h)
    BY JobsAssumption, HandlerParts DEF FinalAttempt
  <2>2. handler[h] # "idle"
    BY <1>1 DEF JobsInv, HandledAsFetched
  <2>3. HandlerPromise(h)
    BY <1>1, <2>1 DEF JobsInv, HandlersKeepPromise
  <2> QED BY <1>1, <2>1, <2>2, <2>3 DEF HandlerPromise
<1> QED BY <1>1 DEF GivenUpIsSettled

\* A job the queue has given up leaves its delivery pending only if the handler
\* of the final attempt is still running or has died.
THEOREM GivenUpJobsAreSettled == Spec => []GivenUpIsSettled
BY GivenUpByInvariant, JobsInvariant, PTL

-----------------------------------------------------------------------------
(* A pending delivery is never left without anyone to settle it. *)

\* A pending delivery has a job.
PendingHasJob == \A d \in Delivery : status[d] = "pending" => job[d] # "none"

\* A pending delivery has a job that the queue will still fetch or is processing, or
\* that it has given up while the handler of its final attempt runs or has died.
PendingInHand ==
  \A d \in Delivery :
    status[d] = "pending"
      => \/ job[d] \in {"created", "retry", "active"}
         \/ job[d] = "failed" /\ handler[<<d, RetryLimit>>] \in Running \cup {"dead"}

\* A job stays a job.
LEMMA JobStays ==
  ASSUME JobsInv, [Next]_vars, NEW d \in Delivery, job[d] # "none" PROVE job'[d] # "none"
<1>1. ASSUME NEW r \in Request, Capture(r) PROVE job'[d] # "none"
  BY <1>1 DEF Capture
<1>2. CASE Clear
  BY <1>2 DEF Clear, queueVars
<1>3. CASE DeleteEndpoint
  BY <1>3 DEF DeleteEndpoint, queueVars
<1>4. ASSUME NEW t \in Target, SwitchTarget(t) PROVE job'[d] # "none"
  BY <1>4 DEF SwitchTarget, queueVars
<1>5. ASSUME NEW t \in Target, RemoveTarget(t) PROVE job'[d] # "none"
  BY <1>5 DEF RemoveTarget, queueVars
<1>6. ASSUME NEW h \in Handler, Record(h) PROVE job'[d] # "none"
  BY <1>6 DEF Record, queueVars
<1>7. ASSUME NEW h \in Handler, NEW o, Load(h) \/ Deliver(h, o) \/ DatabaseError(h)
      PROVE  job'[d] # "none"
  BY <1>7 DEF Load, Deliver, DatabaseError, queueVars
<1>8. ASSUME NEW h \in Handler, Report(h) PROVE job'[d] # "none"
  BY <1>8 DEF Report, AfterFailure, JobsInv, TypeOK
<1>9. ASSUME NEW e \in Delivery, Fetch(e) \/ Expire(e) PROVE job'[d] # "none"
  BY <1>9 DEF Fetch, Expire, AfterFailure, JobsInv, TypeOK
<1>10. CASE Crash
  BY <1>10 DEF Crash, queueVars
<1>11. CASE UNCHANGED vars
  BY <1>11 DEF vars
<1> QED
  BY <1>1, <1>2, <1>3, <1>4, <1>5, <1>6, <1>7, <1>8, <1>9, <1>10, <1>11 DEF Next, Handling

\* Only a capture makes a delivery pending, and it creates the job with it.
LEMMA PendingHasJobInductive == JobsInv /\ PendingHasJob /\ [Next]_vars => PendingHasJob'
<1> SUFFICES ASSUME JobsInv, PendingHasJob, [Next]_vars,
                    NEW d \in Delivery, status'[d] = "pending"
             PROVE  job'[d] # "none"
  BY DEF PendingHasJob
<1>1. CASE status[d] = "pending"
  BY <1>1, JobStays DEF PendingHasJob
<1>2. CASE status[d] # "pending"
  <2>1. PICK r \in Request : Capture(r) /\ r = d[1] /\ target[d[2]] = "enabled"
    BY <1>2, StatusMoves
  <2>2. d \in {r} \X {t \in Target : target[t] = "enabled"}
    BY <2>1 DEF Delivery
  <2> QED BY <2>1, <2>2 DEF Capture
<1> QED BY <1>1, <1>2

\* Whatever expires, crashes or is reported late, a pending delivery has a job that is
\* to be fetched, is processed, or was given up with its final attempt under way or
\* dead: what DeliveriesSettle needs in every state.
THEOREM PendingIsInHand == Spec => []PendingInHand
<1>1. JobsInv /\ PendingHasJob => PendingInHand
  <2> SUFFICES ASSUME JobsInv, PendingHasJob, NEW d \in Delivery, status[d] = "pending",
                      job[d] \notin {"created", "retry", "active"}
               PROVE  job[d] = "failed" /\ handler[<<d, RetryLimit>>] \in Running \cup {"dead"}
    BY DEF PendingInHand
  <2>1. job[d] = "failed"
    BY DEF JobsInv, TypeOK, JobState, PendingHasJob, CompletedIsSettled
  <2>2. JobsInv => GivenUpIsSettled
    BY GivenUpByInvariant
  <2>3. <<d, RetryLimit>> \in Handler
    BY JobsAssumption, HandlerParts
  <2>4. handler[<<d, RetryLimit>>] \in HandlerState \ {"idle", "ended"}
    BY <2>1, <2>2, <2>3 DEF GivenUpIsSettled, JobsInv, TypeOK
  <2> QED BY <2>1, <2>4 DEF HandlerState
<1>2. Init => PendingHasJob
  BY DEF Init, PendingHasJob
<1> QED BY <1>1, <1>2, PendingHasJobInductive, JobsInvariant, PTL DEF Spec

-----------------------------------------------------------------------------
(* Jobs, worker and writers implement DeliveryLifecycle. *)

\* A commit that deletes no request with a pending delivery is a drop.
LEMMA CommitDrops ==
  ASSUME NEW rw, NEW st, NEW due \in SUBSET Request, \A r \in due : ~HasPending(st, r),
         Commit(rw, st, due)
  PROVE  \E R \in SUBSET Request : Lifecycle!Dropping(st, R)
<1>1. PICK retired \in SUBSET {r \in Request : rw[r] = "visible" /\ ~HasPending(st, r)} :
        status' = [d \in Delivery |-> IF d[1] \in due \cup retired THEN "none" ELSE st[d]]
  BY DEF Commit
<1>2. due \cup retired \in SUBSET Request
  OBVIOUS
<1>3. ASSUME NEW d \in Delivery, d[1] \in due \cup retired PROVE st[d] # "pending"
  <2>1. d[2] \in Target /\ d = <<d[1], d[2]>>
    BY DEF Delivery
  <2>2. ~HasPending(st, d[1])
    BY <1>3
  <2> QED BY <2>1, <2>2 DEF HasPending
<1>4. Lifecycle!Dropping(st, due \cup retired)
  BY <1>1, <1>3 DEF Lifecycle!Dropping, Lifecycle!Delivery, Delivery
<1> QED BY <1>2, <1>4

\* So is a close.
LEMMA CloseDrops ==
  ASSUME NEW st, Close(st)
  PROVE  \E R \in SUBSET Request : Lifecycle!Dropping(st, R)
<1> DEFINE due == {r \in Finished(st) : \E t \in Target : st[<<r, t>>] # status[<<r, t>>]}
<1>1. due \in SUBSET Request /\ \A r \in due : ~HasPending(st, r)
  BY DEF Finished
<1>2. Commit(row, st, due)
  BY DEF Close
<1> HIDE DEF due
<1> QED BY <1>1, <1>2, CommitDrops

Captured == {r \in Request : row[r] # "absent"}

\* A capture is the abstract Capture.
LEMMA JobsCaptureMaps ==
  ASSUME JobsInv, NEW r \in Request, Capture(r)
  PROVE  \E R \in SUBSET Request : Lifecycle!Capture(r, R)
<1>1. Commit([row EXCEPT ![r] = "visible"], CaptureStatus(r), Finished(CaptureStatus(r)))
  BY DEF Capture, CaptureStatus
<1>2. /\ Finished(CaptureStatus(r)) \in SUBSET Request
      /\ \A q \in Finished(CaptureStatus(r)) : ~HasPending(CaptureStatus(r), q)
  BY DEF Finished
<1>3. PICK R \in SUBSET Request : Lifecycle!Dropping(CaptureStatus(r), R)
  BY <1>1, <1>2, CommitDrops
<1>4. CaptureStatus(r) = [d \in Lifecycle!Delivery |->
                            IF d[1] = r /\ d[2] \in Lifecycle!Enabled THEN "pending" ELSE status[d]]
  BY DEF CaptureStatus, Lifecycle!Delivery, Lifecycle!Enabled, Delivery
<1>5. r \notin Captured /\ Captured' = Captured \cup {r}
  BY CaptureTables DEF Capture, Captured, JobsInv
<1>6. UNCHANGED target
  BY DEF Capture
<1> QED BY <1>3, <1>4, <1>5, <1>6 DEF Lifecycle!Capture, Captured

\* A clear drops the requests without a pending delivery.
LEMMA JobsClearMaps ==
  ASSUME JobsInv, Clear
  PROVE  \E R \in SUBSET Request : Lifecycle!Drop(R)
<1> DEFINE R == {r \in Request : ~HasPending(status, r)}
<1>1. \A d \in Delivery : d[1] \in Request /\ d[2] \in Target /\ d = <<d[1], d[2]>>
  BY DEF Delivery
<1>2. \A d \in Delivery : d[1] \in R => status[d] # "pending"
  BY <1>1 DEF HasPending
<1>3. status' = [d \in Delivery |-> IF d[1] \in R THEN "none" ELSE status[d]]
  BY <1>1 DEF Clear
<1>4. Lifecycle!Dropping(status, R)
  BY <1>2, <1>3 DEF Lifecycle!Dropping, Lifecycle!Delivery, Delivery
<1>5. Captured' = Captured /\ UNCHANGED target
  BY DEF Clear, Captured, JobsInv, TypeOK
<1> QED BY <1>4, <1>5 DEF Lifecycle!Drop, Captured

\* The removal of a target is the abstract Withdraw.
LEMMA JobsRemoveMaps ==
  ASSUME JobsInv, NEW t \in Target, RemoveTarget(t)
  PROVE  \E R \in SUBSET Request : Lifecycle!Withdraw(t, R)
<1>1. Close(RemovedStatus(t)) /\ target[t] # "deleted"
      /\ target' = [target EXCEPT ![t] = "deleted"]
  BY DEF RemoveTarget, RemovedStatus
<1>2. PICK R \in SUBSET Request : Lifecycle!Dropping(RemovedStatus(t), R)
  BY <1>1, CloseDrops
<1>3. RemovedStatus(t) = [d \in Lifecycle!Delivery |->
                            IF d[2] = t /\ status[d] = "pending" THEN "cancelled" ELSE status[d]]
  BY DEF RemovedStatus, Lifecycle!Delivery, Delivery
<1>4. Captured' = Captured
  BY RemoveTables DEF Captured
<1> QED BY <1>1, <1>2, <1>3, <1>4 DEF Lifecycle!Withdraw, Captured

\* A record is the abstract Settle, or changes no table: the worker's own
\* cancellation never finds its delivery pending.
LEMMA JobsRecordMaps ==
  ASSUME JobsInv, NEW h \in Handler, Record(h)
  PROVE  \/ \E R \in SUBSET Request, s \in {"delivered", "failed"} : Lifecycle!Settle(h[1], s, R)
         \/ UNCHANGED <<row, status, target>>
<1>1. CASE Recordable(h[1]) /\ result[h] # "pending"
  <2>1. /\ Close([status EXCEPT ![h[1]] = result[h]])
        /\ UNCHANGED target
        /\ handler[h] = "record"
    BY <1>1 DEF Record
  <2>2. PICK R \in SUBSET Request : Lifecycle!Dropping([status EXCEPT ![h[1]] = result[h]], R)
    BY <2>1, CloseDrops
  <2>3. h[1] \in Delivery /\ status[h[1]] = "pending"
    BY <1>1, HandlerParts DEF Recordable
  <2>4. result[h] # "cancelled"
    BY <2>1, <2>3 DEF JobsInv, HandlersKeepPromise, HandlerPromise, WithdrawnIsQuiet
  <2>5. result[h] \in {"delivered", "failed"}
    BY <1>1, <2>1, <2>4 DEF JobsInv, HandlersKeepPromise, HandlerPromise
  <2>6. Captured' = Captured
    BY <1>1, RecordTables DEF Captured, Recordable
  <2>7. Lifecycle!Settle(h[1], result[h], R)
    BY <2>1, <2>2, <2>3, <2>6 DEF Lifecycle!Settle, Captured
  <2> QED BY <2>2, <2>5, <2>7
<1>2. CASE ~(Recordable(h[1]) /\ result[h] # "pending")
  BY <1>2 DEF Record
<1> QED BY <1>1, <1>2

\* Every step is an abstract step or leaves the abstract state alone.
LEMMA JobsStepMaps ==
  ASSUME JobsInv, [Next]_vars
  PROVE  [Lifecycle!Next]_Lifecycle!vars
<1>1. ASSUME NEW r \in Request, Capture(r) PROVE Lifecycle!Next
  <2>1. PICK R \in SUBSET Request : Lifecycle!Capture(r, R)
    BY <1>1, JobsCaptureMaps
  <2> QED BY <2>1 DEF Lifecycle!Next
<1>2. CASE Clear
  <2>1. PICK R \in SUBSET Request : Lifecycle!Drop(R)
    BY <1>2, JobsClearMaps
  <2> QED BY <2>1 DEF Lifecycle!Next
<1>3. CASE DeleteEndpoint
  <2>1. Captured' = Captured
    BY <1>3 DEF DeleteEndpoint, Captured, JobsInv, TypeOK
  <2>2. Lifecycle!End
    BY <1>3, <2>1 DEF DeleteEndpoint, Lifecycle!End, Lifecycle!Delivery, Delivery, Captured
  <2> QED BY <2>2 DEF Lifecycle!Next
<1>4. ASSUME NEW t \in Target, SwitchTarget(t) PROVE Lifecycle!Next
  BY <1>4 DEF SwitchTarget, Lifecycle!Next, Lifecycle!Switch
<1>5. ASSUME NEW t \in Target, RemoveTarget(t) PROVE Lifecycle!Next
  <2>1. PICK R \in SUBSET Request : Lifecycle!Withdraw(t, R)
    BY <1>5, JobsRemoveMaps
  <2> QED BY <2>1 DEF Lifecycle!Next
<1>6. ASSUME NEW h \in Handler, Record(h) PROVE Lifecycle!Next \/ UNCHANGED Lifecycle!vars
  <2>1. CASE UNCHANGED <<row, status, target>>
    BY <2>1 DEF Lifecycle!vars
  <2>2. ASSUME NEW R \in SUBSET Request, NEW s \in {"delivered", "failed"},
               Lifecycle!Settle(h[1], s, R)
        PROVE  Lifecycle!Next
    <3>1. h[1] \in Lifecycle!Delivery
      BY HandlerParts DEF Delivery, Lifecycle!Delivery
    <3> QED BY <2>2, <3>1 DEF Lifecycle!Next
  <2> QED BY <1>6, <2>1, <2>2, JobsRecordMaps
<1>7. ASSUME NEW h \in Handler, NEW o, Load(h) \/ Deliver(h, o) \/ Report(h) \/ DatabaseError(h)
      PROVE  UNCHANGED Lifecycle!vars
  BY <1>7 DEF Load, Deliver, Report, DatabaseError, tableVars, Lifecycle!vars
<1>8. ASSUME NEW e \in Delivery, Fetch(e) \/ Expire(e) PROVE UNCHANGED Lifecycle!vars
  BY <1>8 DEF Fetch, Expire, tableVars, Lifecycle!vars
<1>9. CASE Crash
  BY <1>9 DEF Crash, tableVars, Lifecycle!vars
<1>10. CASE UNCHANGED vars
  BY <1>10 DEF vars, Lifecycle!vars
<1> QED
  BY <1>1, <1>2, <1>3, <1>4, <1>5, <1>6, <1>7, <1>8, <1>9, <1>10 DEF Next, Handling

\* Queue, worker and writers implement the abstract life of deliveries, for
\* every number of requests and targets and every retry limit: whatever expires,
\* dies or overlaps, a delivery is settled once.
THEOREM JobsImplementLifecycle == Spec => LifecycleSpec
<1>1. Init => Lifecycle!Init
  BY DEF Init, Lifecycle!Init, Lifecycle!Delivery, Delivery
<1> QED
  BY <1>1, JobsStepMaps, JobsInvariant, PTL DEF Spec, LifecycleSpec, Lifecycle!Spec
=============================================================================
