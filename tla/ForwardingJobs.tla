--------------------------- MODULE ForwardingJobs ---------------------------
(***************************************************************************)
(* Endpoint forwarding: the queue jobs of endpoint_forward_deliveries and  *)
(* the worker that processes them (endpoint-forwarding/worker.ts), against *)
(* the writers of the same deliveries: captures, target changes, clears    *)
(* and retention.  Each transaction is one step here; EndpointStore takes  *)
(* them apart.                                                             *)
(*                                                                         *)
(* A job has the id of its delivery.  The queue (pg-boss) is external: a   *)
(* job is fetched when due, is active until it is completed or failed, and *)
(* is failed by the queue itself when it expires or its heartbeat stops.   *)
(* A failed job is retried while its retry count is below the limit.       *)
(*                                                                         *)
(* A job is fetched at most once per retry count, so the n-th processing   *)
(* of delivery d is the handler <<d, n>>.  A handler outlives its job when *)
(* the job expires under it, and dies with its process.                    *)
(***************************************************************************)
EXTENDS Integers

CONSTANTS
  Request,
  Target,
  RetryLimit   \* ENDPOINT_FORWARDING_RETRY_LIMIT

ASSUME JobsAssumption == RetryLimit \in Nat

VARIABLES
  endpoint,  \* "active" or "deleted"
  target,    \* [Target -> "enabled" | "disabled" | "deleted"]
  row,       \* [Request -> RowState], the captured_requests rows
  status,    \* [Delivery -> Status], the endpoint_forward_deliveries rows
  job,       \* [Delivery -> JobState], the queue's rows
  retries,   \* [Delivery -> retry count of its job]
  handler,   \* [Handler -> HandlerState]
  result     \* [Handler -> status it is about to record]

vars == <<endpoint, target, row, status, job, retries, handler, result>>

Delivery == Request \X Target   \* unique index (target_id, request_id)
Handler == Delivery \X (0..RetryLimit)

Final == {"delivered", "failed", "cancelled"}
Status == {"none", "pending"} \cup Final
RowState == {"absent", "visible", "hidden", "gone"}
JobState == {"none", "created", "active", "retry", "completed", "failed"}

\* "ended": the handler has reported; "dead": its process died or the database
\* failed it, before it had recorded anything.
Running == {"load", "deliver", "record", "return", "throw", "error"}
HandlerState == {"idle", "ended", "dead"} \cup Running

TypeOK ==
  /\ endpoint \in {"active", "deleted"}
  /\ target \in [Target -> {"enabled", "disabled", "deleted"}]
  /\ row \in [Request -> RowState]
  /\ status \in [Delivery -> Status]
  /\ job \in [Delivery -> JobState]
  /\ retries \in [Delivery -> 0..RetryLimit]
  /\ handler \in [Handler -> HandlerState]
  /\ result \in [Handler -> Status]

Init ==
  /\ endpoint = "active"
  /\ target = [t \in Target |-> "enabled"]
  /\ row = [r \in Request |-> "absent"]
  /\ status = [d \in Delivery |-> "none"]
  /\ job = [d \in Delivery |-> "none"]
  /\ retries = [d \in Delivery |-> 0]
  /\ handler = [h \in Handler |-> "idle"]
  /\ result = [h \in Handler |-> "none"]

tableVars == <<endpoint, target, row, status>>
queueVars == <<job, retries>>
workerVars == <<handler, result>>

-----------------------------------------------------------------------------
(* The tables' writers other than the worker. *)

HasPending(st, r) == \E t \in Target : st[<<r, t>>] = "pending"

\* The end of a transaction that makes the requests rows rw and the deliveries
\* st: the requests in due are deleted, retention deletes any visible requests
\* that wait for no delivery (how many newer ones there are is not modelled
\* here), and deliveries go with their request.
Commit(rw, st, due) ==
  \E retired \in SUBSET {r \in Request : rw[r] = "visible" /\ ~HasPending(st, r)} :
    LET gone == due \cup retired IN
    /\ row' = [r \in Request |-> IF r \in gone THEN "gone" ELSE rw[r]]
    /\ status' = [d \in Delivery |-> IF d[1] \in gone THEN "none" ELSE st[d]]

\* Cleared requests that wait for no delivery.
Finished(st) == {r \in Request : row[r] = "hidden" /\ ~HasPending(st, r)}

\* pruneForwardingCompletedRequests, after the deliveries have become st:
\* deletes the finished requests among those whose delivery has been closed.
Close(st) ==
  Commit(row, st, {r \in Finished(st) : \E t \in Target : st[<<r, t>>] # status[<<r, t>>]})

\* saveCapturedRequest: the request, its deliveries and their jobs commit
\* together.
Capture(r) ==
  LET new == {r} \X {t \in Target : target[t] = "enabled"}
      st == [d \in Delivery |-> IF d \in new THEN "pending" ELSE status[d]]
  IN
  /\ endpoint = "active"
  /\ row[r] = "absent"
  /\ Commit([row EXCEPT ![r] = "visible"], st, Finished(st))
  /\ job' = [d \in Delivery |-> IF d \in new THEN "created" ELSE job[d]]
  /\ UNCHANGED <<endpoint, target, retries, workerVars>>

\* clearRequests: a request with a pending delivery is kept out of sight, the
\* others are deleted.
Clear ==
  LET kept == {r \in Request : HasPending(status, r)} IN
  /\ endpoint = "active"
  /\ row' = [r \in Request |-> IF row[r] = "absent" THEN "absent"
                               ELSE IF r \in kept THEN "hidden" ELSE "gone"]
  /\ status' = [d \in Delivery |-> IF d[1] \in kept THEN status[d] ELSE "none"]
  /\ UNCHANGED <<endpoint, target, queueVars, workerVars>>

\* updateEndpointForwardTarget with enabled.
SwitchTarget(t) ==
  /\ endpoint = "active"
  /\ target[t] # "deleted"
  /\ target' = [target EXCEPT ![t] = IF @ = "enabled" THEN "disabled" ELSE "enabled"]
  /\ UNCHANGED <<endpoint, row, status, queueVars, workerVars>>

\* deleteEndpointForwardTarget: cancels the target's pending deliveries and
\* leaves their jobs to find that out.
RemoveTarget(t) ==
  /\ endpoint = "active"
  /\ target[t] # "deleted"
  /\ target' = [target EXCEPT ![t] = "deleted"]
  /\ Close([d \in Delivery |->
              IF d[2] = t /\ status[d] = "pending" THEN "cancelled" ELSE status[d]])
  /\ UNCHANGED <<endpoint, queueVars, workerVars>>

\* deleteEndpointForActor: every row goes with the endpoint, the jobs stay.
DeleteEndpoint ==
  /\ endpoint = "active"
  /\ endpoint' = "deleted"
  /\ target' = [t \in Target |-> "deleted"]
  /\ row' = [r \in Request |-> IF row[r] = "absent" THEN "absent" ELSE "gone"]
  /\ status' = [d \in Delivery |-> "none"]
  /\ UNCHANGED <<queueVars, workerVars>>

-----------------------------------------------------------------------------
(* The queue. *)

\* The worker's concurrency limits only delay this.
Fetch(d) ==
  LET n == IF job[d] = "retry" THEN retries[d] + 1 ELSE retries[d] IN
  /\ job[d] \in {"created", "retry"}
  /\ job' = [job EXCEPT ![d] = "active"]
  /\ retries' = [retries EXCEPT ![d] = n]
  /\ handler' = [handler EXCEPT ![<<d, n>>] = "load"]
  /\ UNCHANGED <<tableVars, result>>

\* What a failure makes of the job: nothing unless it is active.
AfterFailure(d) ==
  IF job[d] # "active" THEN job[d]
  ELSE IF retries[d] < RetryLimit THEN "retry" ELSE "failed"

\* The job's time or its heartbeat runs out; its handler, if alive, goes on.
Expire(d) ==
  /\ job[d] = "active"
  /\ job' = [job EXCEPT ![d] = AfterFailure(d)]
  /\ UNCHANGED <<tableVars, retries, workerVars>>

-----------------------------------------------------------------------------
(* processEndpointForwardDeliveryJob, as the handler h = <<d, n>>. *)

Go(h, state) == handler' = [handler EXCEPT ![h] = state]

\* The delivery is found, and still pending.
Loadable(d) == status[d] = "pending"

\* One SELECT reads the delivery, its request and its target.
Load(h) ==
  LET d == h[1] IN
  /\ handler[h] = "load"
  /\ \/ ~Loadable(d) /\ Go(h, "return") /\ UNCHANGED result
     \/ /\ Loadable(d)
        /\ target[d[2]] = "deleted"
        /\ Go(h, "record") /\ result' = [result EXCEPT ![h] = "cancelled"]
     \/ /\ Loadable(d)
        /\ target[d[2]] = "disabled"
        /\ Go(h, "record") /\ result' = [result EXCEPT ![h] = "failed"]
     \/ /\ Loadable(d)
        /\ target[d[2]] = "enabled"
        /\ Go(h, "deliver") /\ UNCHANGED result
  /\ UNCHANGED <<tableVars, queueVars>>

FinalAttemptMutant(h) == h[2] > RetryLimit

\* job.retryCount >= job.retryLimit
FinalAttempt(h) == h[2] >= RetryLimit

RecordedMutant(h, outcome) ==   \* the outcome's kind taken for the status
  IF outcome = "retryable" /\ ~FinalAttempt(h) THEN "pending" ELSE outcome

\* The status recorded for an outcome: a 2xx answer, a failure that cannot be
\* retried, or one that can ("pending" until the final attempt).
Recorded(h, outcome) ==
  IF outcome = "accepted" THEN "delivered"
  ELSE IF outcome = "retryable" /\ ~FinalAttempt(h) THEN "pending"
  ELSE "failed"

\* deliverEndpointForwardRequest: the target's name does not resolve, or to a
\* blocked address; it answers; it does not, or the job expires, in time.
Deliver(h, outcome) ==
  /\ handler[h] = "deliver"
  /\ Go(h, "record")
  /\ result' = [result EXCEPT ![h] = Recorded(h, outcome)]
  /\ UNCHANGED <<tableVars, queueVars>>

RecordableMutant(d) == status[d] # "none"   \* status filter of the UPDATE dropped
Recordable(d) == status[d] = "pending"

NextAfterRecordMutant(s) == "return"   \* the rethrow after a retryable failure dropped
NextAfterRecord(s) == IF s = "pending" THEN "throw" ELSE "return"

\* recordEndpointForwardDeliveryAttempt.
Record(h) ==
  LET d == h[1] IN
  /\ handler[h] = "record"
  /\ IF Recordable(d) /\ result[h] # "pending"
     THEN Close([status EXCEPT ![d] = result[h]])
     ELSE UNCHANGED <<row, status>>
  /\ Go(h, NextAfterRecord(result[h]))
  /\ result' = [result EXCEPT ![h] = "none"]
  /\ UNCHANGED <<endpoint, target, queueVars>>

\* The database fails the SELECT or the transaction: the handler rejects
\* without having recorded anything.
DatabaseError(h) ==
  /\ handler[h] \in {"load", "record"}
  /\ Go(h, "error")
  /\ result' = [result EXCEPT ![h] = "none"]
  /\ UNCHANGED <<tableVars, queueVars>>

\* The handler's promise settles and the worker completes or fails the job,
\* whichever processing made it active; or that call is lost.
Report(h) ==
  LET d == h[1] IN
  /\ handler[h] \in {"return", "throw", "error"}
  /\ Go(h, IF handler[h] = "error" THEN "dead" ELSE "ended")
  /\ \/ /\ handler[h] = "return"
        /\ job' = [job EXCEPT ![d] = IF @ = "active" THEN "completed" ELSE @]
     \/ /\ handler[h] # "return"
        /\ job' = [job EXCEPT ![d] = AfterFailure(d)]
     \/ UNCHANGED job
  /\ UNCHANGED <<tableVars, retries, result>>

\* The worker process dies with its handlers.
Crash ==
  /\ \E h \in Handler : handler[h] \in Running
  /\ handler' = [h \in Handler |->
                   IF handler[h] \notin Running THEN handler[h]
                   ELSE IF handler[h] \in {"return", "throw"} THEN "ended" ELSE "dead"]
  /\ result' = [h \in Handler |-> "none"]
  /\ UNCHANGED <<tableVars, queueVars>>

-----------------------------------------------------------------------------
Handling(h) ==
  \/ Load(h) \/ Record(h) \/ Report(h)
  \/ \E outcome \in {"accepted", "permanent", "retryable"} : Deliver(h, outcome)

Next ==
  \/ \E r \in Request : Capture(r)
  \/ Clear
  \/ DeleteEndpoint
  \/ \E t \in Target : SwitchTarget(t) \/ RemoveTarget(t)
  \/ \E d \in Delivery : Fetch(d) \/ Expire(d)
  \/ \E h \in Handler : Handling(h) \/ DatabaseError(h)
  \/ Crash

\* A running handler goes on: its request is aborted after
\* ENDPOINT_FORWARDING_DELIVERY_TIMEOUT_MS.  The queue's monitor expires every
\* job that stays active, and a worker that runs again fetches every due job.
Fairness ==
  /\ \A h \in Handler : WF_vars(Handling(h))
  /\ \A d \in Delivery : WF_vars(Expire(d)) /\ WF_vars(Fetch(d))

Spec == Init /\ [][Next]_vars /\ Fairness

-----------------------------------------------------------------------------
(* Properties. *)

\* No job is completed while its delivery is still pending, although a
\* handler may report to a job that another processing has made active.
CompletedIsSettled ==
  \A d \in Delivery : job[d] = "completed" => status[d] # "pending"

\* A delivery whose job the queue has given up is settled, unless the handler
\* of its final attempt is still running or died before it could record.
GivenUpIsSettled ==
  \A d \in Delivery :
    job[d] = "failed" /\ status[d] = "pending"
      => handler[<<d, RetryLimit>>] \notin {"idle", "ended"}

\* The handlers, the queue and the writers of the tables together keep the
\* promise of DeliveryLifecycle.
Lifecycle == INSTANCE DeliveryLifecycle WITH captured <- {r \in Request : row[r] # "absent"}

LifecycleSpec == Lifecycle!Spec

\* Every pending delivery is settled in the end, unless its final attempt dies
\* before it can record.
DeliveriesSettle ==
  \A d \in Delivery :
    status[d] = "pending"
      ~> (status[d] # "pending" \/ handler[<<d, RetryLimit>>] = "dead")

\* inspecting-requests.mdx: "Permanently delete every captured request for the
\* endpoint".  A cleared request is deleted in the end.
ClearedIsDeleted == \A r \in Request : row[r] = "hidden" ~> row[r] = "gone"
=============================================================================
