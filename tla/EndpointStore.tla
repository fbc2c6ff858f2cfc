--------------------------- MODULE EndpointStore ---------------------------
(***************************************************************************)
(* The rows of one webhook endpoint (captured_requests, forward targets    *)
(* and endpoint_forward_deliveries) and the PostgreSQL transactions that   *)
(* write them: saveCapturedRequest, clearRequests,                         *)
(* recordEndpointForwardDeliveryAttempt, deleteEndpointForwardTarget,      *)
(* updateEndpointForwardTarget and the endpoint's own deletion.            *)
(*                                                                         *)
(* Every transaction runs at READ COMMITTED, the database's default:       *)
(* each statement sees what was committed when it ran plus its own         *)
(* transaction's writes; a row one transaction has written is locked       *)
(* until it commits or rolls back.  A transaction is therefore a sequence  *)
(* of actions, one per statement that reads or writes these rows, and its  *)
(* uncommitted writes are kept apart (wrote, flagged, doomed) until its    *)
(* commit applies them.  A statement that would wait for a row lock is     *)
(* taken to start when the lock is released, and takes all the row locks   *)
(* of its result at once.                                                  *)
(*                                                                         *)
(* Requests are numbers in the order (received_at, id) that retention and  *)
(* listing use.  receivedAt is taken before the transaction opens, so      *)
(* captures may commit in any order of these numbers.                      *)
(***************************************************************************)
EXTENDS Integers, FiniteSets

CONSTANTS
  Request,      \* requests that may be captured, ordered by (received_at, id)
  Target,       \* forward targets of the endpoint
  Clear,        \* calls of clearRequests
  MaxRequests   \* MAX_REQUESTS_PER_ENDPOINT

ASSUME StoreAssumption ==
  /\ Request \subseteq Int
  /\ MaxRequests \in Nat \ {0}

VARIABLES
  endpoint,   \* the endpoints row: "active" or "deleted"
  target,     \* [Target -> "enabled" | "disabled" | "deleted"]
  row,        \* committed captured_requests rows, see RowState
  delivery,   \* committed endpoint_forward_deliveries rows, see Status
  lock,       \* transaction that holds the endpoints row FOR UPDATE, or NoTx
  pc,         \* last statement each transaction has run
  wrote,      \* delivery rows a transaction has inserted or updated ...
  value,      \* ... and the status it gave them
  flagged,    \* rows a transaction has set deleteAfterForwarding on
  doomed,     \* rows the DELETE statements of a transaction have matched
  saw         \* history: the visible rows when a clear ran its first statement

vars == <<endpoint, target, row, delivery, lock, pc, wrote, value, flagged,
          doomed, saw>>

Delivery == Request \X Target   \* unique index (target_id, request_id)

Final == {"delivered", "failed", "cancelled"}
Status == {"none", "pending"} \cup Final
RowState == {"absent", "visible", "hidden", "gone"}

CaptureTx(r) == <<"capture", r>>
ClearTx(c) == <<"clear", c>>
RecordTx(d) == <<"record", d>>
RemoveTx(t) == <<"remove", t>>
NoTx == <<"none", "none">>

Tx == {CaptureTx(r) : r \in Request} \cup {ClearTx(c) : c \in Clear}
        \cup {RecordTx(d) : d \in Delivery} \cup {RemoveTx(t) : t \in Target}

Open == {"locked", "written", "pruned", "swept"}

TypeOK ==
  /\ endpoint \in {"active", "deleted"}
  /\ target \in [Target -> {"enabled", "disabled", "deleted"}]
  /\ row \in [Request -> RowState]
  /\ delivery \in [Delivery -> Status]
  /\ lock \in Tx \cup {NoTx}
  /\ pc \in [Tx -> {"idle", "done"} \cup Open]
  /\ wrote \in [Tx -> SUBSET Delivery]
  /\ value \in [Tx -> Status]
  /\ flagged \in [Tx -> SUBSET Request]
  /\ doomed \in [Tx -> SUBSET Request]
  /\ saw \in [Clear -> SUBSET Request]

Init ==
  /\ endpoint = "active"
  /\ target = [t \in Target |-> "enabled"]
  /\ row = [r \in Request |-> "absent"]
  /\ delivery = [d \in Delivery |-> "none"]
  /\ lock = NoTx
  /\ pc = [x \in Tx |-> "idle"]
  /\ wrote = [x \in Tx |-> {}]
  /\ value = [x \in Tx |-> "none"]
  /\ flagged = [x \in Tx |-> {}]
  /\ doomed = [x \in Tx |-> {}]
  /\ saw = [c \in Clear |-> {}]

-----------------------------------------------------------------------------
(* What a statement of a transaction sees, and what it has to wait for. *)

Visible == {r \in Request : row[r] = "visible"}   \* deleteAfterForwarding = false
Hidden == {r \in Request : row[r] = "hidden"}     \* deleteAfterForwarding = true
Stored == Visible \cup Hidden

\* The first MaxRequests rows of S by received_at desc, id desc.
Newest(S) == {r \in S : Cardinality({q \in S : q > r}) < MaxRequests}

\* A delivery's status as transaction x sees it.
Seen(x, d) == IF d \in wrote[x] THEN value[x] ELSE delivery[d]

\* Requests that have a pending delivery in the sight of x.
PendingTo(x) == {r \in Request : \E t \in Target : Seen(x, <<r, t>>) = "pending"}

\* Rows of captured_requests that transactions other than x have locked.
LockedRows(x) == UNION {flagged[y] \cup doomed[y] : y \in Tx \ {x}}

\* Rows of endpoint_forward_deliveries that others have locked.
LockedDeliveries(x) == UNION {wrote[y] : y \in Tx \ {x}}

EndpointRowFreeMutant == TRUE   \* FOR UPDATE dropped

\* The endpoints row can be locked FOR UPDATE, or updated.
EndpointRowFree == lock = NoTx

\* The commit of x: its uncommitted writes become the tables' contents, the
\* foreign key deletes the deliveries of every deleted request, and the locks
\* are released.
Apply(x, inserted) ==
  /\ row' = [r \in Request |->
               IF r \in doomed[x] THEN "gone"
               ELSE IF r \in flagged[x] THEN "hidden"
               ELSE IF r \in inserted THEN "visible"
               ELSE row[r]]
  /\ delivery' = [d \in Delivery |->
                    IF d[1] \in doomed[x] THEN "none" ELSE Seen(x, d)]

Release(x, next) ==
  /\ pc' = [pc EXCEPT ![x] = next]
  /\ wrote' = [wrote EXCEPT ![x] = {}]
  /\ value' = [value EXCEPT ![x] = "none"]
  /\ flagged' = [flagged EXCEPT ![x] = {}]
  /\ doomed' = [doomed EXCEPT ![x] = {}]
  /\ lock' = IF lock = x THEN NoTx ELSE lock

-----------------------------------------------------------------------------
(* saveCapturedRequest: also the tail of a replay. *)

\* SELECT ... FOR UPDATE on the endpoint, the insert of the request and of one
\* pending delivery (with its queue job) per enabled target.
CaptureInsert(r) ==
  LET x == CaptureTx(r) IN
  /\ pc[x] = "idle"
  /\ EndpointRowFree
  /\ endpoint = "active"
  /\ lock' = x
  /\ pc' = [pc EXCEPT ![x] = "written"]
  /\ wrote' = [wrote EXCEPT ![x] = {r} \X {t \in Target : target[t] = "enabled"}]
  /\ value' = [value EXCEPT ![x] = "pending"]
  /\ UNCHANGED <<endpoint, target, row, delivery, flagged, doomed, saw>>

CaptureExcessAnyStatusMutant(r) == (Stored \cup {r}) \ Newest(Visible \cup {r})
CaptureExcessVisibleMutant(r) ==
  ((Visible \cup {r}) \ Newest(Visible \cup {r})) \ PendingTo(CaptureTx(r))
CaptureExcessOffByOneMutant(r) ==
  {s \in Stored \cup {r} : Cardinality({q \in Visible \cup {r} : q > s}) >= MaxRequests - 1}
    \ PendingTo(CaptureTx(r))

\* The rows the retention DELETE of a capture matches.  Unlike the one of
\* pruneForwardingCompletedRequests it does not look at deleteAfterForwarding.
CaptureExcess(r) ==
  ((Stored \cup {r}) \ Newest(Visible \cup {r})) \ PendingTo(CaptureTx(r))

CaptureRetain(r) ==
  LET x == CaptureTx(r) IN
  /\ pc[x] = "written"
  /\ CaptureExcess(r) \cap LockedRows(x) = {}
  /\ doomed' = [doomed EXCEPT ![x] = CaptureExcess(r)]
  /\ pc' = [pc EXCEPT ![x] = "swept"]
  /\ UNCHANGED <<endpoint, target, row, delivery, lock, wrote, value, flagged, saw>>

CaptureCommit(r) ==
  LET x == CaptureTx(r) IN
  /\ pc[x] = "swept"
  /\ Apply(x, {r})
  /\ Release(x, "done")
  /\ UNCHANGED <<endpoint, target, saw>>

-----------------------------------------------------------------------------
(* clearRequests: no endpoint lock until its last statement. *)

ClearFlagsMutant(c) == {}

\* The rows it flags to be deleted after forwarding instead of at once.
ClearFlags(c) == Stored \cap PendingTo(ClearTx(c))

ClearFlag(c) ==
  LET x == ClearTx(c) IN
  /\ pc[x] = "idle"
  /\ endpoint = "active"
  /\ ClearFlags(c) \cap LockedRows(x) = {}
  /\ flagged' = [flagged EXCEPT ![x] = ClearFlags(c)]
  /\ pc' = [pc EXCEPT ![x] = "written"]
  /\ saw' = [saw EXCEPT ![c] = Visible]
  /\ UNCHANGED <<endpoint, target, row, delivery, lock, wrote, value, doomed>>

\* The DELETE reads the pending deliveries again, in a later snapshot.
ClearSweep(c) ==
  LET x == ClearTx(c)
      settled == Stored \ PendingTo(x)
  IN
  /\ pc[x] = "written"
  /\ settled \cap LockedRows(x) = {}
  /\ doomed' = [doomed EXCEPT ![x] = settled]
  /\ pc' = [pc EXCEPT ![x] = "swept"]
  /\ UNCHANGED <<endpoint, target, row, delivery, lock, wrote, value, flagged, saw>>

\* The UPDATE of endpoints waits for the endpoint lock, then the commit.
ClearCommit(c) ==
  LET x == ClearTx(c) IN
  /\ pc[x] = "swept"
  /\ EndpointRowFree
  /\ Apply(x, {})
  /\ Release(x, "done")
  /\ UNCHANGED <<endpoint, target, saw>>

-----------------------------------------------------------------------------
(* recordEndpointForwardDeliveryAttempt with a final status, and            *)
(* deleteEndpointForwardTarget.  Both end in                                *)
(* pruneForwardingCompletedRequests; only the second locks the endpoint.    *)

RecordableMutant(d) == delivery[d] # "none"   \* status filter of the UPDATE dropped
Recordable(d) == delivery[d] = "pending"

\* A final result is written if the delivery is still pending.  The worker
\* cancels a delivery itself only when it finds the target deleted.
RecordClose(d, status) ==
  LET x == RecordTx(d) IN
  /\ pc[x] = "idle"
  /\ status = "cancelled" => target[d[2]] = "deleted"
  /\ Recordable(d)
  /\ d \notin LockedDeliveries(x)
  /\ wrote' = [wrote EXCEPT ![x] = {d}]
  /\ value' = [value EXCEPT ![x] = status]
  /\ pc' = [pc EXCEPT ![x] = "written"]
  /\ UNCHANGED <<endpoint, target, row, delivery, lock, flagged, doomed, saw>>

RemoveLock(t) ==
  LET x == RemoveTx(t) IN
  /\ pc[x] = "idle"
  /\ EndpointRowFree
  /\ endpoint = "active"
  /\ target[t] # "deleted"
  /\ lock' = x
  /\ pc' = [pc EXCEPT ![x] = "locked"]
  /\ UNCHANGED <<endpoint, target, row, delivery, wrote, value, flagged, doomed, saw>>

RemoveCancel(t) ==
  LET x == RemoveTx(t)
      pending == {d \in Delivery : d[2] = t /\ delivery[d] = "pending"}
  IN
  /\ pc[x] = "locked"
  /\ pending \cap LockedDeliveries(x) = {}
  /\ wrote' = [wrote EXCEPT ![x] = pending]
  /\ value' = [value EXCEPT ![x] = "cancelled"]
  /\ pc' = [pc EXCEPT ![x] = "written"]
  /\ UNCHANGED <<endpoint, target, row, delivery, lock, flagged, doomed, saw>>

Closer == {RecordTx(d) : d \in Delivery} \cup {RemoveTx(t) : t \in Target}

\* Delete the cleared requests whose last pending delivery x has closed.
PruneCleared(x) ==
  LET finished == {r \in Hidden : \E t \in Target : <<r, t>> \in wrote[x]}
                    \ PendingTo(x)
  IN
  /\ pc[x] = "written"
  /\ finished \cap LockedRows(x) = {}
  /\ doomed' = [doomed EXCEPT ![x] = finished]
  /\ pc' = [pc EXCEPT ![x] = "pruned"]
  /\ UNCHANGED <<endpoint, target, row, delivery, lock, wrote, value, flagged, saw>>

PruneExcessMutant(x) == Visible \ Newest(Visible)
PruneExcess(x) == (Visible \ Newest(Visible)) \ PendingTo(x)

\* Delete the visible requests beyond the newest MaxRequests, none pending.
PruneRetained(x) ==
  /\ pc[x] = "pruned"
  /\ PruneExcess(x) \cap LockedRows(x) = {}
  /\ doomed' = [doomed EXCEPT ![x] = @ \cup PruneExcess(x)]
  /\ pc' = [pc EXCEPT ![x] = "swept"]
  /\ UNCHANGED <<endpoint, target, row, delivery, lock, wrote, value, flagged, saw>>

RecordCommit(d) ==
  LET x == RecordTx(d) IN
  /\ pc[x] = "swept"
  /\ Apply(x, {})
  /\ Release(x, "done")
  /\ UNCHANGED <<endpoint, target, saw>>

RemoveCommit(t) ==
  LET x == RemoveTx(t) IN
  /\ pc[x] = "swept"
  /\ target' = [target EXCEPT ![t] = "deleted"]
  /\ Apply(x, {})
  /\ Release(x, "done")
  /\ UNCHANGED <<endpoint, saw>>

-----------------------------------------------------------------------------
(* The remaining writers. *)

SwitchedMutant(state) == IF state = "enabled" THEN "paused" ELSE "enabled"
Switched(state) == IF state = "enabled" THEN "disabled" ELSE "enabled"

\* updateEndpointForwardTarget with enabled: one locked transaction that
\* touches nothing but the target's row.
SwitchTarget(t) ==
  /\ EndpointRowFree
  /\ endpoint = "active"
  /\ target[t] # "deleted"
  /\ target' = [target EXCEPT ![t] = Switched(@)]
  /\ UNCHANGED <<endpoint, row, delivery, lock, pc, wrote, value, flagged, doomed, saw>>

\* deleteEndpointForActor: the cascade needs every row of the endpoint.
DeleteEndpoint ==
  /\ EndpointRowFree
  /\ endpoint = "active"
  /\ \A x \in Tx : wrote[x] = {} /\ flagged[x] = {} /\ doomed[x] = {}
  /\ endpoint' = "deleted"
  /\ target' = [t \in Target |-> "deleted"]
  /\ row' = [r \in Request |-> IF r \in Stored THEN "gone" ELSE row[r]]
  /\ delivery' = [d \in Delivery |-> "none"]
  /\ UNCHANGED <<lock, pc, wrote, value, flagged, doomed, saw>>

\* A statement fails, the process or its connection dies, or the database
\* breaks a lock cycle: the transaction rolls back and may be run again.
Abort(x) ==
  /\ pc[x] \in Open
  /\ Release(x, "idle")
  /\ UNCHANGED <<endpoint, target, row, delivery, saw>>

Next ==
  \/ \E r \in Request : CaptureInsert(r) \/ CaptureRetain(r) \/ CaptureCommit(r)
  \/ \E c \in Clear : ClearFlag(c) \/ ClearSweep(c) \/ ClearCommit(c)
  \/ \E d \in Delivery : (\E s \in Final : RecordClose(d, s)) \/ RecordCommit(d)
  \/ \E t \in Target : RemoveLock(t) \/ RemoveCancel(t) \/ RemoveCommit(t)
  \/ \E x \in Closer : PruneCleared(x) \/ PruneRetained(x)
  \/ \E t \in Target : SwitchTarget(t)
  \/ DeleteEndpoint
  \/ \E x \in Tx : Abort(x)

Spec == Init /\ [][Next]_vars

-----------------------------------------------------------------------------
(* Properties. *)

\* No transaction ever means to delete a request that still has a pending
\* delivery, other than the deliveries the same transaction is closing: the
\* pending filters of the four DELETE statements keep holding from the
\* statement to the commit, whatever commits in between.
NoPendingDoomed ==
  \A x \in Tx : \A d \in Delivery :
    (d[1] \in doomed[x] /\ delivery[d] = "pending") => d \in wrote[x]

\* A deleted target has no pending delivery: no capture that read the target
\* as enabled can commit after the deletion has cancelled the pending ones.
DeletedTargetIsQuiet ==
  \A d \in Delivery : target[d[2]] = "deleted" => delivery[d] # "pending"

\* A pending delivery ends only by the commit of a transaction that closes
\* that very delivery (a recorded result or the removal of its target) or with
\* its endpoint; never because retention or a clear deleted its request.
PendingEndsByItsOwnCommit ==
  [][\A d \in Delivery :
       (delivery[d] = "pending" /\ delivery'[d] # "pending")
         => \/ endpoint' = "deleted"
            \/ \E x \in Closer : d \in wrote[x] /\ pc[x] = "swept" /\ pc'[x] = "done"]_vars

\* A recorded result is never replaced: a late worker result does not
\* overwrite a cancelled delivery, nor a cancellation a delivered one.
ResultsAreFinal ==
  [][\A d \in Delivery :
       delivery[d] \in Final => delivery'[d] \in {delivery[d], "none"}]_vars

\* When a clear commits, every request that was listed when it began is out of
\* the list, although the pending set may have changed between its statements.
ClearIsComplete ==
  [][\A c \in Clear :
       (pc[ClearTx(c)] = "swept" /\ pc'[ClearTx(c)] = "done")
         => \A r \in saw[c] : row'[r] # "visible"]_vars

\* The committed tables keep the promise of DeliveryLifecycle: however the
\* statements of the transactions interleave, every commit is one step of the
\* abstract life of the endpoint's deliveries.
Lifecycle == INSTANCE DeliveryLifecycle
  WITH captured <- {r \in Request : row[r] # "absent"}, status <- delivery

LifecycleSpec == Lifecycle!Spec

\* The requests that leave the list in a step that is neither the commit of a
\* clear nor the deletion of the endpoint: retention removed them.
RetentionDrops(r) ==
  /\ row[r] = "visible" /\ row'[r] = "gone" /\ endpoint' = "active"
  /\ \A c \in Clear : pc'[ClearTx(c)] = pc[ClearTx(c)]

\* limits-and-retention.mdx: "Each endpoint keeps its latest 500 requests".  A
\* request that retention drops is not among the newest MaxRequests of the
\* rows listed at the commit of the transaction that drops it.  Where no clear
\* runs this holds, whatever captures and results overlap; a clear that commits
\* between a retention DELETE and its commit breaks it.
KeepsLatestRequests ==
  [][\A r \in Request :
       RetentionDrops(r) => r \notin Newest(Visible \cup Visible')]_vars

\* A cleared row that waits for no delivery any more.
Stranded == {r \in Hidden : \A t \in Target : delivery[<<r, t>>] # "pending"}

\* Rows a clear left behind are swept by the next capture of the endpoint: its
\* retention DELETE matches every stranded row.
CaptureSweepsStranded ==
  [][\A r \in Request :
       (pc[CaptureTx(r)] = "written" /\ pc'[CaptureTx(r)] = "swept")
         => Stranded \subseteq doomed'[CaptureTx(r)]]_vars
=============================================================================
