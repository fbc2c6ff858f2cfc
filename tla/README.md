# Verification of webhooks.lol

TLA+ models of webhooks.lol, their TLC model-checking runs, and TLAPS proofs.
Paths are relative to `src/`; `WS` stands for `packages/webhooks-server/src`.

## 1. The system

A browser session or an account owns up to 50 *endpoints*. A third party sends
HTTP requests to an endpoint's URL; the web application stores each one in
PostgreSQL, answers it, publishes it to the endpoint's open event streams, and
queues one *delivery* per enabled *forward target*. A worker process takes the
deliveries from a pg-boss queue and posts them. The inspector in the browser and
the CLI forwarder follow the event stream and page through the stored requests.
Redis holds rate-limit buckets and the leases of open streams.

| Component | State | Operations | Interacts with | Hard behaviour | What makes it correct |
| --- | --- | --- | --- | --- | --- |
| Captured-request store (`WS/repository.ts`, `WS/endpoint-forwarding/repository.ts`) | `endpoints`, `captured_requests`, forward targets, deliveries | capture, clear, record a result, switch / remove a target, delete the endpoint | every other part, by transactions | transactions at READ COMMITTED interleave; only some lock the endpoint row; a crash rolls back | a pending delivery is never lost to retention or a clear; results are final; a deleted target is quiet; cleared rows go away; the newest 500 stay |
| Forwarding jobs and worker (`WS/endpoint-forwarding/worker.ts`, `queue.ts`) | queue rows, running handlers | fetch, load, deliver, record, retry, expire | store, destination, queue | at-least-once jobs, expiry under a live handler, death of the process, target changes meanwhile | a finished job leaves nothing pending; every delivery settles; results are final |
| Forward-target management (`WS/endpoint-forwarding/repository.ts`, the `forward-targets` routes, the page's list) | target rows; `forwardTargets` and its version in the page | list, create, update, enable, delete; load, switch, merge answers | store, browser | races at the limits 5 and 20; answers that arrive after later changes | limits and uniqueness; a deleted target stays out of the list |
| Endpoint identity (`WS/repository.ts`) | `endpoints` rows with one owner | create and trim, save to account, rename, delete | store, event stream | trimming by a snapshot while endpoints become active | at most 50 per identity; the least active goes |
| Event stream (`WS/endpoint-event-stream.ts`, the `events` route) | subscribers, heartbeats | publish, subscribe, revoke, close | store (after commit), leases, browser, CLI | events outside the transaction; subscription after an awaited access check | a revoked or deleted endpoint's streams end; leases are returned |
| Admission (`WS/admission-control.ts`, `WS/rate-limits/*`) | Redis sets and buckets | check, acquire, renew, release | event stream, capture | leases expire under a live stream; the second of two scopes refuses | counts within the limits |
| Rate-limit store (`WS/rate-limits/store.ts`) | client, generation, shared connection, failures | eval, connect, retire | Redis | late events of a retired client, callers sharing one connection attempt | a retired client changes nothing; back-off is counted once per client; the back-off ends |
| Browser session (`apps/web/components/webhook-inspector/endpoint-session`) | request list, active endpoint, flags, version counters | switch, new, refresh, load older, search, clear, replay, delete and replace; stream events | API, event stream, local storage | an answer arrives after the user has switched, searched or cleared | the list matches its search; answers stay with their endpoint; what was cleared stays away; loading ends |
| CLI forwarder (`apps/cli/src`) | delivered ids, task pool | stream, reconnect, backfill, deliver | API, event stream | overlap of backfill and stream, eviction of ids, shutdown | a request is delivered again only when the id set has forgotten it; none is missed |
| Request listing | - | keyset pages | store | pages while rows come and go | no stored request is skipped or repeated |
| Token bucket, search, response override, formatting | - | pure functions | - | boundaries | - |
| Authentication, e-mail, admin reports, UI, docs site, migrations, deployment | - | - | - | - | not modelled: library configuration, presentation or I/O |

`PROJECT.json` lists all of them with their status, and the hazards with the
properties that cover them.

## 2. Plan

Most important behaviour first; each module is written to be checked and proved.

1. `EndpointStore`: the store's transactions, statement by statement, with
   `DeliveryLifecycle` as its abstract specification, proofs, refinement. *Done.*
2. `ForwardingJobs`: queue, worker and store, transaction by transaction, against
   the same abstract specification; its invariants proved. *Done.*
3. `EndpointIdentity`: the cap, trimming and the change of owner; the cap proved
   for every number of endpoints and calls. *Done.*
4. `CliForward`: stream, reconnect, catch-up, id set and task pool; its safety
   properties proved. *Done.*
5. `EventStream`: leases, access check, subscription, heartbeats, commits and
   their events; limits and the announcement of lost access proved. *Done.*
6. `ForwardTargets`: limits and uniqueness under concurrent saves, and the list of
   the page that edits them; both proved. *Done.*
7. `RateLimitStore`: client generations, shared connection, back-off; proved.
   *Done.*
8. `BrowserSession`: list merging and awaited calls across switches, searches,
   clears and replacements, with the stream's events; its properties proved.
   *Done.*

What could come next, in this order: a history of what a destination accepted in
`ForwardingJobs` (a delivery may be recorded failed although it arrived); the
restoring of a session and the account's lists in `BrowserSession`; admission
chains of captures and replays.

## 3. What is modelled

### DeliveryLifecycle

The promise to the endpoint's owner. State: which requests have been captured,
the targets' switches, each delivery's status. A delivery becomes pending with
the capture of its request and only for an enabled target, settles once
(delivered or failed), is cancelled with its target, and disappears only when
settled or with its endpoint. Both detailed modules implement it.

### EndpointStore

One endpoint's rows and every transaction that writes them.

| Code | Actions |
| --- | --- |
| `saveCapturedRequest` | `CaptureInsert` (lock, insert, deliveries), `CaptureRetain` (the DELETE), `CaptureCommit` |
| `clearRequests` | `ClearFlag`, `ClearSweep`, `ClearCommit` |
| `recordEndpointForwardDeliveryAttempt` | `RecordClose`, `PruneCleared`, `PruneRetained`, `RecordCommit` |
| `deleteEndpointForwardTarget` | `RemoveLock`, `RemoveCancel`, `PruneCleared`, `PruneRetained`, `RemoveCommit` |
| `updateEndpointForwardTarget`, `deleteEndpointForActor` | `SwitchTarget`, `DeleteEndpoint` |
| failed statement, lost connection, broken lock cycle | `Abort` |

Committed rows are `row` and `delivery`; what an open transaction has written is
kept beside them (`wrote`, `value`, `flagged`, `doomed`) until its commit, so a
statement sees the committed rows and its own writes, as PostgreSQL does.
Requests are numbered in the order `(received_at, id)`. `receivedAt` is taken
before the transaction opens, so captures commit in any order of these numbers.

Abstractions:

- A statement that waits for a row lock is taken to start when the lock is
  released, and takes all its row locks at once. PostgreSQL instead re-checks
  the row it waited for and keeps the old snapshot for the rest. Deadlocks of
  statements that hold part of their rows are left out; the cycle between a
  capture (endpoint, then rows) and a clear (rows, then endpoint) is there, and
  is broken by `Abort`.
- `RecordClose` covers the final statuses. A recorded `pending` only counts the
  attempt.
- Request contents, attempt counters and timestamps are left out.

### ForwardingJobs

The queue and the worker over the same tables, one step per transaction. The
n-th processing of delivery `d` is the handler `<<d, n>>`: the queue fetches a
job once per retry count, and a handler may outlive its job (`Expire`) or die
with its process (`Crash`).

| Code | Actions |
| --- | --- |
| `processEndpointForwardDeliveryJob` | `Load`, `Deliver`, `Record`, `DatabaseError` |
| pg-boss (external, from the options the code gives it) | `Fetch`, `Expire`, `Report`, `AfterFailure` |
| the other writers | `Capture`, `Clear`, `SwitchTarget`, `RemoveTarget`, `DeleteEndpoint` |

Abstractions: the concurrency limits of the worker (`WORK_OPTIONS`) only delay
`Fetch`; retention in `Commit` may delete any listed request without a pending
delivery, since how many newer ones there are is the store module's concern; a
handler's late report reaches whatever job is active (pg-boss identifies a job by
its id); a commit whose acknowledgement is lost is not modelled.

### EndpointIdentity

The endpoints of all sessions and accounts and the transactions that add to
them and trim them, with the locks they take.

| Code | Actions |
| --- | --- |
| `createEndpoint` | `CreateBegin`, `CreateLock` (lock and insert), `Trim`, `TrimRow`, `AddCommit` |
| `saveEndpointToAccount` | `SaveBegin`, `SaveLockAccount`, `SaveLockSession`, `SaveCheck` or `SaveRefused` (the unlocked read), `SaveMove` or `SaveLost` (the UPDATE), `Trim`, `TrimRow`, `AddCommit` |
| `saveCapturedRequest`, `clearRequests`, `updateEndpointName`, response overrides, as writers of `last_activity_at` | `TouchBegin`, `TouchLock`, `TouchCommit`, `TouchRefused` |
| `deleteEndpointForActor` | `DeleteEndpoint` |
| failed statement, lost connection | `Rollback` |

The trimming DELETE is two actions: `Trim` chooses its rows in the snapshot in
which the statement starts, `TrimRow` reaches one row, waits for it if another
transaction has it, and then looks at its owner again but not at its activity.

A save reads the row without locking it (`SaveCheck`) and compares its session
again in the WHERE of its UPDATE (`SaveMove`), which waits for the row; in between
the endpoint may be trimmed, deleted or, as far as the locks allow, saved by another
call. Either comparison alone would do as long as saves hold the session's lock and
nothing but a save changes a live endpoint's owner, so no run can tell that one of
them is missing: the mutant of `OnlyOwnIsSaved` drops the comparison that both use
(`Movable`).

Abstractions: names and responses are data; time is the number of time stamps
taken, and a stamp is taken before its transaction opens, so `last_activity_at`
may also go backwards; two sessions whose `hashtext` collide would only wait for
each other; the deletion of an account belongs to the authentication library and
is left out.

### CliForward

`whlol forward` against the server it follows. The server's side is the order of
receiving, storing and publishing requests, the list with its retention, clears
and the endpoint's deletion; the client's side is its loop, the pages of a
catch-up, the set of delivered ids and the task pool.

| Code | Actions |
| --- | --- |
| `streamEndpointEvents` | `Connect`, `EndOfStream`, `Stop` |
| loop of `runForward` | `ReadReady`, `ReadRequest`, `Fatal` |
| `backfill`, `fetchAllRequests` | `FetchPage`, `CatchUpFails` |
| `TaskPool`, `handle`, `BoundedSet` | `Run` and `Handle` (parts of the actions above), `StartQueued`, `Finish` |
| SIGINT, SIGTERM | `Interrupt` |
| server, network | `Receive`, `Save`, `Publish`, `Clear`, `DeleteEndpoint`, `Break` |

A stream that breaks delivers any prefix of what was sent. A task stays in
`active`, in the order of the starts, from its start to the end of its last attempt. What the code does and
one might not expect is kept: a new task may pass those that wait; waiting tasks
still start after an interruption, since `drain` awaits only the running ones; a
deleted endpoint ends the loop with an error and without draining; every
catch-up offers the tasks that wait once more.

Abstractions: the attempts and pauses within a delivery, the filter and failed
connection attempts change nothing that the properties see. Requests are
numbered by `receivedAt`; the time of a "ready" lies after the requests received so
far and not after the next one, so two of them in one millisecond are left out, and
what is received before the cutoff is skipped, strictly, as in the code. Each
catch-up reads at most
`MaxPages` pages, which truncates nothing as long as they hold all retained
rows (10 pages of 100 rows, 500 retained).

### RateLimitStore

The one Redis connection of a process, which every bucket and lease uses.

| Code | Actions |
| --- | --- |
| `eval`, `getReadyClient` | `CallEval` (evaluates, waits, or `Connect`), `Refuse` |
| `connectClient` resolves or rejects | `ConnectSucceeds`, `ConnectFails` |
| answers of a script | `EvalSucceeds`, `EvalErrs`, `EvalRejected` |
| the client's error event | `SocketError` |
| `recordFailure`, `recordSuccess`, `retireClient`, `calculateRetryDelayMs` | operators of the same names, `Delay` |
| the clock | `Tick` |

A client object is used again only when nothing refers to it, so an object stands
for its generation. The code between two awaits is one step. Delays are counted
in ticks of `REDIS_RETRY_BASE_DELAY_MS`, the jitter is none or one tick, and
`failureCount` stops at the value from which on the delay no longer grows.

### ForwardTargets

The database's target rows, and the list one inspector page keeps of them while
other pages edit the same rows.

| Code | Actions |
| --- | --- |
| `createEndpointForwardTarget`, `updateEndpointForwardTarget`, `deleteEndpointForwardTarget` | `BeginSave` (lock, validation), `Write` (statement and commit), `Refuse` |
| `listEndpointForwardTargets` | `ReadList` |
| `deleteEndpointForActor` | `DeleteEndpoint` |
| `loadForwardTargets`, `createForwardTarget`, `updateForwardTarget`, `deleteForwardTarget`, `switchEndpoint` | `LoadForwardTargets`, `SaveForwardTarget`, `SwitchEndpoint` |
| their answers, with `mergeForwardTarget`, `replaceForwardTarget`, `removeForwardTarget` | `AnswerLoad`, `AnswerSwitch`, `AnswerSave`, `SaveFails` |
| other pages | `Elsewhere` |

A key stands for a normalized URL with its path mode. A save that fails in the
page may still be carried out by the server. Whether a URL can be reached is one
more reason for `Refuse`.

### EventStream

The server's side of live streams: leases, access, subscription, heartbeats.

| Code | Actions |
| --- | --- |
| `acquireEndpointEventStreamAdmission`, the acquire script | `Start`, `Acquire`, `AcquireFails` |
| `assertEndpointAccessibleToActor` in the `events` route | `ReadAccess` |
| `openEndpointEventStream` | `Subscribe` |
| its interval, the renew script | `Heartbeat` |
| `cleanup`, abort, cancel, the release script | `Close`, `Release` |
| `saveEndpointToAccount`, `deleteEndpointForActor`, `trimEndpointIdentity` | `SaveToAccount`, `DeleteEndpoint`, `TrimEndpoint` |
| `publishEndpointDeleted`, `publishEndpointAccessRevoked` | `Publish` |
| the clock | `Tick` |

A lease is the number of ticks it still runs. Calls of the lease store fail with
their script executed or not; of calls sent together on the shared connection a
prefix is executed, and a prefix of that answered. The check of access and the
subscription are two steps, since an await lies between them. Events reach the
streams of one process (`endpoint-event-stream.ts` keeps its emitters in memory).

### BrowserSession

The request list of one inspector page against the server it reads. An operation
is a call in a slot: made by the user, handled by the server (`Serve`) some time
later, answered some time after that, and it may fail whatever the server did.

| Code (`use-browser-endpoint-session.ts` unless said) | Actions |
| --- | --- |
| `switchEndpoint`, `startNewEndpoint`, `refreshEndpoint`, `loadOlderRequests`, `searchRequests`, `clearEndpoint`, `deleteEndpoint`, `replayRequest` | `SwitchEndpoint`, `StartNewEndpoint`, `RefreshEndpoint`, `LoadOlder`, `SearchRequests`, `ClearEndpoint`, `DeleteEndpoint`, `ReplayRequest`, and `Answer...` for what follows each await |
| `loadReplacementEndpointAfterDeletion` | `BeginReplacement`, `AnswerProbe`, `AnswerAdopt`, `AnswerMake` |
| stream handlers (`event-stream.ts`) | `OnRequest`, `OnClear`, `OnDeleted` |
| the subscription's effect, `EventSource` | `Resubscribe`, `Connect`, `Break` |
| `mergeCapturedRequest`, `mergeCapturedRequestPage`, `reconcileLoadedRequests` (`state.ts`) | `Merge`, `AnswerOlder`, `Reconciled` |
| routes, other clients | `Serve`, `Capture`, `Elsewhere`, `Publish` |

`requestListVersion` is only ever compared with the value a call read when it
began, so a call carries `fresh` instead, which every bump of the version clears.
`active` is both the state and `activeEndpointIdRef`. React runs a changed effect
some time after the state: `Resubscribe` comes whenever it comes, which covers
every delay React may have and more. Requests are numbered by
`(receivedAt, id)`, a search is all or a fixed subset. `list` is the set of the
requests shown, each once (the merges drop duplicates by id); the order is left out.

## 4. Runs

| Run | Bounds | Shows |
| --- | --- | --- |
| `endpoint_store` | 2 requests, 2 targets, 1 clear, retention of 1, 2 open transactions | all safety properties and the refinement under every interleaving of two transactions |
| `endpoint_store_retention` | 3 requests, 1 target, no clear, retention of 2, no bound on open transactions | retention keeps the newest |
| `forwarding_jobs` | 1 request, 1 target, 2 retries | no delivery is lost or settled twice under expiry, crashes and target changes; each settles in the end |
| `forwarding_jobs_stuck` | 1 request, 1 target, 1 retry | violation, see below |
| `endpoint_identity` | 3 endpoints, 1 session, 2 accounts, 2 saves (also of one endpoint), 1 writer of `last_activity_at`, cap of 1, at most 4 calls that go on (`FourCalls`) | the cap holds and nobody's endpoint is taken, whatever overlaps |
| `cli_forward` | 3 requests, 2 retained, pages of 1, id set of 2, 1 task at a time, at most 1 task waits at a reconnect; catching up, not interrupted, endpoint not deleted (`RunsOn`) | a second delivery only after 2 others, skipped history, no gap between stream and pages |
| `cli_forward_live` | 2 requests, id set of 1, every option, interruption and deletion | what is listed is delivered in the end; an interruption brings the command to rest |
| `rate_limit_store` | 5 clients, 3 callers, delays up to 4 ticks | one connection, no attempt during a back-off, each failure counted once, the back-off ends |
| `forward_targets` | 2 endpoints, 2 keys, 3 targets, 2 calls, limits 1 and 2; one endpoint has targets, one target is deleted | limits and uniqueness under overlapping saves; when a deleted target may show again |
| `event_stream` | 2 streams of one endpoint and client, 2 scopes with limits 2 and 1, leases of 3 ticks renewed after 1 | limits under failing store calls; leases run out; lost access ends the stream |
| `browser_session` | 2 endpoints, 2 requests of one of them (1 matches the search, 1 stored at the start), pages of 1, 2 calls | the list's safety and the end of loading under overlapping calls and events |
| `browser_session_gap` | 1 endpoint, 3 requests, 2 calls | violation, see below |

The bounds are enough for the cases that matter: two requests with a retention
of one make every capture a retention case, two targets let one request wait for
one delivery while another settles, and two transactions are the smallest
overlap; what three transactions add is covered by the proofs, which have no
bounds. One delivery is enough for the jobs, since jobs interact only through
the tables; two retries give a first, a middle and a final attempt, so three
handlers of one delivery may be alive at once.

For the identities, three endpoints and a cap of one let a save trim what a
creation has just added while a third endpoint is created; the save's account,
its session and a second account are the three kinds of owner it can meet. Two
saves name the same endpoint or different ones, for one account or two, and the
second meets what the first has moved. `FourCalls` bounds the calls that go on at
four of the six there are: two saves with the creations of what they save, or with
one of them and another write. The proofs bound neither. For
the CLI, three requests and a retention of two let one fall out of the list
between pages; pages of one row make every catch-up a walk, and one task at a
time makes the others wait. `MaxWaiting` bounds the tasks that wait when the
client reconnects, because each catch-up offers them again and the queue would
grow without end. The id set holds two of three requests, so it forgets: a request
is delivered twice in the instance, by a task that has waited or a row that is still
listed, and `RepeatsAreApart` says how far apart its deliveries are. In the code the
set holds 2000 ids, far more than the 500 retained rows, and only a backlog of more
than 1500 waiting tasks could make it forget a listed request.

For the store's connection, three callers are one that evaluates, one that waits
and one that begins; five clients are enough for each of them, the current one and
the one last counted to be different objects. For the targets, a limit of one
enabled target and two rows puts every creation and enabling at a limit. Two
endpoints let the page leave one and come back. For the streams, leases of 3 ticks and heartbeats
each tick stand for 60 and 25 seconds: two renewals fit into a lease and a third
does not. The code takes three leases per stream (endpoint, client, service);
two leave one that is refused after another was acquired, and the proof has any
number. `Owner` makes one of the streams the account's.

The page is bounded by what is under way (`Bounded` in `MCBrowserSession`): one
event at a time, and none beside two calls, except a clear's event beside the
call that clears. Every pair of calls overlaps in every order, and every call
with every event. A third call and a second event are left to the proofs, which
have no bounds.

Transactions of `EndpointStore` and `EndpointIdentity` run at most once in an
instance (an aborted one of the store may run again), requests are bounded, and
a command may stop: the systems come to an end and deadlock is not checked. Nor is
it in the others, whose last state may be one in which every endpoint is deleted,
nothing is stored and nobody calls; that calls come back there is a liveness
property.

**Symmetry.** Targets and clears are interchangeable, and so are endpoints,
sessions, accounts, keys and calls; requests are ordered and therefore not, and the
endpoints of `BrowserSession` own requests. No run with a liveness property uses
symmetry.

**Fairness** of `ForwardingJobs`. `Handling`: a running handler proceeds, its
request is aborted after `ENDPOINT_FORWARDING_DELIVERY_TIMEOUT_MS`. `Expire`:
the queue's monitor ends a job that stays active. `Fetch`: a worker that runs
polls every second. Nothing else is fair: captures, clears, crashes and errors
may happen or not, and a destination need never accept anything.

**Fairness** of `CliForward`. `Loop`: the client's loop proceeds, a read or a
page returns or fails. `StartQueued`: a task that waits is woken when a slot is
free. `Finish`: a delivery ends by its timeout and its last retry. `Connect` is
not fair, nor is anything the server does.

**Fairness** of `RateLimitStore`. `Tick`: time passes. Nothing else is fair: the
client is made with a connect timeout but none for commands, so a script that Redis
never answers hangs, and with it its caller. `Recovers` assumes that failures stop
and says that the back-off ends; that a call succeeds then is Redis's affair.

**Fairness** of `EventStream`. `Tick`: time passes. `Heartbeat`: an interval fires.
`Publish`: a route handler whose transaction has committed goes on to its event.
Requests, releases and commits are free, so a stream that is over may never have
its leases released, and they run out all the same.

### What the violations show

- `ClearedIsDeleted`: if the worker dies in the final attempt, the queue gives
  the job up and the delivery stays pending for ever, and with it a cleared
  request.
- `OlderPagesAreContiguous`: a refresh that began before a page of older requests
  was asked for is answered first and replaces the list that the page continues.
  The page is merged all the same, and the requests in between are on no page.

### Behaviour the properties leave out

Met while modelling; the code does not prevent it and no document promises
otherwise, so the properties are stated around it.

- A clear flags a request that waits for a delivery, and the transaction that
  settles the delivery meanwhile does not see the uncommitted flag: the request
  stays stored until the endpoint's next capture (`CaptureSweepsStranded`). Two
  results of one request recorded at once leave the pruning to it in the same way.
- A trim deletes the endpoint it chose although a capture has made it the most
  active one meanwhile, and publishes nothing: its streams stay open, which
  `LostAccessEnds` leaves out (`"trimmed"`).
- A stream that has read its access before a deletion and subscribes after its
  event is not told (`overtaken`).
- A catch-up of the CLI that cannot read a page is not tried again until the
  stream drops once more; a request received before the first `ready` and stored
  after it counts as history.
- A request whose id the CLI's set has forgotten, while it waits or is still listed,
  is delivered again (`RepeatsAreApart` bounds how soon).
- A script that Redis never answers keeps its caller waiting: only connection
  attempts have a timeout.
- A clear's answer empties the list although another endpoint may be active. The
  answer of a replay and a streamed request do not compare the list's version, and
  neither does the list of a replacement: these may bring back what was cleared
  (`ClearedStaysCleared` names them). A stream subscribed for the previous endpoint
  may add a request of it (`AnswersKeepToTheirEndpoint` is about answers).
- A clear that arrives during a search takes the search's version away, and with it
  the only call that would lower `isLoading` (`OnlyClearStrandsLoading`).
- A list of targets that was asked for while a deletion was on its way may put the
  deleted target back (`DeletedStaysHidden`).

`KeepsLatestRequests` is checked and proved for an endpoint on which no clear
runs: a clear that commits between a retention DELETE and its commit takes the
newer rows away.

## 5. Proofs

| Module | Theorems |
| --- | --- |
| `EndpointStoreProofs` | `TypeCorrect`, `StoreInvariant`, `NoPendingIsDoomed`, `DeletedTargetsAreQuiet`, `PendingEndsOnlyWhenClosed`, `ResultsNeverChange`, `ClearsAreComplete`, `CapturesSweepStranded`, `LatestRequestsAreKept`, `StoreImplementsLifecycle` |
| `ForwardingJobsProofs` | `JobsTypeCorrect`, `JobsInvariant`, `CompletedJobsAreSettled`, `GivenUpJobsAreSettled`, `PendingIsInHand`, `JobsImplementLifecycle` |
| `EndpointIdentityProofs` | `IdentityTypeCorrect`, `IdentityInvariant`, `CapAlwaysHolds`, `OwnIsSaved` |
| `CliForwardProofs` | `ForwarderInvariant`, `TypeCorrect`, `HistoryStaysSkipped`, `NothingFallsThrough`, `RepeatsStayApart` |
| `BrowserSessionProofs` | `CallsKeepTheirShape`, `LoadingIsEnded`, `SessionInvariant`, `TypeCorrect`, `SearchIsKept`, `ClearedRequestsStayAway`, `AnswersAreOfTheActiveEndpoint` |
| `ForwardTargetsProofs` | `TypeCorrect`, `RowsAreValid`, `DeletedTargetsStayHidden` |
| `EventStreamProofs` | `TypeCorrect`, `StreamsWithinLimit`, `LostAccessIsAnnounced` |
| `RateLimitStoreProofs` | `TypeCorrect`, `OneConnection`, `AttemptsOutsideBackOff`, `FailuresCountOnce`, `SharedAttempt` |

Every invariant and action property a run checks is stated by one of them.
All hold for every value of the constants that satisfies the modules' assumptions
(`StoreAssumption`, `JobsAssumption`, `IdentityAssumption`, `NoneIsNoTx`,
`TargetAssumption`, `StreamAssumption`, `SessionAssumption`, `CliAssumption`).
One has a hypothesis of its own: `LatestRequestsAreKept` is about behaviours in
which no clear has begun.

*The store.* The properties are not inductive: whether a doomed request may
become pending again depends on who can still write its deliveries. The
invariant says what each open transaction holds. Deliveries written by it are
locked by it alone; a new pending delivery is written only by the capture of its
own request, which no other transaction can see; a doomed request is pending
only in deliveries of its own transaction; and while the endpoint row is locked
no target is removed, so an uncommitted pending delivery has a live target.

*Retention.* What a DELETE has matched must still be beyond the newest rows when
its transaction commits, although others have committed in between. The invariant
(`ExcessStays`) says so of every open transaction, counting the row it inserts
itself. It rests on two facts about `Newest`: a row that is not among the newest of
some rows is not among the newest of more (`NewestOfMore`), and deleting others
leaves the newest as they are, since the last of the others has `MaxRequests`
newer rows after it (`NewestOfFewer`). Rows are finitely many because each commit
adds one at most, so nothing is assumed of `Request` but an order.
`CapturesSweepStranded` needs only that a capture writes no delivery but its own.

*The refinement.* Only commits, target switches and the endpoint's deletion
change the committed tables; each is shown to be one step of `DeliveryLifecycle`
and every other statement a stutter.

*The jobs.* That a completed job leaves nothing pending needs the handlers' own
knowledge in the invariant: a handler past its record has settled its delivery
unless the destination refused an attempt that was not the last
(`HandlersKeepPromise`), and what it remembers of that attempt agrees with the
retry count it was fetched with (`HandledAsFetched`). A capture creates jobs
that nobody handles yet (`AbsentIsClean`), and a removed target or endpoint
stays without pending deliveries (`WithdrawnIsQuiet`), so the worker's own
"cancelled" never meets a pending delivery and every step is one of
`DeliveryLifecycle` or a stutter.

*The identities.* The cap is not inductive: a commit adds an endpoint, and what
makes room for it was chosen in an earlier step. The invariant says that an open
creation or save past its first lock holds the identity it adds to
(`HoldsIdentity`), so no other transaction adds to it; that what its trim leaves
is smaller than the cap (`TrimLeavesRoom`), which stays true because others only
take endpoints away; and that the rows it holds keep their owner (`MovedIsOwn`,
`DoomedIsOwn`); a save that has read its row (`"checked"`) knows nothing more until
its UPDATE. Steps are grouped by what they write: a call begins, a lock or a
row is taken, a trim starts or passes over a row, a transaction ends, commits, or
an endpoint is deleted; one lemma each.

*The forwarder.* The invariant has one part for each thing that connects stream
and pages. On its way are a first "ready" and requests published since the history
was fixed (`ChannelInv`). A client that has not finished with its first "ready" has
delivered nothing, and that "ready" is what it reads next (`NewcomerInv`); from then on
its cutoff is the time of the history (`CutoffInv`), so neither an event nor a page
offers a request of the history (`HistoryInv`). While connected, each request that is
stored, published and no history is covered: delivered, waiting, or on its way; and
during a catch-up so is each one that no page still to be read can show (`GapInv`),
which is why an idle client has missed nothing. `PoolInv` says what was delivered since
the last delivery of a request (`since`): as long as the set holds its id, the ids
behind it in the set; afterwards as many as the set holds, or more. An id leaves the
set only when the set is full of ids behind it, and what the set holds is not
delivered. `Handle`
queues new requests in ascending order, whatever the set: `Ascending` chooses the
increasing sequence of a set, which exists because the rank of a request among a
finite set of them is a bijection.

*The connection.* That only the current client is open follows from what the store
knows of its pending attempt: the pending client is the current one and connecting
(`PendingIsCurrent`), a connecting client is the pending one
(`ConnectingIsPending`), and nobody evaluates on a client that is still connecting
(`NoScriptBeforeReady`), so no late answer or error can retire or count against it.
A current client that has closed has been counted (`ClosedIsCounted`), which is why
the report that counts is the one that finds it open (`FailuresCountOnce`).
No back-off runs while a client is pending, since only the failure of a current
client sets one.

*The targets.* A save validates in one step and writes in another. Between them
it holds its endpoint's row (`Locked`): no other save of the endpoint has
validated, its endpoint stays, and what it has validated is still valid when it
writes. `CallsFit` gives the shape of a change for each kind of call. For the
page's list, `HiddenInv` says that a load which may still replace it was either
asked for while the deletion was on its way (`beside`) or carries nothing of a
target the page was told is deleted, whose row stays deleted (`ToldIsGone`).

*The streams.* The number of leases that run is not inductive, since an expired
lease may run again: a renewal renews what is still stored. The invariant counts
stored leases, run out or not (`StoredWithin`); an acquisition sweeps the expired
ones before it counts. An open stream whose renewals did not fail twice in a row
still has running leases (`Fresh`), which bounds the streams. `LostAccessIsAnnounced`
is the safety side of `LostAccessEnds`: who goes on without access has an event to
come, or was overtaken by it.

*The page.* `OnlyClearStrandsLoading` needs no invariant beside the shape of the
calls (`Shape`): a step that raises `isLoading` begins a call that lowers it, and
one that ends such a call, or changes the active endpoint under it, lowers
`isLoading` or begins another. What the list shows needs more (`SessionInv`): a
page that is on its way matches the search and the endpoint of its call
(`GoodCalls`); while the call is fresh that search is still the one in force, and
the page has nothing the session was told is cleared; a clear's event names only
requests that are no longer stored (`GoodEvents`). The list is a set in the model, and
in which order the page shows it is left out.

Left to TLC: liveness (`DeliveriesSettle`, `ListedIsDelivered`, `ComesToRest`,
`Recovers`, `LeasesRunOut`, `LostAccessEnds`), since fairness and ENABLED
are beyond TLAPS, and the two violations, which are counterexamples.
`PendingIsInHand`, `NothingFallsThrough` and `LostAccessIsAnnounced` are the safety
that `DeliveriesSettle`, `ListedIsDelivered` and `LostAccessEnds` rest on. That a
request is not delivered a second time after the id set has forgotten it is no
property of the code, and the order of the page's list is covered by none.

## 6. Not modelled

The components with status `not_modelled` or `partly` in `PROJECT.json`:

- The token bucket is one Lua script on one key, evaluated atomically: a function
  of the clock and the stored time. Admission of captures, replays and creations
  chains such buckets and keeps no state of its own.
- Request search, response overrides, formatters and the delivery transport's
  address checks are pure functions over text. Their results are inputs here.
- Of the browser session: restoring from local storage, the account's lists, names,
  statistics and overrides. They share no state with the request list but the
  active endpoint.
- Authentication, e-mail, admin reports, the remaining commands of the CLI,
  presentation, documentation, migrations and deployment: libraries, queries
  without effect, or I/O.
