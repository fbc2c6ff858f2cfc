---------------------------- MODULE EventStream ----------------------------
(***************************************************************************)
(* The server's side of live event streams: the leases a stream takes and  *)
(* keeps (admission-control.ts, rate-limits/connection-leases.ts and its   *)
(* scripts), the access check of events/route.ts, the subscription to the  *)
(* process's events (endpoint-event-stream.ts) and the commits after which *)
(* an endpoint's deletion or the loss of access to it is published.        *)
(*                                                                         *)
(* A stream takes one lease per scope, in the order of the scopes (its     *)
(* endpoint, its client, the service), and holds the first held[s] of      *)
(* them.  Time passes in ticks: a lease runs LeaseTicks, an open           *)
(* stream renews its leases every HeartbeatTicks.  A call of the lease     *)
(* store can fail, with its script executed or not; of calls sent together *)
(* on the shared connection the first ones are executed, and of these the  *)
(* first ones answered.  What requests and clears send on a stream is in   *)
(* CliForward and BrowserSession.                                          *)
(***************************************************************************)
EXTENDS Integers, FiniteSets

CONSTANTS
  Stream,        \* bound: streams, opening or open, at a time
  Endpoint,
  EndpointOf,    \* of each stream
  Scopes,        \* the number of leases a stream takes
  KeyOf,         \* of each stream and scope: the key its lease is kept under
  Owner,         \* streams of the user to whom their endpoint would be saved
  Limit,         \* of each scope: the leases that one key may have
  LeaseTicks, HeartbeatTicks

Scope == 1..Scopes

ASSUME StreamAssumption ==
  /\ IsFiniteSet(Stream)
  /\ EndpointOf \in [Stream -> Endpoint]
  /\ Owner \in SUBSET Stream
  /\ Scopes \in Nat \ {0}
  /\ Limit \in [Scope -> Nat \ {0}]
  /\ HeartbeatTicks \in Nat \ {0} /\ LeaseTicks \in Nat
  /\ LeaseTicks > 2 * HeartbeatTicks   \* leaseSeconds and HEARTBEAT_INTERVAL_MS

VARIABLES
  phase,      \* of each stream
  lease,      \* Redis: of each stream and scope, the ticks left
  held,       \* the number of acquiredLeases of each stream
  timer,      \* ticks since the last heartbeat of an open stream
  misses,     \* history: heartbeats in a row that failed, or ticks spent opening
  access,     \* database: who may see an endpoint
  unpublished,\* events of committed transactions that are still to be published
  overtaken   \* history: streams that read their access before an event and subscribe after it

streamVars == <<phase, lease, held, timer, misses>>
vars == <<streamVars, access, unpublished, overtaken>>

OpeningPhase == {"acquiring", "access", "read"}
Absent == -1   \* 0 is an expired lease that no acquisition has swept away

Event == {"deleted", "access-revoked"} \X Endpoint

TypeOK ==
  /\ phase \in [Stream -> OpeningPhase \cup {"open", "releasing", "closed"}]
  /\ lease \in [Stream -> [Scope -> Absent..LeaseTicks]]
  /\ held \in [Stream -> 0..Scopes]
  /\ timer \in [Stream -> 0..HeartbeatTicks]
  /\ misses \in [Stream -> 0..2]
  /\ access \in [Endpoint -> {"everyone", "owner", "nobody", "trimmed"}]
  /\ unpublished \in SUBSET Event
  /\ overtaken \in SUBSET Stream
  /\ \A s \in Stream : phase[s] \in {"access", "read", "open"} => held[s] = Scopes

Init ==
  /\ phase = [s \in Stream |-> "closed"]
  /\ lease = [s \in Stream |-> [k \in Scope |-> Absent]]
  /\ held = [s \in Stream |-> 0]
  /\ timer = [s \in Stream |-> 0]
  /\ misses = [s \in Stream |-> 0]
  /\ access = [e \in Endpoint |-> "everyone"]
  /\ unpublished = {} /\ overtaken = {}

-----------------------------------------------------------------------------
(* The lease store. *)

\* Streams whose lease of the scope is kept under the same key.
Sharing(s, k) == {t \in Stream : KeyOf[t][k] = KeyOf[s][k]}

Runs(t, k) == lease[t][k] > 0
Running(s, k) == {t \in Sharing(s, k) : Runs(t, k)}

\* ZREMRANGEBYSCORE up to now.
Swept(s, k) ==
  [t \in Stream |-> [lease[t] EXCEPT ![k] = IF t \in Sharing(s, k) /\ @ = 0 THEN Absent ELSE @]]

HasCapacity(s, k) == Cardinality(Running(s, k)) < Limit[k]

RenewedMutant(ticks) == ticks   \* the lease is stored with the time it had
\* A lease that has been swept away is not renewed.
Renewed(ticks) == IF ticks = Absent THEN Absent ELSE LeaseTicks

-----------------------------------------------------------------------------
(* A request for a stream. *)

\* acquireEndpointEventStreamAdmission begins.  Bound: a stream is used again
\* when no lease of it runs.
Start(s) ==
  /\ phase[s] = "closed" /\ \A k \in Scope : ~Runs(s, k)
  /\ phase' = [phase EXCEPT ![s] = "acquiring"]
  /\ UNCHANGED <<lease, held, timer, misses, access, unpublished, overtaken>>

NextScope(s) == held[s] + 1

AcquireMutant(s) ==   \* the first lease is taken for all of them
  /\ phase[s] = "acquiring" /\ HasCapacity(s, NextScope(s))
  /\ lease' = [Swept(s, NextScope(s)) EXCEPT ![s][NextScope(s)] = LeaseTicks]
  /\ held' = [held EXCEPT ![s] = @ + 1]
  /\ phase' = [phase EXCEPT ![s] = "access"]
  /\ UNCHANGED <<timer, misses, access, unpublished, overtaken>>

\* The acquire script and its answer.
Acquire(s) ==
  /\ phase[s] = "acquiring" /\ HasCapacity(s, NextScope(s))
  /\ lease' = [Swept(s, NextScope(s)) EXCEPT ![s][NextScope(s)] = LeaseTicks]
  /\ held' = [held EXCEPT ![s] = @ + 1]
  /\ phase' = [phase EXCEPT ![s] = IF held'[s] = Scopes THEN "access" ELSE @]
  /\ UNCHANGED <<timer, misses, access, unpublished, overtaken>>

\* The script finds no capacity, or the call fails: a lease that its script has
\* stored all the same is of nobody.
AcquireFails(s) ==
  /\ phase[s] = "acquiring"
  /\ \/ lease' = lease
     \/ lease' = Swept(s, NextScope(s))
     \/ /\ HasCapacity(s, NextScope(s))
        /\ lease' = [Swept(s, NextScope(s)) EXCEPT ![s][NextScope(s)] = LeaseTicks]
  /\ phase' = [phase EXCEPT ![s] = "releasing"]
  /\ UNCHANGED <<held, timer, misses, access, unpublished, overtaken>>

MayAccess(s) ==
  \/ access[EndpointOf[s]] = "everyone"
  \/ access[EndpointOf[s]] = "owner" /\ s \in Owner

\* assertEndpointAccessibleToActor: the row is read, or the check fails.
ReadAccess(s) ==
  /\ phase[s] = "access"
  /\ \/ MayAccess(s) /\ phase' = [phase EXCEPT ![s] = "read"]
     \/ phase' = [phase EXCEPT ![s] = "releasing"]
  /\ UNCHANGED <<lease, held, timer, misses, access, unpublished, overtaken>>

\* The answer has come: openEndpointEventStream subscribes.
Subscribe(s) ==
  /\ phase[s] = "read"
  /\ phase' = [phase EXCEPT ![s] = "open"]
  /\ UNCHANGED <<lease, held, timer, misses, access, unpublished, overtaken>>

BeatingMutant ==   \* the interval is not cleared by cleanup
  {s \in Stream : phase[s] \in {"open", "closed"}}
Beating == {s \in Stream : phase[s] = "open"}

\* The heartbeat: every lease is renewed.  What failed may have been executed.
Heartbeat(s) ==
  /\ s \in Beating /\ timer[s] = HeartbeatTicks
  /\ timer' = [timer EXCEPT ![s] = 0]
  /\ \E done \in 0..Scopes, failed \in BOOLEAN :
       /\ done = Scopes \/ failed
       /\ lease' = [lease EXCEPT ![s] = [k \in Scope |->
                      IF k <= done THEN Renewed(@[k]) ELSE @[k]]]
       /\ misses' = [misses EXCEPT ![s] = IF @ = 2 THEN 2 ELSE IF failed THEN @ + 1 ELSE 0]
  /\ UNCHANGED <<phase, held, access, unpublished, overtaken>>

\* cleanup of the streams in ss.
Cleaned(ss) == [s \in Stream |-> IF s \in ss THEN "releasing" ELSE phase[s]]

\* The client aborts or cancels, or an enqueue fails.
Close(s) ==
  /\ phase[s] = "open"
  /\ phase' = Cleaned({s})
  /\ UNCHANGED <<lease, held, timer, misses, access, unpublished, overtaken>>

\* releaseLeases: the failures are not seen.
Release(s) ==
  /\ phase[s] = "releasing"
  /\ \E done \in 0..held[s] :
       lease' = [lease EXCEPT ![s] = [k \in Scope |-> IF k <= done THEN Absent ELSE @[k]]]
  /\ phase' = [phase EXCEPT ![s] = "closed"]
  /\ held' = [held EXCEPT ![s] = 0]
  /\ timer' = [timer EXCEPT ![s] = 0]
  /\ misses' = [misses EXCEPT ![s] = 0]
  /\ overtaken' = overtaken \ {s}
  /\ UNCHANGED <<access, unpublished>>

-----------------------------------------------------------------------------
(* The transactions that take access away, and their events. *)

Commits(e, new, events) ==
  /\ access' = [access EXCEPT ![e] = new]
  /\ unpublished' = unpublished \cup events
  /\ UNCHANGED <<streamVars, overtaken>>

\* saveEndpointToAccount, also of an endpoint that the account has already.
SaveToAccount(e) ==
  access[e] \in {"everyone", "owner"} /\ Commits(e, "owner", {<<"access-revoked", e>>})

\* deleteEndpointForActor.
DeleteEndpoint(e) ==
  access[e] \in {"everyone", "owner"} /\ Commits(e, "nobody", {<<"deleted", e>>})

\* trimEndpointIdentity: deleted with nothing published.
TrimEndpoint(e) ==
  access[e] \in {"everyone", "owner"} /\ Commits(e, "trimmed", {})

Subscribed(e) == {s \in Stream : phase[s] = "open" /\ EndpointOf[s] = e}

EndedByMutant(event) ==   \* access-revoked is sent to the clients, no more
  IF event[1] = "deleted" THEN Subscribed(event[2]) ELSE {}
\* onDelete, onAccessRevoked.
EndedBy(event) == Subscribed(event[2])

\* publishEndpointDeleted, publishEndpointAccessRevoked.
Publish(event) ==
  /\ event \in unpublished
  /\ unpublished' = unpublished \ {event}
  /\ phase' = Cleaned(EndedBy(event))
  /\ overtaken' = overtaken \cup {s \in Stream : phase[s] = "read" /\ EndpointOf[s] = event[2]}
  /\ UNCHANGED <<lease, held, timer, misses, access>>

-----------------------------------------------------------------------------
(* Time.  A heartbeat that is due comes first. *)

Tick ==
  /\ \A s \in Beating : timer[s] < HeartbeatTicks
  /\ lease' = [s \in Stream |-> [k \in Scope |->
                 IF Runs(s, k) THEN lease[s][k] - 1 ELSE lease[s][k]]]
  /\ timer' = [s \in Stream |-> IF s \in Beating THEN timer[s] + 1 ELSE timer[s]]
  /\ misses' = [s \in Stream |->
                  IF phase[s] \in OpeningPhase /\ misses[s] < 2 THEN misses[s] + 1 ELSE misses[s]]
  /\ UNCHANGED <<phase, held, access, unpublished, overtaken>>

Opening(s) == Start(s) \/ Acquire(s) \/ AcquireFails(s) \/ ReadAccess(s) \/ Subscribe(s)
Ending(s) == Close(s) \/ Release(s)
Losing(e) == SaveToAccount(e) \/ DeleteEndpoint(e) \/ TrimEndpoint(e)

Next ==
  \/ \E s \in Stream : Opening(s) \/ Heartbeat(s) \/ Ending(s)
  \/ \E e \in Endpoint : Losing(e)
  \/ \E event \in Event : Publish(event)
  \/ Tick

Spec == Init /\ [][Next]_vars

\* Time passes, timers fire on time and a committed route handler goes on.
Fairness ==
  /\ WF_vars(Tick)
  /\ \A s \in Stream : WF_vars(Heartbeat(s))
  /\ \A event \in Event : WF_vars(Publish(event))

FairSpec == Spec /\ Fairness

-----------------------------------------------------------------------------
(* Properties. *)

\* policies.ts: "Concurrent limit: 3; stale leases expire after 60 seconds."  No
\* key has more leases that run than its limit, and neither more open streams, the
\* ones left out whose lease the store has not been asked in time to renew: two
\* renewals in a row failed, or opening took as long.
WithinLimit ==
  \A s \in Stream, k \in Scope :
    /\ Cardinality(Running(s, k)) <= Limit[k]
    /\ Cardinality({t \in Sharing(s, k) : phase[t] = "open" /\ misses[t] < 2}) <= Limit[k]

\* Whatever calls of the store failed on the way (a denial or an error after some
\* leases were acquired, an acquisition whose answer was lost, releases that did
\* not arrive, renewals under way), the leases of a stream that is over stop
\* counting against its endpoint, its client and the service.
LeasesRunOut ==
  \A s \in Stream :
    phase[s] \in {"releasing", "closed"} ~> \A k \in Scope : ~Runs(s, k)

\* A stream whose actor has lost access by a deletion or by a save to another
\* account is closed in the end, whether it was open at the commit, was opened
\* between commit and event, or is about to be: all but one that had read its
\* access before the commit and had not subscribed at the event.
LostAccessEnds ==
  \A s \in Stream :
    (/\ phase[s] = "open" /\ s \notin overtaken
     /\ ~MayAccess(s) /\ access[EndpointOf[s]] # "trimmed") ~> phase[s] # "open"
=============================================================================
