----------------------------- MODULE CliForward -----------------------------
(***************************************************************************)
(* The command line forwarder (apps/cli, `whlol forward`) against the      *)
(* server it follows: the endpoint's event stream, which starts with a     *)
(* "ready" event and loses what is published while it is down, and the     *)
(* paged list of stored requests, which the client reads after every       *)
(* "ready" to catch up.                                                    *)
(*                                                                         *)
(* Requests are numbered by receivedAt.  The server stores a request some  *)
(* time after it has received it, in any order of these numbers, and       *)
(* publishes it after storing it.  A "ready" event carries its readyAt: a  *)
(* time after the requests received so far and not after the next one (two *)
(* of them within one millisecond are left out).                           *)
(*                                                                         *)
(* A delivery is one task of the client's pool: the attempts and back-off  *)
(* waits of deliverWithRetry, bounded by the timeout and maxRetries, are   *)
(* one stay in `active`.  A request the filter refuses is a task that ends *)
(* at once.  A failed connection attempt changes nothing but its counter   *)
(* and is left out.                                                        *)
(***************************************************************************)
EXTENDS Integers, Sequences, FiniteSets, SequencesExt, FiniteSetsExt

CONSTANTS
  LastRequest,   \* bound: requests received in a behaviour
  MaxWaiting,    \* bound: tasks that may wait when the client reconnects
  MaxRequests,   \* MAX_REQUESTS_PER_ENDPOINT, the server's retention
  PageSize,      \* PAGE_SIZE of a catch-up
  MaxPages,      \* BACKFILL_MAX_PAGES
  History,       \* DELIVERED_HISTORY, capacity of the set of delivered ids
  Concurrency    \* CONCURRENCY of the task pool

Request == 1..LastRequest

ASSUME CliAssumption ==
  /\ {LastRequest, MaxWaiting} \subseteq Nat
  /\ {MaxRequests, PageSize, MaxPages, History, Concurrency} \subseteq Nat \ {0}

VARIABLES
  options,      \* skipHistory: endpointId given without --replay-existing; catchup
  clock,        \* server: number of requests received
  saved,        \* server: requests whose capture has committed
  rows,         \* server: requests in the list
  published,    \* server: requests published to the event streams
  deleted,      \* server: the endpoint has been deleted
  subscribed,   \* the server has this client's stream open
  channel,      \* events sent and not read yet
  phase,        \* where runForward is
  initialized,
  cutoff,       \* historicalCutoff; requests before it are skipped, 0 if null
  page,         \* fetchAllRequests: cursor, pages and collected
  delivered,    \* the BoundedSet, oldest first
  active,       \* tasks in the pool's active set, in the order of their start
  queued,       \* tasks that wait for a slot, in the order of their run()
  aborted,      \* the signal
  started,      \* history: requests of which a delivery has been started
  since,        \* history: of each, the others started after its last start
  old,          \* history: what the server had when the first "ready" was sent
  caughtUp      \* history: the last catch-up read the whole list

serverVars == <<clock, saved, rows, published, deleted>>
streamVars == <<subscribed, channel>>
loopVars == <<phase, initialized, cutoff, page, caughtUp>>
poolVars == <<delivered, active, queued, started, since>>
vars == <<options, serverVars, streamVars, loopVars, poolVars, aborted, old>>

Event == {"ready", "request"} \X (1..(LastRequest + 1))
NoPage == [cursor |-> LastRequest + 1, pages |-> 0, collected |-> {}]

TypeOK ==
  /\ options \in [skipHistory : BOOLEAN, catchup : BOOLEAN]
  /\ clock \in 0..LastRequest
  /\ saved \in SUBSET Request /\ rows \in SUBSET saved /\ published \in SUBSET saved
  /\ subscribed \in BOOLEAN /\ deleted \in BOOLEAN /\ aborted \in BOOLEAN
  /\ channel \in Seq(Event)
  /\ phase \in {"connect", "listen", "page", "stopped"}
  /\ initialized \in BOOLEAN /\ caughtUp \in BOOLEAN
  /\ cutoff \in 0..(LastRequest + 1)
  /\ page \in [cursor : 1..(LastRequest + 1), pages : 0..MaxPages,
               collected : SUBSET Request]
  /\ delivered \in Seq(Request) /\ Len(delivered) <= History
  /\ active \in Seq(Request) /\ Len(active) <= Concurrency
  /\ queued \in Seq(Request)
  /\ started \in SUBSET Request /\ since \in [Request -> SUBSET Request]
  /\ old \in [received : 0..LastRequest, published : SUBSET Request]

Init ==
  /\ options \in [skipHistory : BOOLEAN, catchup : BOOLEAN]
  /\ clock = 0 /\ saved = {} /\ rows = {} /\ published = {} /\ deleted = FALSE
  /\ subscribed = FALSE /\ channel = <<>>
  /\ phase = "connect" /\ initialized = FALSE /\ cutoff = 0
  /\ page = NoPage /\ caughtUp = FALSE
  /\ delivered = <<>> /\ active = <<>>
  /\ queued = <<>>
  /\ started = {} /\ since = [r \in Request |-> {}]
  /\ aborted = FALSE /\ old = [received |-> 0, published |-> {}]

-----------------------------------------------------------------------------
(* The server. *)

\* The first n requests of S by received_at desc.
Newest(S, n) == {r \in S : Cardinality({q \in S : q > r}) < n}

\* new Date() in saveCapturedRequest, before its transaction.
Receive ==
  /\ clock < LastRequest
  /\ clock' = clock + 1
  /\ UNCHANGED <<options, saved, rows, published, deleted, streamVars, loopVars,
                 poolVars, aborted, old>>

\* Its commit, with the retention of the newest requests.
Save(r) ==
  /\ r <= clock /\ r \notin saved /\ ~deleted
  /\ saved' = saved \cup {r}
  /\ rows' = Newest(rows \cup {r}, MaxRequests)
  /\ UNCHANGED <<options, clock, published, deleted, streamVars, loopVars,
                 poolVars, aborted, old>>

\* publishRequest: a stream that is not open misses it.
Publish(r) ==
  /\ r \in saved \ published
  /\ published' = published \cup {r}
  /\ channel' = IF subscribed THEN Append(channel, <<"request", r>>) ELSE channel
  /\ UNCHANGED <<options, clock, saved, rows, deleted, subscribed, loopVars,
                 poolVars, aborted, old>>

\* clearRequests; its event is only printed.
Clear ==
  /\ rows # {}
  /\ rows' = {}
  /\ UNCHANGED <<options, clock, saved, published, deleted, streamVars, loopVars,
                 poolVars, aborted, old>>

\* The endpoint and its rows go, and with them its open streams.
DeleteEndpoint ==
  /\ ~deleted
  /\ deleted' = TRUE /\ rows' = {} /\ subscribed' = FALSE
  /\ UNCHANGED <<options, clock, saved, published, channel, loopVars, poolVars,
                 aborted, old>>

\* The connection fails or the server closes it: what was sent arrives up to
\* some event.
Break ==
  /\ subscribed
  /\ subscribed' = FALSE
  /\ \E n \in 0..Len(channel) : channel' = SubSeq(channel, 1, n)
  /\ UNCHANGED <<options, serverVars, loopVars, poolVars, aborted, old>>

-----------------------------------------------------------------------------
(* The pool, the set of delivered ids, and handle. *)

RememberMutant(ids) ==   \* one is evicted as soon as the set is full
  SubSeq(ids, IF Len(ids) >= History THEN Len(ids) - History + 2 ELSE 1, Len(ids))

\* BoundedSet.add for each id in turn: beyond the capacity the oldest goes.
Remember(ids) ==
  SubSeq(ids, IF Len(ids) > History THEN Len(ids) - History + 1 ELSE 1, Len(ids))

FreeSlotsMutant == Concurrency - Len(active) + 1   \* <= limit for < limit
FreeSlots == Concurrency - Len(active)

\* The requests of S, oldest first.
Ascending(S) ==
  CHOOSE s \in [1..Cardinality(S) -> S] :
    \A i, j \in 1..Cardinality(S) : i < j => s[i] < s[j]

Fresh(S) == S \ ToSet(delivered)

\* handle is called for the requests of S, oldest first; up to its first await
\* it runs at once, so an id is checked and added in one step.  S is a single
\* request or what a catch-up has just found missing from the set: in either
\* case checking all of S first is checking each in its turn.
Handle(S) ==
  LET new == Fresh(S) IN
  /\ delivered' = Remember(delivered \o Ascending(new))
  /\ active' = active \o Ascending(new)
  /\ started' = started \cup new
  /\ since' = [r \in Request |-> IF r \in new THEN {q \in new : q > r}
                                ELSE IF r \in started THEN since[r] \cup new ELSE {}]

\* pool.run for each request of S, oldest first: tasks beyond the limit wait.
Run(S) ==
  LET first == {r \in S : Cardinality({q \in S : q < r}) < FreeSlots}
  IN /\ Handle(first)
     /\ queued' = queued \o Ascending(S \ first)

\* The first task that waits finds a free slot: every waiter wakes when a task
\* ends, in the order of their run(), though a new run() may come first.  The
\* pool does not ask whether the command has been interrupted or has returned.
StartQueued ==
  /\ queued # <<>>
  /\ FreeSlots > 0
  /\ queued' = Tail(queued)
  /\ Handle({Head(queued)})
  /\ UNCHANGED <<options, serverVars, streamVars, loopVars, aborted, old>>

FinishMutant(r) == r \in ToSet(active) /\ UNCHANGED vars   \* stays in the active set

\* deliverWithRetry returns: a response, the last failure or an abort.
Finish(r) ==
  /\ \E i \in 1..Len(active) : active[i] = r /\ active' = RemoveAt(active, i)
  /\ UNCHANGED <<options, serverVars, streamVars, loopVars, delivered, queued,
                 started, since, aborted, old>>

-----------------------------------------------------------------------------
(* streamEndpointEvents and the loop of runForward. *)

\* The response has arrived; the server has subscribed the stream and sent
\* "ready" in one step.  Each catch-up offers the tasks that wait once more, so
\* without the bound they could become any number.
Connect ==
  /\ phase = "connect" /\ ~aborted /\ ~deleted
  /\ Len(queued) <= MaxWaiting
  /\ subscribed' = TRUE
  /\ channel' = <<<<"ready", clock + 1>>>>
  /\ phase' = "listen"
  /\ old' = IF initialized THEN old
            ELSE [received |-> clock, published |-> published]
  /\ UNCHANGED <<options, serverVars, initialized, cutoff, page, caughtUp,
                 poolVars, aborted>>

CutoffMutant(readyAt) == IF options.skipHistory THEN readyAt ELSE cutoff

\* The cutoff is taken from the first "ready" only.
Cutoff(readyAt) ==
  IF ~initialized /\ options.skipHistory THEN readyAt ELSE cutoff

ReadReady ==
  /\ phase = "listen" /\ channel # <<>> /\ Head(channel)[1] = "ready"
  /\ channel' = Tail(channel)
  /\ cutoff' = Cutoff(Head(channel)[2])
  /\ \/ /\ options.catchup
        /\ phase' = "page" /\ page' = NoPage
        /\ UNCHANGED <<initialized, caughtUp>>
     \/ /\ ~options.catchup
        /\ initialized' = TRUE /\ caughtUp' = FALSE
        /\ UNCHANGED <<phase, page>>
  /\ UNCHANGED <<options, serverVars, subscribed, poolVars, aborted, old>>

\* Also after an interruption: events decoded from one chunk are all handled.
ReadRequest ==
  /\ phase = "listen" /\ channel # <<>> /\ Head(channel)[1] = "request"
  /\ channel' = Tail(channel)
  /\ Run({Head(channel)[2]})
  /\ UNCHANGED <<options, serverVars, subscribed, loopVars, aborted, old>>

SkippedMutant == ToSet(delivered)

\* Collected requests that the catch-up leaves out.
Skipped == ToSet(delivered) \cup {r \in Request : r < cutoff}

NextCursorMutant(found) == Min(found) - 1   \* the row the server peeked at
NextCursor(found) == Min(found)              \* the last row of the page

\* The list is read from the newest request on, a page at a time; the last
\* page ends the catch-up and queues what was missed.
FetchPage ==
  LET rest == {r \in rows : r < page.cursor}
      found == Newest(rest, PageSize)
      collected == page.collected \cup found
      more == rest # found
  IN
  /\ phase = "page" /\ ~aborted /\ ~deleted
  /\ \/ /\ more /\ page.pages + 1 < MaxPages
        /\ page' = [cursor |-> NextCursor(found), pages |-> page.pages + 1, collected |-> collected]
        /\ UNCHANGED <<phase, initialized, caughtUp, poolVars>>
     \/ /\ ~more \/ page.pages + 1 = MaxPages
        /\ phase' = "listen" /\ initialized' = TRUE
        /\ caughtUp' = ~more
        /\ page' = NoPage
        /\ Run(collected \ Skipped)
  /\ UNCHANGED <<options, serverVars, streamVars, cutoff, aborted, old>>

\* A page cannot be read: a warning, and the loop goes on without catch-up.
CatchUpFails ==
  /\ phase = "page"
  /\ phase' = "listen" /\ initialized' = TRUE
  /\ caughtUp' = FALSE
  /\ page' = NoPage
  /\ UNCHANGED <<options, serverVars, streamVars, cutoff, poolVars, aborted, old>>

\* The body has ended or failed: reconnect after a pause.
EndOfStream ==
  /\ phase = "listen" /\ ~subscribed /\ channel = <<>> /\ ~aborted
  /\ phase' = "connect"
  /\ UNCHANGED <<options, serverVars, streamVars, initialized, cutoff, page,
                 caughtUp, poolVars, aborted, old>>

\* 404: the loop throws; tasks go on until the process has nothing to do.
Fatal ==
  /\ phase = "connect" /\ ~aborted /\ deleted
  /\ phase' = "stopped"
  /\ UNCHANGED <<options, serverVars, streamVars, initialized, cutoff, page,
                 caughtUp, poolVars, aborted, old>>

\* SIGINT or SIGTERM.
Interrupt ==
  /\ ~aborted /\ phase # "stopped"
  /\ aborted' = TRUE
  /\ UNCHANGED <<options, serverVars, streamVars, loopVars, poolVars, old>>

\* The generator sees the aborted signal; the loop ends and the stream is dropped.
Stop ==
  /\ aborted /\ phase \in {"connect", "listen"}
  /\ phase' = "stopped"
  /\ subscribed' = FALSE /\ channel' = <<>>
  /\ UNCHANGED <<options, serverVars, initialized, cutoff, page, caughtUp,
                 poolVars, aborted, old>>

Loop == ReadReady \/ ReadRequest \/ FetchPage \/ CatchUpFails \/ EndOfStream \/ Stop

Next ==
  \/ Receive \/ Clear \/ DeleteEndpoint \/ Break
  \/ \E r \in Request : Save(r) \/ Publish(r) \/ Finish(r)
  \/ StartQueued
  \/ Connect \/ Fatal \/ Interrupt
  \/ Loop

\* The client's loop and its tasks proceed: reads return or fail, a page is
\* read or refused, a delivery ends by its timeout and its last retry.
Fairness ==
  /\ WF_vars(Loop)
  /\ WF_vars(StartQueued)
  /\ \A r \in Request : WF_vars(Finish(r))

Spec == Init /\ [][Next]_vars /\ Fairness

-----------------------------------------------------------------------------
(* Properties. *)

\* A task of r starts in this step.
Starts(r) == \E i \in (Len(active) + 1)..Len(active') : active'[i] = r

\* A request is delivered again only after History other requests have been
\* delivered since: whatever the stream, the tasks that wait and each catch-up
\* offer once more, the bounded set forgets an id no earlier than it must.
RepeatsAreApart ==
  [][\A r \in started : Starts(r) => Cardinality(since[r]) >= History]_vars

\* Attached to an existing endpoint without --replay-existing, the forwarder
\* delivers nothing that had been published before it first listened, neither
\* in its first catch-up nor in a later one.
HistoryIsSkipped == options.skipHistory => old.published \cap started = {}

\* The client listens, has read everything sent to it and has no task waiting.
Idle ==
  /\ phase = "listen" /\ subscribed /\ channel = <<>> /\ queued = <<>>

\* Requests received up to here are history to a forwarder that skips it.
Since == IF options.skipHistory THEN old.received ELSE 0

\* Idle after a catch-up that read the whole list, the forwarder has delivered
\* every listed request that is published, except its history: between the
\* stream and the pages nothing falls through, whichever connection was down
\* when it was published.
NothingIsMissed ==
  (Idle /\ caughtUp) => \A r \in rows \cap published : r > Since => r \in started

\* A published request that stays in the list of a connected, caught-up client
\* is delivered in the end.
ListedIsDelivered ==
  \A r \in Request :
    (initialized /\ r \in rows \cap published /\ r > Since)
      ~> \/ r \in started \/ r \notin rows
         \/ ~subscribed \/ ~caughtUp \/ aborted

\* After an interruption the command comes to rest: no task runs or waits.
ComesToRest ==
  aborted ~> (phase = "stopped" /\ active = <<>> /\ queued = <<>>)
=============================================================================
