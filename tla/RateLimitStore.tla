--------------------------- MODULE RateLimitStore ---------------------------
(***************************************************************************)
(* The connection that every rate limit and lease of a process shares      *)
(* (rate-limits/store.ts): callers evaluate scripts on one Redis client,   *)
(* wait for the same pending connection, and are refused at once during    *)
(* the back-off that follows a failure.  A client is never reconnected: a  *)
(* failed one is retired and the next call outside the back-off makes      *)
(* another.                                                                *)
(*                                                                         *)
(* A client object is in use again here only when nothing refers to it, so *)
(* that an object stands for its generation.  Time passes in ticks of      *)
(* REDIS_RETRY_BASE_DELAY_MS; `backOff` is what is left until retryAtMs.   *)
(* The code between two awaits runs at once.  What Redis does with a       *)
(* script, and the log, are left out.                                      *)
(***************************************************************************)
EXTENDS Integers

CONSTANTS
  Client,       \* bound: client objects that are referred to at a time
  Caller,       \* bound: calls of eval at a time
  NoClient,
  MaxDelay,     \* REDIS_RETRY_MAX_DELAY_MS, in ticks
  MaxFailures   \* failureCount from which on the delay stays at its maximum

ASSUME StoreAssumption ==
  /\ NoClient \notin Client
  /\ MaxDelay \in Nat \ {0} /\ MaxFailures \in Nat \ {0}
  /\ MaxDelay <= 2 ^ (MaxFailures - 1)
  /\ \A f \in 1..MaxFailures : 2 ^ (f - 1) \in Nat   \* a fact that provers lack

VARIABLES
  client,            \* the current client
  socket,            \* of each client: "closed", "connecting" or "ready"
  connection,        \* the client whose connection is pending
  failureCount,      \* counted up to MaxFailures
  failedGeneration,  \* the client whose failure has been counted last
  backOff,
  caller             \* of each caller: what it awaits, and on which client

storeVars == <<client, connection, failureCount, failedGeneration, backOff>>
vars == <<storeVars, socket, caller>>

Waiting(c) == [awaits |-> "connection", on |-> c]
Evaluating(c) == [awaits |-> "script", on |-> c]
Answered == [awaits |-> "nothing", on |-> NoClient]
Refused == [awaits |-> "refused", on |-> NoClient]
Idle(k) == caller[k] \in {Answered, Refused}
Awaits(k, what) == caller[k].awaits = what
CallerState == [awaits : {"connection", "script"}, on : Client] \cup {Answered, Refused}

TypeOK ==
  /\ client \in Client \cup {NoClient}
  /\ socket \in [Client -> {"closed", "connecting", "ready"}]
  /\ connection \in Client \cup {NoClient}
  /\ failureCount \in 0..MaxFailures
  /\ failedGeneration \in Client \cup {NoClient}
  /\ backOff \in 0..MaxDelay
  /\ caller \in [Caller -> CallerState]

Init ==
  /\ client = NoClient /\ connection = NoClient
  /\ socket = [c \in Client |-> "closed"]
  /\ failureCount = 0 /\ failedGeneration = NoClient /\ backOff = 0
  /\ caller = [k \in Caller |-> Answered]

-----------------------------------------------------------------------------
AtMost(n, bound) == IF n > bound THEN bound ELSE n

DelayMutant(failure, jitter) == AtMost(2 ^ (failure - 1), MaxDelay) + jitter
\* calculateRetryDelayMs; a jitter below one tick is rounded to none or one.
Delay(failure, jitter) == AtMost(AtMost(2 ^ (failure - 1), MaxDelay) + jitter, MaxDelay)

RecordFailureMutant(c) ==   \* a retired client's failure counts too
  /\ failureCount' = AtMost(failureCount + 1, MaxFailures)
  /\ failedGeneration' = c
  /\ \E jitter \in 0..1 : backOff' = Delay(failureCount', jitter)

EachReportCounts(c) ==   \* a mutant: failedGeneration is not compared
  IF client = c
  THEN /\ failureCount' = AtMost(failureCount + 1, MaxFailures)
       /\ failedGeneration' = c
       /\ \E jitter \in 0..1 : backOff' = Delay(failureCount', jitter)
  ELSE UNCHANGED <<failureCount, failedGeneration, backOff>>

\* Only the current client counts, and each client once.
RecordFailure(c) ==
  IF client = c /\ failedGeneration # c
  THEN /\ failureCount' = AtMost(failureCount + 1, MaxFailures)
       /\ failedGeneration' = c
       /\ \E jitter \in 0..1 : backOff' = Delay(failureCount', jitter)
  ELSE UNCHANGED <<failureCount, failedGeneration, backOff>>

RecordSuccess(c) ==
  IF client = c
  THEN failureCount' = 0 /\ failedGeneration' = NoClient /\ backOff' = 0
  ELSE UNCHANGED <<failureCount, failedGeneration, backOff>>

RetireClientMutant(c) ==   \* not destroyed
  /\ client' = IF client = c THEN NoClient ELSE client
  /\ UNCHANGED socket

\* destroy() also rejects what is in flight on the client.
RetireClient(c) ==
  /\ client' = IF client = c THEN NoClient ELSE client
  /\ socket' = [socket EXCEPT ![c] = "closed"]

\* Nothing refers to the object: its generation is over.
Unused(c) ==
  /\ c \notin {client, connection, failedGeneration}
  /\ \A k \in Caller : caller[k].on # c

\* getReadyClient when there is nothing to share: the current client, which is
\* not ready, is retired and another one starts to connect.
Connect(k) ==
  /\ connection = NoClient /\ backOff = 0
  /\ \E c \in Client :
       /\ Unused(c)
       /\ client' = c /\ connection' = c
       /\ socket' = [d \in Client |-> IF d = c THEN "connecting"
                                     ELSE IF d = client THEN "closed" ELSE socket[d]]
       /\ caller' = [caller EXCEPT ![k] = Waiting(c)]
  /\ UNCHANGED <<failureCount, failedGeneration, backOff>>

CurrentIsReady == client # NoClient /\ socket[client] = "ready"

\* eval, up to its first await.
CallEval(k) ==
  /\ Idle(k)
  /\ \/ /\ CurrentIsReady
        /\ caller' = [caller EXCEPT ![k] = Evaluating(client)]
        /\ UNCHANGED <<storeVars, socket>>
     \/ /\ ~CurrentIsReady /\ connection # NoClient
        /\ caller' = [caller EXCEPT ![k] = Waiting(connection)]
        /\ UNCHANGED <<storeVars, socket>>
     \/ ~CurrentIsReady /\ Connect(k)

RefuseMutant(k) ==   \* refused calls count as failures
  /\ Idle(k)
  /\ ~CurrentIsReady /\ connection = NoClient /\ backOff > 0
  /\ backOff' = Delay(failureCount, 0)
  /\ caller' = [caller EXCEPT ![k] = Refused]
  /\ UNCHANGED <<client, connection, failureCount, failedGeneration, socket>>

\* RateLimitStoreUnavailableError without an attempt.
Refuse(k) ==
  /\ Idle(k)
  /\ ~CurrentIsReady /\ connection = NoClient /\ backOff > 0
  /\ caller' = [caller EXCEPT ![k] = Refused]
  /\ UNCHANGED <<storeVars, socket>>

\* connectClient resolves: everybody who waits goes on to the script.
ConnectSucceeds ==
  /\ connection # NoClient
  /\ socket' = [socket EXCEPT ![connection] = "ready"]
  /\ caller' = [k \in Caller |-> IF caller[k] = Waiting(connection)
                                 THEN Evaluating(connection) ELSE caller[k]]
  /\ connection' = NoClient
  /\ UNCHANGED <<client, failureCount, failedGeneration, backOff>>

\* It rejects, or the client is not ready after all: everybody is refused.  The
\* client's error event counts the same failure.
ConnectFails ==
  /\ connection # NoClient
  /\ RecordFailure(connection) /\ RetireClient(connection)
  /\ caller' = [k \in Caller |-> IF caller[k] = Waiting(connection) THEN Refused ELSE caller[k]]
  /\ connection' = NoClient

\* The socket fails: the error event.  reconnectStrategy is false, so the client
\* closes; what was in flight is rejected in EvalRejected.
SocketError(c) ==
  /\ socket[c] = "ready"
  /\ socket' = [socket EXCEPT ![c] = "closed"]
  /\ RecordFailure(c)
  /\ UNCHANGED <<client, connection, caller>>

EvalSucceeds(k) ==
  /\ Awaits(k, "script") /\ socket[caller[k].on] = "ready"
  /\ RecordSuccess(caller[k].on)
  /\ caller' = [caller EXCEPT ![k] = Answered]
  /\ UNCHANGED <<client, connection, socket>>

\* An error of the script itself is thrown on and says nothing of the client.
EvalErrs(k) ==
  /\ Awaits(k, "script") /\ socket[caller[k].on] = "ready"
  /\ caller' = [caller EXCEPT ![k] = Answered]
  /\ UNCHANGED <<storeVars, socket>>

\* isRedisAvailabilityError: the client has closed, or Redis answers that it is
\* loading, busy or read-only.
EvalRejected(k) ==
  /\ Awaits(k, "script")
  /\ RecordFailure(caller[k].on) /\ RetireClient(caller[k].on)
  /\ caller' = [caller EXCEPT ![k] = Refused]
  /\ UNCHANGED connection

Tick ==
  /\ backOff > 0
  /\ backOff' = backOff - 1
  /\ UNCHANGED <<client, connection, failureCount, failedGeneration, socket, caller>>

EndOfConnect == ConnectSucceeds \/ ConnectFails
EndOfEval(k) == EvalSucceeds(k) \/ EvalErrs(k) \/ EvalRejected(k)

Next ==
  \/ EndOfConnect \/ Tick
  \/ \E c \in Client : SocketError(c)
  \/ \E k \in Caller : CallEval(k) \/ Refuse(k) \/ EndOfEval(k)

\* Time passes.  Only a connection attempt has a timeout; a script that Redis
\* never answers is waited for without end, so nothing is assumed of it.
Fairness == WF_vars(Tick)

Spec == Init /\ [][Next]_vars /\ Fairness

-----------------------------------------------------------------------------
(* Properties. *)

\* The process holds at most one connection: a client that is not the current
\* one is closed, whichever of its failures, of its callers and of a new call
\* came first.
OnlyCurrentIsOpen == \A c \in Client : socket[c] # "closed" => c = client

\* While an attempt to connect is pending no back-off runs: late failures of a
\* client that has been replaced neither delay the next calls nor count.
ConnectsOutsideBackOff == connection # NoClient => backOff = 0

\* Whoever waits for a connection waits for the one that is pending.
WaitersShare == \A k \in Caller : Awaits(k, "connection") => caller[k].on = connection

\* A failure is counted in the step in which it closes the current client, and
\* never again: the client's error event, the rejections of all its callers, in
\* whatever order and however late they arrive, make one failure and one back-off.
CountedOnce ==
  [][(failureCount' > failureCount \/ backOff' > backOff) =>
       /\ client # NoClient
       /\ socket[client] # "closed" /\ socket'[client] = "closed"]_vars

\* A failure of Redis, and not one that follows from an earlier one.
Failure ==
  \/ ConnectFails
  \/ \E c \in Client : SocketError(c)
  \/ \E k \in Caller : EvalRejected(k) /\ socket[caller[k].on] = "ready"

\* When Redis fails no more the back-off comes to an end, however many calls it
\* has refused and whatever was in flight when the last client failed.
Recovers == <>[][~Failure]_vars => <>[](backOff = 0)
=============================================================================
