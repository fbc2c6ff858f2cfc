------------------------ MODULE RateLimitStoreProofs ------------------------
(***************************************************************************)
(* Proofs about RateLimitStore, for any number of clients and callers and  *)
(* any delays.  The invariant says of the pending connection that it is    *)
(* the current client's, begun outside the back-off and not yet counted as *)
(* failed, and that nobody evaluates a script on it: a failure that comes  *)
(* late can then belong only to a client that is not current.  A current   *)
(* client that has closed has been counted: a failure that is counted is   *)
(* the one that closes it.                                                 *)
(***************************************************************************)
EXTENDS RateLimitStore, TLAPS

PendingIsCurrent ==
  connection # NoClient =>
    /\ client = connection /\ socket[connection] = "connecting"
    /\ backOff = 0 /\ failedGeneration # connection

ConnectingIsPending == \A c \in Client : socket[c] = "connecting" => c = connection

\* A caller that evaluates a script does so on a client that has been ready.
NoScriptBeforeReady ==
  \A k \in Caller : Awaits(k, "script") => caller[k].on # connection

ClosedIsCounted == client # NoClient /\ socket[client] = "closed" => failedGeneration = client

IInv ==
  /\ TypeOK
  /\ OnlyCurrentIsOpen /\ WaitersShare
  /\ PendingIsCurrent /\ ConnectingIsPending /\ NoScriptBeforeReady
  /\ ClosedIsCounted

LEMMA CallerStates ==
  ASSUME NEW k \in Caller, caller \in [Caller -> CallerState]
  PROVE  /\ caller[k].awaits \in {"connection", "script", "nothing", "refused"}
         /\ Awaits(k, "connection") => caller[k].on \in Client /\ caller[k] = Waiting(caller[k].on)
         /\ Awaits(k, "script") => caller[k].on \in Client
<1>1. CASE caller[k] \in [awaits : {"connection", "script"}, on : Client]
  <2>1. /\ caller[k].awaits \in {"connection", "script"} /\ caller[k].on \in Client
        /\ caller[k] = [awaits |-> caller[k].awaits, on |-> caller[k].on]
    BY <1>1
  <2>2. QED
    BY <2>1 DEF Awaits, Waiting
<1>2. CASE caller[k] \in {Answered, Refused}
  BY <1>2 DEF Awaits, Answered, Refused
<1>3. QED
  BY <1>1, <1>2 DEF CallerState

LEMMA DelayRange ==
  ASSUME NEW f \in 1..MaxFailures, NEW jitter \in 0..1
  PROVE  Delay(f, jitter) \in 0..MaxDelay
<1>1. 2 ^ (f - 1) \in Nat
  BY StoreAssumption
<1>2. DEFINE n == 2 ^ (f - 1)
<1>3. HIDE DEF n
<1>4. AtMost(n, MaxDelay) \in 0..MaxDelay
  BY <1>1, StoreAssumption DEF AtMost, n
<1>5. QED
  BY <1>4, StoreAssumption DEF Delay, AtMost, n

LEMMA InitIInv == Init => IInv
BY StoreAssumption DEF Init, IInv, TypeOK, CallerState, OnlyCurrentIsOpen, WaitersShare,
   PendingIsCurrent, ConnectingIsPending, NoScriptBeforeReady, ClosedIsCounted, Awaits, Answered

\* Recording a failure or a success keeps the types, and touches the back-off
\* only on behalf of the current client.
LEMMA RecordFailureEffects ==
  ASSUME TypeOK, NEW c \in Client, RecordFailure(c)
  PROVE  /\ failureCount' \in 0..MaxFailures
         /\ failedGeneration' \in Client \cup {NoClient}
         /\ backOff' \in 0..MaxDelay
         /\ client # c => UNCHANGED <<failureCount, failedGeneration, backOff>>
         /\ client = c => failedGeneration' = c
         /\ failedGeneration = c => UNCHANGED <<failureCount, failedGeneration, backOff>>
<1>1. CASE client = c /\ failedGeneration # c
  <2>1. failureCount' \in 1..MaxFailures
    BY <1>1, StoreAssumption DEF RecordFailure, AtMost, TypeOK
  <2>2. PICK jitter \in 0..1 : backOff' = Delay(failureCount', jitter)
    BY <1>1 DEF RecordFailure
  <2>3. backOff' \in 0..MaxDelay
    BY <2>1, <2>2, DelayRange
  <2>4. QED
    BY <1>1, <2>1, <2>3 DEF RecordFailure
<1>2. CASE ~(client = c /\ failedGeneration # c)
  BY <1>2 DEF RecordFailure, TypeOK
<1>3. QED
  BY <1>1, <1>2

LEMMA RecordSuccessEffects ==
  ASSUME TypeOK, NEW c \in Client, RecordSuccess(c)
  PROVE  /\ failureCount' \in 0..MaxFailures
         /\ failedGeneration' \in Client \cup {NoClient}
         /\ backOff' \in 0..MaxDelay
         /\ client # c => UNCHANGED <<failureCount, failedGeneration, backOff>>
BY StoreAssumption DEF RecordSuccess, TypeOK

-----------------------------------------------------------------------------
(* One lemma for each action. *)

LEMMA CallEvalStep ==
  ASSUME IInv, NEW k \in Caller, CallEval(k)
  PROVE  IInv'
<1> USE DEF IInv
<1>1. CASE CurrentIsReady /\ caller' = [caller EXCEPT ![k] = Evaluating(client)]
           /\ UNCHANGED <<storeVars, socket>>
  <2>1. client \in Client /\ client # connection
    BY <1>1, StoreAssumption DEF CurrentIsReady, TypeOK, PendingIsCurrent
  <2>2. TypeOK'
    BY <1>1, <2>1 DEF TypeOK, storeVars, CallerState, Evaluating
  <2>3. /\ Evaluating(client).awaits = "script" /\ Evaluating(client).on = client
    BY DEF Evaluating
  <2>4. \A j \in Caller : caller'[j] = IF j = k THEN Evaluating(client) ELSE caller[j]
    BY <1>1 DEF TypeOK
  <2>5. QED
    BY <1>1, <2>1, <2>2, <2>3, <2>4 DEF storeVars, OnlyCurrentIsOpen, WaitersShare,
       PendingIsCurrent, ConnectingIsPending, NoScriptBeforeReady, ClosedIsCounted, Awaits
<1>2. CASE connection # NoClient /\ caller' = [caller EXCEPT ![k] = Waiting(connection)]
           /\ UNCHANGED <<storeVars, socket>>
  <2>1. TypeOK'
    BY <1>2 DEF TypeOK, storeVars, CallerState, Waiting
  <2>2. /\ Waiting(connection).awaits = "connection" /\ Waiting(connection).on = connection
    BY DEF Waiting
  <2>3. \A j \in Caller : caller'[j] = IF j = k THEN Waiting(connection) ELSE caller[j]
    BY <1>2 DEF TypeOK
  <2>4. QED
    BY <1>2, <2>1, <2>2, <2>3 DEF storeVars, OnlyCurrentIsOpen, WaitersShare,
       PendingIsCurrent, ConnectingIsPending, NoScriptBeforeReady, ClosedIsCounted, Awaits
<1>3. CASE ~CurrentIsReady /\ Connect(k)
  <2>1. PICK c \in Client :
          /\ Unused(c)
          /\ client' = c /\ connection' = c
          /\ socket' = [d \in Client |-> IF d = c THEN "connecting"
                                         ELSE IF d = client THEN "closed" ELSE socket[d]]
          /\ caller' = [caller EXCEPT ![k] = Waiting(c)]
    BY <1>3 DEF Connect
  <2>2. /\ connection = NoClient /\ backOff = 0
        /\ UNCHANGED <<failureCount, failedGeneration, backOff>>
    BY <1>3 DEF Connect
  <2>3. TypeOK'
    BY <2>1, <2>2 DEF TypeOK, CallerState, Waiting
  <2>4. /\ Waiting(c).awaits = "connection" /\ Waiting(c).on = c
    BY DEF Waiting
  <2>5. \A j \in Caller : caller'[j] = IF j = k THEN Waiting(c) ELSE caller[j]
    BY <2>1 DEF TypeOK
  <2>6. \A j \in Caller : j # k => ~Awaits(j, "connection")
    BY <2>2, CallerStates, StoreAssumption DEF WaitersShare, TypeOK
  <2>7. WaitersShare' /\ NoScriptBeforeReady'
    BY <2>1, <2>4, <2>5, <2>6 DEF WaitersShare, NoScriptBeforeReady, Awaits, Unused
  <2>8. OnlyCurrentIsOpen' /\ ConnectingIsPending'
    BY <2>1, <2>2, StoreAssumption DEF OnlyCurrentIsOpen, ConnectingIsPending
  <2>9. PendingIsCurrent' /\ ClosedIsCounted'
    BY <2>1, <2>2 DEF PendingIsCurrent, ClosedIsCounted, Unused
  <2>10. QED
    BY <2>3, <2>7, <2>8, <2>9
<1>4. QED
  BY <1>1, <1>2, <1>3 DEF CallEval

\* A caller that is answered or refused, with nothing else changed but what a
\* failure or a success records, and a client that may have been closed.
LEMMA AnswerStep ==
  ASSUME IInv, NEW k \in Caller, NEW answer \in {Answered, Refused},
         caller' = [caller EXCEPT ![k] = answer], UNCHANGED connection,
         failureCount' \in 0..MaxFailures, failedGeneration' \in Client \cup {NoClient},
         backOff' \in 0..MaxDelay,
         connection # NoClient => UNCHANGED <<failedGeneration, backOff, client>>,
         client' = client \/ client' = NoClient,
         socket' \in [Client -> {"closed", "connecting", "ready"}],
         \A c \in Client : socket'[c] = socket[c]
                           \/ (socket'[c] = "closed" /\ c # connection),
         \A c \in Client : socket'[c] # "closed" => c = client',
         ClosedIsCounted'
  PROVE  IInv'
<1> USE DEF IInv
<1>1. TypeOK'
  BY DEF TypeOK, CallerState
<1>2. answer.awaits \notin {"connection", "script"}
  BY DEF Answered, Refused
<1>3. \A j \in Caller : caller'[j] = IF j = k THEN answer ELSE caller[j]
  BY DEF TypeOK
<1>4. WaitersShare' /\ NoScriptBeforeReady'
  BY <1>2, <1>3 DEF WaitersShare, NoScriptBeforeReady, Awaits
<1>5. OnlyCurrentIsOpen' /\ ConnectingIsPending'
  BY DEF OnlyCurrentIsOpen, ConnectingIsPending
<1>6. PendingIsCurrent'
  BY DEF PendingIsCurrent, TypeOK
<1>7. QED
  BY <1>1, <1>4, <1>5, <1>6

LEMMA RefuseStep ==
  ASSUME IInv, NEW k \in Caller, Refuse(k)
  PROVE  IInv'
BY AnswerStep DEF Refuse, IInv, TypeOK, storeVars, OnlyCurrentIsOpen, ClosedIsCounted

LEMMA EvalSucceedsStep ==
  ASSUME IInv, NEW k \in Caller, EvalSucceeds(k)
  PROVE  IInv'
<1>1. caller[k].on \in Client /\ caller[k].on # connection
  BY CallerStates DEF EvalSucceeds, IInv, TypeOK, NoScriptBeforeReady
<1>2. connection # NoClient => client # caller[k].on
  BY <1>1 DEF IInv, PendingIsCurrent
<1>3. ClosedIsCounted'
  <2>1. client = caller[k].on => socket[client] = "ready"
    BY DEF EvalSucceeds
  <2>2. UNCHANGED <<client, socket>>
        /\ (client # caller[k].on => UNCHANGED failedGeneration)
    BY <1>1, RecordSuccessEffects DEF EvalSucceeds, IInv
  <2>3. QED
    BY <2>1, <2>2 DEF IInv, ClosedIsCounted
<1>4. QED
  BY <1>1, <1>2, <1>3, RecordSuccessEffects, AnswerStep
     DEF EvalSucceeds, IInv, TypeOK, OnlyCurrentIsOpen

LEMMA EvalErrsStep ==
  ASSUME IInv, NEW k \in Caller, EvalErrs(k)
  PROVE  IInv'
BY AnswerStep DEF EvalErrs, IInv, TypeOK, storeVars, OnlyCurrentIsOpen, ClosedIsCounted

LEMMA EvalRejectedStep ==
  ASSUME IInv, NEW k \in Caller, EvalRejected(k)
  PROVE  IInv'
<1>1. caller[k].on \in Client /\ caller[k].on # connection
  BY CallerStates DEF EvalRejected, IInv, TypeOK, NoScriptBeforeReady
<1>2. connection # NoClient => client # caller[k].on
  BY <1>1 DEF IInv, PendingIsCurrent
<1>3. /\ client' = IF client = caller[k].on THEN NoClient ELSE client
      /\ socket' = [socket EXCEPT ![caller[k].on] = "closed"]
  BY DEF EvalRejected, RetireClient
<1>4. \A c \in Client : socket'[c] # "closed" => c = client'
  BY <1>3 DEF IInv, TypeOK, OnlyCurrentIsOpen
<1>5. \A c \in Client : socket'[c] = socket[c] \/ (socket'[c] = "closed" /\ c # connection)
  BY <1>1, <1>3 DEF IInv, TypeOK
<1>6. socket' \in [Client -> {"closed", "connecting", "ready"}]
  BY <1>3 DEF IInv, TypeOK
<1>7. RecordFailure(caller[k].on) /\ UNCHANGED connection
      /\ caller' = [caller EXCEPT ![k] = Refused]
  BY DEF EvalRejected
<1>8. /\ failureCount' \in 0..MaxFailures
      /\ failedGeneration' \in Client \cup {NoClient} /\ backOff' \in 0..MaxDelay
      /\ connection # NoClient => UNCHANGED <<failedGeneration, backOff, client>>
  BY <1>1, <1>2, <1>3, <1>7, RecordFailureEffects DEF IInv
<1>9. client' = client \/ client' = NoClient
  BY <1>3
<1>10. ClosedIsCounted'
  <2>1. client' # NoClient => client # caller[k].on /\ client' = client
                              /\ socket'[client] = socket[client]
    BY <1>1, <1>3 DEF IInv, TypeOK
  <2>2. client # caller[k].on => UNCHANGED failedGeneration
    BY <1>1, <1>7, RecordFailureEffects DEF IInv
  <2>3. QED
    BY <2>1, <2>2 DEF IInv, ClosedIsCounted
<1>11. QED
  BY <1>4, <1>5, <1>6, <1>7, <1>8, <1>9, <1>10, AnswerStep

LEMMA ConnectSucceedsStep ==
  ASSUME IInv, ConnectSucceeds
  PROVE  IInv'
<1> USE DEF IInv
<1>1. connection \in Client /\ client = connection /\ connection' = NoClient
  BY DEF ConnectSucceeds, TypeOK, PendingIsCurrent
<1>2. \A j \in Caller : caller'[j] = IF caller[j] = Waiting(connection)
                                     THEN Evaluating(connection) ELSE caller[j]
  BY DEF ConnectSucceeds
<1>3. TypeOK'
  BY <1>1 DEF ConnectSucceeds, TypeOK, CallerState, Evaluating
<1>4. Evaluating(connection).awaits = "script" /\ Evaluating(connection).on = connection
  BY DEF Evaluating
<1>5. \A j \in Caller : ~(Awaits(j, "connection")')
  <2> SUFFICES ASSUME NEW j \in Caller, caller'[j].awaits = "connection" PROVE FALSE
    BY DEF Awaits
  <2>1. caller'[j] = caller[j] /\ caller[j] # Waiting(connection)
    BY <1>2, <1>4
  <2>2. Awaits(j, "connection") /\ caller[j].on = connection
    BY <2>1 DEF Awaits, WaitersShare
  <2>3. QED
    BY <2>1, <2>2, CallerStates DEF TypeOK
<1>6. NoScriptBeforeReady'
  <2> SUFFICES ASSUME NEW j \in Caller, caller'[j].awaits = "script"
               PROVE  caller'[j].on \in Client
    BY <1>1, StoreAssumption DEF NoScriptBeforeReady, Awaits
  <2>1. QED
    BY <1>1, <1>2, <1>4, CallerStates DEF Awaits, TypeOK
<1>7. WaitersShare' /\ PendingIsCurrent'
  BY <1>1, <1>5 DEF WaitersShare, PendingIsCurrent
<1>8. OnlyCurrentIsOpen' /\ ConnectingIsPending'
  BY <1>1 DEF ConnectSucceeds, OnlyCurrentIsOpen, ConnectingIsPending, TypeOK
<1>9. ClosedIsCounted'
  BY <1>1 DEF ConnectSucceeds, ClosedIsCounted, TypeOK
<1>10. QED
  BY <1>3, <1>6, <1>7, <1>8, <1>9

LEMMA ConnectFailsStep ==
  ASSUME IInv, ConnectFails
  PROVE  IInv'
<1> USE DEF IInv
<1>1. connection \in Client /\ client = connection /\ connection' = NoClient
  BY DEF ConnectFails, TypeOK, PendingIsCurrent
<1>2. \A j \in Caller : caller'[j] = IF caller[j] = Waiting(connection)
                                     THEN Refused ELSE caller[j]
  BY DEF ConnectFails
<1>3. client' = NoClient /\ socket' = [socket EXCEPT ![connection] = "closed"]
  BY <1>1 DEF ConnectFails, RetireClient
<1>4. TypeOK'
  BY <1>1, <1>3, RecordFailureEffects DEF ConnectFails, TypeOK, CallerState
<1>5. Refused.awaits \notin {"connection", "script"}
  BY DEF Refused
<1>6. \A j \in Caller : ~(Awaits(j, "connection")')
  <2> SUFFICES ASSUME NEW j \in Caller, caller'[j].awaits = "connection" PROVE FALSE
    BY DEF Awaits
  <2>1. caller'[j] = caller[j] /\ caller[j] # Waiting(connection)
    BY <1>2, <1>5
  <2>2. Awaits(j, "connection") /\ caller[j].on = connection
    BY <2>1 DEF Awaits, WaitersShare
  <2>3. QED
    BY <2>1, <2>2, CallerStates DEF TypeOK
<1>7. NoScriptBeforeReady'
  <2> SUFFICES ASSUME NEW j \in Caller, caller'[j].awaits = "script"
               PROVE  caller'[j].on \in Client
    BY <1>1, StoreAssumption DEF NoScriptBeforeReady, Awaits
  <2>1. QED
    BY <1>2, <1>5, CallerStates DEF Awaits, TypeOK
<1>8. WaitersShare' /\ PendingIsCurrent'
  BY <1>1, <1>6 DEF WaitersShare, PendingIsCurrent
<1>9. OnlyCurrentIsOpen' /\ ConnectingIsPending'
  BY <1>1, <1>3 DEF OnlyCurrentIsOpen, ConnectingIsPending, TypeOK
<1>10. ClosedIsCounted'
  BY <1>3 DEF ClosedIsCounted
<1>11. QED
  BY <1>4, <1>7, <1>8, <1>9, <1>10

LEMMA SocketErrorStep ==
  ASSUME IInv, NEW c \in Client, SocketError(c)
  PROVE  IInv'
<1> USE DEF IInv
<1>1. c # connection
  BY StoreAssumption DEF SocketError, PendingIsCurrent, TypeOK
<1>2. connection # NoClient => client # c
  BY <1>1 DEF PendingIsCurrent
<1>3. TypeOK'
  BY RecordFailureEffects DEF SocketError, TypeOK
<1>4. PendingIsCurrent'
  BY <1>1, <1>2, RecordFailureEffects DEF SocketError, PendingIsCurrent, TypeOK
<1>5. UNCHANGED <<client, connection, caller>>
      /\ \A d \in Client : socket'[d] = IF d = c THEN "closed" ELSE socket[d]
  BY DEF SocketError, TypeOK
<1>6. OnlyCurrentIsOpen' /\ ConnectingIsPending'
  BY <1>5 DEF OnlyCurrentIsOpen, ConnectingIsPending
<1>7. WaitersShare' /\ NoScriptBeforeReady'
  BY <1>5 DEF WaitersShare, NoScriptBeforeReady, Awaits
<1>8. ClosedIsCounted'
  <2>1. client = c => failedGeneration' = c
    BY RecordFailureEffects DEF SocketError
  <2>2. client # c => UNCHANGED failedGeneration
    BY RecordFailureEffects DEF SocketError
  <2>3. client # NoClient /\ client # c => socket'[client] = socket[client]
    BY <1>5 DEF TypeOK
  <2>4. QED
    BY <1>5, <2>1, <2>2, <2>3 DEF ClosedIsCounted
<1>9. QED
  BY <1>3, <1>4, <1>6, <1>7, <1>8

LEMMA TickStep ==
  ASSUME IInv, Tick
  PROVE  IInv'
BY StoreAssumption DEF IInv, Tick, TypeOK, OnlyCurrentIsOpen, WaitersShare, PendingIsCurrent,
   ConnectingIsPending, NoScriptBeforeReady, ClosedIsCounted, Awaits

LEMMA NextIInv == IInv /\ [Next]_vars => IInv'
<1> SUFFICES ASSUME IInv, [Next]_vars PROVE IInv'
  OBVIOUS
<1>1. CASE UNCHANGED vars
  BY <1>1 DEF vars, storeVars, IInv, TypeOK, OnlyCurrentIsOpen, WaitersShare,
     PendingIsCurrent, ConnectingIsPending, NoScriptBeforeReady, ClosedIsCounted, Awaits
<1>2. CASE Next
  BY <1>2, CallEvalStep, RefuseStep, EvalSucceedsStep, EvalErrsStep, EvalRejectedStep,
     ConnectSucceedsStep, ConnectFailsStep, SocketErrorStep, TickStep
     DEF Next, EndOfConnect, EndOfEval
<1>3. QED
  BY <1>1, <1>2

CountsOnClosing ==
  (failureCount' > failureCount \/ backOff' > backOff) =>
    /\ client # NoClient
    /\ socket[client] # "closed" /\ socket'[client] = "closed"

LEMMA FailureCounts ==
  ASSUME IInv, NEW c \in Client, RecordFailure(c), socket'[c] = "closed"
  PROVE  CountsOnClosing
<1>1. failureCount \in Nat /\ backOff \in Nat
  BY StoreAssumption DEF IInv, TypeOK
<1>2. CASE client = c /\ failedGeneration # c
  BY <1>2, StoreAssumption DEF CountsOnClosing, IInv, ClosedIsCounted
<1>3. CASE ~(client = c /\ failedGeneration # c)
  BY <1>1, <1>3 DEF RecordFailure, CountsOnClosing
<1>4. QED
  BY <1>2, <1>3

LEMMA Invariance == Spec => []IInv
BY InitIInv, NextIInv, PTL DEF Spec

-----------------------------------------------------------------------------
\* The state keeps its types: no delay exceeds the maximum of the back-off.
THEOREM TypeCorrect == Spec => []TypeOK
<1>1. IInv => TypeOK
  BY DEF IInv
<1>2. QED
  BY <1>1, Invariance, PTL

\* However failures, retries and callers interleave, no client but the current
\* one holds a connection.
THEOREM OneConnection == Spec => []OnlyCurrentIsOpen
<1>1. IInv => OnlyCurrentIsOpen
  BY DEF IInv
<1>2. QED
  BY <1>1, Invariance, PTL

\* No late failure starts a back-off under a pending attempt.
THEOREM AttemptsOutsideBackOff == Spec => []ConnectsOutsideBackOff
<1>1. IInv => ConnectsOutsideBackOff
  BY DEF IInv, PendingIsCurrent, ConnectsOutsideBackOff
<1>2. QED
  BY <1>1, Invariance, PTL

\* Counted is the failure that closes the current client, and it alone: no later
\* report of it, from the client's events or its callers, counts again or
\* prolongs the back-off.
THEOREM FailuresCountOnce == Spec => CountedOnce
<1>1. ASSUME IInv, [Next]_vars
      PROVE  [CountsOnClosing]_vars
  <2>1. CASE UNCHANGED vars
    BY <2>1
  <2>2. ASSUME NEW k \in Caller, CallEval(k) \/ Refuse(k) PROVE CountsOnClosing
    BY <1>1, <2>2 DEF CallEval, Connect, Refuse, storeVars, CountsOnClosing, IInv, TypeOK
  <2>3. ASSUME NEW k \in Caller, EndOfEval(k) PROVE CountsOnClosing
    <3>1. CASE EvalSucceeds(k)
      BY <1>1, <3>1 DEF EvalSucceeds, RecordSuccess, CountsOnClosing, IInv, TypeOK
    <3>2. CASE EvalErrs(k)
      BY <1>1, <3>2 DEF EvalErrs, storeVars, CountsOnClosing, IInv, TypeOK
    <3>3. CASE EvalRejected(k)
      <4>1. caller[k].on \in Client
        BY <1>1, <3>3, CallerStates DEF EvalRejected, IInv, TypeOK
      <4>2. socket'[caller[k].on] = "closed"
        BY <1>1, <3>3, <4>1 DEF EvalRejected, RetireClient, IInv, TypeOK
      <4>3. RecordFailure(caller[k].on)
        BY <3>3 DEF EvalRejected
      <4>4. QED
        BY <1>1, <4>1, <4>2, <4>3, FailureCounts
    <3>4. QED
      BY <2>3, <3>1, <3>2, <3>3 DEF EndOfEval
  <2>4. CASE ConnectSucceeds
    BY <1>1, <2>4 DEF ConnectSucceeds, CountsOnClosing, IInv, TypeOK
  <2>5. CASE ConnectFails
    <3>1. connection \in Client /\ RecordFailure(connection)
          /\ socket' = [socket EXCEPT ![connection] = "closed"]
      BY <1>1, <2>5 DEF ConnectFails, RetireClient, IInv, TypeOK
    <3>2. socket'[connection] = "closed"
      BY <1>1, <3>1 DEF IInv, TypeOK
    <3>3. QED
      BY <1>1, <3>1, <3>2, FailureCounts
  <2>6. ASSUME NEW c \in Client, SocketError(c) PROVE CountsOnClosing
    <3>1. RecordFailure(c) /\ socket'[c] = "closed"
      BY <1>1, <2>6 DEF SocketError, IInv, TypeOK
    <3>2. QED
      BY <1>1, <3>1, FailureCounts
  <2>7. CASE Tick
    BY <1>1, <2>7 DEF Tick, CountsOnClosing, IInv, TypeOK
  <2>8. QED
    BY <1>1, <2>1, <2>2, <2>3, <2>4, <2>5, <2>6, <2>7 DEF Next, EndOfConnect
<1>2. QED
  BY <1>1, Invariance, PTL DEF Spec, CountedOnce, CountsOnClosing

\* All who wait for a connection wait for the pending one.
THEOREM SharedAttempt == Spec => []WaitersShare
<1>1. IInv => WaitersShare
  BY DEF IInv
<1>2. QED
  BY <1>1, Invariance, PTL
=============================================================================
