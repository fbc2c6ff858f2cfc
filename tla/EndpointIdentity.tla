-------------------------- MODULE EndpointIdentity --------------------------
(***************************************************************************)
(* The endpoints of an identity (an anonymous browser session or an        *)
(* account) and the transactions that add to them and trim them:           *)
(* createEndpoint and saveEndpointToAccount, against the writers of        *)
(* last_activity_at (captures, clears, renames, response overrides) and    *)
(* the deletion of endpoints.                                              *)
(*                                                                         *)
(* Every transaction runs at READ COMMITTED.  Creating and saving          *)
(* serialise on an identity lock: FOR UPDATE on the account's row, an      *)
(* advisory lock on the session.  The trimming DELETE chooses its rows in  *)
(* the snapshot in which it starts, takes their row locks one by one and   *)
(* re-checks only the row it waited for.                                   *)
(*                                                                         *)
(* Time is the number of time stamps taken: a stamp is taken before the    *)
(* transaction that writes it opens.                                       *)
(***************************************************************************)
EXTENDS Integers, FiniteSets

CONSTANTS
  Endpoint,
  Session,   \* anonymous sessions
  User,      \* accounts
  Save,      \* calls of saveEndpointToAccount
  Touch,     \* calls that only write last_activity_at
  Cap,       \* MAX_ENDPOINTS_PER_IDENTITY
  None       \* no identity, no transaction

Identity == Session \cup User

ASSUME IdentityAssumption ==
  /\ IsFiniteSet(Endpoint)
  /\ Cap \in Nat \ {0}
  /\ Session \cap User = {}
  /\ {None, "gone"} \cap Identity = {} /\ None # "gone"

CreateTx(e) == <<"create", e>>
SaveTx(s) == <<"save", s>>
TouchTx(t) == <<"touch", t>>

Adder == {CreateTx(e) : e \in Endpoint} \cup {SaveTx(s) : s \in Save}
Tx == Adder \cup {TouchTx(t) : t \in Touch}

ASSUME NoneIsNoTx == None \notin Tx \cup Endpoint

VARIABLES
  owner,         \* [Endpoint -> identity, None before creation, "gone" after]
  activity,      \* [Endpoint -> last_activity_at]
  clock,         \* number of time stamps taken
  identityLock,  \* [Identity -> transaction that holds its lock, or None]
  rowLock,       \* [Endpoint -> transaction that holds its row, or None]
  pc,
  call,          \* the arguments of each transaction's call
  stamp,         \* the `now` of each call
  doomed         \* rows the trimming DELETE has matched

rows == <<owner, activity>>
locks == <<identityLock, rowLock>>
vars == <<rows, clock, locks, pc, call, stamp, doomed>>

Call == [endpoint : Endpoint \cup {None}, from : Session \cup {None},
         to : Identity \cup {None}]
NoCall == [endpoint |-> None, from |-> None, to |-> None]

TypeOK ==
  /\ owner \in [Endpoint -> Identity \cup {None, "gone"}]
  /\ activity \in [Endpoint -> Nat]
  /\ clock \in Nat
  /\ identityLock \in [Identity -> Adder \cup {None}]
  /\ rowLock \in [Endpoint -> Tx \cup {None}]
  /\ pc \in [Tx -> {"idle", "begun", "account", "locked", "checked", "written", "trimming", "done"}]
  /\ call \in [Tx -> Call]
  /\ stamp \in [Tx -> Nat]
  /\ doomed \in [Tx -> SUBSET Endpoint]

Init ==
  /\ owner = [e \in Endpoint |-> None]
  /\ activity = [e \in Endpoint |-> 0]
  /\ clock = 0
  /\ identityLock = [i \in Identity |-> None]
  /\ rowLock = [e \in Endpoint |-> None]
  /\ pc = [x \in Tx |-> "idle"]
  /\ call = [x \in Tx |-> NoCall]
  /\ stamp = [x \in Tx |-> 0]
  /\ doomed = [x \in Tx |-> {}]

-----------------------------------------------------------------------------

Live(e) == owner[e] \in Identity
Owned(i) == {e \in Endpoint : owner[e] = i}

\* A call takes its time stamp.
Begin(x, c) ==
  /\ pc[x] = "idle"
  /\ clock' = clock + 1
  /\ stamp' = [stamp EXCEPT ![x] = clock + 1]
  /\ call' = [call EXCEPT ![x] = c]
  /\ pc' = [pc EXCEPT ![x] = "begun"]
  /\ UNCHANGED <<rows, locks, doomed>>

NowMutant(x) == None   \* written without a value
Now(x) == stamp[x]

\* The end of x, by commit or rollback: its locks are released.
End(x) ==
  /\ identityLock' = [i \in Identity |-> IF identityLock[i] = x THEN None ELSE identityLock[i]]
  /\ rowLock' = [e \in Endpoint |-> IF rowLock[e] = x THEN None ELSE rowLock[e]]
  /\ pc' = [pc EXCEPT ![x] = "done"]
  /\ call' = [call EXCEPT ![x] = NoCall]
  /\ stamp' = [stamp EXCEPT ![x] = 0]
  /\ doomed' = [doomed EXCEPT ![x] = {}]
  /\ UNCHANGED clock

IdentityFreeMutant(i) == TRUE   \* lock not taken
IdentityFree(i) == identityLock[i] = None

LockIdentity(x, i, next) ==
  /\ IdentityFree(i)
  /\ identityLock' = [identityLock EXCEPT ![i] = x]
  /\ pc' = [pc EXCEPT ![x] = next]
  /\ UNCHANGED <<rows, clock, rowLock, call, stamp, doomed>>

-----------------------------------------------------------------------------
(* createEndpoint and saveEndpointToAccount. *)

CreateBegin(e) ==
  /\ owner[e] = None
  /\ \E i \in Identity : Begin(CreateTx(e), [endpoint |-> e, from |-> None, to |-> i])

\* lockEndpointIdentityForCreate, then the insert.
CreateLock(e) ==
  LET x == CreateTx(e) IN
  /\ pc[x] = "begun"
  /\ LockIdentity(x, call[x].to, "written")

SaveBegin(s) ==
  \E e \in Endpoint, from \in Session, to \in User :
    Begin(SaveTx(s), [endpoint |-> e, from |-> from, to |-> to])

SaveLockAccount(s) ==
  LET x == SaveTx(s) IN
  /\ pc[x] = "begun"
  /\ LockIdentity(x, call[x].to, "account")

SaveLockSession(s) ==
  LET x == SaveTx(s) IN
  /\ pc[x] = "account"
  /\ LockIdentity(x, call[x].from, "locked")

MovableMutant(e, from) == Live(e)
Movable(e, from) == owner[e] = from

\* The row is read, without a lock, and is the session's.
SaveCheck(s) ==
  LET x == SaveTx(s) IN
  /\ pc[x] = "locked"
  /\ Movable(call[x].endpoint, call[x].from)
  /\ pc' = [pc EXCEPT ![x] = "checked"]
  /\ UNCHANGED <<rows, clock, locks, call, stamp, doomed>>

\* It is not there, already the account's, or someone else's.
SaveRefused(s) ==
  LET x == SaveTx(s) IN
  /\ pc[x] = "locked"
  /\ ~Movable(call[x].endpoint, call[x].from)
  /\ End(x)
  /\ UNCHANGED rows

\* The UPDATE waits for the row and finds it still the session's.
SaveMove(s) ==
  LET x == SaveTx(s)
      e == call[x].endpoint
  IN
  /\ pc[x] = "checked"
  /\ Movable(e, call[x].from)
  /\ rowLock[e] = None
  /\ rowLock' = [rowLock EXCEPT ![e] = x]
  /\ pc' = [pc EXCEPT ![x] = "written"]
  /\ UNCHANGED <<rows, clock, identityLock, call, stamp, doomed>>

\* It updates no row: EndpointNotFoundError.
SaveLost(s) ==
  LET x == SaveTx(s) IN
  /\ pc[x] = "checked"
  /\ ~Movable(call[x].endpoint, call[x].from)
  /\ End(x)
  /\ UNCHANGED rows

\* The identity's endpoints other than the one that x adds.
Others(x) == Owned(call[x].to) \ {call[x].endpoint}

RetainedMutant(kept, S) ==   \* limit(MAX_ENDPOINTS_PER_IDENTITY)
  /\ Cardinality(kept) <= Cap
  /\ kept # S => Cardinality(kept) = Cap
  /\ \A e \in kept, d \in S \ kept : activity[e] >= activity[d]

\* kept is the first Cap - 1 rows of S by last_activity_at desc.
Retained(kept, S) ==
  /\ Cardinality(kept) <= Cap - 1
  /\ kept # S => Cardinality(kept) = Cap - 1
  /\ \A e \in kept, d \in S \ kept : activity[e] >= activity[d]

\* trimEndpointIdentity: the DELETE starts.
Trim(x) ==
  /\ pc[x] = "written"
  /\ \E kept \in SUBSET Others(x) :
       /\ Retained(kept, Others(x))
       /\ doomed' = [doomed EXCEPT ![x] = Others(x) \ kept]
  /\ pc' = [pc EXCEPT ![x] = "trimming"]
  /\ UNCHANGED <<rows, clock, locks, call, stamp>>

\* It reaches a row nobody holds: deleted, unless it is no longer the
\* identity's.  Its last_activity_at is not compared again.
TrimRow(x, e) ==
  /\ pc[x] = "trimming" /\ e \in doomed[x] /\ rowLock[e] = None
  /\ \/ /\ owner[e] = call[x].to
        /\ rowLock' = [rowLock EXCEPT ![e] = x]
        /\ UNCHANGED doomed
     \/ /\ owner[e] # call[x].to
        /\ doomed' = [doomed EXCEPT ![x] = @ \ {e}]
        /\ UNCHANGED rowLock
  /\ UNCHANGED <<rows, clock, identityLock, pc, call, stamp>>

AddCommit(x) ==
  /\ pc[x] = "trimming"
  /\ \A e \in doomed[x] : rowLock[e] = x
  /\ owner' = [e \in Endpoint |-> IF e = call[x].endpoint THEN call[x].to
                                  ELSE IF e \in doomed[x] THEN "gone" ELSE owner[e]]
  /\ activity' = [activity EXCEPT ![call[x].endpoint] = Now(x)]
  /\ End(x)

-----------------------------------------------------------------------------
(* The other writers of the rows. *)

\* saveCapturedRequest, clearRequests, updateEndpointName and the response
\* overrides: the row is locked, last_activity_at becomes the call's stamp.
TouchBegin(t) ==
  \E e \in Endpoint :
    Live(e) /\ Begin(TouchTx(t), [endpoint |-> e, from |-> None, to |-> None])

TouchLock(t) ==
  LET x == TouchTx(t)
      e == call[x].endpoint
  IN
  /\ pc[x] = "begun"
  /\ Live(e) /\ rowLock[e] = None
  /\ rowLock' = [rowLock EXCEPT ![e] = x]
  /\ pc' = [pc EXCEPT ![x] = "written"]
  /\ UNCHANGED <<rows, clock, identityLock, call, stamp, doomed>>

TouchCommit(t) ==
  LET x == TouchTx(t) IN
  /\ pc[x] = "written"
  /\ activity' = [activity EXCEPT ![call[x].endpoint] = Now(x)]
  /\ UNCHANGED owner
  /\ End(x)

\* EndpointNotFoundError.
TouchRefused(t) ==
  LET x == TouchTx(t) IN
  /\ pc[x] = "begun" /\ ~Live(call[x].endpoint)
  /\ End(x)
  /\ UNCHANGED rows

\* deleteEndpointForActor, by its owner, in one step: it waits for the row.
DeleteEndpoint(e) ==
  /\ Live(e) /\ rowLock[e] = None
  /\ owner' = [owner EXCEPT ![e] = "gone"]
  /\ UNCHANGED <<activity, clock, locks, pc, call, stamp, doomed>>

\* A statement fails or the connection dies.
Rollback(x) ==
  /\ pc[x] \notin {"idle", "done"}
  /\ End(x)
  /\ UNCHANGED rows

Next ==
  \/ \E e \in Endpoint : CreateBegin(e) \/ CreateLock(e) \/ DeleteEndpoint(e)
  \/ \E s \in Save : \/ SaveBegin(s) \/ SaveLockAccount(s) \/ SaveLockSession(s)
                     \/ SaveCheck(s) \/ SaveRefused(s) \/ SaveMove(s) \/ SaveLost(s)
  \/ \E t \in Touch : TouchBegin(t) \/ TouchLock(t) \/ TouchCommit(t) \/ TouchRefused(t)
  \/ \E x \in Adder : Trim(x) \/ AddCommit(x) \/ \E e \in Endpoint : TrimRow(x, e)
  \/ \E x \in Tx : Rollback(x)

Spec == Init /\ [][Next]_vars

-----------------------------------------------------------------------------
(* Properties. *)

\* No identity ever has more than Cap endpoints, whatever creations and saves
\* of its sessions and devices overlap.
CapHolds == \A i \in Identity : Cardinality(Owned(i)) <= Cap

\* An endpoint changes hands only once, from the session that a save names to
\* the save's account: whatever creations, trims, deletions and other saves of
\* the same endpoint come between the save's locks, its unlocked read of the row
\* and its UPDATE, nobody else's endpoint is taken.
OnlyOwnIsSaved ==
  [][\A e \in Endpoint :
       (owner[e] \in Identity /\ owner'[e] \in Identity /\ owner'[e] # owner[e]) =>
         \E s \in Save :
           /\ pc[SaveTx(s)] = "trimming" /\ pc'[SaveTx(s)] = "done"
           /\ call[SaveTx(s)] = [endpoint |-> e, from |-> owner[e], to |-> owner'[e]]]_vars
=============================================================================
