----------------------- MODULE EndpointIdentityProofs -----------------------
(***************************************************************************)
(* Proofs about EndpointIdentity: no identity ever has more than Cap       *)
(* endpoints, and an endpoint is only taken from the session that saves    *)
(* it, for any number of endpoints, sessions, accounts and calls.          *)
(***************************************************************************)
EXTENDS EndpointIdentity, FiniteSetTheorems, TLAPS

\* The transaction is open: it has begun and has not ended.
IsOpen(x) == pc[x] \in {"begun", "account", "locked", "checked", "written", "trimming"}

\* An open call has arguments of its kind.
CallsFit ==
  /\ \A x \in Adder : IsOpen(x) => call[x].endpoint \in Endpoint /\ call[x].to \in Identity
  /\ \A e \in Endpoint : IsOpen(CreateTx(e)) => call[CreateTx(e)].endpoint = e
  /\ \A s \in Save : IsOpen(SaveTx(s)) =>
                       call[SaveTx(s)].from \in Session /\ call[SaveTx(s)].to \in User
  /\ \A t \in Touch : IsOpen(TouchTx(t)) => call[TouchTx(t)].endpoint \in Endpoint

\* A transaction past its first lock holds the identity it adds to.
HoldsIdentity ==
  \A x \in Adder :
    pc[x] \in {"account", "locked", "checked", "written", "trimming"} => identityLock[call[x].to] = x

\* The endpoint of an open creation does not exist for anybody else.
CreatedIsNew == \A e \in Endpoint : IsOpen(CreateTx(e)) => owner[e] = None

\* The endpoint that a save has moved is locked, and its session's until the
\* save commits.
MovedIsOwn ==
  \A s \in Save :
    pc[SaveTx(s)] \in {"written", "trimming"} =>
      /\ rowLock[call[SaveTx(s)].endpoint] = SaveTx(s)
      /\ owner[call[SaveTx(s)].endpoint] = call[SaveTx(s)].from

\* A doomed row that its transaction has locked is still the identity's.
DoomedIsOwn ==
  \A x \in Adder, e \in Endpoint :
    (pc[x] = "trimming" /\ e \in doomed[x] /\ rowLock[e] = x) => owner[e] = call[x].to

\* What a trim leaves has room for the endpoint it makes room for.
TrimLeavesRoom ==
  \A x \in Adder : pc[x] = "trimming" => Cardinality(Others(x) \ doomed[x]) <= Cap - 1

IdentityInv ==
  /\ TypeOK
  /\ CallsFit
  /\ HoldsIdentity
  /\ CreatedIsNew
  /\ MovedIsOwn
  /\ DoomedIsOwn
  /\ TrimLeavesRoom
  /\ CapHolds

-----------------------------------------------------------------------------
(* Transactions and sets of endpoints. *)

\* The transactions of different calls are different.
LEMMA TxParts ==
  /\ \A e \in Endpoint : CreateTx(e) \in Adder
  /\ \A s \in Save : SaveTx(s) \in Adder
  /\ \A x \in Adder : (\E e \in Endpoint : x = CreateTx(e)) \/ (\E s \in Save : x = SaveTx(s))
  /\ \A t \in Touch : TouchTx(t) \in Tx /\ TouchTx(t) \notin Adder
  /\ \A e \in Endpoint, s \in Save : CreateTx(e) # SaveTx(s)
  /\ \A e, f \in Endpoint : CreateTx(e) = CreateTx(f) => e = f
  /\ \A s, t \in Save : SaveTx(s) = SaveTx(t) => s = t
  /\ Adder \subseteq Tx
  /\ None \notin Tx
BY NoneIsNoTx DEF CreateTx, SaveTx, TouchTx, Adder, Tx

\* A set of endpoints is finite, and no larger than a set that includes it.
LEMMA SmallerSet ==
  ASSUME NEW S \in SUBSET Endpoint, NEW T \in SUBSET S
  PROVE  /\ Cardinality(S) \in Nat /\ Cardinality(T) \in Nat
         /\ Cardinality(T) <= Cardinality(S)
<1>1. IsFiniteSet(S)
  BY IdentityAssumption, FS_Subset
<1> QED BY <1>1, FS_Subset, FS_CardinalityType

\* One more endpoint adds at most one to the size.
LEMMA OneMore ==
  ASSUME NEW S \in SUBSET Endpoint, NEW e \in Endpoint
  PROVE  Cardinality(S \cup {e}) <= Cardinality(S) + 1
<1>1. IsFiniteSet(S)
  BY IdentityAssumption, FS_Subset
<1>2. Cardinality(S) \in Nat
  BY <1>1, FS_CardinalityType
<1>3. Cardinality(S \cup {e}) = IF e \in S THEN Cardinality(S) ELSE Cardinality(S) + 1
  BY <1>1, FS_AddElement
<1> QED BY <1>2, <1>3

-----------------------------------------------------------------------------
(* The inductive invariant: initially, and under each kind of step. *)

LEMMA InitIdentity == Init => IdentityInv
<1> SUFFICES ASSUME Init PROVE IdentityInv
  OBVIOUS
<1> USE TxParts
<1>1. TypeOK
  BY IdentityAssumption DEF Init, TypeOK, Identity, Call, NoCall
<1>2. \A i \in Identity : Owned(i) = {}
  BY IdentityAssumption DEF Init, Owned
<1>3. CapHolds
  BY <1>2, FS_EmptySet, IdentityAssumption DEF CapHolds
<1>4. \A x \in Tx : pc[x] = "idle"
  BY DEF Init
<1> QED
  BY <1>1, <1>3, <1>4 DEF IdentityInv, CallsFit, HoldsIdentity, CreatedIsNew, MovedIsOwn,
       DoomedIsOwn, TrimLeavesRoom, IsOpen

\* A call begins: with arguments of its kind, and a creation with a new endpoint.
LEMMA BeginKeeps ==
  ASSUME IdentityInv, NEW x \in Tx, NEW c \in Call, Begin(x, c),
         \A e \in Endpoint : x = CreateTx(e) =>
           c.endpoint = e /\ c.to \in Identity /\ owner[e] = None,
         \A s \in Save : x = SaveTx(s) =>
           c.endpoint \in Endpoint /\ c.from \in Session /\ c.to \in User,
         \A t \in Touch : x = TouchTx(t) => c.endpoint \in Endpoint
  PROVE  IdentityInv'
<1> USE TxParts DEF IdentityInv
<1>1. TypeOK'
  BY DEF TypeOK, Begin, rows, locks
<1>2. /\ UNCHANGED <<owner, identityLock, rowLock, doomed>>
      /\ pc'[x] = "begun" /\ call'[x] = c
      /\ \A y \in Tx \ {x} : pc'[y] = pc[y] /\ call'[y] = call[y]
  BY DEF TypeOK, Begin, rows, locks
<1>3. CallsFit'
  BY <1>2 DEF CallsFit, IsOpen, Identity
<1>4. HoldsIdentity'
  BY <1>2 DEF HoldsIdentity
<1>5. CreatedIsNew'
  BY <1>2 DEF CreatedIsNew, IsOpen
<1>6. MovedIsOwn'
  BY <1>2 DEF MovedIsOwn
<1>7. DoomedIsOwn'
  BY <1>2 DEF DoomedIsOwn
<1>8. TrimLeavesRoom'
  BY <1>2 DEF TrimLeavesRoom, Others, Owned
<1>9. CapHolds'
  BY <1>2 DEF CapHolds, Owned
<1> QED
  BY <1>1, <1>3, <1>4, <1>5, <1>6, <1>7, <1>8, <1>9

\* A creation or a save takes the lock of the identity it adds to, or, holding
\* that one, of a session.
LEMMA LockKeeps ==
  ASSUME IdentityInv, NEW x \in Adder, NEW i \in Identity,
         NEW next \in {"account", "locked", "written"}, LockIdentity(x, i, next), IsOpen(x),
         i = call[x].to \/ pc[x] = "account",
         \A s \in Save : x = SaveTx(s) => next # "written"
  PROVE  IdentityInv'
<1> USE TxParts DEF IdentityInv
<1>1. TypeOK'
  BY DEF TypeOK, LockIdentity, rows
<1>2. /\ UNCHANGED <<owner, rowLock, call, doomed>>
      /\ pc'[x] = next
      /\ \A y \in Tx \ {x} : pc'[y] = pc[y]
  BY DEF TypeOK, LockIdentity, rows
<1>3. /\ identityLock[i] = None /\ identityLock'[i] = x
      /\ \A j \in Identity \ {i} : identityLock'[j] = identityLock[j]
  BY DEF TypeOK, LockIdentity, IdentityFree
<1>4. CallsFit'
  BY <1>2 DEF CallsFit, IsOpen
<1>5. HoldsIdentity'
  <2>1. \A y \in Adder : IsOpen(y)' => call[y].to \in Identity
    BY <1>2 DEF CallsFit, IsOpen
  <2>2. \A y \in Adder \ {x} :
          pc'[y] \in {"account", "locked", "checked", "written", "trimming"} =>
            identityLock'[call[y].to] = y
    BY <1>2, <1>3, <2>1 DEF HoldsIdentity, IsOpen
  <2>3. identityLock'[call[x].to] = x
    BY <1>2, <1>3, <2>1 DEF HoldsIdentity, IsOpen
  <2> QED BY <1>2, <2>2, <2>3 DEF HoldsIdentity
<1>6. CreatedIsNew'
  BY <1>2 DEF CreatedIsNew, IsOpen
<1>7. MovedIsOwn'
  BY <1>2 DEF MovedIsOwn
<1>8. DoomedIsOwn'
  BY <1>2 DEF DoomedIsOwn
<1>9. TrimLeavesRoom'
  BY <1>2 DEF TrimLeavesRoom, Others, Owned
<1>10. CapHolds'
  BY <1>2 DEF CapHolds, Owned
<1> QED
  BY <1>1, <1>4, <1>5, <1>6, <1>7, <1>8, <1>9, <1>10

\* A save has read the row.
LEMMA CheckKeeps ==
  ASSUME IdentityInv, NEW s \in Save, SaveCheck(s)
  PROVE  IdentityInv'
<1> DEFINE x == SaveTx(s)
<1> USE TxParts DEF IdentityInv
<1>1. TypeOK'
  BY DEF TypeOK, SaveCheck, rows, locks
<1>2. /\ UNCHANGED <<owner, identityLock, rowLock, call, doomed>>
      /\ pc[x] = "locked" /\ pc'[x] = "checked"
      /\ \A y \in Tx \ {x} : pc'[y] = pc[y]
  BY DEF TypeOK, SaveCheck, rows, locks
<1> HIDE DEF x
<1>3. CallsFit'
  BY <1>2 DEF CallsFit, IsOpen
<1>4. HoldsIdentity'
  BY <1>2 DEF HoldsIdentity
<1>5. CreatedIsNew'
  BY <1>2 DEF CreatedIsNew, IsOpen
<1>6. MovedIsOwn'
  BY <1>2 DEF MovedIsOwn
<1>7. DoomedIsOwn'
  BY <1>2 DEF DoomedIsOwn
<1>8. TrimLeavesRoom'
  BY <1>2 DEF TrimLeavesRoom, Others, Owned
<1>9. CapHolds'
  BY <1>2 DEF CapHolds, Owned
<1> QED
  BY <1>1, <1>3, <1>4, <1>5, <1>6, <1>7, <1>8, <1>9

\* A transaction ends without changing an owner.
LEMMA EndKeeps ==
  ASSUME IdentityInv, NEW x \in Tx, End(x), UNCHANGED owner, activity' \in [Endpoint -> Nat]
  PROVE  IdentityInv'
<1> USE TxParts DEF IdentityInv
<1>1. TypeOK'
  <2>1. NoCall \in Call
    BY DEF NoCall, Call
  <2> QED BY <2>1 DEF TypeOK, End
<1>2. /\ pc'[x] = "done"
      /\ \A y \in Tx \ {x} : pc'[y] = pc[y] /\ call'[y] = call[y] /\ doomed'[y] = doomed[y]
  BY DEF TypeOK, End
<1>3. /\ \A i \in Identity : identityLock[i] # x => identityLock'[i] = identityLock[i]
      /\ \A e \in Endpoint : rowLock[e] # x => rowLock'[e] = rowLock[e]
      /\ \A e \in Endpoint, y \in Tx \ {x} : rowLock'[e] = y => rowLock[e] = y
  BY DEF End
<1>4. CallsFit'
  BY <1>2 DEF CallsFit, IsOpen
<1>5. HoldsIdentity'
  BY <1>2, <1>3 DEF HoldsIdentity, CallsFit, IsOpen
<1>6. CreatedIsNew'
  BY <1>2 DEF CreatedIsNew, IsOpen
<1>7. MovedIsOwn'
  BY <1>2, <1>3 DEF MovedIsOwn, CallsFit, IsOpen
<1>8. DoomedIsOwn'
  BY <1>2, <1>3 DEF DoomedIsOwn
<1>9. TrimLeavesRoom'
  BY <1>2 DEF TrimLeavesRoom, Others, Owned
<1>10. CapHolds'
  BY DEF CapHolds, Owned
<1> QED
  BY <1>1, <1>4, <1>5, <1>6, <1>7, <1>8, <1>9, <1>10

\* A transaction takes a row that nobody holds.
LEMMA RowKeeps ==
  ASSUME IdentityInv, NEW x \in Tx, NEW e \in Endpoint, rowLock[e] = None,
         rowLock' = [rowLock EXCEPT ![e] = x],
         UNCHANGED <<rows, clock, identityLock, call, stamp, doomed>>,
         \/ pc' = [pc EXCEPT ![x] = "written"] /\ IsOpen(x) /\ e = call[x].endpoint
            /\ (x \in Adder => pc[x] = "checked")
            /\ \A s \in Save : x = SaveTx(s) => owner[e] = call[x].from
         \/ UNCHANGED pc /\ owner[e] = call[x].to
  PROVE  IdentityInv'
<1> USE TxParts DEF IdentityInv
<1>1. TypeOK'
  BY DEF TypeOK, rows
<1>2. /\ UNCHANGED <<owner, identityLock, call, doomed>>
      /\ rowLock'[e] = x
      /\ \A f \in Endpoint \ {e} : rowLock'[f] = rowLock[f]
      /\ \A y \in Tx \ {x} : pc'[y] = pc[y]
      /\ pc'[x] \in {pc[x], "written"}
      /\ IsOpen(x)' => IsOpen(x)
  BY DEF TypeOK, rows, IsOpen
<1>3. CallsFit'
  BY <1>2 DEF CallsFit, IsOpen
<1>4. HoldsIdentity'
  <2>1. x \in Adder /\ pc'[x] # pc[x] => pc[x] = "checked"
    BY DEF TypeOK
  <2> QED BY <1>2, <2>1 DEF HoldsIdentity
<1>5. CreatedIsNew'
  BY <1>2 DEF CreatedIsNew, IsOpen
<1>6. MovedIsOwn'
  <2> SUFFICES ASSUME NEW s \in Save, pc'[SaveTx(s)] \in {"written", "trimming"}
               PROVE  /\ rowLock'[call[SaveTx(s)].endpoint] = SaveTx(s)
                      /\ owner[call[SaveTx(s)].endpoint] = call[SaveTx(s)].from
    BY <1>2 DEF MovedIsOwn
  <2>1. call[SaveTx(s)].endpoint \in Endpoint
    BY <1>2 DEF CallsFit, IsOpen
  <2>2. CASE pc[SaveTx(s)] \in {"written", "trimming"}
    BY <1>2, <2>1, <2>2 DEF MovedIsOwn
  <2>3. CASE pc[SaveTx(s)] \notin {"written", "trimming"}
    <3>1. SaveTx(s) = x /\ ~ UNCHANGED pc
      BY <1>2, <2>3
    <3> QED BY <1>2, <3>1
  <2> QED BY <2>2, <2>3
<1>7. DoomedIsOwn'
  <2> SUFFICES ASSUME NEW y \in Adder, NEW f \in Endpoint,
                      pc'[y] = "trimming", f \in doomed[y], rowLock'[f] = y
               PROVE  owner[f] = call[y].to
    BY <1>2 DEF DoomedIsOwn
  <2>1. CASE f = e
    <3>1. x = y /\ UNCHANGED pc
      BY <1>2, <2>1 DEF TypeOK
    <3> QED BY <2>1, <3>1 DEF TypeOK
  <2>2. CASE f # e
    BY <1>2, <2>2 DEF DoomedIsOwn
  <2> QED BY <2>1, <2>2
<1>8. TrimLeavesRoom'
  BY <1>2 DEF TrimLeavesRoom, Others, Owned
<1>9. CapHolds'
  BY <1>2 DEF CapHolds, Owned
<1> QED
  BY <1>1, <1>3, <1>4, <1>5, <1>6, <1>7, <1>8, <1>9

\* The trimming DELETE starts.
LEMMA TrimKeeps ==
  ASSUME IdentityInv, NEW x \in Adder, Trim(x)
  PROVE  IdentityInv'
<1> USE TxParts DEF IdentityInv
<1>1. PICK kept \in SUBSET Others(x) :
        Retained(kept, Others(x)) /\ doomed' = [doomed EXCEPT ![x] = Others(x) \ kept]
  BY DEF Trim
<1>2. Others(x) \subseteq Endpoint
  BY DEF Others, Owned
<1>3. /\ UNCHANGED <<owner, identityLock, rowLock, call>>
      /\ pc[x] = "written" /\ pc'[x] = "trimming"
      /\ doomed'[x] = Others(x) \ kept
      /\ \A y \in Tx \ {x} : pc'[y] = pc[y] /\ doomed'[y] = doomed[y]
  BY <1>1 DEF TypeOK, Trim, rows, locks
<1>4. TypeOK'
  BY <1>1, <1>2 DEF TypeOK, Trim, rows, locks
<1>5. CallsFit'
  BY <1>3 DEF CallsFit, IsOpen
<1>6. HoldsIdentity'
  BY <1>3 DEF HoldsIdentity
<1>7. CreatedIsNew'
  BY <1>3 DEF CreatedIsNew, IsOpen
<1>8. MovedIsOwn'
  BY <1>3 DEF MovedIsOwn
<1>9. DoomedIsOwn'
  BY <1>3 DEF DoomedIsOwn, Others, Owned
<1>10. TrimLeavesRoom'
  <2>1. Others(x)' \ doomed'[x] = kept
    BY <1>3 DEF Others, Owned
  <2>2. Cardinality(kept) <= Cap - 1
    BY <1>1 DEF Retained
  <2>3. \A y \in Adder \ {x} : pc'[y] = "trimming" =>
          Cardinality(Others(y)' \ doomed'[y]) <= Cap - 1
    BY <1>3 DEF TrimLeavesRoom, Others, Owned
  <2> QED BY <2>1, <2>2, <2>3 DEF TrimLeavesRoom
<1>11. CapHolds'
  BY <1>3 DEF CapHolds, Owned
<1> QED
  BY <1>4, <1>5, <1>6, <1>7, <1>8, <1>9, <1>10, <1>11

\* The trimming DELETE passes over a row that is no longer the identity's.
LEMMA PassKeeps ==
  ASSUME IdentityInv, NEW x \in Adder, NEW e \in Endpoint, owner[e] # call[x].to,
         doomed' = [doomed EXCEPT ![x] = @ \ {e}],
         UNCHANGED <<rows, clock, locks, pc, call, stamp>>
  PROVE  IdentityInv'
<1> USE TxParts DEF IdentityInv
<1>1. TypeOK'
  BY DEF TypeOK, rows, locks
<1>2. /\ UNCHANGED <<owner, identityLock, rowLock, pc, call>>
      /\ doomed'[x] = doomed[x] \ {e}
      /\ \A y \in Tx \ {x} : doomed'[y] = doomed[y]
  BY DEF TypeOK, rows, locks
<1>3. CallsFit' /\ HoldsIdentity' /\ CreatedIsNew' /\ MovedIsOwn'
  BY <1>2 DEF CallsFit, HoldsIdentity, CreatedIsNew, MovedIsOwn, IsOpen
<1>4. DoomedIsOwn'
  BY <1>2 DEF DoomedIsOwn
<1>5. TrimLeavesRoom'
  <2>1. \A y \in Adder : Others(y)' \ doomed'[y] = Others(y) \ doomed[y]
    BY <1>2 DEF Others, Owned
  <2> QED BY <1>2, <2>1 DEF TrimLeavesRoom
<1>6. CapHolds'
  BY <1>2 DEF CapHolds, Owned
<1> QED
  BY <1>1, <1>3, <1>4, <1>5, <1>6

\* An endpoint is deleted.
LEMMA DeleteKeeps ==
  ASSUME IdentityInv, NEW e \in Endpoint, DeleteEndpoint(e)
  PROVE  IdentityInv'
<1> USE TxParts DEF IdentityInv
<1>1. TypeOK'
  BY DEF TypeOK, DeleteEndpoint, locks
<1>2. /\ UNCHANGED <<identityLock, rowLock, pc, call, doomed>>
      /\ owner[e] \in Identity /\ rowLock[e] = None /\ owner'[e] = "gone"
      /\ \A f \in Endpoint \ {e} : owner'[f] = owner[f]
  BY DEF TypeOK, DeleteEndpoint, Live, locks
<1>3. CallsFit' /\ HoldsIdentity'
  BY <1>2 DEF CallsFit, HoldsIdentity, IsOpen
<1>4. CreatedIsNew'
  BY <1>2, IdentityAssumption DEF CreatedIsNew, IsOpen
<1>5. MovedIsOwn'
  BY <1>2 DEF MovedIsOwn, CallsFit, IsOpen
<1>6. DoomedIsOwn'
  BY <1>2 DEF DoomedIsOwn
<1>7. \A i \in Identity : Owned(i)' \subseteq Owned(i)
  BY <1>2, IdentityAssumption DEF Owned
<1>8. TrimLeavesRoom'
  <2> SUFFICES ASSUME NEW x \in Adder, pc'[x] = "trimming"
               PROVE  Cardinality(Others(x)' \ doomed'[x]) <= Cap - 1
    BY DEF TrimLeavesRoom
  <2>1. call[x].to \in Identity
    BY <1>2 DEF CallsFit, IsOpen
  <2>2. Others(x)' \ doomed'[x] \in SUBSET (Others(x) \ doomed[x])
    BY <1>2, <1>7, <2>1 DEF Others
  <2>3. Others(x) \ doomed[x] \in SUBSET Endpoint
    BY DEF Others, Owned
  <2>4. Cardinality(Others(x) \ doomed[x]) <= Cap - 1
    BY <1>2 DEF TrimLeavesRoom
  <2> QED BY <2>2, <2>3, <2>4, SmallerSet, IdentityAssumption
<1>9. CapHolds'
  <2> SUFFICES ASSUME NEW i \in Identity PROVE Cardinality(Owned(i)') <= Cap
    BY DEF CapHolds
  <2>1. Owned(i) \in SUBSET Endpoint /\ Owned(i)' \in SUBSET Owned(i)
    BY <1>7 DEF Owned
  <2>2. Cardinality(Owned(i)) <= Cap
    BY DEF CapHolds
  <2> QED BY <2>1, <2>2, SmallerSet, IdentityAssumption
<1> QED
  BY <1>1, <1>3, <1>4, <1>5, <1>6, <1>8, <1>9

\* What a creation or a save writes when it commits: its endpoint gets its
\* identity, other endpoints keep their owner or are gone.
LEMMA CommitWrites ==
  ASSUME IdentityInv, NEW x \in Adder, AddCommit(x)
  PROVE  /\ pc[x] = "trimming"
         /\ call[x].endpoint \in Endpoint /\ call[x].to \in Identity
         /\ identityLock[call[x].to] = x
         /\ owner'[call[x].endpoint] = call[x].to
         /\ \A f \in doomed[x] : rowLock[f] = x
         /\ \A f \in Endpoint \ {call[x].endpoint} :
              owner'[f] = IF f \in doomed[x] THEN "gone" ELSE owner[f]
         /\ \/ x = CreateTx(call[x].endpoint) /\ owner[call[x].endpoint] = None
            \/ \E s \in Save : /\ x = SaveTx(s)
                               /\ rowLock[call[x].endpoint] = x
                               /\ owner[call[x].endpoint] = call[x].from
                               /\ call[x].from \in Session
<1> USE TxParts DEF IdentityInv
<1>1. pc[x] = "trimming" /\ IsOpen(x)
  BY DEF AddCommit, IsOpen
<1>2. /\ call[x].endpoint \in Endpoint /\ call[x].to \in Identity
      /\ identityLock[call[x].to] = x
  BY <1>1 DEF CallsFit, HoldsIdentity
<1>3. /\ owner'[call[x].endpoint] = call[x].to
      /\ \A f \in doomed[x] : rowLock[f] = x
      /\ \A f \in Endpoint \ {call[x].endpoint} :
           owner'[f] = IF f \in doomed[x] THEN "gone" ELSE owner[f]
  BY <1>2 DEF AddCommit
<1>4. CASE \E e \in Endpoint : x = CreateTx(e)
  BY <1>1, <1>2, <1>3, <1>4 DEF CallsFit, CreatedIsNew
<1>5. CASE \E s \in Save : x = SaveTx(s)
  BY <1>1, <1>2, <1>3, <1>5 DEF CallsFit, MovedIsOwn
<1> QED
  BY <1>4, <1>5

\* A creation or a save commits.
LEMMA CommitKeeps ==
  ASSUME IdentityInv, NEW x \in Adder, AddCommit(x)
  PROVE  IdentityInv'
<1> DEFINE e == call[x].endpoint
<1> USE TxParts DEF IdentityInv
<1>1. /\ pc[x] = "trimming" /\ e \in Endpoint /\ call[x].to \in Identity
      /\ identityLock[call[x].to] = x /\ owner'[e] = call[x].to
      /\ \A f \in doomed[x] : rowLock[f] = x
      /\ \A f \in Endpoint \ {e} :
           owner'[f] = IF f \in doomed[x] THEN "gone" ELSE owner[f]
      /\ \/ x = CreateTx(e) /\ owner[e] = None
         \/ \E s \in Save : x = SaveTx(s) /\ rowLock[e] = x /\ owner[e] = call[x].from
                             /\ call[x].from \in Session
  BY CommitWrites
<1>2. /\ pc'[x] = "done"
      /\ \A y \in Tx \ {x} : pc'[y] = pc[y] /\ call'[y] = call[y] /\ doomed'[y] = doomed[y]
      /\ \A i \in Identity : identityLock[i] # x => identityLock'[i] = identityLock[i]
      /\ \A f \in Endpoint : rowLock[f] # x => rowLock'[f] = rowLock[f]
      /\ \A f \in Endpoint, y \in Tx \ {x} : rowLock'[f] = y => rowLock[f] = y
  BY DEF TypeOK, AddCommit, End
<1>3. TypeOK'
  <2>1. NoCall \in Call
    BY DEF NoCall, Call
  <2>2. owner' \in [Endpoint -> Identity \cup {None, "gone"}]
    BY <1>1 DEF TypeOK, AddCommit
  <2>3. activity' \in [Endpoint -> Nat]
    BY DEF TypeOK, AddCommit, Now
  <2> QED BY <2>1, <2>2, <2>3 DEF TypeOK, AddCommit, End
<1>4. CallsFit' /\ HoldsIdentity'
  BY <1>2 DEF CallsFit, HoldsIdentity, IsOpen
<1>5. \A f \in doomed[x] : owner[f] = call[x].to
  BY <1>1 DEF DoomedIsOwn, TypeOK
<1>6. \A f \in Endpoint \ {e} : owner[f] = None => owner'[f] = None
  BY <1>1, <1>5, IdentityAssumption
<1>7. CreatedIsNew'
  <2> SUFFICES ASSUME NEW f \in Endpoint, IsOpen(CreateTx(f))' PROVE owner'[f] = None
    BY DEF CreatedIsNew
  <2>1. CreateTx(f) # x /\ owner[f] = None
    BY <1>2 DEF CreatedIsNew, IsOpen
  <2>2. f # e
    BY <1>1, <2>1, IdentityAssumption DEF Identity
  <2> QED BY <1>6, <2>1, <2>2
<1>8. MovedIsOwn'
  <2> SUFFICES ASSUME NEW s \in Save, pc'[SaveTx(s)] \in {"written", "trimming"}
               PROVE  /\ rowLock'[call'[SaveTx(s)].endpoint] = SaveTx(s)
                      /\ owner'[call'[SaveTx(s)].endpoint] = call'[SaveTx(s)].from
    BY DEF MovedIsOwn
  <2> DEFINE y == SaveTx(s)
             f == call[y].endpoint
  <2>1. /\ y # x /\ call'[y] = call[y] /\ f \in Endpoint /\ call[y].from \in Session
        /\ rowLock[f] = y /\ owner[f] = call[y].from
    BY <1>2 DEF MovedIsOwn, CallsFit, IsOpen
  <2>2. f # e
    BY <1>1, <2>1, IdentityAssumption DEF Identity
  <2>3. owner'[f] = owner[f] /\ rowLock'[f] = y
    BY <1>1, <1>2, <2>1, <2>2
  <2> QED BY <2>1, <2>3
<1>9. DoomedIsOwn'
  <2> SUFFICES ASSUME NEW y \in Adder, NEW f \in Endpoint,
                      pc'[y] = "trimming", f \in doomed'[y], rowLock'[f] = y
               PROVE  owner'[f] = call'[y].to
    BY DEF DoomedIsOwn
  <2>1. y # x /\ call'[y] = call[y] /\ rowLock[f] = y /\ owner[f] = call[y].to
    BY <1>2 DEF DoomedIsOwn
  <2>2. call[y].to \in Identity
    BY <1>2, <2>1 DEF CallsFit, IsOpen
  <2>3. f # e
    BY <1>1, <2>1, <2>2, IdentityAssumption
  <2> QED BY <1>1, <2>1, <2>3
<1>10. \A i \in Identity \ {call[x].to} : Owned(i)' \subseteq Owned(i)
  BY <1>1, IdentityAssumption DEF Owned
<1>11. TrimLeavesRoom'
  <2> SUFFICES ASSUME NEW y \in Adder, pc'[y] = "trimming"
               PROVE  Cardinality(Others(y)' \ doomed'[y]) <= Cap - 1
    BY DEF TrimLeavesRoom
  <2>1. y # x /\ pc[y] = "trimming" /\ call'[y] = call[y] /\ doomed'[y] = doomed[y]
    BY <1>2
  <2>2. call[y].to \in Identity \ {call[x].to}
    BY <1>1, <2>1 DEF CallsFit, HoldsIdentity, IsOpen
  <2>3. Others(y)' \ doomed'[y] \in SUBSET (Others(y) \ doomed[y])
    BY <1>10, <2>1, <2>2 DEF Others, Owned
  <2>4. Others(y) \ doomed[y] \in SUBSET Endpoint
    BY DEF Others, Owned
  <2>5. Cardinality(Others(y) \ doomed[y]) <= Cap - 1
    BY <2>1 DEF TrimLeavesRoom
  <2> QED BY <2>3, <2>4, <2>5, SmallerSet, IdentityAssumption
<1>12. CapHolds'
  <2> SUFFICES ASSUME NEW i \in Identity PROVE Cardinality(Owned(i)') <= Cap
    BY DEF CapHolds
  <2>1. CASE i # call[x].to
    <3>1. Owned(i) \in SUBSET Endpoint /\ Owned(i)' \in SUBSET Owned(i)
      BY <1>10, <2>1 DEF Owned
    <3>2. Cardinality(Owned(i)) <= Cap
      BY DEF CapHolds
    <3> QED BY <3>1, <3>2, SmallerSet, IdentityAssumption
  <2>2. CASE i = call[x].to
    <3> DEFINE left == Others(x) \ doomed[x]
    <3>1. left \in SUBSET Endpoint /\ left \cup {e} \in SUBSET Endpoint
      BY <1>1 DEF Others, Owned
    <3>2. Owned(i)' \in SUBSET (left \cup {e})
      BY <1>1, <2>2, IdentityAssumption DEF Others, Owned
    <3>3. Cardinality(left) <= Cap - 1
      BY <1>1 DEF TrimLeavesRoom
    <3>4. Cardinality(left \cup {e}) <= Cardinality(left) + 1
      BY <1>1, <3>1, OneMore
    <3>5. /\ Cardinality(left) \in Nat /\ Cardinality(Owned(i)') \in Nat
          /\ Cardinality(left \cup {e}) \in Nat
          /\ Cardinality(Owned(i)') <= Cardinality(left \cup {e})
      BY <3>1, <3>2, SmallerSet
    <3> HIDE DEF left
    <3> QED BY <3>3, <3>4, <3>5, IdentityAssumption
  <2> QED BY <2>1, <2>2
<1> QED
  BY <1>3, <1>4, <1>7, <1>8, <1>9, <1>11, <1>12

-----------------------------------------------------------------------------
(* The theorems. *)

\* Each action is a step of one of these kinds.
LEMMA IdentityInductive == IdentityInv /\ [Next]_vars => IdentityInv'
<1> SUFFICES ASSUME IdentityInv, [Next]_vars PROVE IdentityInv'
  OBVIOUS
<1> USE TxParts
<1>1. ASSUME NEW x \in Tx, End(x), UNCHANGED rows PROVE IdentityInv'
  <2>1. UNCHANGED owner /\ activity' \in [Endpoint -> Nat]
    BY <1>1 DEF IdentityInv, TypeOK, rows
  <2> QED BY <1>1, <2>1, EndKeeps
<1>2. ASSUME NEW e \in Endpoint, CreateBegin(e) PROVE IdentityInv'
  <2>1. PICK i \in Identity : Begin(CreateTx(e), [endpoint |-> e, from |-> None, to |-> i])
    BY <1>2 DEF CreateBegin
  <2> DEFINE c == [endpoint |-> e, from |-> None, to |-> i]
  <2>2. c \in Call /\ c.endpoint = e /\ c.to \in Identity /\ owner[e] = None
    BY <1>2 DEF Call, CreateBegin
  <2> HIDE DEF c
  <2>3. Begin(CreateTx(e), c)
    BY <2>1 DEF c
  <2> QED BY <2>2, <2>3, BeginKeeps
<1>3. ASSUME NEW e \in Endpoint, CreateLock(e) PROVE IdentityInv'
  <2>1. /\ pc[CreateTx(e)] = "begun"
        /\ LockIdentity(CreateTx(e), call[CreateTx(e)].to, "written")
    BY <1>3 DEF CreateLock
  <2>2. IsOpen(CreateTx(e)) /\ call[CreateTx(e)].to \in Identity
    BY <2>1 DEF IsOpen, IdentityInv, CallsFit
  <2> QED BY <2>1, <2>2, LockKeeps
<1>4. ASSUME NEW s \in Save, SaveBegin(s) PROVE IdentityInv'
  <2>1. PICK e \in Endpoint, from \in Session, to \in User :
          Begin(SaveTx(s), [endpoint |-> e, from |-> from, to |-> to])
    BY <1>4 DEF SaveBegin
  <2> DEFINE c == [endpoint |-> e, from |-> from, to |-> to]
  <2>2. c \in Call /\ c.endpoint \in Endpoint /\ c.from \in Session /\ c.to \in User
    BY DEF Call, Identity
  <2> HIDE DEF c
  <2>3. Begin(SaveTx(s), c)
    BY <2>1 DEF c
  <2> QED BY <2>2, <2>3, BeginKeeps
<1>5. ASSUME NEW s \in Save, SaveLockAccount(s) PROVE IdentityInv'
  <2>1. /\ pc[SaveTx(s)] = "begun"
        /\ LockIdentity(SaveTx(s), call[SaveTx(s)].to, "account")
    BY <1>5 DEF SaveLockAccount
  <2>2. IsOpen(SaveTx(s)) /\ call[SaveTx(s)].to \in Identity
    BY <2>1 DEF IsOpen, IdentityInv, CallsFit
  <2> QED BY <2>1, <2>2, LockKeeps
<1>6. ASSUME NEW s \in Save, SaveLockSession(s) PROVE IdentityInv'
  <2>1. /\ pc[SaveTx(s)] = "account"
        /\ LockIdentity(SaveTx(s), call[SaveTx(s)].from, "locked")
    BY <1>6 DEF SaveLockSession
  <2>2. IsOpen(SaveTx(s)) /\ call[SaveTx(s)].from \in Identity
    BY <2>1 DEF IsOpen, IdentityInv, CallsFit, Identity
  <2> QED BY <2>1, <2>2, LockKeeps
<1>7. ASSUME NEW s \in Save, SaveMove(s) PROVE IdentityInv'
  <2> DEFINE x == SaveTx(s)
             e == call[x].endpoint
  <2>1. pc[x] = "checked" /\ IsOpen(x) /\ owner[e] = call[x].from /\ rowLock[e] = None
    BY <1>7 DEF SaveMove, Movable, IsOpen
  <2>2. e \in Endpoint /\ x \in Tx
    BY <2>1 DEF IdentityInv, CallsFit
  <2>3. /\ rowLock' = [rowLock EXCEPT ![e] = x]
        /\ pc' = [pc EXCEPT ![x] = "written"]
        /\ UNCHANGED <<rows, clock, identityLock, call, stamp, doomed>>
    BY <1>7 DEF SaveMove
  <2> HIDE DEF x, e
  <2>4. e = call[x].endpoint /\ \A r \in Save : x = SaveTx(r) => owner[e] = call[x].from
    BY <2>1 DEF e
  <2> QED BY <2>1, <2>2, <2>3, <2>4, RowKeeps
<1>8. ASSUME NEW s \in Save, SaveRefused(s) \/ SaveLost(s) PROVE IdentityInv'
  BY <1>1, <1>8 DEF SaveRefused, SaveLost
<1>9. ASSUME NEW t \in Touch, TouchBegin(t) PROVE IdentityInv'
  <2>1. PICK e \in Endpoint : Begin(TouchTx(t), [endpoint |-> e, from |-> None, to |-> None])
    BY <1>9 DEF TouchBegin
  <2> DEFINE c == [endpoint |-> e, from |-> None, to |-> None]
  <2>2. c \in Call /\ c.endpoint \in Endpoint
    BY DEF Call
  <2> HIDE DEF c
  <2>3. Begin(TouchTx(t), c)
    BY <2>1 DEF c
  <2> QED BY <2>2, <2>3, BeginKeeps
<1>10. ASSUME NEW t \in Touch, TouchLock(t) PROVE IdentityInv'
  <2> DEFINE x == TouchTx(t)
             e == call[x].endpoint
  <2>1. IsOpen(x) /\ rowLock[e] = None /\ owner[e] \in Identity
    BY <1>10 DEF TouchLock, IsOpen, Live
  <2>2. x \in Tx /\ x \notin Adder /\ e \in Endpoint
    BY <2>1 DEF IdentityInv, CallsFit
  <2>3. /\ rowLock' = [rowLock EXCEPT ![e] = x]
        /\ pc' = [pc EXCEPT ![x] = "written"]
        /\ UNCHANGED <<rows, clock, identityLock, call, stamp, doomed>>
    BY <1>10 DEF TouchLock
  <2> HIDE DEF x, e
  <2>4. e = call[x].endpoint /\ \A s \in Save : x # SaveTx(s)
    BY <2>2 DEF e
  <2> QED BY <2>1, <2>2, <2>3, <2>4, RowKeeps
<1>11. ASSUME NEW t \in Touch, TouchCommit(t) PROVE IdentityInv'
  <2>1. UNCHANGED owner /\ activity' \in [Endpoint -> Nat]
    BY <1>11 DEF TouchCommit, Now, IdentityInv, TypeOK
  <2>2. End(TouchTx(t))
    BY <1>11 DEF TouchCommit
  <2> QED BY <2>1, <2>2, EndKeeps
<1>12. ASSUME NEW t \in Touch, TouchRefused(t) PROVE IdentityInv'
  BY <1>1, <1>12 DEF TouchRefused
<1>13. ASSUME NEW x \in Adder, NEW e \in Endpoint, TrimRow(x, e) PROVE IdentityInv'
  <2>1. CASE owner[e] = call[x].to
    <3>1. /\ rowLock[e] = None /\ rowLock' = [rowLock EXCEPT ![e] = x]
          /\ UNCHANGED <<rows, clock, identityLock, call, stamp, doomed>>
          /\ UNCHANGED pc /\ x \in Tx
      BY <1>13, <2>1 DEF TrimRow
    <3> QED BY <2>1, <3>1, RowKeeps
  <2>2. CASE owner[e] # call[x].to
    <3>1. /\ doomed' = [doomed EXCEPT ![x] = @ \ {e}]
          /\ UNCHANGED <<rows, clock, locks, pc, call, stamp>>
      BY <1>13, <2>2 DEF TrimRow, locks
    <3> QED BY <2>2, <3>1, PassKeeps
  <2> QED BY <2>1, <2>2
<1>14. ASSUME NEW x \in Tx, Rollback(x) PROVE IdentityInv'
  BY <1>1, <1>14 DEF Rollback
<1>15. CASE UNCHANGED vars
  BY <1>15 DEF vars, rows, locks, IdentityInv, TypeOK, CallsFit, HoldsIdentity, CreatedIsNew,
       MovedIsOwn, DoomedIsOwn, TrimLeavesRoom, CapHolds, IsOpen, Others, Owned
<1> QED
  BY <1>2, <1>3, <1>4, <1>5, <1>6, <1>7, <1>8, <1>9, <1>10, <1>11, <1>12, <1>13, <1>14,
     <1>15, CheckKeeps, TrimKeeps, CommitKeeps, DeleteKeeps DEF Next

\* Endpoints, locks and transactions keep their types, for any number of
\* endpoints, sessions, accounts and calls.
THEOREM IdentityTypeCorrect == Spec => []TypeOK
<1>1. IdentityInv => TypeOK
  BY DEF IdentityInv
<1> QED
  BY <1>1, InitIdentity, IdentityInductive, PTL DEF Spec

\* What each open creation or save has locked and chosen stays true while other
\* transactions run: createEndpoint and saveEndpointToAccount serialise on
\* their identity, and their trims leave room for what they add.
THEOREM IdentityInvariant == Spec => []IdentityInv
BY InitIdentity, IdentityInductive, PTL DEF Spec

\* MAX_ENDPOINTS_PER_IDENTITY holds: no interleaving of creations and saves
\* with deletions and captures leaves an identity with more than Cap endpoints.
THEOREM CapAlwaysHolds == Spec => []CapHolds
<1>1. IdentityInv => CapHolds
  BY DEF IdentityInv
<1> QED
  BY <1>1, InitIdentity, IdentityInductive, PTL DEF Spec

\* saveEndpointToAccount is the only way an endpoint changes hands, and takes
\* it only from the session that was named, whatever overlaps it.
THEOREM OwnIsSaved == Spec => OnlyOwnIsSaved
<1> DEFINE Saved ==
      \A e \in Endpoint :
        (owner[e] \in Identity /\ owner'[e] \in Identity /\ owner'[e] # owner[e]) =>
          \E s \in Save :
            /\ pc[SaveTx(s)] = "trimming" /\ pc'[SaveTx(s)] = "done"
            /\ call[SaveTx(s)] = [endpoint |-> e, from |-> owner[e], to |-> owner'[e]]
<1>1. IdentityInv /\ [Next]_vars => [Saved]_vars
  <2> SUFFICES ASSUME IdentityInv, Next, NEW e \in Endpoint, owner[e] \in Identity,
                      owner'[e] \in Identity, owner'[e] # owner[e]
               PROVE  \E s \in Save :
                        /\ pc[SaveTx(s)] = "trimming" /\ pc'[SaveTx(s)] = "done"
                        /\ call[SaveTx(s)] = [endpoint |-> e, from |-> owner[e], to |-> owner'[e]]
    OBVIOUS
  <2>1. ~ UNCHANGED owner
    OBVIOUS
  <2>2. ~ \E f \in Endpoint : DeleteEndpoint(f)
    BY IdentityAssumption DEF DeleteEndpoint, IdentityInv, TypeOK
  <2>3. PICK x \in Adder : AddCommit(x)
    BY <2>1, <2>2 DEF Next, CreateBegin, CreateLock, SaveBegin, SaveLockAccount,
         SaveLockSession, SaveCheck, SaveMove, SaveLost, SaveRefused, TouchBegin, TouchLock, TouchCommit,
         TouchRefused, Trim, TrimRow, Rollback, Begin, LockIdentity, rows
  <2>4. e = call[x].endpoint
    BY <2>3, CommitWrites, IdentityAssumption
  <2>5. PICK s \in Save : x = SaveTx(s) /\ owner[e] = call[x].from
    BY <2>3, <2>4, CommitWrites, IdentityAssumption
  <2>6. pc[x] = "trimming" /\ owner'[e] = call[x].to
    BY <2>3, <2>4, CommitWrites
  <2>7. x \in Tx /\ pc \in [Tx -> {"idle", "begun", "account", "locked", "checked", "written", "trimming", "done"}]
    BY TxParts DEF IdentityInv, TypeOK
  <2>8. pc'[x] = "done"
    BY <2>3, <2>7 DEF AddCommit, End
  <2>9. call[x] = [endpoint |-> e, from |-> owner[e], to |-> owner'[e]]
    <3>1. call[x] \in Call
      BY TxParts DEF IdentityInv, TypeOK
    <3> QED BY <2>4, <2>5, <2>6, <3>1 DEF Call
  <2> QED BY <2>5, <2>6, <2>8, <2>9
<1> QED
  BY <1>1, InitIdentity, IdentityInductive, PTL DEF Spec, OnlyOwnIsSaved
=============================================================================
