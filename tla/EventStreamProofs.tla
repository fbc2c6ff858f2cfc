------------------------- MODULE EventStreamProofs -------------------------
(***************************************************************************)
(* Proofs about EventStream, for any number of streams, endpoints, scopes  *)
(* and keys, any limits, and any lease time longer than two heartbeats.    *)
(* The limit of the leases is kept by the acquire script alone: it sweeps  *)
(* and counts what is stored under the key, and nothing else stores.  The  *)
(* limit of the streams follows because the lease of a stream that is      *)
(* renewed in time cannot have run out, so that nobody sweeps it away:     *)
(* Fresh bounds what a lease has lost since its last renewal.              *)
(***************************************************************************)
EXTENDS EventStream, FiniteSetTheorems, TLAPS

Stored(s, k) == {t \in Sharing(s, k) : lease[t][k] # Absent}

StoredWithin == \A s \in Stream, k \in Scope : Cardinality(Stored(s, k)) <= Limit[k]

\* A stream that is over holds nothing, one that still acquires not everything.
HeldByPhase ==
  \A s \in Stream :
    /\ phase[s] = "closed" => held[s] = 0
    /\ phase[s] = "acquiring" => held[s] < Scopes

\* The ticks that a lease may have lost: those since the last heartbeat, and one
\* interval more if that heartbeat has failed.
Lost(s) == timer[s] + (IF misses[s] = 0 THEN 0 ELSE HeartbeatTicks)

Renewing(s) == phase[s] \in OpeningPhase \cup {"open"} /\ misses[s] < 2

Fresh ==
  \A s \in Stream, k \in Scope :
    Renewing(s) /\ k <= held[s] => lease[s][k] >= LeaseTicks - Lost(s)

IInv == TypeOK /\ HeldByPhase /\ StoredWithin /\ Fresh

-----------------------------------------------------------------------------
(* What is stored. *)

LEMMA SharingIsFinite ==
  ASSUME NEW s, NEW k
  PROVE  /\ IsFiniteSet(Sharing(s, k)) /\ Sharing(s, k) \subseteq Stream
         /\ IsFiniteSet(Stored(s, k)) /\ IsFiniteSet(Running(s, k))
BY FS_Subset, StreamAssumption DEF Sharing, Stored, Running

\* A step that stores no lease keeps the limits.
LEMMA NothingStored ==
  ASSUME StoredWithin,
         \A t \in Stream, k \in Scope : lease'[t][k] # Absent => lease[t][k] # Absent
  PROVE  StoredWithin'
<1> SUFFICES ASSUME NEW s \in Stream, NEW k \in Scope
             PROVE  Cardinality(Stored(s, k)') <= Limit[k]
  BY DEF StoredWithin
<1>1. Stored(s, k)' \subseteq Stored(s, k)
  BY SharingIsFinite DEF Stored, Sharing
<1>2. /\ Cardinality(Stored(s, k)') <= Cardinality(Stored(s, k))
      /\ Cardinality(Stored(s, k)') \in Nat /\ Cardinality(Stored(s, k)) \in Nat
  BY <1>1, SharingIsFinite, FS_Subset, FS_CardinalityType
<1>3. Cardinality(Stored(s, k)) <= Limit[k] /\ Limit[k] \in Nat
  BY StreamAssumption DEF StoredWithin
<1>4. QED
  BY <1>2, <1>3

Sweeps(s, n) == lease' = Swept(s, n)
Stores(s, n) == lease' = [Swept(s, n) EXCEPT ![s][n] = LeaseTicks]

\* What sweeping and then storing a lease of the scope n for s writes.
LEMMA SweptLease ==
  ASSUME TypeOK, NEW s \in Stream, NEW n \in Scope, Sweeps(s, n) \/ Stores(s, n)
  PROVE  /\ lease' \in [Stream -> [Scope -> Absent..LeaseTicks]]
         /\ \A t \in Stream, k \in Scope : k # n => lease'[t][k] = lease[t][k]
         /\ \A t \in Sharing(s, n) \ {s} :
              lease'[t][n] = IF lease[t][n] = 0 THEN Absent ELSE lease[t][n]
         /\ \A t \in Stream \ Sharing(s, n) : t # s => lease'[t][n] = lease[t][n]
         /\ Sweeps(s, n) =>
              \A t \in Stream, k \in Scope : lease'[t][k] # Absent => lease[t][k] # Absent
<1>1. /\ Absent \in Absent..LeaseTicks /\ LeaseTicks \in Absent..LeaseTicks
      /\ Sharing(s, n) \subseteq Stream
  BY StreamAssumption DEF Absent, Sharing
<1>2. /\ Swept(s, n) \in [Stream -> [Scope -> Absent..LeaseTicks]]
      /\ \A t \in Stream, k \in Scope : Swept(s, n)[t][k] =
           IF k = n /\ t \in Sharing(s, n) /\ lease[t][n] = 0 THEN Absent ELSE lease[t][k]
  BY <1>1 DEF Swept, TypeOK
<1>3. QED
  BY <1>1, <1>2 DEF Sweeps, Stores

\* The acquire script stores a lease only below the limit.
LEMMA LeaseStored ==
  ASSUME TypeOK, StoredWithin, NEW s \in Stream, NEW n \in Scope, HasCapacity(s, n), Stores(s, n)
  PROVE  StoredWithin'
<1> SUFFICES ASSUME NEW u \in Stream, NEW k \in Scope
             PROVE  Cardinality(Stored(u, k)') <= Limit[k]
  BY DEF StoredWithin
<1>1. Limit[k] \in Nat
  BY StreamAssumption
<1>4. /\ \A t \in Stream, j \in Scope : j # n => lease'[t][j] = lease[t][j]
      /\ \A t \in Sharing(s, n) \ {s} :
           lease'[t][n] = IF lease[t][n] = 0 THEN Absent ELSE lease[t][n]
      /\ \A t \in Stream \ Sharing(s, n) : t # s => lease'[t][n] = lease[t][n]
  BY SweptLease
<1>2. CASE k = n /\ KeyOf[u][k] = KeyOf[s][k]
  <2>1. Stored(u, k)' \subseteq Running(s, n) \cup {s}
    <3> SUFFICES ASSUME NEW t \in Stored(u, k)', t # s
                 PROVE  t \in Running(s, n)
      OBVIOUS
    <3>1. t \in Sharing(s, n) \ {s} /\ lease'[t][n] # Absent
      BY <1>2 DEF Stored, Sharing
    <3>2. lease'[t][n] = IF lease[t][n] = 0 THEN Absent ELSE lease[t][n]
      BY <3>1, <1>4
    <3>3. lease[t][n] \in Absent..LeaseTicks
      BY <3>1, SharingIsFinite DEF TypeOK
    <3>4. QED
      BY <3>1, <3>2, <3>3, StreamAssumption DEF Running, Runs, Absent
  <2>2. /\ IsFiniteSet(Running(s, n) \cup {s})
        /\ Cardinality(Running(s, n) \cup {s}) <= Cardinality(Running(s, n)) + 1
        /\ Cardinality(Running(s, n)) \in Nat
    <3>1. IsFiniteSet(Running(s, n)) /\ Cardinality(Running(s, n)) \in Nat
      BY SharingIsFinite, FS_CardinalityType
    <3>2. IsFiniteSet(Running(s, n) \cup {s})
      BY <3>1, FS_AddElement
    <3>3. \/ Cardinality(Running(s, n) \cup {s}) = Cardinality(Running(s, n)) + 1
          \/ Cardinality(Running(s, n) \cup {s}) = Cardinality(Running(s, n))
      BY <3>1, FS_AddElement
    <3>4. QED
      BY <3>1, <3>2, <3>3
  <2>3. /\ Cardinality(Stored(u, k)') <= Cardinality(Running(s, n) \cup {s})
        /\ Cardinality(Stored(u, k)') \in Nat /\ Cardinality(Running(s, n) \cup {s}) \in Nat
    BY <2>1, <2>2, FS_Subset, FS_CardinalityType
  <2>4. Cardinality(Running(s, n)) < Limit[k]
    BY <1>2 DEF HasCapacity
  <2>5. QED
    BY <1>1, <2>2, <2>3, <2>4
<1>3. CASE ~(k = n /\ KeyOf[u][k] = KeyOf[s][k])
  <2>1. Stored(u, k)' \subseteq Stored(u, k)
    <3> SUFFICES ASSUME NEW t \in Stored(u, k)'
                 PROVE  t \in Stored(u, k)
      OBVIOUS
    <3>1. t \in Sharing(u, k) /\ t \in Stream /\ lease'[t][k] # Absent
      BY DEF Stored, Sharing
    <3>2. ~(t = s /\ k = n)
      BY <1>3, <3>1 DEF Sharing
    <3>3. lease[t][k] # Absent
      BY <3>1, <3>2, <1>4
    <3>4. QED
      BY <3>1, <3>3 DEF Stored
  <2>2. /\ Cardinality(Stored(u, k)') <= Cardinality(Stored(u, k))
        /\ Cardinality(Stored(u, k)') \in Nat /\ Cardinality(Stored(u, k)) \in Nat
    BY <2>1, SharingIsFinite, FS_Subset, FS_CardinalityType
  <2>3. Cardinality(Stored(u, k)) <= Limit[k]
    BY DEF StoredWithin
  <2>4. QED
    BY <1>1, <2>2, <2>3
<1>5. QED
  BY <1>2, <1>3

-----------------------------------------------------------------------------
(* What has been lost. *)

\* The lease of a stream that renews it in time runs.
LEMMA RenewedRuns ==
  ASSUME TypeOK, Fresh, NEW s \in Stream, NEW k \in Scope, Renewing(s), k <= held[s]
  PROVE  lease[s][k] > 0
<1>1. /\ timer[s] \in 0..HeartbeatTicks /\ lease[s][k] \in Absent..LeaseTicks
      /\ HeartbeatTicks \in Nat /\ LeaseTicks \in Nat /\ LeaseTicks > 2 * HeartbeatTicks
  BY StreamAssumption DEF TypeOK
<1>2. Lost(s) \in Nat /\ Lost(s) <= 2 * HeartbeatTicks
  BY <1>1 DEF Lost
<1>3. lease[s][k] >= LeaseTicks - Lost(s)
  BY DEF Fresh
<1>4. QED
  BY <1>1, <1>2, <1>3 DEF Absent

\* A step that keeps the clocks of the streams that renew, and their leases.
LEMMA NothingLost ==
  ASSUME TypeOK, Fresh,
         \A t \in Stream : Renewing(t)' =>
           \/ held'[t] = 0
           \/ Renewing(t) /\ held'[t] = held[t] /\ timer'[t] = timer[t] /\ misses'[t] = misses[t],
         \A t \in Stream, k \in Scope : lease[t][k] > 0 => lease'[t][k] = lease[t][k]
  PROVE  Fresh'
<1> SUFFICES ASSUME NEW t \in Stream, NEW k \in Scope, Renewing(t)', k <= held'[t]
             PROVE  lease'[t][k] >= LeaseTicks - Lost(t)'
  BY DEF Fresh
<1>1. held'[t] # 0
  BY StreamAssumption DEF Scope
<1>2. /\ Renewing(t) /\ k <= held[t]
      /\ timer'[t] = timer[t] /\ misses'[t] = misses[t]
  BY <1>1
<1>3. lease'[t][k] = lease[t][k] /\ Lost(t)' = Lost(t)
  BY <1>2, RenewedRuns DEF Lost
<1>4. QED
  BY <1>2, <1>3 DEF Fresh

-----------------------------------------------------------------------------
(* One lemma for each group of steps. *)

\* Steps that change phases only.
LEMMA PhaseStep ==
  ASSUME IInv, UNCHANGED <<lease, held, timer, misses>>,
         phase' \in [Stream -> OpeningPhase \cup {"open", "releasing", "closed"}],
         access' \in [Endpoint -> {"everyone", "owner", "nobody", "trimmed"}],
         unpublished' \in SUBSET Event, overtaken' \in SUBSET Stream,
         \A t \in Stream :
           \/ phase'[t] = phase[t]
           \/ phase'[t] = "releasing"
           \/ phase[t] = "closed" /\ phase'[t] = "acquiring"
           \/ phase[t] = "access" /\ phase'[t] = "read"
           \/ phase[t] = "read" /\ phase'[t] = "open"
  PROVE  IInv'
<1>1. \A t \in Stream : held[t] \in 0..Scopes /\ Scopes \in Nat \ {0}
  BY StreamAssumption DEF IInv, TypeOK
<1>2. TypeOK'
  BY DEF IInv, TypeOK
<1>3. HeldByPhase'
  BY <1>1 DEF IInv, HeldByPhase
<1>4. StoredWithin'
  BY NothingStored DEF IInv
<1>5. \A t \in Stream : Renewing(t)' => held'[t] = 0 \/ Renewing(t)
  BY DEF IInv, HeldByPhase, Renewing, OpeningPhase
<1>6. Fresh'
  BY <1>5, NothingLost DEF IInv
<1>7. QED
  BY <1>2, <1>3, <1>4, <1>6 DEF IInv

LEMMA AcquireStep ==
  ASSUME IInv, NEW s \in Stream, Acquire(s)
  PROVE  IInv'
<1> DEFINE n == NextScope(s)
<1>1. /\ held[s] \in 0..Scopes /\ held[s] < Scopes /\ Scopes \in Nat
      /\ n = held[s] + 1 /\ n \in Scope
  BY StreamAssumption DEF IInv, TypeOK, HeldByPhase, Acquire, NextScope, Scope
<1>2. HasCapacity(s, n) /\ Stores(s, n)
  BY DEF Acquire, Stores
<1> HIDE DEF n
<1>3. StoredWithin'
  BY <1>1, <1>2, LeaseStored DEF IInv
<1>4. /\ lease' \in [Stream -> [Scope -> Absent..LeaseTicks]]
      /\ \A t \in Stream, k \in Scope : k # n => lease'[t][k] = lease[t][k]
      /\ \A t \in Sharing(s, n) \ {s} :
           lease'[t][n] = IF lease[t][n] = 0 THEN Absent ELSE lease[t][n]
      /\ \A t \in Stream \ Sharing(s, n) : t # s => lease'[t][n] = lease[t][n]
  BY <1>1, <1>2, SweptLease DEF IInv
<1>5. /\ held' = [held EXCEPT ![s] = @ + 1] /\ held'[s] = n
      /\ phase[s] = "acquiring"
      /\ phase' = [phase EXCEPT ![s] = IF held'[s] = Scopes THEN "access" ELSE @]
      /\ UNCHANGED <<timer, misses, access, unpublished, overtaken>>
  BY <1>1 DEF Acquire, IInv, TypeOK
<1>6. TypeOK'
  BY <1>1, <1>4, <1>5 DEF IInv, TypeOK, OpeningPhase
<1>7. HeldByPhase'
  BY <1>1, <1>5 DEF IInv, HeldByPhase, TypeOK
<1>8. Fresh'
  <2> SUFFICES ASSUME NEW t \in Stream, NEW k \in Scope, Renewing(t)', k <= held'[t]
               PROVE  lease'[t][k] >= LeaseTicks - Lost(t)'
    BY DEF Fresh
  <2>1. Renewing(t) /\ Lost(t)' = Lost(t)
    BY <1>5 DEF Renewing, Lost, OpeningPhase, IInv, TypeOK
  <2>2. CASE t = s /\ k = n
    <3>1. lease'[s][n] = LeaseTicks
      BY <1>1, <1>2, StreamAssumption DEF Stores, Swept, IInv, TypeOK
    <3>2. Lost(t)' \in Nat
      BY <1>5, StreamAssumption DEF Lost, IInv, TypeOK
    <3>3. QED
      BY <2>2, <3>1, <3>2, StreamAssumption
  <2>3. CASE ~(t = s /\ k = n)
    <3>1. k <= held[t]
      BY <1>1, <1>5, <2>3 DEF Scope, IInv, TypeOK
    <3>2. lease[t][k] > 0 /\ lease[t][k] >= LeaseTicks - Lost(t)
      BY <2>1, <3>1, RenewedRuns DEF IInv, Fresh
    <3>3. lease'[t][k] = lease[t][k]
      BY <1>4, <2>3, <3>2
    <3>4. QED
      BY <2>1, <3>2, <3>3
  <2>4. QED
    BY <2>2, <2>3
<1>9. QED
  BY <1>3, <1>6, <1>7, <1>8 DEF IInv

LEMMA AcquireFailsStep ==
  ASSUME IInv, NEW s \in Stream, AcquireFails(s)
  PROVE  IInv'
<1> DEFINE n == NextScope(s)
<1>1. n \in Scope
  BY StreamAssumption DEF IInv, TypeOK, HeldByPhase, AcquireFails, NextScope, Scope
<1>2. \/ lease' = lease
      \/ Sweeps(s, n)
      \/ HasCapacity(s, n) /\ Stores(s, n)
  BY DEF AcquireFails, Sweeps, Stores
<1> HIDE DEF n
<1>3. /\ phase[s] = "acquiring" /\ phase' = [phase EXCEPT ![s] = "releasing"]
      /\ UNCHANGED <<held, timer, misses, access, unpublished, overtaken>>
  BY DEF AcquireFails
<1>4. StoredWithin'
  <2>1. CASE lease' = lease
    BY <2>1, NothingStored DEF IInv
  <2>2. CASE Sweeps(s, n)
    <3>1. \A t \in Stream, k \in Scope : lease'[t][k] # Absent => lease[t][k] # Absent
      BY <1>1, <2>2, SweptLease DEF IInv
    <3>2. QED
      BY <3>1, NothingStored DEF IInv
  <2>3. CASE HasCapacity(s, n) /\ Stores(s, n)
    BY <1>1, <2>3, LeaseStored DEF IInv
  <2>4. QED
    BY <1>2, <2>1, <2>2, <2>3
<1>5. /\ lease' \in [Stream -> [Scope -> Absent..LeaseTicks]]
      /\ \A t \in Stream \ {s}, k \in Scope : lease[t][k] > 0 => lease'[t][k] = lease[t][k]
  <2>1. CASE lease' = lease
    BY <2>1 DEF IInv, TypeOK
  <2>2. CASE Sweeps(s, n) \/ Stores(s, n)
    <3>1. /\ lease' \in [Stream -> [Scope -> Absent..LeaseTicks]]
          /\ \A t \in Stream, k \in Scope : k # n => lease'[t][k] = lease[t][k]
          /\ \A t \in Sharing(s, n) \ {s} :
               lease'[t][n] = IF lease[t][n] = 0 THEN Absent ELSE lease[t][n]
          /\ \A t \in Stream \ Sharing(s, n) : t # s => lease'[t][n] = lease[t][n]
      BY <1>1, <2>2, SweptLease DEF IInv
    <3>2. QED
      BY <3>1
  <2>3. QED
    BY <1>2, <2>1, <2>2
<1>6. TypeOK'
  BY <1>3, <1>5 DEF IInv, TypeOK
<1>7. HeldByPhase'
  BY <1>3 DEF IInv, HeldByPhase, TypeOK
<1>8. Fresh'
  <2> SUFFICES ASSUME NEW t \in Stream, NEW k \in Scope, Renewing(t)', k <= held'[t]
               PROVE  lease'[t][k] >= LeaseTicks - Lost(t)'
    BY DEF Fresh
  <2>1. t # s /\ Renewing(t) /\ Lost(t)' = Lost(t) /\ k <= held[t]
    BY <1>3 DEF Renewing, Lost, OpeningPhase, IInv, TypeOK
  <2>2. lease[t][k] > 0 /\ lease[t][k] >= LeaseTicks - Lost(t)
    BY <2>1, RenewedRuns DEF IInv, Fresh
  <2>3. QED
    BY <1>5, <2>1, <2>2
<1>9. QED
  BY <1>4, <1>6, <1>7, <1>8 DEF IInv

\* All leases are renewed, or the heartbeat counts as failed.
LEMMA HeartbeatStep ==
  ASSUME IInv, NEW s \in Stream, Heartbeat(s)
  PROVE  IInv'
<1>1. PICK done \in 0..Scopes, failed \in BOOLEAN :
        /\ done = Scopes \/ failed
        /\ lease' = [lease EXCEPT ![s] = [k \in Scope |->
                       IF k <= done THEN Renewed(@[k]) ELSE @[k]]]
        /\ misses' = [misses EXCEPT ![s] = IF @ = 2 THEN 2 ELSE IF failed THEN @ + 1 ELSE 0]
  BY DEF Heartbeat
<1>2. /\ phase[s] = "open" /\ timer[s] = HeartbeatTicks
      /\ timer' = [timer EXCEPT ![s] = 0]
      /\ UNCHANGED <<phase, held, access, unpublished, overtaken>>
  BY DEF Heartbeat, Beating
<1>3. /\ \A t \in Stream \ {s} : lease'[t] = lease[t]
      /\ \A k \in Scope : lease'[s][k] = IF k <= done THEN Renewed(lease[s][k]) ELSE lease[s][k]
      /\ \A k \in Scope : lease[s][k] \in Absent..LeaseTicks
  BY <1>1 DEF IInv, TypeOK
<1>4. LeaseTicks \in Absent..LeaseTicks /\ Absent \in Absent..LeaseTicks
  BY StreamAssumption DEF Absent
<1>5. TypeOK'
  <2>1. lease' \in [Stream -> [Scope -> Absent..LeaseTicks]]
    BY <1>1, <1>3, <1>4 DEF IInv, TypeOK, Renewed
  <2>2. misses' \in [Stream -> 0..2]
    BY <1>1 DEF IInv, TypeOK
  <2>3. timer' \in [Stream -> 0..HeartbeatTicks]
    BY <1>2, StreamAssumption DEF IInv, TypeOK
  <2>4. QED
    BY <1>2, <2>1, <2>2, <2>3 DEF IInv, TypeOK
<1>6. HeldByPhase'
  BY <1>2 DEF IInv, HeldByPhase
<1>7. StoredWithin'
  <2>1. \A t \in Stream, k \in Scope : lease'[t][k] # Absent => lease[t][k] # Absent
    BY <1>3 DEF Renewed
  <2>2. QED
    BY <2>1, NothingStored DEF IInv
<1>8. Fresh'
  <2> SUFFICES ASSUME NEW t \in Stream, NEW k \in Scope, Renewing(t)', k <= held'[t]
               PROVE  lease'[t][k] >= LeaseTicks - Lost(t)'
    BY DEF Fresh
  <2>1. CASE t # s
    <3>1. Renewing(t) /\ k <= held[t] /\ Lost(t)' = Lost(t)
      BY <1>1, <1>2, <2>1 DEF Renewing, Lost, IInv, TypeOK
    <3>2. QED
      BY <1>3, <2>1, <3>1 DEF IInv, Fresh
  <2>2. CASE t = s
    <3>1. misses'[s] = IF misses[s] = 2 THEN 2 ELSE IF failed THEN misses[s] + 1 ELSE 0
      BY <1>1 DEF IInv, TypeOK
    <3>2. misses[s] \in 0..2 /\ misses'[s] < 2
      BY <2>2 DEF Renewing, IInv, TypeOK
    <3>3. Renewing(s) /\ k <= held[s]
      BY <1>2, <2>2, <3>1, <3>2 DEF Renewing
    <3>4. lease[s][k] > 0 /\ lease[s][k] >= LeaseTicks - Lost(s)
      BY <3>3, RenewedRuns DEF IInv, Fresh
    <3>5. timer'[s] = 0
      BY <1>2 DEF IInv, TypeOK
    <3>6. CASE failed
      <4>1. misses[s] = 0 /\ misses'[s] = 1
        BY <3>1, <3>2, <3>6
      <4>2. Lost(s) = HeartbeatTicks /\ Lost(s)' = HeartbeatTicks
        BY <1>2, <3>5, <4>1, StreamAssumption DEF Lost
      <4>3. lease'[s][k] >= lease[s][k]
        BY <1>3, <3>4, StreamAssumption DEF Renewed, Absent
      <4>4. lease'[s][k] \in Int /\ lease[s][k] \in Int
        BY <1>3, <1>5, StreamAssumption DEF TypeOK, Absent
      <4>5. QED
        BY <2>2, <3>4, <4>2, <4>3, <4>4, StreamAssumption
    <3>7. CASE ~failed
      <4>1. done = Scopes /\ k <= Scopes
        BY <1>1, <3>7, StreamAssumption DEF Scope
      <4>2. lease'[s][k] = LeaseTicks
        BY <1>3, <3>4, <4>1 DEF Renewed, Absent
      <4>3. misses'[s] = 0
        BY <3>1, <3>2, <3>7
      <4>4. Lost(s)' = 0
        BY <3>5, <4>3 DEF Lost
      <4>5. QED
        BY <2>2, <4>2, <4>4, StreamAssumption
    <3>8. QED
      BY <3>6, <3>7
  <2>3. QED
    BY <2>1, <2>2
<1>9. QED
  BY <1>5, <1>6, <1>7, <1>8 DEF IInv

LEMMA ReleaseStep ==
  ASSUME IInv, NEW s \in Stream, Release(s)
  PROVE  IInv'
<1>1. PICK done \in 0..held[s] :
        lease' = [lease EXCEPT ![s] = [k \in Scope |-> IF k <= done THEN Absent ELSE @[k]]]
  BY DEF Release
<1>2. /\ phase[s] = "releasing" /\ phase' = [phase EXCEPT ![s] = "closed"]
      /\ held' = [held EXCEPT ![s] = 0] /\ timer' = [timer EXCEPT ![s] = 0]
      /\ misses' = [misses EXCEPT ![s] = 0] /\ overtaken' = overtaken \ {s}
      /\ UNCHANGED <<access, unpublished>>
  BY DEF Release
<1>3. /\ \A t \in Stream \ {s} : lease'[t] = lease[t]
      /\ \A k \in Scope : lease'[s][k] \in {Absent, lease[s][k]}
      /\ \A k \in Scope : lease[s][k] \in Absent..LeaseTicks
  BY <1>1 DEF IInv, TypeOK
<1>4. Absent \in Absent..LeaseTicks /\ 0 \in 0..HeartbeatTicks /\ 0 \in 0..Scopes
  BY StreamAssumption DEF Absent
<1>5. TypeOK'
  <2>1. lease' \in [Stream -> [Scope -> Absent..LeaseTicks]]
    BY <1>1, <1>3, <1>4 DEF IInv, TypeOK
  <2>2. held' \in [Stream -> 0..Scopes] /\ timer' \in [Stream -> 0..HeartbeatTicks]
    BY <1>2, <1>4 DEF IInv, TypeOK
  <2>3. misses' \in [Stream -> 0..2] /\ overtaken' \in SUBSET Stream
    BY <1>2 DEF IInv, TypeOK
  <2>4. /\ phase' \in [Stream -> OpeningPhase \cup {"open", "releasing", "closed"}]
        /\ \A t \in Stream : phase'[t] \in {"access", "read", "open"} => held'[t] = Scopes
    BY <1>2 DEF IInv, TypeOK
  <2>5. QED
    BY <1>2, <2>1, <2>2, <2>3, <2>4 DEF IInv, TypeOK
<1>6. HeldByPhase'
  BY <1>2 DEF IInv, HeldByPhase, TypeOK
<1>7. StoredWithin'
  <2>1. \A t \in Stream, k \in Scope : lease'[t][k] # Absent => lease[t][k] # Absent
    BY <1>3
  <2>2. QED
    BY <2>1, NothingStored DEF IInv
<1>8. Fresh'
  <2> SUFFICES ASSUME NEW t \in Stream, NEW k \in Scope, Renewing(t)', k <= held'[t]
               PROVE  lease'[t][k] >= LeaseTicks - Lost(t)'
    BY DEF Fresh
  <2>1. t # s
    BY <1>2 DEF Renewing, OpeningPhase, IInv, TypeOK
  <2>2. Renewing(t) /\ k <= held[t] /\ Lost(t)' = Lost(t)
    BY <1>2, <2>1 DEF Renewing, Lost, IInv, TypeOK
  <2>3. QED
    BY <1>3, <2>1, <2>2 DEF IInv, Fresh
<1>9. QED
  BY <1>5, <1>6, <1>7, <1>8 DEF IInv

\* A tick takes one from a lease and adds one to what its stream may have lost.
LEMMA TickStep ==
  ASSUME IInv, Tick
  PROVE  IInv'
<1>1. /\ \A t \in Stream, k \in Scope :
           lease'[t][k] = IF lease[t][k] > 0 THEN lease[t][k] - 1 ELSE lease[t][k]
      /\ \A t \in Stream : timer'[t] = IF phase[t] = "open" THEN timer[t] + 1 ELSE timer[t]
      /\ \A t \in Stream : misses'[t] =
           IF phase[t] \in OpeningPhase /\ misses[t] < 2 THEN misses[t] + 1 ELSE misses[t]
      /\ \A t \in Stream : phase[t] = "open" => timer[t] < HeartbeatTicks
      /\ UNCHANGED <<phase, held, access, unpublished, overtaken>>
  BY DEF Tick, Beating, Runs
<1>2. \A t \in Stream :
        /\ timer[t] \in 0..HeartbeatTicks /\ misses[t] \in 0..2
        /\ \A k \in Scope : lease[t][k] \in Absent..LeaseTicks
  BY DEF IInv, TypeOK
<1>3. TypeOK'
  <2>1. lease' \in [Stream -> [Scope -> Absent..LeaseTicks]]
    <3>1. \A t \in Stream, k \in Scope : lease'[t][k] \in Absent..LeaseTicks
      BY <1>1, <1>2, StreamAssumption DEF Absent
    <3>2. lease' = [t \in Stream |-> [k \in Scope |->
                      IF Runs(t, k) THEN lease[t][k] - 1 ELSE lease[t][k]]]
      BY DEF Tick
    <3>3. QED
      BY <3>1, <3>2
  <2>2. timer' \in [Stream -> 0..HeartbeatTicks]
    <3>1. \A t \in Stream : timer'[t] \in 0..HeartbeatTicks
      BY <1>1, <1>2, StreamAssumption
    <3>2. QED
      BY <3>1 DEF Tick
  <2>3. misses' \in [Stream -> 0..2]
    <3>1. \A t \in Stream : misses'[t] \in 0..2
      BY <1>1, <1>2
    <3>2. QED
      BY <3>1 DEF Tick
  <2>4. QED
    BY <1>1, <2>1, <2>2, <2>3 DEF IInv, TypeOK
<1>4. HeldByPhase'
  BY <1>1 DEF IInv, HeldByPhase
<1>5. StoredWithin'
  <2>1. \A t \in Stream, k \in Scope : lease'[t][k] # Absent => lease[t][k] # Absent
    BY <1>1, <1>2, StreamAssumption DEF Absent
  <2>2. QED
    BY <2>1, NothingStored DEF IInv
<1>6. Fresh'
  <2> SUFFICES ASSUME NEW t \in Stream, NEW k \in Scope, Renewing(t)', k <= held'[t]
               PROVE  lease'[t][k] >= LeaseTicks - Lost(t)'
    BY DEF Fresh
  <2>1. Renewing(t) /\ k <= held[t]
    BY <1>1, <1>2 DEF Renewing
  <2>2. lease[t][k] > 0 /\ lease[t][k] >= LeaseTicks - Lost(t)
    BY <2>1, RenewedRuns DEF IInv, Fresh
  <2>3. lease'[t][k] = lease[t][k] - 1 /\ lease[t][k] \in Int
    BY <1>1, <1>2, <2>2, StreamAssumption DEF Absent
  <2>4. Lost(t) \in Int /\ Lost(t)' \in Int /\ Lost(t)' >= Lost(t) + 1
    <3>1. CASE phase[t] = "open"
      <4>1. timer'[t] = timer[t] + 1 /\ misses'[t] = misses[t]
        BY <1>1, <3>1 DEF OpeningPhase
      <4>2. QED
        BY <1>2, <4>1, StreamAssumption DEF Lost
    <3>2. CASE phase[t] \in OpeningPhase
      <4>1. misses[t] = 0 /\ misses'[t] = 1
        BY <1>1, <1>2, <2>1, <3>2 DEF Renewing
      <4>2. timer'[t] = timer[t]
        BY <1>1, <3>2 DEF OpeningPhase
      <4>3. QED
        BY <1>2, <4>1, <4>2, StreamAssumption DEF Lost
    <3>3. QED
      BY <2>1, <3>1, <3>2 DEF Renewing
  <2>5. QED
    BY <2>2, <2>3, <2>4, StreamAssumption
<1>7. QED
  BY <1>3, <1>4, <1>5, <1>6 DEF IInv

\* What remains changes no lease: opening and closing, the transactions that take
\* access away, and their events.
LEMMA OpenOrCloseStep ==
  ASSUME IInv, NEW s \in Stream, Start(s) \/ ReadAccess(s) \/ Subscribe(s) \/ Close(s)
  PROVE  IInv'
<1>1. /\ phase \in [Stream -> OpeningPhase \cup {"open", "releasing", "closed"}]
      /\ access \in [Endpoint -> {"everyone", "owner", "nobody", "trimmed"}]
      /\ unpublished \in SUBSET Event /\ overtaken \in SUBSET Stream
  BY DEF IInv, TypeOK
<1>2. CASE Start(s)
  BY <1>1, <1>2, PhaseStep DEF Start, OpeningPhase
<1>3. CASE ReadAccess(s)
  BY <1>1, <1>3, PhaseStep DEF ReadAccess, OpeningPhase
<1>4. CASE Subscribe(s)
  BY <1>1, <1>4, PhaseStep DEF Subscribe, OpeningPhase
<1>5. CASE Close(s)
  BY <1>1, <1>5, PhaseStep DEF Close, Cleaned
<1>6. QED
  BY <1>2, <1>3, <1>4, <1>5

LEMMA LosingEffects ==
  ASSUME NEW e \in Endpoint, Losing(e)
  PROVE  \E new \in {"owner", "nobody", "trimmed"}, events \in SUBSET Event :
           /\ Commits(e, new, events)
           /\ new # "trimmed" => events # {} /\ \A event \in events : event[2] = e
           /\ access[e] \in {"everyone", "owner"}
           /\ access[e] = "owner" => new \in {"owner", "nobody", "trimmed"}
<1>1. {<<"access-revoked", e>>} \in SUBSET Event /\ {<<"deleted", e>>} \in SUBSET Event
  BY DEF Event
<1>2. QED
  BY <1>1 DEF Losing, SaveToAccount, DeleteEndpoint, TrimEndpoint

LEMMA LosingStep ==
  ASSUME IInv, NEW e \in Endpoint, Losing(e)
  PROVE  IInv'
<1>1. PICK new \in {"owner", "nobody", "trimmed"}, events \in SUBSET Event :
        Commits(e, new, events)
  BY LosingEffects
<1>2. /\ UNCHANGED <<streamVars, overtaken>>
      /\ access' \in [Endpoint -> {"everyone", "owner", "nobody", "trimmed"}]
      /\ unpublished' \in SUBSET Event
  BY <1>1 DEF Commits, IInv, TypeOK
<1>3. phase' \in [Stream -> OpeningPhase \cup {"open", "releasing", "closed"}]
      /\ overtaken' \in SUBSET Stream
  BY <1>2 DEF IInv, TypeOK, streamVars
<1>4. QED
  BY <1>2, <1>3, PhaseStep DEF streamVars

LEMMA PublishStep ==
  ASSUME IInv, NEW event \in Event, Publish(event)
  PROVE  IInv'
<1>1. /\ phase' = Cleaned(EndedBy(event))
      /\ unpublished' \in SUBSET Event /\ overtaken' \in SUBSET Stream
      /\ access' \in [Endpoint -> {"everyone", "owner", "nobody", "trimmed"}]
      /\ UNCHANGED <<lease, held, timer, misses>>
  BY DEF Publish, IInv, TypeOK
<1>2. phase' \in [Stream -> OpeningPhase \cup {"open", "releasing", "closed"}]
  BY <1>1 DEF Cleaned, IInv, TypeOK
<1>3. QED
  BY <1>1, <1>2, PhaseStep DEF Cleaned

LEMMA InitIInv == Init => IInv
<1> SUFFICES ASSUME Init PROVE IInv
  OBVIOUS
<1>1. TypeOK
  BY StreamAssumption DEF Init, TypeOK, Absent, OpeningPhase
<1>2. HeldByPhase
  BY DEF Init, HeldByPhase
<1>3. StoredWithin
  <2> SUFFICES ASSUME NEW s \in Stream, NEW k \in Scope
               PROVE  Cardinality(Stored(s, k)) <= Limit[k]
    BY DEF StoredWithin
  <2>1. Stored(s, k) = {}
    BY DEF Init, Stored, Sharing
  <2>2. QED
    BY <2>1, FS_EmptySet, StreamAssumption
<1>4. Fresh
  BY DEF Init, Fresh, Renewing, OpeningPhase
<1>5. QED
  BY <1>1, <1>2, <1>3, <1>4 DEF IInv

LEMMA NextIInv == IInv /\ [Next]_vars => IInv'
<1> SUFFICES ASSUME IInv, [Next]_vars PROVE IInv'
  OBVIOUS
<1>1. ASSUME NEW s \in Stream, Opening(s) \/ Heartbeat(s) \/ Ending(s)
      PROVE  IInv'
  <2>1. CASE Acquire(s)
    BY <2>1, AcquireStep
  <2>2. CASE AcquireFails(s)
    BY <2>2, AcquireFailsStep
  <2>3. CASE Heartbeat(s)
    BY <2>3, HeartbeatStep
  <2>4. CASE Release(s)
    BY <2>4, ReleaseStep
  <2>5. CASE Start(s) \/ ReadAccess(s) \/ Subscribe(s) \/ Close(s)
    BY <2>5, OpenOrCloseStep
  <2>6. QED
    BY <1>1, <2>1, <2>2, <2>3, <2>4, <2>5 DEF Opening, Ending
<1>2. ASSUME NEW e \in Endpoint, Losing(e)
      PROVE  IInv'
  BY <1>2, LosingStep
<1>6. ASSUME NEW event \in Event, Publish(event)
      PROVE  IInv'
  BY <1>6, PublishStep
<1>3. CASE Tick
  BY <1>3, TickStep
<1>4. CASE UNCHANGED vars
  BY <1>4, PhaseStep DEF vars, streamVars, IInv, TypeOK
<1>5. QED
  BY <1>1, <1>2, <1>3, <1>4, <1>6 DEF Next

-----------------------------------------------------------------------------
(* The theorems. *)

LEMMA Invariant == Spec => []IInv
<1>1. IInv /\ [Next]_vars => IInv'
  BY NextIInv
<1>2. QED
  BY InitIInv, <1>1, PTL DEF Spec

\* The variables of the streams, leases and events keep their types.
THEOREM TypeCorrect == Spec => []TypeOK
<1>1. IInv => TypeOK
  BY DEF IInv
<1>2. QED
  BY Invariant, <1>1, PTL

LEMMA StoredBoundsStreams == IInv => WithinLimit
<1> SUFFICES ASSUME IInv, NEW s \in Stream, NEW k \in Scope
             PROVE  /\ Cardinality(Running(s, k)) <= Limit[k]
                    /\ Cardinality({t \in Sharing(s, k) : phase[t] = "open" /\ misses[t] < 2})
                         <= Limit[k]
  BY DEF WithinLimit
<1> DEFINE Open == {t \in Sharing(s, k) : phase[t] = "open" /\ misses[t] < 2}
<1>1. Running(s, k) \subseteq Stored(s, k)
  BY DEF Running, Runs, Stored, Absent
<1>2. Open \subseteq Stored(s, k)
  <2> SUFFICES ASSUME NEW t \in Open
               PROVE  t \in Stored(s, k)
    OBVIOUS
  <2>1. t \in Stream /\ Renewing(t) /\ held[t] = Scopes /\ k <= Scopes
    BY StreamAssumption DEF Sharing, Renewing, IInv, TypeOK, Scope
  <2>2. lease[t][k] > 0
    BY <2>1, RenewedRuns DEF IInv
  <2>3. QED
    BY <2>2 DEF Stored, Absent
<1>3. /\ Cardinality(Running(s, k)) <= Cardinality(Stored(s, k))
      /\ Cardinality(Open) <= Cardinality(Stored(s, k))
      /\ Cardinality(Running(s, k)) \in Nat /\ Cardinality(Open) \in Nat
      /\ Cardinality(Stored(s, k)) \in Nat
  <2>1. IsFiniteSet(Open)
    BY <1>2, SharingIsFinite, FS_Subset
  <2>2. QED
    BY <1>1, <1>2, <2>1, SharingIsFinite, FS_Subset, FS_CardinalityType
<1>4. Cardinality(Stored(s, k)) <= Limit[k] /\ Limit[k] \in Nat
  BY StreamAssumption DEF IInv, StoredWithin
<1>5. QED
  BY <1>3, <1>4

\* No key has more leases that run, and no more streams that renew theirs in time,
\* than its limit, whatever calls of the store fail and however they overlap.
THEOREM StreamsWithinLimit == Spec => []WithinLimit
<1>1. IInv => WithinLimit
  BY StoredBoundsStreams
<1>2. QED
  BY Invariant, <1>1, PTL

\* The safety side of LostAccessEnds: a stream that has checked its access and
\* whose actor has lost it since, other than by a trim, has an event of its
\* endpoint still to come, or let one pass between its check and its subscription.
LossIsAnnounced ==
  \A s \in Stream :
    phase[s] \in {"read", "open"} /\ ~MayAccess(s) /\ access[EndpointOf[s]] # "trimmed" =>
      s \in overtaken \/ \E event \in unpublished : event[2] = EndpointOf[s]

\* A step that leaves access and announcements alone, and takes nobody past the
\* check but those who may pass it.
LEMMA StillAnnounced ==
  ASSUME LossIsAnnounced, UNCHANGED <<access, unpublished>>,
         \A t \in Stream : phase'[t] \in {"read", "open"} =>
           /\ phase[t] \in {"read", "open"} \/ MayAccess(t)
           /\ t \in overtaken => t \in overtaken'
  PROVE  LossIsAnnounced'
BY DEF LossIsAnnounced, MayAccess

LEMMA LosingIsAnnounced ==
  ASSUME LossIsAnnounced, TypeOK, NEW e \in Endpoint, Losing(e)
  PROVE  LossIsAnnounced'
<1>1. PICK new \in {"owner", "nobody", "trimmed"}, events \in SUBSET Event :
        /\ Commits(e, new, events)
        /\ new # "trimmed" => events # {} /\ \A event \in events : event[2] = e
  BY LosingEffects
<1>2. /\ access' = [access EXCEPT ![e] = new] /\ unpublished' = unpublished \cup events
      /\ UNCHANGED <<phase, overtaken>>
  BY <1>1 DEF Commits, streamVars
<1> SUFFICES ASSUME NEW s \in Stream, phase'[s] \in {"read", "open"}, ~MayAccess(s)',
                    access'[EndpointOf[s]] # "trimmed"
             PROVE  s \in overtaken' \/ \E event \in unpublished' : event[2] = EndpointOf[s]
  BY DEF LossIsAnnounced
<1>3. CASE EndpointOf[s] = e
  BY <1>1, <1>2, <1>3 DEF TypeOK
<1>4. CASE EndpointOf[s] # e
  BY <1>2, <1>4 DEF LossIsAnnounced, MayAccess, TypeOK
<1>5. QED
  BY <1>3, <1>4

LEMMA PublishedEndsStreams ==
  ASSUME LossIsAnnounced, NEW event \in Event, Publish(event)
  PROVE  LossIsAnnounced'
<1>1. /\ unpublished' = unpublished \ {event} /\ UNCHANGED access
      /\ phase' = [t \in Stream |-> IF phase[t] = "open" /\ EndpointOf[t] = event[2]
                                      THEN "releasing" ELSE phase[t]]
      /\ overtaken' = overtaken \cup {t \in Stream : phase[t] = "read" /\ EndpointOf[t] = event[2]}
  BY DEF Publish, Cleaned, EndedBy, Subscribed
<1> SUFFICES ASSUME NEW s \in Stream, phase'[s] \in {"read", "open"}, ~MayAccess(s)',
                    access'[EndpointOf[s]] # "trimmed"
             PROVE  s \in overtaken' \/ \E other \in unpublished' : other[2] = EndpointOf[s]
  BY DEF LossIsAnnounced
<1>2. phase'[s] = phase[s] /\ (EndpointOf[s] = event[2] => phase[s] = "read")
  BY <1>1
<1>3. CASE EndpointOf[s] = event[2]
  BY <1>1, <1>2, <1>3
<1>4. CASE EndpointOf[s] # event[2]
  BY <1>1, <1>2, <1>4 DEF LossIsAnnounced, MayAccess
<1>5. QED
  BY <1>3, <1>4

\* A stream that goes on without access has an event to come that ends it, or has
\* let one pass between its check and its subscription.
THEOREM LostAccessIsAnnounced == Spec => []LossIsAnnounced
<1>1. Init => LossIsAnnounced
  BY DEF Init, LossIsAnnounced
<1>2. TypeOK /\ LossIsAnnounced /\ [Next]_vars => LossIsAnnounced'
  <2> SUFFICES ASSUME TypeOK, LossIsAnnounced, [Next]_vars PROVE LossIsAnnounced'
    OBVIOUS
  <2>1. ASSUME NEW s \in Stream, Opening(s)
        PROVE  LossIsAnnounced'
    <3>1. /\ UNCHANGED <<access, unpublished, overtaken>>
          /\ \A t \in Stream : t # s => phase'[t] = phase[t]
          /\ phase'[s] \in {"read", "open"} => phase[s] = "read" \/ MayAccess(s)
      BY <2>1 DEF Opening, Start, Acquire, AcquireFails, ReadAccess, Subscribe, TypeOK
    <3>2. QED
      BY <3>1, StillAnnounced
  <2>2. ASSUME NEW s \in Stream, Heartbeat(s) \/ Ending(s)
        PROVE  LossIsAnnounced'
    <3>1. /\ UNCHANGED <<access, unpublished>>
          /\ \A t \in Stream : t # s => phase'[t] = phase[t] /\ (t \in overtaken => t \in overtaken')
          /\ phase'[s] \in {"read", "open"} => phase'[s] = phase[s] /\ overtaken' = overtaken
      BY <2>2 DEF Heartbeat, Ending, Close, Cleaned, Release, TypeOK
    <3>2. QED
      BY <3>1, StillAnnounced
  <2>3. ASSUME NEW e \in Endpoint, Losing(e)
        PROVE  LossIsAnnounced'
    BY <2>3, LosingIsAnnounced
  <2>4. ASSUME NEW event \in Event, Publish(event)
        PROVE  LossIsAnnounced'
    BY <2>4, PublishedEndsStreams
  <2>5. CASE Tick
    BY <2>5, StillAnnounced DEF Tick
  <2>6. CASE UNCHANGED vars
    BY <2>6, StillAnnounced DEF vars, streamVars
  <2>7. QED
    BY <2>1, <2>2, <2>3, <2>4, <2>5, <2>6 DEF Next
<1>3. QED
  BY <1>1, <1>2, TypeCorrect, PTL DEF Spec
=============================================================================
