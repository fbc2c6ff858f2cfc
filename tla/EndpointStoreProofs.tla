------------------------ MODULE EndpointStoreProofs ------------------------
(***************************************************************************)
(* Proofs about EndpointStore for every set of requests, targets and       *)
(* clears and every retention limit: its types, what each open transaction *)
(* holds (StoreInv), deleted targets (QuietInv), what a step may do to a   *)
(* delivery, clears, what a capture's retention takes with it and what it  *)
(* keeps (KeepInv), and that the tables implement DeliveryLifecycle.       *)
(***************************************************************************)
EXTENDS EndpointStore, FiniteSetTheorems, TLAPS

-----------------------------------------------------------------------------
(* Transactions are told apart by their kind and their argument; the steps  *)
(* below use these facts and never the tuples themselves.                   *)

\* Every transaction name is in Tx, and NoTx is not.
LEMMA TxMembers ==
  /\ \A r \in Request : CaptureTx(r) \in Tx
  /\ \A c \in Clear : ClearTx(c) \in Tx
  /\ \A d \in Delivery : RecordTx(d) \in Tx
  /\ \A t \in Target : RemoveTx(t) \in Tx
  /\ Closer \subseteq Tx
  /\ NoTx \notin Tx
BY DEF Tx, CaptureTx, ClearTx, RecordTx, RemoveTx, Closer, NoTx

\* A transaction is a capture, a clear or one that closes deliveries.
LEMMA TxKinds ==
  \A x \in Tx : \/ \E r \in Request : x = CaptureTx(r)
                \/ \E c \in Clear : x = ClearTx(c)
                \/ x \in Closer
BY DEF Tx, Closer

\* Transactions of different kinds, or with different arguments, differ.
LEMMA TxDistinct ==
  /\ \A r, q : CaptureTx(r) = CaptureTx(q) => r = q
  /\ \A c, b : ClearTx(c) = ClearTx(b) => c = b
  /\ \A d, e : RecordTx(d) = RecordTx(e) => d = e
  /\ \A t, u : RemoveTx(t) = RemoveTx(u) => t = u
  /\ \A r, c, d, t : /\ CaptureTx(r) # ClearTx(c)
                     /\ CaptureTx(r) # RecordTx(d)
                     /\ CaptureTx(r) # RemoveTx(t)
                     /\ ClearTx(c) # RecordTx(d)
                     /\ ClearTx(c) # RemoveTx(t)
                     /\ RecordTx(d) # RemoveTx(t)
BY DEF CaptureTx, ClearTx, RecordTx, RemoveTx

\* Neither a capture nor a clear closes deliveries.
LEMMA CloserDistinct ==
  /\ \A r : CaptureTx(r) \notin Closer
  /\ \A c : ClearTx(c) \notin Closer
BY TxDistinct DEF Closer

-----------------------------------------------------------------------------
(* Types. *)

\* The rows a statement sees are requests.
LEMMA StoredRows ==
  /\ Visible \subseteq Request
  /\ Hidden \subseteq Request
  /\ Stored \subseteq Request
BY DEF Visible, Hidden, Stored

\* The newest rows of a set are rows of it.
LEMMA NewestRows == ASSUME NEW S PROVE Newest(S) \subseteq S
BY DEF Newest

\* A commit leaves the tables well typed.
LEMMA ApplyTypes ==
  ASSUME TypeOK, NEW x \in Tx, NEW S, Apply(x, S)
  PROVE  /\ row' \in [Request -> RowState]
         /\ delivery' \in [Delivery -> Status]
<1>1. row' \in [Request -> RowState]
  BY DEF Apply, TypeOK, RowState
<1>2. \A d \in Delivery : Seen(x, d) \in Status
  BY DEF Seen, TypeOK
<1>3. delivery' \in [Delivery -> Status]
  BY <1>2 DEF Apply, Status
<1> QED BY <1>1, <1>3

\* The end of a transaction leaves the rest well typed.
LEMMA ReleaseTypes ==
  ASSUME TypeOK, NEW x \in Tx, NEW s \in {"idle", "done"}, Release(x, s)
  PROVE  /\ lock' \in Tx \cup {NoTx}
         /\ pc' \in [Tx -> {"idle", "done"} \cup Open]
         /\ wrote' \in [Tx -> SUBSET Delivery]
         /\ value' \in [Tx -> Status]
         /\ flagged' \in [Tx -> SUBSET Request]
         /\ doomed' \in [Tx -> SUBSET Request]
BY DEF Release, TypeOK, Status

\* Every step keeps the types.
LEMMA TypeInductive == TypeOK /\ [Next]_vars => TypeOK'
<1> SUFFICES ASSUME TypeOK, [Next]_vars PROVE TypeOK' OBVIOUS
<1> USE TxMembers
<1>1. ASSUME NEW r \in Request, CaptureInsert(r) PROVE TypeOK'
  BY <1>1 DEF CaptureInsert, TypeOK, Open, Status, Delivery
<1>2. ASSUME NEW r \in Request, CaptureRetain(r) PROVE TypeOK'
  <2>1. CaptureExcess(r) \subseteq Request
    BY StoredRows DEF CaptureExcess
  <2> QED BY <1>2, <2>1 DEF CaptureRetain, TypeOK, Open
<1>3. ASSUME NEW r \in Request, CaptureCommit(r) PROVE TypeOK'
  BY <1>3, ApplyTypes, ReleaseTypes DEF CaptureCommit, TypeOK
<1>4. ASSUME NEW c \in Clear, ClearFlag(c) PROVE TypeOK'
  BY <1>4, StoredRows DEF ClearFlag, ClearFlags, TypeOK, Open
<1>5. ASSUME NEW c \in Clear, ClearSweep(c) PROVE TypeOK'
  BY <1>5, StoredRows DEF ClearSweep, TypeOK, Open
<1>6. ASSUME NEW c \in Clear, ClearCommit(c) PROVE TypeOK'
  BY <1>6, ApplyTypes, ReleaseTypes DEF ClearCommit, TypeOK
<1>7. ASSUME NEW d \in Delivery, NEW s \in Final, RecordClose(d, s) PROVE TypeOK'
  BY <1>7 DEF RecordClose, TypeOK, Open, Status
<1>8. ASSUME NEW d \in Delivery, RecordCommit(d) PROVE TypeOK'
  BY <1>8, ApplyTypes, ReleaseTypes DEF RecordCommit, TypeOK
<1>9. ASSUME NEW t \in Target, RemoveLock(t) PROVE TypeOK'
  BY <1>9 DEF RemoveLock, TypeOK, Open
<1>10. ASSUME NEW t \in Target, RemoveCancel(t) PROVE TypeOK'
  BY <1>10 DEF RemoveCancel, TypeOK, Open, Status, Final
<1>11. ASSUME NEW t \in Target, RemoveCommit(t) PROVE TypeOK'
  <2>1. target' \in [Target -> {"enabled", "disabled", "deleted"}]
    BY <1>11 DEF RemoveCommit, TypeOK
  <2> QED BY <1>11, <2>1, ApplyTypes, ReleaseTypes DEF RemoveCommit, TypeOK
<1>12. ASSUME NEW x \in Closer, PruneCleared(x) PROVE TypeOK'
  BY <1>12, StoredRows DEF PruneCleared, TypeOK, Open
<1>13. ASSUME NEW x \in Closer, PruneRetained(x) PROVE TypeOK'
  <2>1. PruneExcess(x) \subseteq Request
    BY StoredRows DEF PruneExcess
  <2> QED BY <1>13, <2>1 DEF PruneRetained, TypeOK, Open
<1>14. ASSUME NEW t \in Target, SwitchTarget(t) PROVE TypeOK'
  BY <1>14 DEF SwitchTarget, Switched, TypeOK
<1>15. CASE DeleteEndpoint
  BY <1>15 DEF DeleteEndpoint, TypeOK, RowState, Status
<1>16. ASSUME NEW x \in Tx, Abort(x) PROVE TypeOK'
  BY <1>16, ReleaseTypes DEF Abort, TypeOK
<1>17. CASE UNCHANGED vars
  BY <1>17 DEF vars, TypeOK
<1> QED
  BY <1>1, <1>2, <1>3, <1>4, <1>5, <1>6, <1>7, <1>8, <1>9, <1>10, <1>11, <1>12,
     <1>13, <1>14, <1>15, <1>16, <1>17 DEF Next

\* The variables keep their types.
THEOREM TypeCorrect == Spec => []TypeOK
<1>1. Init => TypeOK
  BY TxMembers DEF Init, TypeOK, RowState, Status
<1> QED BY <1>1, TypeInductive, PTL DEF Spec

-----------------------------------------------------------------------------
(* The inductive invariant.  Its parts say who may hold uncommitted writes,  *)
(* and what they can be.                                                     *)

\* Only an open transaction holds writes, and none before its first write.
WritesWhileOpen ==
  \A x \in Tx :
    /\ pc[x] \notin Open => wrote[x] = {} /\ flagged[x] = {} /\ doomed[x] = {}
    /\ pc[x] = "locked" => wrote[x] = {} /\ flagged[x] = {} /\ doomed[x] = {}
    /\ pc[x] = "written" => doomed[x] = {}

\* A capture writes the deliveries of its own request, as pending; its request
\* is no row of the table before it commits.
CaptureWrites ==
  \A r \in Request :
    /\ \A d \in wrote[CaptureTx(r)] : d[1] = r /\ d[1] \notin doomed[CaptureTx(r)]
    /\ pc[CaptureTx(r)] \in Open => value[CaptureTx(r)] = "pending"
    /\ row[r] # "absent" => pc[CaptureTx(r)] = "done"
    /\ row[r] = "absent" => \A t \in Target : delivery[<<r, t>>] = "none"

\* A clear writes no delivery.
ClearWrites == \A c \in Clear : wrote[ClearTx(c)] = {}

\* A closing transaction holds pending deliveries, which it gives a final
\* status, and no two of them hold the same one.
CloserWrites ==
  \A x \in Closer :
    /\ wrote[x] # {} => value[x] \in Final
    /\ \A d \in wrote[x] : delivery[d] = "pending"
    /\ \A y \in Closer \ {x} : wrote[x] \cap wrote[y] = {}

\* Uncommitted changes to requests concern rows of the table, or the capture's
\* own request.
KnownRows ==
  \A x \in Tx : \A r \in Request :
    /\ r \in flagged[x] => row[r] # "absent"
    /\ r \in doomed[x] => row[r] # "absent" \/ x = CaptureTx(r)

StoreInv ==
  /\ TypeOK
  /\ WritesWhileOpen
  /\ CaptureWrites
  /\ ClearWrites
  /\ CloserWrites
  /\ KnownRows
  /\ NoPendingDoomed

-----------------------------------------------------------------------------
(* What one transaction's commit does to the writes of the others.          *)

\* The stored rows are the listed and the hidden ones.
LEMMA StoredPresent == \A r \in Request : r \in Stored <=> row[r] \in {"visible", "hidden"}
BY DEF Stored, Visible, Hidden

\* No other transaction holds a delivery that a closing one holds.
LEMMA HeldApart ==
  ASSUME StoreInv, NEW x \in Tx, NEW y \in Closer, y # x
  PROVE  wrote[x] \cap wrote[y] = {}
<1> USE TxMembers DEF StoreInv
<1>1. CASE x \in Closer
  BY <1>1 DEF CloserWrites
<1>2. ASSUME NEW c \in Clear, x = ClearTx(c) PROVE wrote[x] \cap wrote[y] = {}
  BY <1>2 DEF ClearWrites
<1>3. ASSUME NEW r \in Request, x = CaptureTx(r) PROVE wrote[x] \cap wrote[y] = {}
  <2> SUFFICES ASSUME NEW d \in wrote[x], d \in wrote[y] PROVE FALSE OBVIOUS
  <2>1. pc[x] \in Open
    BY DEF WritesWhileOpen
  <2>2. row[r] = "absent"
    BY <1>3, <2>1 DEF CaptureWrites, Open
  <2>3. d \in Delivery /\ d[1] = r
    BY <1>3 DEF CaptureWrites, TypeOK
  <2>4. PICK t \in Target : d = <<r, t>>
    BY <2>3 DEF Delivery
  <2>5. delivery[d] = "none"
    BY <2>2, <2>4 DEF CaptureWrites
  <2>6. delivery[d] = "pending"
    BY DEF CloserWrites
  <2> QED BY <2>5, <2>6
<1> QED BY <1>1, <1>2, <1>3, TxKinds

\* A delivery held by a closing transaction is pending after any other commit.
LEMMA HeldStaysPending ==
  ASSUME StoreInv, NEW x \in Tx, NEW S, Apply(x, S),
         NEW y \in Closer, y # x, NEW d \in wrote[y]
  PROVE  delivery'[d] = "pending"
<1> USE TxMembers DEF StoreInv
<1>1. d \in Delivery /\ delivery[d] = "pending"
  BY DEF CloserWrites, TypeOK
<1>2. d \notin wrote[x]
  BY HeldApart
<1>3. d[1] \notin doomed[x]
  BY <1>1, <1>2 DEF NoPendingDoomed
<1> QED BY <1>1, <1>2, <1>3 DEF Apply, Seen

\* A request that is no row yet stays so under the commits of others, and so
\* do its deliveries.
LEMMA AbsentStays ==
  ASSUME StoreInv, NEW x \in Tx, NEW S, Apply(x, S),
         NEW r \in Request, r \notin S, row[r] = "absent", x # CaptureTx(r)
  PROVE  /\ row'[r] = "absent"
         /\ \A t \in Target : delivery'[<<r, t>>] = "none"
<1> USE TxMembers DEF StoreInv
<1>1. r \notin doomed[x] /\ r \notin flagged[x]
  BY DEF KnownRows
<1>2. row'[r] = "absent"
  BY <1>1 DEF Apply
<1>3. ASSUME NEW t \in Target PROVE delivery'[<<r, t>>] = "none"
  <2> DEFINE d == <<r, t>>
  <2>1. d \in Delivery /\ d[1] = r /\ delivery[d] = "none"
    BY DEF Delivery, CaptureWrites
  <2>2. d \notin wrote[x]
    <3>1. CASE x \in Closer
      BY <2>1, <3>1 DEF CloserWrites
    <3>2. ASSUME NEW c \in Clear, x = ClearTx(c) PROVE d \notin wrote[x]
      BY <3>2 DEF ClearWrites
    <3>3. ASSUME NEW q \in Request, x = CaptureTx(q) PROVE d \notin wrote[x]
      BY <2>1, <3>3 DEF CaptureWrites
    <3> QED BY <3>1, <3>2, <3>3, TxKinds
  <2>3. delivery'[d] = IF d[1] \in doomed[x] THEN "none" ELSE Seen(x, d)
    BY <2>1 DEF Apply
  <2> QED BY <1>1, <2>1, <2>2, <2>3 DEF Seen
<1> QED BY <1>2, <1>3

\* A committed row stays a row.
LEMMA PresentStays ==
  ASSUME StoreInv, NEW x \in Tx, NEW S, Apply(x, S), NEW r \in Request, row[r] # "absent"
  PROVE  row'[r] # "absent"
BY DEF Apply

-----------------------------------------------------------------------------
(* Every step keeps every part. *)

\* Every step keeps uncommitted writes with open transactions.
LEMMA WritesWhileOpenInductive == StoreInv /\ [Next]_vars => WritesWhileOpen'
<1> SUFFICES ASSUME StoreInv, [Next]_vars PROVE WritesWhileOpen' OBVIOUS
<1> USE TxMembers, TxDistinct, CloserDistinct DEF StoreInv, TypeOK, WritesWhileOpen, Open
<1>1. ASSUME NEW r \in Request, CaptureInsert(r) PROVE WritesWhileOpen'
  BY <1>1 DEF CaptureInsert
<1>2. ASSUME NEW r \in Request, CaptureRetain(r) PROVE WritesWhileOpen'
  BY <1>2 DEF CaptureRetain
<1>3. ASSUME NEW r \in Request, CaptureCommit(r) PROVE WritesWhileOpen'
  BY <1>3 DEF CaptureCommit, Apply, Release
<1>4. ASSUME NEW c \in Clear, ClearFlag(c) PROVE WritesWhileOpen'
  BY <1>4 DEF ClearFlag
<1>5. ASSUME NEW c \in Clear, ClearSweep(c) PROVE WritesWhileOpen'
  BY <1>5 DEF ClearSweep
<1>6. ASSUME NEW c \in Clear, ClearCommit(c) PROVE WritesWhileOpen'
  BY <1>6 DEF ClearCommit, Apply, Release
<1>7. ASSUME NEW d \in Delivery, NEW s \in Final, RecordClose(d, s) PROVE WritesWhileOpen'
  BY <1>7 DEF RecordClose
<1>8. ASSUME NEW d \in Delivery, RecordCommit(d) PROVE WritesWhileOpen'
  BY <1>8 DEF RecordCommit, Apply, Release
<1>9. ASSUME NEW t \in Target, RemoveLock(t) PROVE WritesWhileOpen'
  BY <1>9 DEF RemoveLock
<1>10. ASSUME NEW t \in Target, RemoveCancel(t) PROVE WritesWhileOpen'
  BY <1>10 DEF RemoveCancel
<1>11. ASSUME NEW t \in Target, RemoveCommit(t) PROVE WritesWhileOpen'
  BY <1>11 DEF RemoveCommit, Apply, Release
<1>12. ASSUME NEW x \in Closer, PruneCleared(x) PROVE WritesWhileOpen'
  BY <1>12 DEF PruneCleared
<1>13. ASSUME NEW x \in Closer, PruneRetained(x) PROVE WritesWhileOpen'
  BY <1>13 DEF PruneRetained
<1>14. ASSUME NEW t \in Target, SwitchTarget(t) PROVE WritesWhileOpen'
  BY <1>14 DEF SwitchTarget
<1>15. CASE DeleteEndpoint
  BY <1>15 DEF DeleteEndpoint
<1>16. ASSUME NEW x \in Tx, Abort(x) PROVE WritesWhileOpen'
  BY <1>16 DEF Abort, Release
<1>17. CASE UNCHANGED vars
  BY <1>17 DEF vars
<1> QED
  BY <1>1, <1>2, <1>3, <1>4, <1>5, <1>6, <1>7, <1>8, <1>9, <1>10, <1>11, <1>12,
     <1>13, <1>14, <1>15, <1>16, <1>17 DEF Next

\* No step gives a clear a delivery to write.
LEMMA ClearWritesInductive == StoreInv /\ [Next]_vars => ClearWrites'
<1> SUFFICES ASSUME StoreInv, [Next]_vars PROVE ClearWrites' OBVIOUS
<1> USE TxMembers, TxDistinct, CloserDistinct DEF StoreInv, TypeOK, ClearWrites, WritesWhileOpen
<1>1. ASSUME NEW r \in Request, CaptureInsert(r) PROVE ClearWrites'
  BY <1>1 DEF CaptureInsert
<1>2. ASSUME NEW r \in Request, CaptureRetain(r) PROVE ClearWrites'
  BY <1>2 DEF CaptureRetain
<1>3. ASSUME NEW r \in Request, CaptureCommit(r) PROVE ClearWrites'
  BY <1>3 DEF CaptureCommit, Apply, Release
<1>4. ASSUME NEW c \in Clear, ClearFlag(c) PROVE ClearWrites'
  BY <1>4 DEF ClearFlag
<1>5. ASSUME NEW c \in Clear, ClearSweep(c) PROVE ClearWrites'
  BY <1>5 DEF ClearSweep
<1>6. ASSUME NEW c \in Clear, ClearCommit(c) PROVE ClearWrites'
  BY <1>6 DEF ClearCommit, Apply, Release
<1>7. ASSUME NEW d \in Delivery, NEW s \in Final, RecordClose(d, s) PROVE ClearWrites'
  BY <1>7 DEF RecordClose
<1>8. ASSUME NEW d \in Delivery, RecordCommit(d) PROVE ClearWrites'
  BY <1>8 DEF RecordCommit, Apply, Release
<1>9. ASSUME NEW t \in Target, RemoveLock(t) PROVE ClearWrites'
  BY <1>9 DEF RemoveLock
<1>10. ASSUME NEW t \in Target, RemoveCancel(t) PROVE ClearWrites'
  BY <1>10 DEF RemoveCancel
<1>11. ASSUME NEW t \in Target, RemoveCommit(t) PROVE ClearWrites'
  BY <1>11 DEF RemoveCommit, Apply, Release
<1>12. ASSUME NEW x \in Closer, PruneCleared(x) PROVE ClearWrites'
  BY <1>12 DEF PruneCleared
<1>13. ASSUME NEW x \in Closer, PruneRetained(x) PROVE ClearWrites'
  BY <1>13 DEF PruneRetained
<1>14. ASSUME NEW t \in Target, SwitchTarget(t) PROVE ClearWrites'
  BY <1>14 DEF SwitchTarget
<1>15. CASE DeleteEndpoint
  BY <1>15 DEF DeleteEndpoint
<1>16. ASSUME NEW x \in Tx, Abort(x) PROVE ClearWrites'
  BY <1>16 DEF Abort, Release
<1>17. CASE UNCHANGED vars
  BY <1>17 DEF vars
<1> QED
  BY <1>1, <1>2, <1>3, <1>4, <1>5, <1>6, <1>7, <1>8, <1>9, <1>10, <1>11, <1>12,
     <1>13, <1>14, <1>15, <1>16, <1>17 DEF Next

\* Every step keeps the changes to requests on known rows: retention, clear
\* and prune match stored rows only, and rows never become absent again.
LEMMA KnownRowsInductive == StoreInv /\ [Next]_vars => KnownRows'
<1> SUFFICES ASSUME StoreInv, [Next]_vars PROVE KnownRows' OBVIOUS
<1> USE TxMembers, TxDistinct, CloserDistinct DEF StoreInv, TypeOK, KnownRows, WritesWhileOpen, CaptureWrites, Open
<1>1. ASSUME NEW r \in Request, CaptureInsert(r) PROVE KnownRows'
  BY <1>1 DEF CaptureInsert
<1>2. ASSUME NEW r \in Request, CaptureRetain(r) PROVE KnownRows'
  BY <1>2, StoredPresent DEF CaptureRetain, CaptureExcess
<1>3. ASSUME NEW r \in Request, CaptureCommit(r) PROVE KnownRows'
  BY <1>3 DEF CaptureCommit, Apply, Release
<1>4. ASSUME NEW c \in Clear, ClearFlag(c) PROVE KnownRows'
  BY <1>4, StoredPresent DEF ClearFlag, ClearFlags
<1>5. ASSUME NEW c \in Clear, ClearSweep(c) PROVE KnownRows'
  BY <1>5, StoredPresent DEF ClearSweep
<1>6. ASSUME NEW c \in Clear, ClearCommit(c) PROVE KnownRows'
  BY <1>6 DEF ClearCommit, Apply, Release
<1>7. ASSUME NEW d \in Delivery, NEW s \in Final, RecordClose(d, s) PROVE KnownRows'
  BY <1>7 DEF RecordClose
<1>8. ASSUME NEW d \in Delivery, RecordCommit(d) PROVE KnownRows'
  BY <1>8 DEF RecordCommit, Apply, Release
<1>9. ASSUME NEW t \in Target, RemoveLock(t) PROVE KnownRows'
  BY <1>9 DEF RemoveLock
<1>10. ASSUME NEW t \in Target, RemoveCancel(t) PROVE KnownRows'
  BY <1>10 DEF RemoveCancel
<1>11. ASSUME NEW t \in Target, RemoveCommit(t) PROVE KnownRows'
  BY <1>11 DEF RemoveCommit, Apply, Release
<1>12. ASSUME NEW x \in Closer, PruneCleared(x) PROVE KnownRows'
  BY <1>12, StoredPresent DEF PruneCleared, Hidden
<1>13. ASSUME NEW x \in Closer, PruneRetained(x) PROVE KnownRows'
  BY <1>13, StoredPresent DEF PruneRetained, PruneExcess, Visible
<1>14. ASSUME NEW t \in Target, SwitchTarget(t) PROVE KnownRows'
  BY <1>14 DEF SwitchTarget
<1>15. CASE DeleteEndpoint
  BY <1>15 DEF DeleteEndpoint
<1>16. ASSUME NEW x \in Tx, Abort(x) PROVE KnownRows'
  BY <1>16 DEF Abort, Release
<1>17. CASE UNCHANGED vars
  BY <1>17 DEF vars
<1> QED
  BY <1>1, <1>2, <1>3, <1>4, <1>5, <1>6, <1>7, <1>8, <1>9, <1>10, <1>11, <1>12,
     <1>13, <1>14, <1>15, <1>16, <1>17 DEF Next

\* Every step keeps held deliveries pending and held once: a result or a
\* cancellation only takes pending deliveries that nobody else has locked.
LEMMA CloserWritesInductive == StoreInv /\ [Next]_vars => CloserWrites'
<1> SUFFICES ASSUME StoreInv, [Next]_vars PROVE CloserWrites' OBVIOUS
<1> USE TxMembers, TxDistinct, CloserDistinct DEF StoreInv, TypeOK, CloserWrites, WritesWhileOpen, Open, CaptureWrites
<1>1. ASSUME NEW r \in Request, CaptureInsert(r) PROVE CloserWrites'
  BY <1>1 DEF CaptureInsert
<1>2. ASSUME NEW r \in Request, CaptureRetain(r) PROVE CloserWrites'
  BY <1>2 DEF CaptureRetain
<1>3. ASSUME NEW r \in Request, CaptureCommit(r) PROVE CloserWrites'
  BY <1>3, HeldStaysPending DEF CaptureCommit, Release, WritesWhileOpen
<1>4. ASSUME NEW c \in Clear, ClearFlag(c) PROVE CloserWrites'
  BY <1>4 DEF ClearFlag
<1>5. ASSUME NEW c \in Clear, ClearSweep(c) PROVE CloserWrites'
  BY <1>5 DEF ClearSweep
<1>6. ASSUME NEW c \in Clear, ClearCommit(c) PROVE CloserWrites'
  BY <1>6, HeldStaysPending DEF ClearCommit, Release, WritesWhileOpen
<1>7. ASSUME NEW d \in Delivery, NEW s \in Final, RecordClose(d, s) PROVE CloserWrites'
  BY <1>7 DEF RecordClose, LockedDeliveries, Recordable
<1>8. ASSUME NEW d \in Delivery, RecordCommit(d) PROVE CloserWrites'
  BY <1>8, HeldStaysPending DEF RecordCommit, Release, WritesWhileOpen
<1>9. ASSUME NEW t \in Target, RemoveLock(t) PROVE CloserWrites'
  BY <1>9 DEF RemoveLock
<1>10. ASSUME NEW t \in Target, RemoveCancel(t) PROVE CloserWrites'
  BY <1>10 DEF RemoveCancel, LockedDeliveries, Final
<1>11. ASSUME NEW t \in Target, RemoveCommit(t) PROVE CloserWrites'
  BY <1>11, HeldStaysPending DEF RemoveCommit, Release, WritesWhileOpen
<1>12. ASSUME NEW x \in Closer, PruneCleared(x) PROVE CloserWrites'
  BY <1>12 DEF PruneCleared
<1>13. ASSUME NEW x \in Closer, PruneRetained(x) PROVE CloserWrites'
  BY <1>13 DEF PruneRetained
<1>14. ASSUME NEW t \in Target, SwitchTarget(t) PROVE CloserWrites'
  BY <1>14 DEF SwitchTarget
<1>15. CASE DeleteEndpoint
  BY <1>15 DEF DeleteEndpoint
<1>16. ASSUME NEW x \in Tx, Abort(x) PROVE CloserWrites'
  BY <1>16 DEF Abort, Release
<1>17. CASE UNCHANGED vars
  BY <1>17 DEF vars
<1> QED
  BY <1>1, <1>2, <1>3, <1>4, <1>5, <1>6, <1>7, <1>8, <1>9, <1>10, <1>11, <1>12,
     <1>13, <1>14, <1>15, <1>16, <1>17 DEF Next

\* What a commit does to the captures' part of the invariant.
LEMMA CommitKeepsCaptureWrites ==
  ASSUME StoreInv, NEW x \in Tx, NEW S \in SUBSET Request,
         \A q \in Request : q \in S <=> x = CaptureTx(q),
         Apply(x, S), Release(x, "done")
  PROVE  CaptureWrites'
<1> SUFFICES ASSUME NEW q \in Request
             PROVE  /\ \A d \in wrote'[CaptureTx(q)] : d[1] = q /\ d[1] \notin doomed'[CaptureTx(q)]
                    /\ pc'[CaptureTx(q)] \in Open => value'[CaptureTx(q)] = "pending"
                    /\ row'[q] # "absent" => pc'[CaptureTx(q)] = "done"
                    /\ row'[q] = "absent" => \A t \in Target : delivery'[<<q, t>>] = "none"
  BY DEF CaptureWrites
<1> USE TxMembers
<1>1. CASE x = CaptureTx(q)
  <2>1. wrote'[x] = {} /\ pc'[x] = "done"
    BY DEF Release, StoreInv, TypeOK
  <2>2. row'[q] # "absent"
    BY <1>1 DEF Apply
  <2> QED BY <1>1, <2>1, <2>2 DEF Open
<1>2. CASE x # CaptureTx(q)
  <2>1. /\ wrote'[CaptureTx(q)] = wrote[CaptureTx(q)]
        /\ pc'[CaptureTx(q)] = pc[CaptureTx(q)]
        /\ value'[CaptureTx(q)] = value[CaptureTx(q)]
        /\ doomed'[CaptureTx(q)] = doomed[CaptureTx(q)]
    BY <1>2 DEF Release, StoreInv, TypeOK
  <2>2. CaptureWrites
    BY DEF StoreInv
  <2>3. row[q] = "absent" => row'[q] = "absent" /\ \A t \in Target : delivery'[<<q, t>>] = "none"
    BY <1>2, AbsentStays
  <2>4. row[q] # "absent" => row'[q] # "absent"
    BY PresentStays
  <2> QED BY <2>1, <2>2, <2>3, <2>4 DEF CaptureWrites
<1> QED BY <1>1, <1>2

\* Every step keeps the writes of a capture its own.
LEMMA CaptureWritesInductive == StoreInv /\ [Next]_vars => CaptureWrites'
<1> SUFFICES ASSUME StoreInv, [Next]_vars PROVE CaptureWrites' OBVIOUS
<1> USE TxMembers, TxDistinct, CloserDistinct DEF StoreInv, TypeOK, CaptureWrites, WritesWhileOpen, KnownRows, Open
<1>1. ASSUME NEW r \in Request, CaptureInsert(r) PROVE CaptureWrites'
  BY <1>1 DEF CaptureInsert
<1>2. ASSUME NEW r \in Request, CaptureRetain(r) PROVE CaptureWrites'
  <2>1. \A d \in wrote[CaptureTx(r)] : d[1] \notin CaptureExcess(r)
    <3> SUFFICES ASSUME NEW d \in wrote[CaptureTx(r)] PROVE r \in PendingTo(CaptureTx(r))
      BY DEF CaptureExcess
    <3>1. PICK t \in Target : d = <<r, t>>
      BY DEF Delivery
    <3>2. Seen(CaptureTx(r), <<r, t>>) = "pending"
      BY <1>2, <3>1 DEF CaptureRetain, Seen
    <3> QED BY <3>2 DEF PendingTo
  <2> QED BY <1>2, <2>1 DEF CaptureRetain
<1>3. ASSUME NEW r \in Request, CaptureCommit(r) PROVE CaptureWrites'
  BY <1>3, CommitKeepsCaptureWrites DEF CaptureCommit
<1>4. ASSUME NEW c \in Clear, ClearFlag(c) PROVE CaptureWrites'
  BY <1>4 DEF ClearFlag
<1>5. ASSUME NEW c \in Clear, ClearSweep(c) PROVE CaptureWrites'
  BY <1>5 DEF ClearSweep
<1>6. ASSUME NEW c \in Clear, ClearCommit(c) PROVE CaptureWrites'
  BY <1>6, CommitKeepsCaptureWrites DEF ClearCommit
<1>7. ASSUME NEW d \in Delivery, NEW s \in Final, RecordClose(d, s) PROVE CaptureWrites'
  BY <1>7 DEF RecordClose
<1>8. ASSUME NEW d \in Delivery, RecordCommit(d) PROVE CaptureWrites'
  BY <1>8, CommitKeepsCaptureWrites DEF RecordCommit
<1>9. ASSUME NEW t \in Target, RemoveLock(t) PROVE CaptureWrites'
  BY <1>9 DEF RemoveLock
<1>10. ASSUME NEW t \in Target, RemoveCancel(t) PROVE CaptureWrites'
  BY <1>10 DEF RemoveCancel
<1>11. ASSUME NEW t \in Target, RemoveCommit(t) PROVE CaptureWrites'
  BY <1>11, CommitKeepsCaptureWrites DEF RemoveCommit
<1>12. ASSUME NEW x \in Closer, PruneCleared(x) PROVE CaptureWrites'
  BY <1>12 DEF PruneCleared
<1>13. ASSUME NEW x \in Closer, PruneRetained(x) PROVE CaptureWrites'
  BY <1>13 DEF PruneRetained
<1>14. ASSUME NEW t \in Target, SwitchTarget(t) PROVE CaptureWrites'
  BY <1>14 DEF SwitchTarget
<1>15. CASE DeleteEndpoint
  BY <1>15, StoredPresent DEF DeleteEndpoint, RowState, Delivery
<1>16. ASSUME NEW x \in Tx, Abort(x) PROVE CaptureWrites'
  BY <1>16 DEF Abort, Release
<1>17. CASE UNCHANGED vars
  BY <1>17 DEF vars
<1> QED
  BY <1>1, <1>2, <1>3, <1>4, <1>5, <1>6, <1>7, <1>8, <1>9, <1>10, <1>11, <1>12,
     <1>13, <1>14, <1>15, <1>16, <1>17 DEF Next

\* A commit makes no request pending that another transaction is deleting.
LEMMA CommitKeepsNoPendingDoomed ==
  ASSUME StoreInv, NEW x \in Tx, pc[x] \in Open, NEW S, Apply(x, S), Release(x, "done")
  PROVE  NoPendingDoomed'
<1> USE TxMembers
<1> SUFFICES ASSUME NEW y \in Tx, NEW d \in Delivery, d[1] \in doomed'[y],
                    delivery'[d] = "pending"
             PROVE  d \in wrote'[y]
  BY DEF NoPendingDoomed
<1>1. y # x
  BY DEF Release, StoreInv, TypeOK
<1>2. doomed'[y] = doomed[y] /\ wrote'[y] = wrote[y]
  BY <1>1 DEF Release, StoreInv, TypeOK
<1>3. Seen(x, d) = "pending"
  BY DEF Apply
<1>4. CASE d \notin wrote[x]
  BY <1>2, <1>3, <1>4 DEF Seen, StoreInv, NoPendingDoomed
<1>5. CASE d \in wrote[x]
  <2>1. value[x] = "pending"
    BY <1>3, <1>5 DEF Seen
  <2>2. x \notin Closer
    BY <1>5, <2>1 DEF StoreInv, CloserWrites, Final
  <2>3. \A c \in Clear : x # ClearTx(c)
    BY <1>5 DEF StoreInv, ClearWrites
  <2>4. PICK q \in Request : x = CaptureTx(q)
    BY <2>2, <2>3, TxKinds
  <2>5. d[1] = q /\ row[q] = "absent"
    BY <1>5, <2>4 DEF StoreInv, CaptureWrites, Open
  <2>6. row[q] # "absent"
    BY <1>1, <1>2, <2>4, <2>5 DEF StoreInv, KnownRows
  <2> QED BY <2>5, <2>6
<1> QED BY <1>4, <1>5

\* Every step keeps the pending filters of the DELETE statements true until
\* their commits.
LEMMA NoPendingDoomedInductive == StoreInv /\ [Next]_vars => NoPendingDoomed'
<1> SUFFICES ASSUME StoreInv, [Next]_vars PROVE NoPendingDoomed' OBVIOUS
<1> USE TxMembers, TxDistinct, CloserDistinct DEF StoreInv, TypeOK, NoPendingDoomed, WritesWhileOpen, Open
<1>1. ASSUME NEW r \in Request, CaptureInsert(r) PROVE NoPendingDoomed'
  BY <1>1 DEF CaptureInsert
<1>2. ASSUME NEW r \in Request, CaptureRetain(r) PROVE NoPendingDoomed'
  <2>1. ASSUME NEW d \in Delivery, d[1] \in CaptureExcess(r), delivery[d] = "pending"
        PROVE  d \in wrote[CaptureTx(r)]
    <3>1. PICK t \in Target : d = <<d[1], t>> /\ d[1] \in Request
      BY DEF Delivery
    <3>2. d[1] \notin PendingTo(CaptureTx(r))
      BY <2>1 DEF CaptureExcess
    <3>3. Seen(CaptureTx(r), d) # "pending"
      BY <3>1, <3>2 DEF PendingTo
    <3> QED BY <2>1, <3>3 DEF Seen
  <2> QED BY <1>2, <2>1 DEF CaptureRetain
<1>3. ASSUME NEW r \in Request, CaptureCommit(r) PROVE NoPendingDoomed'
  BY <1>3, CommitKeepsNoPendingDoomed DEF CaptureCommit
<1>4. ASSUME NEW c \in Clear, ClearFlag(c) PROVE NoPendingDoomed'
  BY <1>4 DEF ClearFlag
<1>5. ASSUME NEW c \in Clear, ClearSweep(c) PROVE NoPendingDoomed'
  <2>1. ASSUME NEW d \in Delivery, d[1] \in Stored \ PendingTo(ClearTx(c)), delivery[d] = "pending"
        PROVE  d \in wrote[ClearTx(c)]
    <3>1. PICK t \in Target : d = <<d[1], t>> /\ d[1] \in Request
      BY DEF Delivery
    <3>2. Seen(ClearTx(c), d) # "pending"
      BY <2>1, <3>1 DEF PendingTo
    <3> QED BY <2>1, <3>2 DEF Seen
  <2> QED BY <1>5, <2>1 DEF ClearSweep
<1>6. ASSUME NEW c \in Clear, ClearCommit(c) PROVE NoPendingDoomed'
  BY <1>6, CommitKeepsNoPendingDoomed DEF ClearCommit
<1>7. ASSUME NEW d \in Delivery, NEW s \in Final, RecordClose(d, s) PROVE NoPendingDoomed'
  BY <1>7 DEF RecordClose
<1>8. ASSUME NEW d \in Delivery, RecordCommit(d) PROVE NoPendingDoomed'
  BY <1>8, CommitKeepsNoPendingDoomed DEF RecordCommit
<1>9. ASSUME NEW t \in Target, RemoveLock(t) PROVE NoPendingDoomed'
  BY <1>9 DEF RemoveLock
<1>10. ASSUME NEW t \in Target, RemoveCancel(t) PROVE NoPendingDoomed'
  BY <1>10 DEF RemoveCancel
<1>11. ASSUME NEW t \in Target, RemoveCommit(t) PROVE NoPendingDoomed'
  BY <1>11, CommitKeepsNoPendingDoomed DEF RemoveCommit
<1>12. ASSUME NEW x \in Closer, PruneCleared(x) PROVE NoPendingDoomed'
  <2>1. ASSUME NEW d \in Delivery, d[1] \in Hidden \ PendingTo(x), delivery[d] = "pending"
        PROVE  d \in wrote[x]
    <3>1. PICK t \in Target : d = <<d[1], t>> /\ d[1] \in Request
      BY DEF Delivery
    <3>2. Seen(x, d) # "pending"
      BY <2>1, <3>1 DEF PendingTo
    <3> QED BY <2>1, <3>2 DEF Seen
  <2> QED BY <1>12, <2>1 DEF PruneCleared
<1>13. ASSUME NEW x \in Closer, PruneRetained(x) PROVE NoPendingDoomed'
  <2>1. ASSUME NEW d \in Delivery, d[1] \in PruneExcess(x), delivery[d] = "pending"
        PROVE  d \in wrote[x]
    <3>1. PICK t \in Target : d = <<d[1], t>> /\ d[1] \in Request
      BY DEF Delivery
    <3>2. d[1] \notin PendingTo(x)
      BY <2>1 DEF PruneExcess
    <3>3. Seen(x, d) # "pending"
      BY <3>1, <3>2 DEF PendingTo
    <3> QED BY <2>1, <3>3 DEF Seen
  <2> QED BY <1>13, <2>1 DEF PruneRetained
<1>14. ASSUME NEW t \in Target, SwitchTarget(t) PROVE NoPendingDoomed'
  BY <1>14 DEF SwitchTarget
<1>15. CASE DeleteEndpoint
  BY <1>15 DEF DeleteEndpoint
<1>16. ASSUME NEW x \in Tx, Abort(x) PROVE NoPendingDoomed'
  BY <1>16 DEF Abort, Release
<1>17. CASE UNCHANGED vars
  BY <1>17 DEF vars
<1> QED
  BY <1>1, <1>2, <1>3, <1>4, <1>5, <1>6, <1>7, <1>8, <1>9, <1>10, <1>11, <1>12,
     <1>13, <1>14, <1>15, <1>16, <1>17 DEF Next

\* The invariant that carries the theorems below.
THEOREM StoreInvariant == Spec => []StoreInv
<1>1. Init => StoreInv
  <2> SUFFICES ASSUME Init PROVE StoreInv OBVIOUS
  <2>1. TypeOK
    BY TxMembers DEF Init, TypeOK, RowState, Status
  <2>2. WritesWhileOpen /\ CaptureWrites /\ ClearWrites
    BY TxMembers DEF Init, WritesWhileOpen, CaptureWrites, ClearWrites, Open, Delivery
  <2>3. CloserWrites /\ KnownRows /\ NoPendingDoomed
    BY TxMembers DEF Init, CloserWrites, KnownRows, NoPendingDoomed
  <2> QED BY <2>1, <2>2, <2>3 DEF StoreInv
<1>2. StoreInv /\ [Next]_vars => StoreInv'
  <2>1. StoreInv => TypeOK
    BY DEF StoreInv
  <2> QED
    BY <2>1, TypeInductive, WritesWhileOpenInductive, CaptureWritesInductive,
       ClearWritesInductive, CloserWritesInductive, KnownRowsInductive,
       NoPendingDoomedInductive DEF StoreInv
<1> QED BY <1>1, <1>2, PTL DEF Spec

\* No transaction means to delete a request with a pending delivery that it is
\* not itself closing.
THEOREM NoPendingIsDoomed == Spec => []NoPendingDoomed
<1>1. StoreInv => NoPendingDoomed
  BY DEF StoreInv
<1> QED BY <1>1, StoreInvariant, PTL

-----------------------------------------------------------------------------
(* A deleted target has no pending delivery.  The endpoint lock is what makes *)
(* it so: it keeps the targets a capture has read from being deleted before   *)
(* the capture commits, and captures from adding deliveries behind the        *)
(* cancellation.                                                              *)

\* A capture or a removal in progress has the endpoint row locked.
LockHeld ==
  /\ \A r \in Request : pc[CaptureTx(r)] \in Open => lock = CaptureTx(r)
  /\ \A t \in Target : pc[RemoveTx(t)] \in Open => lock = RemoveTx(t)

\* A capture in progress has no delivery for a deleted target.
CaptureTargets ==
  \A r \in Request : \A d \in wrote[CaptureTx(r)] : target[d[2]] # "deleted"

\* A removal past its cancellation holds every pending delivery of its target.
RemoveHoldsAll ==
  \A t \in Target :
    pc[RemoveTx(t)] \in {"written", "pruned", "swept"}
      => /\ value[RemoveTx(t)] = "cancelled"
         /\ \A d \in Delivery : (d[2] = t /\ delivery[d] = "pending") => d \in wrote[RemoveTx(t)]

QuietInv == LockHeld /\ CaptureTargets /\ RemoveHoldsAll /\ DeletedTargetIsQuiet

\* Only a capture adds pending deliveries.
LEMMA OnlyCapturesAddPending ==
  ASSUME StoreInv, NEW x \in Tx, \A r \in Request : x # CaptureTx(r), NEW S, Apply(x, S),
         NEW d \in Delivery, delivery'[d] = "pending"
  PROVE  delivery[d] = "pending" /\ d \notin wrote[x]
<1>1. Seen(x, d) = "pending"
  BY DEF Apply
<1>2. d \notin wrote[x]
  <2>1. CASE x \in Closer
    BY <1>1, <2>1 DEF Seen, StoreInv, CloserWrites, Final
  <2>2. CASE \E c \in Clear : x = ClearTx(c)
    BY <2>2 DEF StoreInv, ClearWrites
  <2> QED BY <2>1, <2>2, TxKinds
<1> QED BY <1>1, <1>2 DEF Seen

\* The commit of a clear or of a result adds nothing pending and ends no lock of
\* a capture or a removal.
LEMMA OtherCommitIsQuiet ==
  ASSUME StoreInv, QuietInv, NEW x \in Tx, \A r \in Request : x # CaptureTx(r),
         \A t \in Target : x # RemoveTx(t), Apply(x, {}), Release(x, "done"),
         UNCHANGED target
  PROVE  QuietInv'
<1> USE TxMembers
<1>1. \A y \in Tx : y # x => /\ pc'[y] = pc[y] /\ wrote'[y] = wrote[y]
                              /\ value'[y] = value[y]
  BY DEF StoreInv, TypeOK, Release
<1>2. \A y : lock = y /\ y # x => lock' = y
  BY DEF Release
<1>3. \A d \in Delivery : delivery'[d] = "pending" => delivery[d] = "pending"
  BY OnlyCapturesAddPending
<1>4. LockHeld'
  BY <1>1, <1>2 DEF QuietInv, LockHeld
<1>5. CaptureTargets'
  BY <1>1 DEF QuietInv, CaptureTargets
<1>6. RemoveHoldsAll'
  BY <1>1, <1>3 DEF QuietInv, RemoveHoldsAll
<1>7. DeletedTargetIsQuiet'
  BY <1>3 DEF QuietInv, DeletedTargetIsQuiet
<1> QED BY <1>4, <1>5, <1>6, <1>7 DEF QuietInv

\* Every step keeps the endpoint lock's work: a capture and a target removal
\* never overlap.
LEMMA QuietInvInductive == StoreInv /\ QuietInv /\ [Next]_vars => QuietInv'
<1> SUFFICES ASSUME StoreInv, QuietInv, [Next]_vars PROVE QuietInv' OBVIOUS
<1> USE TxMembers, TxDistinct, CloserDistinct DEF StoreInv, TypeOK, QuietInv, LockHeld, CaptureTargets, RemoveHoldsAll, DeletedTargetIsQuiet, Open, WritesWhileOpen
<1>1. ASSUME NEW r \in Request, CaptureInsert(r) PROVE QuietInv'
  <2>1. lock = NoTx
    BY <1>1 DEF CaptureInsert, EndpointRowFree
  <2>2. \A u \in Target : pc[RemoveTx(u)] \notin Open
    BY <2>1
  <2> QED BY <1>1, <2>1, <2>2 DEF CaptureInsert
<1>2. ASSUME NEW r \in Request, CaptureRetain(r) PROVE QuietInv'
  BY <1>2 DEF CaptureRetain
<1>3. ASSUME NEW r \in Request, CaptureCommit(r) PROVE QuietInv'
  <2>1. lock = CaptureTx(r)
    BY <1>3 DEF CaptureCommit
  <2>2. \A u \in Target : pc[RemoveTx(u)] \notin Open
    BY <2>1
  <2>3. \A q \in Request : q # r => pc[CaptureTx(q)] \notin Open
    BY <2>1
  <2>4. LockHeld' /\ CaptureTargets' /\ RemoveHoldsAll'
    BY <1>3, <2>2, <2>3 DEF CaptureCommit, Release
  <2>5. ASSUME NEW d \in Delivery, delivery'[d] = "pending" PROVE target[d[2]] # "deleted"
    BY <1>3, <2>5 DEF CaptureCommit, Apply, Seen
  <2> QED BY <1>3, <2>4, <2>5 DEF CaptureCommit
<1>4. ASSUME NEW c \in Clear, ClearFlag(c) PROVE QuietInv'
  BY <1>4 DEF ClearFlag
<1>5. ASSUME NEW c \in Clear, ClearSweep(c) PROVE QuietInv'
  BY <1>5 DEF ClearSweep
<1>6. ASSUME NEW c \in Clear, ClearCommit(c) PROVE QuietInv'
  <2>1. (\A r \in Request : ClearTx(c) # CaptureTx(r)) /\ (\A t \in Target : ClearTx(c) # RemoveTx(t))
    OBVIOUS
  <2> HIDE DEF StoreInv, TypeOK, QuietInv
  <2> QED BY <1>6, <2>1, OtherCommitIsQuiet DEF ClearCommit
<1>7. ASSUME NEW d \in Delivery, NEW s \in Final, RecordClose(d, s) PROVE QuietInv'
  BY <1>7 DEF RecordClose
<1>8. ASSUME NEW d \in Delivery, RecordCommit(d) PROVE QuietInv'
  <2>1. (\A r \in Request : RecordTx(d) # CaptureTx(r)) /\ (\A t \in Target : RecordTx(d) # RemoveTx(t))
    OBVIOUS
  <2> HIDE DEF StoreInv, TypeOK, QuietInv
  <2> QED BY <1>8, <2>1, OtherCommitIsQuiet DEF RecordCommit
<1>9. ASSUME NEW t \in Target, RemoveLock(t) PROVE QuietInv'
  BY <1>9 DEF RemoveLock, EndpointRowFree
<1>10. ASSUME NEW t \in Target, RemoveCancel(t) PROVE QuietInv'
  BY <1>10 DEF RemoveCancel
<1>11. ASSUME NEW t \in Target, RemoveCommit(t) PROVE QuietInv'
  <2>1. lock = RemoveTx(t)
    BY <1>11 DEF RemoveCommit
  <2>2. \A u \in Target : u # t => pc[RemoveTx(u)] \notin Open
    BY <2>1
  <2>3. \A q \in Request : pc[CaptureTx(q)] \notin Open
    BY <2>1
  <2>4. LockHeld' /\ CaptureTargets' /\ RemoveHoldsAll'
    BY <1>11, <2>2, <2>3 DEF RemoveCommit, Release
  <2>5. ASSUME NEW d \in Delivery, delivery'[d] = "pending" PROVE target'[d[2]] # "deleted"
    <3>1. delivery[d] = "pending" /\ d \notin wrote[RemoveTx(t)]
      <4>1. (\A r \in Request : RemoveTx(t) # CaptureTx(r)) /\ RemoveTx(t) \in Tx
        OBVIOUS
      <4> HIDE DEF StoreInv, TypeOK, QuietInv
      <4> QED BY <1>11, <2>5, <4>1, OnlyCapturesAddPending DEF RemoveCommit
    <3>2. d[2] # t /\ d[2] \in Target
      BY <1>11, <3>1 DEF RemoveCommit, Delivery
    <3> QED BY <1>11, <3>1, <3>2 DEF RemoveCommit
  <2> QED BY <2>4, <2>5
<1>12. ASSUME NEW x \in Closer, PruneCleared(x) PROVE QuietInv'
  BY <1>12 DEF PruneCleared
<1>13. ASSUME NEW x \in Closer, PruneRetained(x) PROVE QuietInv'
  BY <1>13 DEF PruneRetained
<1>14. ASSUME NEW t \in Target, SwitchTarget(t) PROVE QuietInv'
  <2>1. \A u : target'[u] = "deleted" => target[u] = "deleted"
    BY <1>14 DEF SwitchTarget, Switched
  <2> QED BY <1>14, <2>1 DEF SwitchTarget, EndpointRowFree
<1>15. CASE DeleteEndpoint
  BY <1>15 DEF DeleteEndpoint
<1>16. ASSUME NEW x \in Tx, Abort(x) PROVE QuietInv'
  BY <1>16 DEF Abort, Release
<1>17. CASE UNCHANGED vars
  BY <1>17 DEF vars
<1> QED
  BY <1>1, <1>2, <1>3, <1>4, <1>5, <1>6, <1>7, <1>8, <1>9, <1>10, <1>11, <1>12,
     <1>13, <1>14, <1>15, <1>16, <1>17 DEF Next

\* A deleted target has no pending delivery.
THEOREM DeletedTargetsAreQuiet == Spec => []DeletedTargetIsQuiet
<1>1. Init => QuietInv
  BY TxMembers DEF Init, QuietInv, LockHeld, CaptureTargets, RemoveHoldsAll,
     DeletedTargetIsQuiet, Open
<1>2. QuietInv => DeletedTargetIsQuiet
  BY DEF QuietInv
<1> QED BY <1>1, <1>2, QuietInvInductive, StoreInvariant, PTL DEF Spec

-----------------------------------------------------------------------------
(* What a step may do to a delivery.                                         *)

\* Only commits and the deletion of the endpoint change deliveries.
LEMMA DeliveryChanges ==
  ASSUME StoreInv, Next, NEW d \in Delivery, delivery'[d] # delivery[d]
  PROVE  \/ endpoint' = "deleted" /\ delivery'[d] = "none"
         \/ \E x \in Tx, S \in SUBSET Request :
              /\ Apply(x, S)
              /\ pc[x] = "swept"
              /\ pc'[x] = "done"
<1> USE TxMembers DEF StoreInv, TypeOK
<1>1. ASSUME NEW r \in Request, CaptureInsert(r) \/ CaptureRetain(r) \/ CaptureCommit(r)
      PROVE \E x \in Tx, S \in SUBSET Request : Apply(x, S) /\ pc[x] = "swept" /\ pc'[x] = "done"
  BY <1>1 DEF CaptureInsert, CaptureRetain, CaptureCommit, Release
<1>2. ASSUME NEW c \in Clear, ClearFlag(c) \/ ClearSweep(c) \/ ClearCommit(c)
      PROVE \E x \in Tx, S \in SUBSET Request : Apply(x, S) /\ pc[x] = "swept" /\ pc'[x] = "done"
  BY <1>2 DEF ClearFlag, ClearSweep, ClearCommit, Release
<1>3. ASSUME NEW e \in Delivery, (\E s \in Final : RecordClose(e, s)) \/ RecordCommit(e)
      PROVE \E x \in Tx, S \in SUBSET Request : Apply(x, S) /\ pc[x] = "swept" /\ pc'[x] = "done"
  BY <1>3 DEF RecordClose, RecordCommit, Release
<1>4. ASSUME NEW t \in Target, RemoveLock(t) \/ RemoveCancel(t) \/ RemoveCommit(t)
      PROVE \E x \in Tx, S \in SUBSET Request : Apply(x, S) /\ pc[x] = "swept" /\ pc'[x] = "done"
  BY <1>4 DEF RemoveLock, RemoveCancel, RemoveCommit, Release
<1>5. CASE DeleteEndpoint
  BY <1>5 DEF DeleteEndpoint
<1> QED
  BY <1>1, <1>2, <1>3, <1>4, <1>5
     DEF Next, PruneCleared, PruneRetained, SwitchTarget, Abort

\* A pending delivery ends only by the commit of a transaction that closes it,
\* or with its endpoint.
THEOREM PendingEndsOnlyWhenClosed == Spec => PendingEndsByItsOwnCommit
<1> DEFINE Ends(d) ==
      (delivery[d] = "pending" /\ delivery'[d] # "pending")
        => \/ endpoint' = "deleted"
           \/ \E x \in Closer : d \in wrote[x] /\ pc[x] = "swept" /\ pc'[x] = "done"
<1>1. StoreInv /\ [Next]_vars => [\A d \in Delivery : Ends(d)]_vars
  <2> SUFFICES ASSUME StoreInv, Next, NEW d \in Delivery,
                      delivery[d] = "pending", delivery'[d] # "pending",
                      endpoint' # "deleted"
               PROVE  \E x \in Closer : d \in wrote[x] /\ pc[x] = "swept" /\ pc'[x] = "done"
    OBVIOUS
  <2>1. PICK x \in Tx, S \in SUBSET Request : Apply(x, S) /\ pc[x] = "swept" /\ pc'[x] = "done"
    BY DeliveryChanges
  <2>2. d \in wrote[x]
    <3>1. CASE d[1] \in doomed[x]
      BY <3>1 DEF StoreInv, NoPendingDoomed
    <3>2. CASE d[1] \notin doomed[x]
      BY <2>1, <3>2 DEF Apply, Seen
    <3> QED BY <3>1, <3>2
  <2>3. \A c \in Clear : x # ClearTx(c)
    BY <2>2 DEF StoreInv, ClearWrites
  <2>4. ASSUME NEW r \in Request, x = CaptureTx(r) PROVE FALSE
    <3>1. row[r] = "absent"
      BY <2>1, <2>4 DEF StoreInv, CaptureWrites
    <3>2. PICK t \in Target : d = <<r, t>>
      BY <2>2, <2>4 DEF StoreInv, CaptureWrites, Delivery
    <3> QED BY <3>1, <3>2 DEF StoreInv, CaptureWrites
  <2> QED BY <2>1, <2>2, <2>3, <2>4, TxKinds
<1> QED BY <1>1, StoreInvariant, PTL DEF Spec, PendingEndsByItsOwnCommit

\* A recorded result is never replaced.
THEOREM ResultsNeverChange == Spec => ResultsAreFinal
<1> DEFINE Keeps(d) == delivery[d] \in Final => delivery'[d] \in {delivery[d], "none"}
<1>1. StoreInv /\ [Next]_vars => [\A d \in Delivery : Keeps(d)]_vars
  <2> SUFFICES ASSUME StoreInv, Next, NEW d \in Delivery, delivery[d] \in Final,
                      delivery'[d] # delivery[d], delivery'[d] # "none"
               PROVE  FALSE
    OBVIOUS
  <2>1. PICK x \in Tx, S \in SUBSET Request : Apply(x, S) /\ pc[x] = "swept" /\ pc'[x] = "done"
    BY DeliveryChanges
  <2>2. d \in wrote[x]
    BY <2>1 DEF Apply, Seen
  <2>3. x \notin Closer
    BY <2>2 DEF StoreInv, CloserWrites, Final
  <2>4. \A c \in Clear : x # ClearTx(c)
    BY <2>2 DEF StoreInv, ClearWrites
  <2>5. PICK r \in Request : x = CaptureTx(r)
    BY <2>3, <2>4, TxKinds
  <2>6. row[r] = "absent"
    BY <2>1, <2>5 DEF StoreInv, CaptureWrites
  <2>7. PICK t \in Target : d = <<r, t>>
    BY <2>2, <2>5 DEF StoreInv, CaptureWrites, Delivery
  <2> QED BY <2>6, <2>7 DEF StoreInv, CaptureWrites, Final
<1> QED BY <1>1, StoreInvariant, PTL DEF Spec, ResultsAreFinal

-----------------------------------------------------------------------------
(* A clear takes everything that was listed out of the list, although its    *)
(* two statements read the pending deliveries in different snapshots.        *)

\* While a clear runs, a request that was listed when it began is flagged, or
\* matched by the DELETE, or free of pending deliveries for the DELETE to match.
ClearCovers ==
  \A c \in Clear : pc[ClearTx(c)] \in {"written", "swept"} =>
    \A r \in saw[c] :
      /\ row[r] # "absent"
      /\ row[r] = "visible"
           => \/ r \in flagged[ClearTx(c)] \cup doomed[ClearTx(c)]
              \/ /\ pc[ClearTx(c)] = "written"
                 /\ \A t \in Target : delivery[<<r, t>>] # "pending"

\* A request that is a row becomes neither listed nor pending by a commit.
LEMMA CommitAddsNothing ==
  ASSUME StoreInv, NEW x \in Tx, pc[x] = "swept", NEW S \in SUBSET Request,
         \A q \in Request : q \in S <=> x = CaptureTx(q),
         Apply(x, S), NEW r \in Request, row[r] # "absent"
  PROVE  /\ row'[r] # "absent"
         /\ row'[r] = "visible" => row[r] = "visible"
         /\ \A t \in Target : delivery'[<<r, t>>] = "pending" => delivery[<<r, t>>] = "pending"
<1> USE TxMembers DEF StoreInv
<1>1. x # CaptureTx(r)
  BY DEF CaptureWrites
<1>2. row'[r] # "absent" /\ (row'[r] = "visible" => row[r] = "visible")
  BY <1>1 DEF Apply
<1>3. ASSUME NEW t \in Target, delivery'[<<r, t>>] = "pending"
      PROVE  delivery[<<r, t>>] = "pending"
  <2>1. <<r, t>> \in Delivery /\ <<r, t>>[1] = r
    BY DEF Delivery
  <2>2. CASE \E q \in Request : x = CaptureTx(q)
    <3>1. <<r, t>> \notin wrote[x]
      BY <1>1, <2>1, <2>2 DEF CaptureWrites
    <3> QED BY <1>3, <2>1, <3>1 DEF Apply, Seen
  <2>3. CASE \A q \in Request : x # CaptureTx(q)
    BY <1>3, <2>1, <2>3, OnlyCapturesAddPending
  <2> QED BY <2>2, <2>3
<1> QED BY <1>2, <1>3

\* What a commit does to the clears still running.
LEMMA CommitKeepsClearCovers ==
  ASSUME StoreInv, ClearCovers, NEW x \in Tx, pc[x] = "swept", NEW S \in SUBSET Request,
         \A q \in Request : q \in S <=> x = CaptureTx(q),
         Apply(x, S), Release(x, "done"), UNCHANGED saw
  PROVE  ClearCovers'
<1> USE TxMembers DEF StoreInv, TypeOK
<1> SUFFICES ASSUME NEW c \in Clear, pc'[ClearTx(c)] \in {"written", "swept"},
                    NEW r \in saw'[c]
             PROVE  /\ row'[r] # "absent"
                    /\ row'[r] = "visible"
                         => \/ r \in flagged'[ClearTx(c)] \cup doomed'[ClearTx(c)]
                            \/ /\ pc'[ClearTx(c)] = "written"
                               /\ \A t \in Target : delivery'[<<r, t>>] # "pending"
  BY DEF ClearCovers
<1>1. ClearTx(c) # x
  BY DEF Release
<1>2. /\ pc'[ClearTx(c)] = pc[ClearTx(c)]
      /\ flagged'[ClearTx(c)] = flagged[ClearTx(c)]
      /\ doomed'[ClearTx(c)] = doomed[ClearTx(c)]
  BY <1>1 DEF Release
<1>3. r \in Request /\ row[r] # "absent"
  BY <1>2 DEF ClearCovers
<1>4. /\ row'[r] # "absent"
      /\ row'[r] = "visible" => row[r] = "visible"
      /\ \A t \in Target : delivery'[<<r, t>>] = "pending" => delivery[<<r, t>>] = "pending"
  BY <1>3, CommitAddsNothing
<1> QED BY <1>2, <1>4 DEF ClearCovers

\* Every step keeps a running clear's hold on what was listed when it began.
LEMMA ClearCoversInductive == StoreInv /\ ClearCovers /\ [Next]_vars => ClearCovers'
<1> SUFFICES ASSUME StoreInv, ClearCovers, [Next]_vars PROVE ClearCovers' OBVIOUS
<1> USE TxMembers, TxDistinct, CloserDistinct DEF StoreInv, TypeOK, ClearCovers, WritesWhileOpen, Open
<1>1. ASSUME NEW r \in Request, CaptureInsert(r) PROVE ClearCovers'
  BY <1>1 DEF CaptureInsert
<1>2. ASSUME NEW r \in Request, CaptureRetain(r) PROVE ClearCovers'
  BY <1>2 DEF CaptureRetain
<1>3. ASSUME NEW r \in Request, CaptureCommit(r) PROVE ClearCovers'
  BY <1>3, CommitKeepsClearCovers DEF CaptureCommit
<1>4. ASSUME NEW c \in Clear, ClearFlag(c) PROVE ClearCovers'
  <2>1. ASSUME NEW r \in Visible, r \notin ClearFlags(c), NEW t \in Target
        PROVE  delivery[<<r, t>>] # "pending"
    <3>1. r \in Request /\ r \notin PendingTo(ClearTx(c))
      BY <2>1, StoredPresent DEF ClearFlags, Visible
    <3>2. wrote[ClearTx(c)] = {}
      BY DEF ClearWrites
    <3> QED BY <3>1, <3>2 DEF PendingTo, Seen
  <2> QED BY <1>4, <2>1 DEF ClearFlag, Visible
<1>5. ASSUME NEW c \in Clear, ClearSweep(c) PROVE ClearCovers'
  <2>1. ASSUME NEW r \in Request, row[r] = "visible", \A t \in Target : delivery[<<r, t>>] # "pending"
        PROVE  r \in Stored \ PendingTo(ClearTx(c))
    <3>1. wrote[ClearTx(c)] = {}
      BY DEF ClearWrites
    <3> QED BY <2>1, <3>1, StoredPresent DEF PendingTo, Seen
  <2> QED BY <1>5, <2>1 DEF ClearSweep
<1>6. ASSUME NEW c \in Clear, ClearCommit(c) PROVE ClearCovers'
  BY <1>6, CommitKeepsClearCovers DEF ClearCommit
<1>7. ASSUME NEW d \in Delivery, NEW s \in Final, RecordClose(d, s) PROVE ClearCovers'
  BY <1>7 DEF RecordClose
<1>8. ASSUME NEW d \in Delivery, RecordCommit(d) PROVE ClearCovers'
  BY <1>8, CommitKeepsClearCovers DEF RecordCommit
<1>9. ASSUME NEW t \in Target, RemoveLock(t) PROVE ClearCovers'
  BY <1>9 DEF RemoveLock
<1>10. ASSUME NEW t \in Target, RemoveCancel(t) PROVE ClearCovers'
  BY <1>10 DEF RemoveCancel
<1>11. ASSUME NEW t \in Target, RemoveCommit(t) PROVE ClearCovers'
  BY <1>11, CommitKeepsClearCovers DEF RemoveCommit
<1>12. ASSUME NEW x \in Closer, PruneCleared(x) PROVE ClearCovers'
  BY <1>12 DEF PruneCleared
<1>13. ASSUME NEW x \in Closer, PruneRetained(x) PROVE ClearCovers'
  BY <1>13 DEF PruneRetained
<1>14. ASSUME NEW t \in Target, SwitchTarget(t) PROVE ClearCovers'
  BY <1>14 DEF SwitchTarget
<1>15. CASE DeleteEndpoint
  <2>1. \A r \in Request : row'[r] # "visible" /\ (row[r] # "absent" => row'[r] # "absent")
    BY <1>15, StoredPresent DEF DeleteEndpoint, RowState
  <2> QED BY <1>15, <2>1 DEF DeleteEndpoint
<1>16. ASSUME NEW x \in Tx, Abort(x) PROVE ClearCovers'
  BY <1>16 DEF Abort, Release
<1>17. CASE UNCHANGED vars
  BY <1>17 DEF vars
<1> QED
  BY <1>1, <1>2, <1>3, <1>4, <1>5, <1>6, <1>7, <1>8, <1>9, <1>10, <1>11, <1>12,
     <1>13, <1>14, <1>15, <1>16, <1>17 DEF Next

\* A clear finishes only by its own commit.
LEMMA ClearEnds ==
  ASSUME StoreInv, Next, NEW c \in Clear,
         pc[ClearTx(c)] = "swept", pc'[ClearTx(c)] = "done"
  PROVE  ClearCommit(c)
<1> USE TxMembers, TxDistinct, CloserDistinct DEF StoreInv, TypeOK
<1>1. ASSUME NEW r \in Request, CaptureInsert(r) \/ CaptureRetain(r) \/ CaptureCommit(r) PROVE FALSE
  BY <1>1 DEF CaptureInsert, CaptureRetain, CaptureCommit, Release
<1>2. ASSUME NEW b \in Clear, ClearFlag(b) \/ ClearSweep(b) \/ ClearCommit(b) PROVE ClearCommit(c)
  BY <1>2 DEF ClearFlag, ClearSweep, ClearCommit, Release
<1>3. ASSUME NEW e \in Delivery, (\E s \in Final : RecordClose(e, s)) \/ RecordCommit(e) PROVE FALSE
  BY <1>3 DEF RecordClose, RecordCommit, Release
<1>4. ASSUME NEW t \in Target, RemoveLock(t) \/ RemoveCancel(t) \/ RemoveCommit(t) PROVE FALSE
  BY <1>4 DEF RemoveLock, RemoveCancel, RemoveCommit, Release
<1>5. ASSUME NEW x \in Closer, PruneCleared(x) \/ PruneRetained(x) PROVE FALSE
  BY <1>5 DEF PruneCleared, PruneRetained
<1>6. ASSUME NEW x \in Tx, Abort(x) PROVE FALSE
  BY <1>6 DEF Abort, Release
<1> QED
  BY <1>1, <1>2, <1>3, <1>4, <1>5, <1>6 DEF Next, SwitchTarget, DeleteEndpoint

\* When a clear commits, nothing that was listed when it began is listed.
THEOREM ClearsAreComplete == Spec => ClearIsComplete
<1>1. Init => ClearCovers
  BY TxMembers DEF Init, ClearCovers
<1> DEFINE Complete(c) ==
      (pc[ClearTx(c)] = "swept" /\ pc'[ClearTx(c)] = "done")
        => \A r \in saw[c] : row'[r] # "visible"
<1>2. StoreInv /\ ClearCovers /\ [Next]_vars => [\A c \in Clear : Complete(c)]_vars
  <2> SUFFICES ASSUME StoreInv, ClearCovers, Next, NEW c \in Clear, NEW r \in saw[c],
                      pc[ClearTx(c)] = "swept", pc'[ClearTx(c)] = "done"
               PROVE  row'[r] # "visible"
    OBVIOUS
  <2>1. ClearCommit(c)
    BY ClearEnds
  <2>2. r \in Request
    BY DEF StoreInv, TypeOK
  <2>3. row[r] = "visible" => r \in flagged[ClearTx(c)] \cup doomed[ClearTx(c)]
    BY DEF ClearCovers
  <2> QED BY <2>1, <2>2, <2>3 DEF ClearCommit, Apply
<1> QED BY <1>1, <1>2, StoreInvariant, ClearCoversInductive, PTL DEF Spec, ClearIsComplete

-----------------------------------------------------------------------------
(* The retention of a capture.                                               *)

\* A capture gets from its writes to its commit only by its retention DELETE.
LEMMA CaptureRetains ==
  ASSUME StoreInv, Next, NEW r \in Request,
         pc[CaptureTx(r)] = "written", pc'[CaptureTx(r)] = "swept"
  PROVE  CaptureRetain(r)
<1> USE TxMembers, TxDistinct, CloserDistinct DEF StoreInv, TypeOK
<1>1. ASSUME NEW q \in Request, CaptureInsert(q) \/ CaptureRetain(q) \/ CaptureCommit(q)
      PROVE  CaptureRetain(r)
  BY <1>1 DEF CaptureInsert, CaptureRetain, CaptureCommit, Release
<1>2. ASSUME NEW c \in Clear, ClearFlag(c) \/ ClearSweep(c) \/ ClearCommit(c) PROVE FALSE
  BY <1>2 DEF ClearFlag, ClearSweep, ClearCommit, Release
<1>3. ASSUME NEW e \in Delivery, (\E s \in Final : RecordClose(e, s)) \/ RecordCommit(e) PROVE FALSE
  BY <1>3 DEF RecordClose, RecordCommit, Release
<1>4. ASSUME NEW t \in Target, RemoveLock(t) \/ RemoveCancel(t) \/ RemoveCommit(t) PROVE FALSE
  BY <1>4 DEF RemoveLock, RemoveCancel, RemoveCommit, Release
<1>5. ASSUME NEW x \in Closer, PruneCleared(x) \/ PruneRetained(x) PROVE FALSE
  BY <1>5 DEF PruneCleared, PruneRetained
<1>6. ASSUME NEW x \in Tx, Abort(x) PROVE FALSE
  BY <1>6 DEF Abort, Release
<1> QED
  BY <1>1, <1>2, <1>3, <1>4, <1>5, <1>6 DEF Next, SwitchTarget, DeleteEndpoint

\* A stranded row is beyond every retention: it is hidden, so it is not among the
\* newest of the listed rows and the new one, and the capture, which writes only
\* its own deliveries, sees none pending for it.
LEMMA StrandedIsExcess ==
  ASSUME StoreInv, NEW r \in Request, pc[CaptureTx(r)] \in Open
  PROVE  Stranded \subseteq CaptureExcess(r)
<1> SUFFICES ASSUME NEW s \in Stranded PROVE s \in CaptureExcess(r)
  OBVIOUS
<1>1. s \in Request /\ row[s] = "hidden" /\ \A t \in Target : delivery[<<s, t>>] # "pending"
  BY DEF Stranded, Hidden
<1>2. row[r] = "absent"
  BY DEF StoreInv, TypeOK, RowState, CaptureWrites, Open
<1>3. s \in Stored /\ s \notin Visible \cup {r}
  BY <1>1, <1>2 DEF Stored, Hidden, Visible
<1>4. s \notin Newest(Visible \cup {r})
  BY <1>3, NewestRows
<1>5. \A t \in Target : <<s, t>> \notin wrote[CaptureTx(r)]
  BY <1>1, <1>2 DEF StoreInv, CaptureWrites
<1>6. s \notin PendingTo(CaptureTx(r))
  BY <1>1, <1>5 DEF PendingTo, Seen
<1> QED BY <1>3, <1>4, <1>6 DEF CaptureExcess

\* Rows that a clear has left behind go with the next capture.
THEOREM CapturesSweepStranded == Spec => CaptureSweepsStranded
<1> DEFINE Sweeps(r) ==
      (pc[CaptureTx(r)] = "written" /\ pc'[CaptureTx(r)] = "swept")
        => Stranded \subseteq doomed'[CaptureTx(r)]
<1>1. StoreInv /\ [Next]_vars => [\A r \in Request : Sweeps(r)]_vars
  <2> SUFFICES ASSUME StoreInv, Next, NEW r \in Request,
                      pc[CaptureTx(r)] = "written", pc'[CaptureTx(r)] = "swept"
               PROVE  Stranded \subseteq doomed'[CaptureTx(r)]
    OBVIOUS
  <2>1. CaptureRetain(r)
    BY CaptureRetains
  <2>2. doomed'[CaptureTx(r)] = CaptureExcess(r)
    BY <2>1, TxMembers DEF CaptureRetain, StoreInv, TypeOK
  <2> QED BY <2>2, StrandedIsExcess DEF Open
<1> QED BY <1>1, StoreInvariant, PTL DEF Spec, CaptureSweepsStranded

-----------------------------------------------------------------------------
(* Retention keeps the newest requests where no clear runs. *)

\* The least of a set of numbers.
LEMMA HasLeast ==
  ASSUME NEW S, S \subseteq Nat, S # {}
  PROVE  \E m \in S : \A n \in S : m <= n
<1>1. PICK m \in S : \A n \in S : ~(<<n, m>> \in OpToRel(<, Nat))
  BY NatLessThanWellFounded, WFMin
<1>2. ASSUME NEW n \in S, n < m PROVE FALSE
  <2>1. <<n, m>> \in Nat \X Nat /\ <<n, m>>[1] < <<n, m>>[2]
    BY <1>2
  <2>2. <<n, m>> \in OpToRel(<, Nat)
    BY <2>1, Zenon DEF OpToRel
  <2> QED BY <1>1, <2>2
<1>3. \A n \in S : m <= n
  BY <1>2
<1> QED BY <1>3

\* The rows of S received after r.
Later(S, r) == {q \in S : q > r}

\* The newest rows are those with fewer than MaxRequests later ones.
LEMMA NewestByLater ==
  ASSUME NEW S, NEW r
  PROVE  r \in Newest(S) <=> r \in S /\ Cardinality(Later(S, r)) < MaxRequests
BY DEF Newest, Later

\* The later rows of a part are some of the later rows of the whole.
LEMMA LaterOfPart ==
  ASSUME NEW T, IsFiniteSet(T), NEW S, S \subseteq T, NEW r
  PROVE  /\ Cardinality(Later(S, r)) \in Nat
         /\ Cardinality(Later(T, r)) \in Nat
         /\ Cardinality(Later(S, r)) <= Cardinality(Later(T, r))
<1>1. Later(S, r) \subseteq Later(T, r) /\ Later(T, r) \subseteq T
  BY DEF Later
<1>2. IsFiniteSet(Later(T, r))
  BY <1>1, FS_Subset
<1>3. IsFiniteSet(Later(S, r)) /\ Cardinality(Later(S, r)) <= Cardinality(Later(T, r))
  BY <1>1, <1>2, FS_Subset
<1> QED BY <1>2, <1>3, FS_CardinalityType

\* A finite set of requests has a last one.
LEMMA HasLast ==
  ASSUME NEW S, IsFiniteSet(S), S \subseteq Int, S # {}
  PROVE  \E m \in S : Later(S, m) = {}
<1> DEFINE C == {Cardinality(Later(S, p)) : p \in S}
<1>1. C \subseteq Nat /\ C # {}
  BY LaterOfPart
<1>2. PICK m \in S : \A p \in S : Cardinality(Later(S, m)) <= Cardinality(Later(S, p))
  <2>1. PICK n \in C : \A k \in C : n <= k
    <3> HIDE DEF C
    <3> QED BY <1>1, HasLeast
  <2> QED BY <2>1
<1>3. ASSUME NEW p \in Later(S, m) PROVE FALSE
  <2>1. p \in S /\ p > m
    BY DEF Later
  <2>2. Later(S, p) \subseteq Later(S, m) /\ p \notin Later(S, p)
    <3>1. \A q \in S : q \in Int
      OBVIOUS
    <3>2. p \in Int /\ m \in Int
      BY <2>1, <3>1
    <3>3. ASSUME NEW q \in S, q > p PROVE q > m
      BY <2>1, <3>1, <3>2, <3>3
    <3>4. ~(p > p)
      BY <3>2
    <3> QED BY <3>3, <3>4 DEF Later
  <2>3. IsFiniteSet(Later(S, m))
    BY FS_Subset DEF Later
  <2>4. Cardinality(Later(S, p)) <= Cardinality(Later(S, m))
    BY <2>2, <2>3, FS_Subset
  <2>5. Cardinality(Later(S, m)) # Cardinality(Later(S, p))
    BY <2>2, <2>3, FS_Subset
  <2> QED BY <1>2, <2>1, <2>4, <2>5, LaterOfPart
<1> QED BY <1>3

\* A row that is not among the newest of some is not among the newest of more,
\* unless it is one of those added.
LEMMA NewestOfMore ==
  ASSUME NEW T, IsFiniteSet(T), NEW S, S \subseteq T, NEW r, r \notin Newest(S), r \notin T \ S
  PROVE  r \notin Newest(T)
<1>1. CASE r \notin T
  BY <1>1, NewestByLater
<1>2. CASE r \in S
  <2>1. ~(Cardinality(Later(S, r)) < MaxRequests)
    BY <1>2, NewestByLater
  <2>2. ~(Cardinality(Later(T, r)) < MaxRequests)
    BY <2>1, LaterOfPart, StoreAssumption
  <2> QED BY <2>2, NewestByLater
<1> QED BY <1>1, <1>2

\* The newest rows stay the newest when others are deleted, and none joins them:
\* the last of the others has MaxRequests newest rows after it, which remain.
LEMMA NewestOfFewer ==
  ASSUME NEW S, IsFiniteSet(S), S \subseteq Int, NEW B, B \cap Newest(S) = {}
  PROVE  Newest(S \ B) = Newest(S)
<1> DEFINE R == S \ B
<1>1. R \subseteq S
  OBVIOUS
<1>2. ASSUME NEW r \in Newest(S) PROVE r \in Newest(R)
  <2>1. r \in R /\ Cardinality(Later(S, r)) < MaxRequests
    BY NewestByLater
  <2>2. Cardinality(Later(R, r)) < MaxRequests
    BY <1>1, <2>1, LaterOfPart, StoreAssumption
  <2> QED BY <2>1, <2>2, NewestByLater
<1>3. ASSUME NEW r \in Newest(R), r \notin Newest(S) PROVE FALSE
  <2> DEFINE Old == S \ Newest(S)
  <2>1. r \in Old
    BY <1>3, NewestByLater
  <2>2. IsFiniteSet(Old) /\ Old \subseteq S
    BY FS_Difference
  <2>3. PICK m \in Old : Later(Old, m) = {}
    <3> HIDE DEF Old
    <3> QED BY <2>1, <2>2, HasLast
  <2>4. m >= r
    BY <2>1, <2>3 DEF Later
  <2>5. Later(S, m) \subseteq Newest(S)
    BY <2>3 DEF Later
  <2>6. Later(S, m) \subseteq Later(R, r)
    <3>1. \A q \in S : q \in Int
      OBVIOUS
    <3>2. m \in Int /\ r \in Int
      BY <2>1, <3>1
    <3>3. ASSUME NEW q \in Later(S, m) PROVE q \in R /\ q > r
      <4>1. q \in S /\ q > m /\ q \in Int
        BY <3>1 DEF Later
      <4>2. q \in Newest(S)
        BY <2>5
      <4> QED BY <2>4, <3>2, <4>1, <4>2
    <3> QED BY <3>3 DEF Later
  <2>7. ~(Cardinality(Later(S, m)) < MaxRequests)
    BY NewestByLater
  <2>8. IsFiniteSet(Later(R, r))
    BY FS_Subset DEF Later
  <2>9. Cardinality(Later(S, m)) <= Cardinality(Later(R, r))
    BY <2>6, <2>8, FS_Subset
  <2>10. Cardinality(Later(S, m)) \in Nat /\ Cardinality(Later(R, r)) \in Nat
    BY <1>1, LaterOfPart
  <2>11. Cardinality(Later(R, r)) < MaxRequests
    BY <1>3, NewestByLater
  <2> QED BY <2>7, <2>9, <2>10, <2>11, StoreAssumption
<1>4. Newest(R) \subseteq Newest(S)
  BY <1>3
<1> QED BY <1>2, <1>4

\* No clear has begun.
NoClearRuns == \A c \in Clear : pc[ClearTx(c)] = "idle"

\* The request that a commit of x inserts: a capture's own.
Inserts(x) == {r \in Request : x = CaptureTx(r)}

\* Finitely many requests have been stored.
FiniteRows == IsFiniteSet({r \in Request : row[r] # "absent"})

\* Only a clear hides rows.
NothingHidden ==
  /\ \A r \in Request : row[r] # "hidden"
  /\ \A x \in Tx : flagged[x] = {}

\* What a transaction has doomed is not among the newest of the listed rows and
\* the one it inserts itself, not only when its DELETE ran but until its commit.
ExcessStays == \A x \in Tx : \A r \in doomed[x] : r \notin Newest(Visible \cup Inserts(x))

KeepInv == FiniteRows /\ NothingHidden /\ ExcessStays

\* A capture inserts its own request, nobody else inserts any.
LEMMA InsertedRows ==
  /\ \A x : Inserts(x) \subseteq Request /\ IsFiniteSet(Inserts(x))
  /\ \A r \in Request : Inserts(CaptureTx(r)) = {r}
  /\ \A c \in Clear : Inserts(ClearTx(c)) = {}
  /\ \A x \in Closer : Inserts(x) = {}
<1> USE TxDistinct, CloserDistinct DEF Inserts
<1>1. \A r \in Request : Inserts(CaptureTx(r)) = {r}
  OBVIOUS
<1>2. \A c \in Clear : Inserts(ClearTx(c)) = {}
  OBVIOUS
<1>3. \A x \in Closer : Inserts(x) = {}
  OBVIOUS
<1>4. ASSUME NEW x PROVE Inserts(x) \subseteq Request /\ IsFiniteSet(Inserts(x))
  <2>1. CASE \E r \in Request : x = CaptureTx(r)
    <3>1. PICK r \in Request : x = CaptureTx(r)
      BY <2>1
    <3>2. Inserts(x) = {r}
      BY <1>1, <3>1
    <3> QED BY <3>2, FS_Singleton
  <2>2. CASE ~\E r \in Request : x = CaptureTx(r)
    <3>1. Inserts(x) = {}
      BY <2>2
    <3> QED BY <3>1, FS_EmptySet
  <2> QED BY <2>1, <2>2
<1> QED BY <1>1, <1>2, <1>3, <1>4

\* The listed rows and what two transactions insert are finitely many.
LEMMA FinitelyListed ==
  ASSUME KeepInv, NEW x, NEW y
  PROVE  /\ IsFiniteSet(Visible \cup Inserts(x))
         /\ IsFiniteSet(Visible \cup Inserts(x) \cup Inserts(y))
         /\ Visible \cup Inserts(x) \cup Inserts(y) \subseteq Int
<1>1. IsFiniteSet(Visible)
  <2>1. Visible \subseteq {r \in Request : row[r] # "absent"}
    BY DEF Visible
  <2> QED BY <2>1, FS_Subset DEF KeepInv, FiniteRows
<1>2. IsFiniteSet(Visible \cup Inserts(x))
  BY <1>1, InsertedRows, FS_Union
<1>3. IsFiniteSet(Visible \cup Inserts(x) \cup Inserts(y))
  BY <1>2, InsertedRows, FS_Union
<1> QED BY <1>2, <1>3, InsertedRows, StoredRows, StoreAssumption

\* A commit takes what its transaction has doomed from the list and adds what it
\* inserts.
LEMMA CommittedList ==
  ASSUME StoreInv, KeepInv, NEW y \in Tx, Apply(y, Inserts(y))
  PROVE  /\ Visible' = (Visible \cup Inserts(y)) \ doomed[y]
         /\ \A r \in Request : row'[r] # "hidden"
<1>1. flagged[y] = {}
  BY DEF KeepInv, NothingHidden
<1>2. \A r \in Request : row'[r] = IF r \in doomed[y] THEN "gone"
                                   ELSE IF r \in Inserts(y) THEN "visible" ELSE row[r]
  BY <1>1 DEF Apply
<1>3. \A r \in Request : row'[r] # "hidden"
  BY <1>2 DEF KeepInv, NothingHidden
<1> QED BY <1>2, <1>3, InsertedRows DEF Visible

\* Doomed rows are not what another transaction inserts.
LEMMA DoomedIsOthers ==
  ASSUME StoreInv, NEW x \in Tx, NEW y \in Tx, x # y, pc[y] \in Open, NEW r \in doomed[x]
  PROVE  r \notin Inserts(y)
<1> SUFFICES ASSUME r \in Inserts(y) PROVE FALSE
  OBVIOUS
<1>1. r \in Request /\ y = CaptureTx(r)
  BY DEF Inserts
<1>2. row[r] = "absent"
  BY <1>1 DEF StoreInv, CaptureWrites, Open
<1> QED BY <1>1, <1>2 DEF StoreInv, KnownRows

\* A commit leaves what the others have doomed out of the newest rows.
LEMMA CommitKeepsExcess ==
  ASSUME StoreInv, KeepInv, NEW y \in Tx, pc[y] = "swept", Apply(y, Inserts(y)),
         Release(y, "done")
  PROVE  KeepInv'
<1>1. FiniteRows'
  <2>1. \A r \in Request : row'[r] # "absent"
                             => r \in {q \in Request : row[q] # "absent"} \cup Inserts(y) \cup doomed[y]
    BY DEF Apply, KeepInv, NothingHidden
  <2>2. doomed[y] \subseteq {q \in Request : row[q] # "absent"} \cup Inserts(y)
    BY DEF StoreInv, TypeOK, KnownRows, Inserts
  <2>3. {r \in Request : row'[r] # "absent"}
          \subseteq {q \in Request : row[q] # "absent"} \cup Inserts(y)
    BY <2>1, <2>2
  <2>4. IsFiniteSet({q \in Request : row[q] # "absent"} \cup Inserts(y))
    BY InsertedRows, FS_Union DEF KeepInv, FiniteRows
  <2> QED BY <2>3, <2>4, FS_Subset DEF FiniteRows
<1>2. NothingHidden'
  BY CommittedList DEF Release, KeepInv, NothingHidden, StoreInv, TypeOK
<1>3. ExcessStays'
  <2> SUFFICES ASSUME NEW x \in Tx, NEW r \in doomed'[x]
               PROVE  r \notin Newest(Visible' \cup Inserts(x))
    BY DEF ExcessStays
  <2>1. x # y /\ r \in doomed[x]
    BY DEF Release, StoreInv, TypeOK
  <2>2. pc[x] \in Open /\ pc[y] \in Open
    BY <2>1 DEF StoreInv, WritesWhileOpen, Open
  <2> DEFINE W == Visible \cup Inserts(x) \cup Inserts(y)
  <2>3. IsFiniteSet(W) /\ W \subseteq Int
    BY FinitelyListed
  <2>4. r \notin Newest(W)
    <3>1. r \notin Newest(Visible \cup Inserts(x)) /\ r \notin Inserts(y)
      BY <2>1, <2>2, DoomedIsOthers DEF KeepInv, ExcessStays
    <3>2. Visible \cup Inserts(x) \subseteq W /\ r \notin W \ (Visible \cup Inserts(x))
      BY <3>1
    <3> HIDE DEF W
    <3> QED BY <2>3, <3>1, <3>2, NewestOfMore
  <2>5. ASSUME NEW s \in doomed[y] PROVE s \notin Newest(W) /\ s \notin Inserts(x)
    <3>1. s \notin Newest(Visible \cup Inserts(y)) /\ s \notin Inserts(x)
      BY <2>1, <2>2, DoomedIsOthers DEF KeepInv, ExcessStays
    <3>2. Visible \cup Inserts(y) \subseteq W /\ s \notin W \ (Visible \cup Inserts(y))
      BY <3>1
    <3> HIDE DEF W
    <3> QED BY <2>3, <3>1, <3>2, NewestOfMore
  <2>6. Newest(W \ doomed[y]) = Newest(W)
    <3> HIDE DEF W
    <3> QED BY <2>3, <2>5, NewestOfFewer
  <2>7. Visible' \cup Inserts(x) = W \ doomed[y]
    BY <2>5, CommittedList
  <2> HIDE DEF W
  <2> QED BY <2>4, <2>6, <2>7
<1> QED BY <1>1, <1>2, <1>3 DEF KeepInv

\* A step that neither changes rows nor dooms any keeps the invariant.
LEMMA KeepUnchanged ==
  ASSUME KeepInv, UNCHANGED <<row, flagged, doomed>> PROVE KeepInv'
BY DEF KeepInv, FiniteRows, NothingHidden, ExcessStays, Visible

\* A DELETE keeps the invariant if what it adds is beyond the newest.
LEMMA DeleteKeepsExcess ==
  ASSUME StoreInv, KeepInv, NEW x \in Tx, NEW D,
         doomed' = [doomed EXCEPT ![x] = D], UNCHANGED <<row, flagged>>,
         \A r \in D : r \in doomed[x] \/ r \notin Newest(Visible \cup Inserts(x))
  PROVE  KeepInv'
<1>1. FiniteRows' /\ NothingHidden' /\ Visible' = Visible
  BY DEF KeepInv, FiniteRows, NothingHidden, Visible
<1>2. ExcessStays'
  <2> SUFFICES ASSUME NEW y \in Tx, NEW r \in doomed'[y]
               PROVE  r \notin Newest(Visible \cup Inserts(y))
    BY <1>1 DEF ExcessStays
  <2>1. CASE y = x
    BY <2>1 DEF StoreInv, TypeOK, KeepInv, ExcessStays
  <2>2. CASE y # x
    BY <2>2 DEF StoreInv, TypeOK, KeepInv, ExcessStays
  <2> QED BY <2>1, <2>2
<1> QED BY <1>1, <1>2 DEF KeepInv

\* Every step keeps it while no clear runs.
LEMMA KeepInvInductive ==
  StoreInv /\ KeepInv /\ NoClearRuns /\ NoClearRuns' /\ [Next]_vars => KeepInv'
<1> SUFFICES ASSUME StoreInv, KeepInv, NoClearRuns, NoClearRuns', [Next]_vars PROVE KeepInv'
  OBVIOUS
<1> USE TxMembers
<1>1. ASSUME NEW r \in Request, CaptureInsert(r) PROVE KeepInv'
  BY <1>1, KeepUnchanged DEF CaptureInsert
<1>2. ASSUME NEW r \in Request, CaptureRetain(r) PROVE KeepInv'
  <2>1. \A q \in CaptureExcess(r) : q \notin Newest(Visible \cup Inserts(CaptureTx(r)))
    BY InsertedRows DEF CaptureExcess
  <2> QED BY <1>2, <2>1, DeleteKeepsExcess DEF CaptureRetain
<1>3. ASSUME NEW r \in Request, CaptureCommit(r) PROVE KeepInv'
  BY <1>3, InsertedRows, CommitKeepsExcess DEF CaptureCommit
<1>4. ASSUME NEW c \in Clear, ClearFlag(c) \/ ClearSweep(c) \/ ClearCommit(c) PROVE KeepInv'
  <2>1. pc'[ClearTx(c)] # "idle"
    BY <1>4 DEF ClearFlag, ClearSweep, ClearCommit, Release, StoreInv, TypeOK
  <2> QED BY <2>1 DEF NoClearRuns
<1>5. ASSUME NEW d \in Delivery, NEW s \in Final, RecordClose(d, s) PROVE KeepInv'
  BY <1>5, KeepUnchanged DEF RecordClose
<1>6. ASSUME NEW d \in Delivery, RecordCommit(d) PROVE KeepInv'
  <2>1. RecordTx(d) \in Closer
    BY DEF Closer
  <2> QED BY <1>6, <2>1, InsertedRows, CommitKeepsExcess DEF RecordCommit
<1>7. ASSUME NEW t \in Target, RemoveLock(t) \/ RemoveCancel(t) PROVE KeepInv'
  BY <1>7, KeepUnchanged DEF RemoveLock, RemoveCancel
<1>8. ASSUME NEW t \in Target, RemoveCommit(t) PROVE KeepInv'
  <2>1. RemoveTx(t) \in Closer
    BY DEF Closer
  <2> QED BY <1>8, <2>1, InsertedRows, CommitKeepsExcess DEF RemoveCommit
<1>9. ASSUME NEW x \in Closer, PruneCleared(x) PROVE KeepInv'
  <2>1. Hidden = {}
    BY DEF Hidden, KeepInv, NothingHidden
  <2>2. doomed' = [doomed EXCEPT ![x] = {}] /\ UNCHANGED <<row, flagged>>
    BY <1>9, <2>1 DEF PruneCleared
  <2> DEFINE D == {}
  <2>3. doomed' = [doomed EXCEPT ![x] = D] /\ \A q \in D : q \in doomed[x]
    BY <2>2
  <2> HIDE DEF D
  <2> QED BY <2>2, <2>3, DeleteKeepsExcess
<1>10. ASSUME NEW x \in Closer, PruneRetained(x) PROVE KeepInv'
  <2> DEFINE D == doomed[x] \cup PruneExcess(x)
  <2>1. \A q \in D : q \in doomed[x] \/ q \notin Newest(Visible \cup Inserts(x))
    BY InsertedRows DEF PruneExcess
  <2>2. doomed' = [doomed EXCEPT ![x] = D] /\ UNCHANGED <<row, flagged>>
    BY <1>10 DEF PruneRetained
  <2> HIDE DEF D
  <2> QED BY <2>1, <2>2, DeleteKeepsExcess
<1>11. ASSUME NEW t \in Target, SwitchTarget(t) PROVE KeepInv'
  BY <1>11, KeepUnchanged DEF SwitchTarget
<1>12. CASE DeleteEndpoint
  <2>1. \A x \in Tx : doomed'[x] = {} /\ flagged'[x] = {}
    BY <1>12 DEF DeleteEndpoint
  <2>2. \A r \in Request : /\ row'[r] # "absent" <=> row[r] # "absent"
                           /\ row'[r] # "hidden"
    BY <1>12, StoredPresent DEF DeleteEndpoint, StoreInv, TypeOK
  <2>3. {r \in Request : row'[r] # "absent"} = {r \in Request : row[r] # "absent"}
    BY <2>2
  <2> QED BY <2>1, <2>2, <2>3 DEF KeepInv, FiniteRows, NothingHidden, ExcessStays
<1>13. ASSUME NEW x \in Tx, Abort(x) PROVE KeepInv'
  <2>1. doomed' = [doomed EXCEPT ![x] = {}] /\ UNCHANGED row
    BY <1>13 DEF Abort, Release
  <2>2. flagged' = flagged
    BY <1>13 DEF Abort, Release, KeepInv, NothingHidden, StoreInv, TypeOK
  <2> DEFINE D == {}
  <2>3. doomed' = [doomed EXCEPT ![x] = D] /\ \A q \in D : q \in doomed[x]
    BY <2>1
  <2> HIDE DEF D
  <2> QED BY <2>1, <2>2, <2>3, DeleteKeepsExcess
<1>14. CASE UNCHANGED vars
  BY <1>14, KeepUnchanged DEF vars
<1> QED
  BY <1>1, <1>2, <1>3, <1>4, <1>5, <1>6, <1>7, <1>8, <1>9, <1>10, <1>11, <1>12,
     <1>13, <1>14 DEF Next

\* Rows leave the list by a commit or with the endpoint.
LEMMA RowsLeave ==
  ASSUME StoreInv, Next, NEW r \in Request, row'[r] # row[r], endpoint' = "active"
  PROVE  \E x \in Tx : Apply(x, Inserts(x)) /\ r \in Inserts(x) \cup doomed[x] \cup flagged[x]
<1> USE TxMembers
<1>1. ASSUME NEW x \in Tx, Apply(x, Inserts(x))
      PROVE  r \in Inserts(x) \cup doomed[x] \cup flagged[x]
  BY <1>1 DEF Apply
<1>2. ASSUME NEW q \in Request, CaptureInsert(q) \/ CaptureRetain(q) \/ CaptureCommit(q)
      PROVE  \E x \in Tx : Apply(x, Inserts(x))
  BY <1>2, InsertedRows DEF CaptureInsert, CaptureRetain, CaptureCommit
<1>3. ASSUME NEW c \in Clear, ClearFlag(c) \/ ClearSweep(c) \/ ClearCommit(c)
      PROVE  \E x \in Tx : Apply(x, Inserts(x))
  BY <1>3, InsertedRows DEF ClearFlag, ClearSweep, ClearCommit
<1>4. ASSUME NEW d \in Delivery, (\E s \in Final : RecordClose(d, s)) \/ RecordCommit(d)
      PROVE  \E x \in Tx : Apply(x, Inserts(x))
  BY <1>4, InsertedRows DEF RecordClose, RecordCommit, Closer
<1>5. ASSUME NEW t \in Target, RemoveLock(t) \/ RemoveCancel(t) \/ RemoveCommit(t)
      PROVE  \E x \in Tx : Apply(x, Inserts(x))
  BY <1>5, InsertedRows DEF RemoveLock, RemoveCancel, RemoveCommit, Closer
<1>6. ASSUME NEW x \in Closer, PruneCleared(x) \/ PruneRetained(x) PROVE FALSE
  BY <1>6 DEF PruneCleared, PruneRetained
<1>7. ASSUME NEW x \in Tx, Abort(x) PROVE FALSE
  BY <1>7 DEF Abort
<1> QED
  BY <1>1, <1>2, <1>3, <1>4, <1>5, <1>6, <1>7 DEF Next, SwitchTarget, DeleteEndpoint

\* What retention drops where no clear runs is not among the newest of the rows
\* listed at that commit, for every number of requests and every limit.
THEOREM LatestRequestsAreKept == Spec /\ []NoClearRuns => KeepsLatestRequests
<1> DEFINE Kept(r) == RetentionDrops(r) => r \notin Newest(Visible \cup Visible')
<1>1. StoreInv /\ KeepInv /\ [Next]_vars => [\A r \in Request : Kept(r)]_vars
  <2> SUFFICES ASSUME StoreInv, KeepInv, Next, NEW r \in Request, RetentionDrops(r)
               PROVE  r \notin Newest(Visible \cup Visible')
    OBVIOUS
  <2>1. row[r] = "visible" /\ row'[r] = "gone" /\ endpoint' = "active"
    BY DEF RetentionDrops
  <2>2. PICK x \in Tx : Apply(x, Inserts(x)) /\ r \in Inserts(x) \cup doomed[x] \cup flagged[x]
    BY <2>1, RowsLeave
  <2>3. r \in doomed[x]
    BY <2>1, <2>2 DEF Apply, KeepInv, NothingHidden
  <2> DEFINE V == Visible \cup Inserts(x)
             B == Inserts(x) \cap doomed[x]
  <2>4. Visible \cup Visible' = V \ (B \ Visible)
    BY <2>2, CommittedList
  <2>5. IsFiniteSet(V) /\ V \subseteq Int
    BY FinitelyListed
  <2>6. \A s \in doomed[x] : s \notin Newest(V)
    BY DEF KeepInv, ExcessStays
  <2>7. (B \ Visible) \cap Newest(V) = {}
    BY <2>6
  <2>8. Newest(V \ (B \ Visible)) = Newest(V)
    <3> HIDE DEF V, B
    <3> QED BY <2>5, <2>7, NewestOfFewer
  <2> QED BY <2>3, <2>4, <2>6, <2>8
<1>2. Init => KeepInv
  <2>1. ASSUME Init PROVE {r \in Request : row[r] # "absent"} = {}
    BY <2>1 DEF Init
  <2> QED BY <2>1, FS_EmptySet DEF Init, KeepInv, FiniteRows, NothingHidden, ExcessStays
<1> QED
  BY <1>1, <1>2, StoreInvariant, KeepInvInductive, PTL DEF Spec, KeepsLatestRequests

-----------------------------------------------------------------------------
(* The endpoint's tables implement DeliveryLifecycle: every commit is one   *)
(* step of the abstract life of the deliveries, every other statement is a  *)
(* stutter.                                                                 *)

\* What an open transaction is about to commit, exactly.  A capture holds one
\* pending delivery per target that is enabled now, a removal holds deliveries
\* of its own target, which is not deleted yet, and a result is never a
\* cancellation.
ExactWrites ==
  /\ \A r \in Request :
       pc[CaptureTx(r)] \in Open
         => wrote[CaptureTx(r)] = {r} \X {t \in Target : target[t] = "enabled"}
  /\ \A t \in Target :
       /\ pc[RemoveTx(t)] \in Open => target[t] # "deleted"
       /\ \A d \in wrote[RemoveTx(t)] : d[2] = t
  /\ \A d \in Delivery :
       pc[RecordTx(d)] \in Open
         => wrote[RecordTx(d)] = {d} /\ value[RecordTx(d)] \in {"delivered", "failed"}

\* Every step keeps the writes exact: the endpoint lock keeps targets from
\* changing under a capture or a removal, and a worker that finds the target
\* deleted finds no pending delivery of it.
LEMMA ExactWritesInductive == StoreInv /\ QuietInv /\ ExactWrites /\ [Next]_vars => ExactWrites'
<1> SUFFICES ASSUME StoreInv, QuietInv, ExactWrites, [Next]_vars PROVE ExactWrites' OBVIOUS
<1> USE TxMembers, TxDistinct, CloserDistinct
        DEF StoreInv, TypeOK, QuietInv, LockHeld, ExactWrites, WritesWhileOpen, Open
<1>1. ASSUME NEW r \in Request, CaptureInsert(r) PROVE ExactWrites'
  BY <1>1 DEF CaptureInsert
<1>2. ASSUME NEW r \in Request, CaptureRetain(r) PROVE ExactWrites'
  BY <1>2 DEF CaptureRetain
<1>3. ASSUME NEW r \in Request, CaptureCommit(r) PROVE ExactWrites'
  BY <1>3 DEF CaptureCommit, Release
<1>4. ASSUME NEW c \in Clear, ClearFlag(c) PROVE ExactWrites'
  BY <1>4 DEF ClearFlag
<1>5. ASSUME NEW c \in Clear, ClearSweep(c) PROVE ExactWrites'
  BY <1>5 DEF ClearSweep
<1>6. ASSUME NEW c \in Clear, ClearCommit(c) PROVE ExactWrites'
  BY <1>6 DEF ClearCommit, Release
<1>7. ASSUME NEW d \in Delivery, NEW s \in Final, RecordClose(d, s) PROVE ExactWrites'
  <2>1. s \in {"delivered", "failed"}
    BY <1>7 DEF RecordClose, Recordable, DeletedTargetIsQuiet, Final
  <2> QED BY <1>7, <2>1 DEF RecordClose
<1>8. ASSUME NEW d \in Delivery, RecordCommit(d) PROVE ExactWrites'
  BY <1>8 DEF RecordCommit, Release
<1>9. ASSUME NEW t \in Target, RemoveLock(t) PROVE ExactWrites'
  BY <1>9 DEF RemoveLock
<1>10. ASSUME NEW t \in Target, RemoveCancel(t) PROVE ExactWrites'
  BY <1>10 DEF RemoveCancel
<1>11. ASSUME NEW t \in Target, RemoveCommit(t) PROVE ExactWrites'
  <2>1. lock = RemoveTx(t)
    BY <1>11 DEF RemoveCommit
  <2>2. /\ \A r \in Request : pc[CaptureTx(r)] \notin Open
        /\ \A u \in Target : u # t => pc[RemoveTx(u)] \notin Open
    BY <2>1
  <2> QED BY <1>11, <2>2 DEF RemoveCommit, Release
<1>12. ASSUME NEW x \in Closer, PruneCleared(x) PROVE ExactWrites'
  BY <1>12 DEF PruneCleared
<1>13. ASSUME NEW x \in Closer, PruneRetained(x) PROVE ExactWrites'
  BY <1>13 DEF PruneRetained
<1>14. ASSUME NEW t \in Target, SwitchTarget(t) PROVE ExactWrites'
  <2>1. \A r \in Request : pc[CaptureTx(r)] \notin Open
    BY <1>14 DEF SwitchTarget, EndpointRowFree
  <2> QED BY <1>14, <2>1 DEF SwitchTarget, EndpointRowFree
<1>15. CASE DeleteEndpoint
  <2>1. /\ \A r \in Request : pc[CaptureTx(r)] \notin Open
        /\ \A t \in Target : pc[RemoveTx(t)] \notin Open
    BY <1>15 DEF DeleteEndpoint, EndpointRowFree
  <2> QED BY <1>15, <2>1 DEF DeleteEndpoint
<1>16. ASSUME NEW x \in Tx, Abort(x) PROVE ExactWrites'
  BY <1>16 DEF Abort, Release
<1>17. CASE UNCHANGED vars
  BY <1>17 DEF vars
<1> QED
  BY <1>1, <1>2, <1>3, <1>4, <1>5, <1>6, <1>7, <1>8, <1>9, <1>10, <1>11, <1>12,
     <1>13, <1>14, <1>15, <1>16, <1>17 DEF Next

-----------------------------------------------------------------------------
(* A commit, seen by the abstract specification.                            *)

Captured == {r \in Request : row[r] # "absent"}

\* A commit drops no request that has a pending delivery after it.
LEMMA CommitDropping ==
  ASSUME StoreInv, NEW x \in Tx, NEW S, Apply(x, S)
  PROVE  Lifecycle!Dropping([d \in Delivery |-> Seen(x, d)], doomed[x])
<1> USE TxMembers DEF StoreInv
<1>1. ASSUME NEW d \in Delivery, d[1] \in doomed[x] PROVE Seen(x, d) # "pending"
  <2>1. CASE d \in wrote[x]
    <3>1. \A r \in Request : x # CaptureTx(r)
      BY <1>1, <2>1 DEF CaptureWrites
    <3>2. \A c \in Clear : x # ClearTx(c)
      BY <2>1 DEF ClearWrites
    <3>3. value[x] \in Final
      BY <2>1, <3>1, <3>2, TxKinds DEF CloserWrites
    <3> QED BY <2>1, <3>3 DEF Seen, Final
  <2>2. CASE d \notin wrote[x]
    BY <1>1, <2>2 DEF Seen, NoPendingDoomed
  <2> QED BY <2>1, <2>2
<1>2. delivery' = [d \in Delivery |->
                     IF d[1] \in doomed[x] THEN "none" ELSE Seen(x, d)]
  BY DEF Apply
<1> QED BY <1>1, <1>2 DEF Lifecycle!Dropping, Lifecycle!Delivery, Delivery

\* A commit adds the captured request, if it is a capture, and no other.
LEMMA CommitCaptured ==
  ASSUME StoreInv, NEW x \in Tx, NEW S \in SUBSET Request,
         \A q \in Request : q \in S <=> x = CaptureTx(q),
         Apply(x, S)
  PROVE  Captured' = Captured \cup S
<1> SUFFICES ASSUME NEW r \in Request
             PROVE  row'[r] # "absent" <=> row[r] # "absent" \/ r \in S
  BY DEF Captured
<1>1. row'[r] = IF r \in doomed[x] THEN "gone"
                ELSE IF r \in flagged[x] THEN "hidden"
                ELSE IF r \in S THEN "visible" ELSE row[r]
  BY DEF Apply
<1> QED BY <1>1 DEF StoreInv, KnownRows
-----------------------------------------------------------------------------
\* The commit of a capture is the abstract Capture.
LEMMA CaptureMaps ==
  ASSUME StoreInv, QuietInv, ExactWrites, NEW r \in Request, CaptureCommit(r)
  PROVE  \E R \in SUBSET Request : Lifecycle!Capture(r, R)
<1> DEFINE x == CaptureTx(r)
<1> USE TxMembers
<1>1. x \in Tx /\ pc[x] = "swept" /\ Apply(x, {r}) /\ UNCHANGED target
  BY DEF CaptureCommit
<1>2. row[r] = "absent"
  BY <1>1 DEF StoreInv, CaptureWrites
<1>3. Captured' = Captured \cup {r}
  BY <1>1, CommitCaptured, TxDistinct
<1>4. [d \in Delivery |-> Seen(x, d)]
        = [d \in Delivery |->
             IF d[1] = r /\ target[d[2]] = "enabled" THEN "pending" ELSE delivery[d]]
  <2>1. wrote[x] = {r} \X {t \in Target : target[t] = "enabled"} /\ value[x] = "pending"
    BY <1>1 DEF ExactWrites, StoreInv, CaptureWrites, Open
  <2>2. \A d \in Delivery : d \in wrote[x] <=> d[1] = r /\ target[d[2]] = "enabled"
    BY <2>1 DEF Delivery
  <2> QED BY <2>1, <2>2 DEF Seen
<1>5. \A d \in Delivery : target[d[2]] = "enabled" <=> d[2] \in Lifecycle!Enabled
  BY DEF Lifecycle!Enabled, Delivery
<1>6. [d \in Delivery |-> Seen(x, d)]
        = [d \in Lifecycle!Delivery |->
             IF d[1] = r /\ d[2] \in Lifecycle!Enabled THEN "pending" ELSE delivery[d]]
  BY <1>4, <1>5 DEF Lifecycle!Delivery, Delivery
<1>7. PICK R \in SUBSET Request : Lifecycle!Dropping([d \in Delivery |-> Seen(x, d)], R)
  BY <1>1, CommitDropping DEF StoreInv, TypeOK
<1> QED BY <1>1, <1>2, <1>3, <1>6, <1>7 DEF Lifecycle!Capture, Captured

\* The commit of a clear is the abstract Drop.
LEMMA ClearMaps ==
  ASSUME StoreInv, NEW c \in Clear, ClearCommit(c)
  PROVE  Lifecycle!Drop(doomed[ClearTx(c)])
<1> DEFINE x == ClearTx(c)
<1> USE TxMembers
<1>1. x \in Tx /\ Apply(x, {}) /\ UNCHANGED target
  BY DEF ClearCommit
<1>2. Captured' = Captured
  BY <1>1, CommitCaptured, TxDistinct
<1>3. [d \in Delivery |-> Seen(x, d)] = delivery
  BY DEF Seen, StoreInv, ClearWrites, TypeOK
<1> QED BY <1>1, <1>2, <1>3, CommitDropping DEF Lifecycle!Drop, Captured

\* The commit of a result is the abstract Settle.
LEMMA RecordMaps ==
  ASSUME StoreInv, ExactWrites, NEW d \in Delivery, RecordCommit(d)
  PROVE  \E s \in {"delivered", "failed"} : Lifecycle!Settle(d, s, doomed[RecordTx(d)])
<1> DEFINE x == RecordTx(d)
<1> USE TxMembers
<1>1. x \in Tx /\ x \in Closer /\ pc[x] = "swept" /\ Apply(x, {}) /\ UNCHANGED target
  BY DEF RecordCommit, Closer
<1>2. Captured' = Captured
  BY <1>1, CommitCaptured, TxDistinct
<1>3. wrote[x] = {d} /\ value[x] \in {"delivered", "failed"}
  BY <1>1 DEF ExactWrites, Open
<1>4. delivery[d] = "pending"
  BY <1>1, <1>3 DEF StoreInv, CloserWrites
<1>5. [e \in Delivery |-> Seen(x, e)] = [delivery EXCEPT ![d] = value[x]]
  BY <1>3 DEF Seen, StoreInv, TypeOK
<1> QED
  BY <1>1, <1>2, <1>3, <1>4, <1>5, CommitDropping DEF Lifecycle!Settle, Captured

\* The commit of a target's removal is the abstract Withdraw.
LEMMA RemoveMaps ==
  ASSUME StoreInv, QuietInv, ExactWrites, NEW t \in Target, RemoveCommit(t)
  PROVE  Lifecycle!Withdraw(t, doomed[RemoveTx(t)])
<1> DEFINE x == RemoveTx(t)
<1> USE TxMembers
<1>1. x \in Tx /\ x \in Closer /\ pc[x] = "swept" /\ Apply(x, {})
  BY DEF RemoveCommit, Closer
<1>2. Captured' = Captured
  BY <1>1, CommitCaptured, TxDistinct
<1>3. target[t] # "deleted" /\ target' = [target EXCEPT ![t] = "deleted"]
  BY <1>1 DEF RemoveCommit, ExactWrites, Open
<1>4. /\ value[x] = "cancelled"
      /\ \A d \in Delivery : d \in wrote[x] <=> d[2] = t /\ delivery[d] = "pending"
  BY <1>1 DEF QuietInv, RemoveHoldsAll, ExactWrites, StoreInv, CloserWrites
<1>5. [d \in Delivery |-> Seen(x, d)]
        = [d \in Lifecycle!Delivery |->
             IF d[2] = t /\ delivery[d] = "pending" THEN "cancelled" ELSE delivery[d]]
  BY <1>4 DEF Seen, Lifecycle!Delivery, Delivery
<1> QED
  BY <1>1, <1>2, <1>3, <1>5, CommitDropping DEF Lifecycle!Withdraw, Captured

\* Every step of the tables is a step of the abstract specification, or leaves
\* what it speaks of unchanged.
LEMMA StepMaps ==
  StoreInv /\ QuietInv /\ ExactWrites /\ [Next]_vars => [Lifecycle!Next]_(Lifecycle!vars)
<1> SUFFICES ASSUME StoreInv, QuietInv, ExactWrites, [Next]_vars
             PROVE  Lifecycle!Next \/ UNCHANGED Lifecycle!vars
  OBVIOUS
<1> USE TxMembers
<1>0. \A x \in Tx : doomed[x] \in SUBSET Request
  BY DEF StoreInv, TypeOK
<1>1. ASSUME NEW r \in Request, CaptureInsert(r) \/ CaptureRetain(r) PROVE UNCHANGED Lifecycle!vars
  BY <1>1 DEF CaptureInsert, CaptureRetain, Lifecycle!vars
<1>2. ASSUME NEW r \in Request, CaptureCommit(r) PROVE Lifecycle!Next
  <2>1. PICK R \in SUBSET Request : Lifecycle!Capture(r, R)
    BY <1>2, CaptureMaps
  <2> QED BY <2>1 DEF Lifecycle!Next
<1>3. ASSUME NEW c \in Clear, ClearFlag(c) \/ ClearSweep(c) PROVE UNCHANGED Lifecycle!vars
  BY <1>3 DEF ClearFlag, ClearSweep, Lifecycle!vars
<1>4. ASSUME NEW c \in Clear, ClearCommit(c) PROVE Lifecycle!Next
  <2>1. doomed[ClearTx(c)] \in SUBSET Request
    BY <1>0
  <2>2. Lifecycle!Drop(doomed[ClearTx(c)])
    BY <1>4, ClearMaps
  <2> QED BY <2>1, <2>2 DEF Lifecycle!Next
<1>5. ASSUME NEW d \in Delivery, NEW s \in Final, RecordClose(d, s) PROVE UNCHANGED Lifecycle!vars
  BY <1>5 DEF RecordClose, Lifecycle!vars
<1>6. ASSUME NEW d \in Delivery, RecordCommit(d) PROVE Lifecycle!Next
  <2>1. d \in Lifecycle!Delivery
    BY DEF Delivery, Lifecycle!Delivery
  <2>2. doomed[RecordTx(d)] \in SUBSET Request
    BY <1>0
  <2>3. PICK s \in {"delivered", "failed"} : Lifecycle!Settle(d, s, doomed[RecordTx(d)])
    BY <1>6, RecordMaps
  <2> QED BY <2>1, <2>2, <2>3 DEF Lifecycle!Next
<1>7. ASSUME NEW t \in Target, RemoveLock(t) \/ RemoveCancel(t) PROVE UNCHANGED Lifecycle!vars
  BY <1>7 DEF RemoveLock, RemoveCancel, Lifecycle!vars
<1>8. ASSUME NEW t \in Target, RemoveCommit(t) PROVE Lifecycle!Next
  <2>1. doomed[RemoveTx(t)] \in SUBSET Request
    BY <1>0
  <2>2. Lifecycle!Withdraw(t, doomed[RemoveTx(t)])
    BY <1>8, RemoveMaps
  <2> QED BY <2>1, <2>2 DEF Lifecycle!Next
<1>9. ASSUME NEW x \in Closer, PruneCleared(x) \/ PruneRetained(x) PROVE UNCHANGED Lifecycle!vars
  BY <1>9 DEF PruneCleared, PruneRetained, Lifecycle!vars
<1>10. ASSUME NEW t \in Target, SwitchTarget(t) PROVE Lifecycle!Next
  BY <1>10 DEF SwitchTarget, Switched, Lifecycle!Next, Lifecycle!Switch
<1>11. CASE DeleteEndpoint
  <2>1. {r \in Request : row[r] # "absent"}' = {r \in Request : row[r] # "absent"}
    BY <1>11, StoredPresent DEF DeleteEndpoint
  <2>2. Lifecycle!End
    BY <1>11, <2>1 DEF DeleteEndpoint, Lifecycle!End, Lifecycle!Delivery, Delivery
  <2> QED BY <2>2 DEF Lifecycle!Next
<1>12. ASSUME NEW x \in Tx, Abort(x) PROVE UNCHANGED Lifecycle!vars
  BY <1>12 DEF Abort, Lifecycle!vars
<1>13. CASE UNCHANGED vars
  BY <1>13 DEF vars, Lifecycle!vars
<1> QED
  BY <1>1, <1>2, <1>3, <1>4, <1>5, <1>6, <1>7, <1>8, <1>9, <1>10, <1>11, <1>12,
     <1>13 DEF Next

\* The endpoint's tables implement the abstract life of deliveries, for every
\* number of requests, targets and clears.
THEOREM StoreImplementsLifecycle == Spec => LifecycleSpec
<1>1. Init => Lifecycle!Init
  BY DEF Init, Lifecycle!Init, Lifecycle!Delivery, Delivery
<1>2. Init => QuietInv /\ ExactWrites
  BY TxMembers DEF Init, QuietInv, LockHeld, CaptureTargets, RemoveHoldsAll,
     DeletedTargetIsQuiet, ExactWrites, Open
<1> QED
  BY <1>1, <1>2, StepMaps, QuietInvInductive, ExactWritesInductive, StoreInvariant, PTL
     DEF Spec, LifecycleSpec, Lifecycle!Spec
=============================================================================
