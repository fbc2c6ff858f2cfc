------------------------- MODULE DeliveryLifecycle -------------------------
(***************************************************************************)
(* What forwarding promises about the deliveries of one endpoint, without  *)
(* transactions, queue jobs or workers.                                    *)
(*                                                                         *)
(* A captured request gets one pending delivery for each target enabled at *)
(* that moment, all at once and only once.  A pending delivery is settled  *)
(* exactly once.  Removing a target settles all its pending deliveries in  *)
(* the same step.  A request may be dropped, with its deliveries, in any   *)
(* step that leaves none of them pending; only the end of the endpoint     *)
(* drops a pending delivery.                                               *)
(***************************************************************************)
CONSTANTS Request, Target

VARIABLES
  captured,   \* requests whose capture has been committed
  target,     \* [Target -> "enabled" | "disabled" | "deleted"]
  status      \* [Request \X Target -> "none" or the delivery's status]

vars == <<captured, target, status>>

Delivery == Request \X Target
Enabled == {t \in Target : target[t] = "enabled"}

Init ==
  /\ captured = {}
  /\ target = [t \in Target |-> "enabled"]
  /\ status = [d \in Delivery |-> "none"]

\* The requests in R are dropped after the deliveries have become next.
Dropping(next, R) ==
  /\ \A d \in Delivery : d[1] \in R => next[d] # "pending"
  /\ status' = [d \in Delivery |-> IF d[1] \in R THEN "none" ELSE next[d]]

Capture(r, R) ==
  /\ r \notin captured
  /\ captured' = captured \cup {r}
  /\ Dropping([d \in Delivery |->
                 IF d[1] = r /\ d[2] \in Enabled THEN "pending" ELSE status[d]], R)
  /\ UNCHANGED target

\* A worker's result.  Only deliveries of deleted targets are cancelled, and
\* those are settled by Withdraw.
Settle(d, s, R) ==
  /\ status[d] = "pending"
  /\ Dropping([status EXCEPT ![d] = s], R)
  /\ UNCHANGED <<captured, target>>

Withdraw(t, R) ==
  /\ target[t] # "deleted"
  /\ target' = [target EXCEPT ![t] = "deleted"]
  /\ Dropping([d \in Delivery |->
                 IF d[2] = t /\ status[d] = "pending" THEN "cancelled" ELSE status[d]], R)
  /\ UNCHANGED captured

Drop(R) ==
  /\ Dropping(status, R)
  /\ UNCHANGED <<captured, target>>

Switch(t) ==
  /\ target[t] # "deleted"
  /\ target' = [target EXCEPT ![t] = IF @ = "enabled" THEN "disabled" ELSE "enabled"]
  /\ UNCHANGED <<captured, status>>

End ==
  /\ target' = [t \in Target |-> "deleted"]
  /\ status' = [d \in Delivery |-> "none"]
  /\ UNCHANGED captured

Next ==
  \/ \E R \in SUBSET Request :
       \/ \E r \in Request : Capture(r, R)
       \/ \E d \in Delivery, s \in {"delivered", "failed"} : Settle(d, s, R)
       \/ \E t \in Target : Withdraw(t, R)
       \/ Drop(R)
  \/ \E t \in Target : Switch(t)
  \/ End

Spec == Init /\ [][Next]_vars
=============================================================================
