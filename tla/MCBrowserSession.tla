-------------------------- MODULE MCBrowserSession --------------------------
(* Model-checking instances of BrowserSession. *)
EXTENDS BrowserSession

Symmetry == Permutations(Slot)
OwnerValue == [r \in 1..LastRequest |-> "e1"]
HitValue == {1}
HistoryValue == {1}
All == {1, 2, 3}

\* Bounds: one event on its way, and none beside two calls except a clear's
\* beside the call that clears; not every endpoint is deleted.
OnTheirWay == unpublished \cup ToSet(channel)
InFlight == {c \in Slot : call[c] # NoCall}
ClearBesideItsCall ==
  /\ \A event \in OnTheirWay : event.kind = "clear"
  /\ \E c \in InFlight : call[c].kind = "clear"
Bounded ==
  /\ Cardinality(unpublished) + Len(channel) <= 1
  /\ Cardinality(InFlight) < 2 \/ OnTheirWay = {} \/ ClearBesideItsCall
  /\ \E e \in Endpoint : status[e] # "deleted"
=============================================================================
