-------------------------- MODULE MCForwardTargets --------------------------
(* Model-checking instances of ForwardTargets. *)
EXTENDS ForwardTargets, TLC

Symmetry ==
  Permutations(Endpoint) \cup Permutations(Key) \cup Permutations(Target) \cup Permutations(Call)

\* Bounds: one endpoint has targets and saves and may go, one target is deleted.
Bounded ==
  /\ \E e \in Endpoint : \A f \in Endpoint \ {e} :
       f \in alive /\ Rows(f) = {} /\ \A c \in Call : call[c].endpoint = f => call[c].kind \in Load
  /\ Cardinality({t \in Target : row[t].deleted}) <= 1
=============================================================================
