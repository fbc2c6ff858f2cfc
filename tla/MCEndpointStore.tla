-------------------------- MODULE MCEndpointStore --------------------------
(* Model-checking instances of EndpointStore. *)
EXTENDS EndpointStore, TLC

\* Targets and clears are interchangeable; requests are ordered.
Symmetry == Permutations(Target) \cup Permutations(Clear)

\* Bound: at most this many transactions of the endpoint are open at a time.
AtMostTwoOpen == Cardinality({x \in Tx : pc[x] \in Open}) <= 2
=============================================================================
