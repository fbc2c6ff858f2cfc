------------------------- MODULE MCEndpointIdentity -------------------------
(* Model-checking instances of EndpointIdentity. *)
EXTENDS EndpointIdentity, TLC

\* Endpoint ids are random; identities of a kind and calls are interchangeable.
Symmetry == Permutations(Endpoint) \cup Permutations(Session) \cup Permutations(User)
              \cup Permutations(Save) \cup Permutations(Touch)

\* Bound: four calls that go on; a fifth may only take its stamp.
FourCalls == clock <= 4
=============================================================================
