--------------------------- MODULE MCEventStream ---------------------------
(* A model-checking instance of EventStream: the streams have the endpoint   *)
(* and the client in common.                                                 *)
EXTENDS EventStream, TLC

Endpoints == [s \in Stream |-> CHOOSE e \in Endpoint : TRUE]
Keys == [s \in Stream |-> <<"endpoint", "client">>]
Limits == <<2, 1>>
=============================================================================
