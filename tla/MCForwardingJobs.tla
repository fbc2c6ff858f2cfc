-------------------------- MODULE MCForwardingJobs --------------------------
(* Model-checking instances of ForwardingJobs. *)
EXTENDS ForwardingJobs
=============================================================================
