---------------------------- MODULE MCCliForward ----------------------------
(* Model-checking instances of CliForward. *)
EXTENDS CliForward

\* Bound for the larger instance: a forwarder that catches up and runs on, and
\* an endpoint that stays.
RunsOn == options.catchup /\ ~aborted /\ ~deleted
=============================================================================
