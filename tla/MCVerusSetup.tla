----------------------------- MODULE MCVerusSetup -----------------------------
(* Instances of VerusSetup for TLC. *)
EXTENDS VerusSetup

\* Every consumer has the same setup configuration.
SameConfig == [p \in Procs |-> "same"]
==============================================================================
