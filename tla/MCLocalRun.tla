----------------------------- MODULE MCLocalRun -----------------------------
(* LocalRun on small instances. *)
EXTENDS LocalRun

MCExitCode == {0, 124, -9}
=============================================================================
