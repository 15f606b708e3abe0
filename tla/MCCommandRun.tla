---------------------------- MODULE MCCommandRun ----------------------------
(* Instances of CommandRun: up to three chunks around a cap of two, so that    *)
(* the cap is met exactly, exceeded by the last chunk and exceeded before it.  *)
EXTENDS CommandRun

BothApis == {"client", "shell"}

=============================================================================
