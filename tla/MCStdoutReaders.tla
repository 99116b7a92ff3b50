-------------------------- MODULE MCStdoutReaders --------------------------
(* A small instance of StdoutReaders for TLC: see Stdout.cfg.  It checks   *)
(* liveness, where symmetry is not sound.                                  *)
EXTENDS StdoutReaders
=============================================================================
