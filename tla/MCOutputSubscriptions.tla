----------------------- MODULE MCOutputSubscriptions -----------------------
(* A small instance of OutputSubscriptions for TLC.  Subscribers and       *)
(* streams are interchangeable, but the instance checks liveness, where    *)
(* symmetry is not sound.                                                  *)
EXTENDS OutputSubscriptions
=============================================================================
