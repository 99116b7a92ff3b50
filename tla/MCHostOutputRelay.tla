------------------------- MODULE MCHostOutputRelay -------------------------
(* A small instance of HostOutputRelay for TLC: see HostRelay.cfg.         *)
EXTENDS HostOutputRelay, TLC

\* Relays, handlers and browsers are interchangeable; the run checks no
\* liveness property.
Symmetry == Permutations(Relay) \cup Permutations(Ensurer) \cup Permutations(Browser)

\* The fourth request comes when only one browser looks at logs.
Bound ==
  requests = MaxRequests =>
    \E b \in here : /\ viewing[b] = None /\ rooms[b] = {}
                    /\ \A e \in Ensurer : job[e].who # b
=============================================================================
