------------------------- MODULE MCPeerOutputRelay -------------------------
(* Small instances of PeerOutputRelay for TLC.  Relays are interchangeable,*)
(* but both instances check liveness, where symmetry is not sound.         *)
EXTENDS PeerOutputRelay
=============================================================================
