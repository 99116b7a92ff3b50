---------------------------- MODULE MCShellInput ----------------------------
(* Small instances of ShellInput for TLC.                                  *)
EXTENDS ShellInput

CONSTANTS q1, q2, p1, p2

\* Of the ways to begin: no two that differ by names only; both peers in the
\* room for data and an EOF to a pipe of one of them; one worker only for a pipe
\* of the host, whose writes may hold it.
Few ==
  /\ owner # p2
  /\ kind[q1] = "eof" => kind[q2] = "eof"
  /\ owner # p1 /\ p2 \in joined => p1 \in joined
  /\ joined = Peer => owner = p1 /\ ~pty /\ kind[q1] # kind[q2]
  /\ workers = 1 => owner = Host /\ ~pty
=============================================================================
