--------------------------- MODULE MCLogDashboard ---------------------------
(* Small instances of LogDashboard for TLC.                                *)
EXTENDS LogDashboard

\* Bound: at most two of what the reader does, of the failures and of the
\* truncations; the longest logs with one of them, or two of the reader's.
Few ==
  LET events == acts + fails + generation IN
  /\ events <= 2
  /\ acts < 2 /\ events = 2 => log.complete + held.complete < MaxRecords
=============================================================================
