----------------------------- MODULE LogWindow -----------------------------
(***************************************************************************)
(* The arithmetic of log windows (src/log_window.rs, LineIndex::window):   *)
(* which records of a log of `total' records answer a request.  Records    *)
(* are numbered from 0, and a window [start, end) leaves end out.          *)
(*                                                                         *)
(* The response has a budget in bytes.  How many records it has room for   *)
(* depends on their texts, so it is an argument here: fit >= 1, because a  *)
(* request whose first record does not fit is refused.                     *)
(***************************************************************************)
EXTENDS Naturals

WindowAction == {"tail", "older", "newer", "current"}

Least(a, b) == IF a < b THEN a ELSE b

\* Where a window is anchored: it ends there or begins there.
Boundary(action, current, total) ==
  IF action = "tail" THEN total ELSE Least(current, total)

\* How many records are asked for.
Length(action, count, shift) ==
  IF action \in {"older", "newer"} THEN Least(count, shift) ELSE count

Backward(action) == action \in {"tail", "older"}

Window(action, current, count, shift, total, fit) ==
  LET boundary == Boundary(action, current, total)
      wanted   == Least(Length(action, count, shift), fit) IN
  IF Backward(action)
  THEN [start |-> boundary - Least(wanted, boundary), end |-> boundary]
  ELSE [start |-> boundary, end |-> boundary + Least(wanted, total - boundary)]
=============================================================================
