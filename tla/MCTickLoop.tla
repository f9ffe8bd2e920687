----------------------------- MODULE MCTickLoop -----------------------------
(* Module TickLoop with the timeline of TLC's small instance. *)
EXTENDS TickLoop, TLC

CONSTANTS e1, e2, e3

\* Foreground events in the second tick and at the very start of the fourth, and a
\* background one at the start of the last.
SlowTimeline == e1 :> 13 @@ e2 :> 24 @@ e3 :> 30
=============================================================================
