---------------------------- MODULE MCDetection ----------------------------
(***************************************************************************)
(* Instance of Detection for TLC.                                          *)
(***************************************************************************)
EXTENDS Detection

\* A gap that is a crossing in the active period only, and one that always is;
\* their sums leave different rests of a second.
MCSteps == {700, 1300}

\* Peers whose clock is so far behind that theirs comes before the last event,
\* and ahead.
MCErrors == {-1700, 500}
=============================================================================
