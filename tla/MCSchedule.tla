----------------------------- MODULE MCSchedule -----------------------------
(***************************************************************************)
(* Instance of Schedule for TLC.                                           *)
(***************************************************************************)
EXTENDS Schedule

\* A quarter of an hour, besides all that is left of a sleep.
MCSteps == {900}

\* A clock never set, one a quarter to the end of a Friday afternoon, one on a
\* Sunday evening and one that is five minutes before the end of a day.
MCClocks == {0, Day + 16 * Hour - 900, 3 * Day + 20 * Hour, 2 * Day - 300}
=============================================================================
