------------------------------- MODULE MCTimer -------------------------------
(* A 4-bit counter, so that every alignment of a schedule, a rollover and a   *)
(* poll happens; MaxLaps lets the counter wrap behind a stalled timer.   *)
EXTENDS Timer

MCWaits == {0, 3, 7}
=============================================================================
