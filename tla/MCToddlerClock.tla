--------------------------- MODULE MCToddlerClock ---------------------------
(* A day of three hours of four minutes, and alarms at midnight, on the hour *)
(* and within one.                                                           *)
EXTENDS ToddlerClock, TLC

CONSTANTS u1, u2

At(h, m) == [h |-> h, m |-> m]
MCFields == {"morning_time", "sleeping_time"}
MCValues == {At(0, 0), At(1, 0), At(2, 3)}
MCDefault == [morning_time |-> At(1, 0), sleeping_time |-> At(2, 3)]
MCBodies == {[morning_time |-> At(0, 0)], [morning_time |-> At(1, 0), sleeping_time |-> At(0, 0)]}
MCLength == [a \in Alarms |-> IF a["sleeping_time"] = At(0, 0) THEN 1 ELSE 2]
=============================================================================
