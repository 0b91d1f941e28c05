------------------------------ MODULE TickerList ------------------------------
(***************************************************************************)
(* What mysook::TickArray (device/lib/Firmware/Firmware.h) gives to the    *)
(* firmware that keeps its pre- and post-tickers in it: a list that grows  *)
(* at the end, a pass that polls every entry in order, and a remove() that *)
(* keeps the first half of the list, whatever ticker it is given.  TickArray *)
(* implements it; Hatsign is built on it.                                  *)
(***************************************************************************)
EXTENDS Integers, Sequences

CONSTANT Tickers

VARIABLES
    list,
    turn    \* the position run() polls next; 0 when no pass is going on

Init == list = <<>> /\ turn = 0

Add(t) == turn = 0 /\ list' = Append(list, t) /\ UNCHANGED turn

\* The first half of the list, rounded down.
FirstHalf(s) == [k \in 1 .. Len(s) \div 2 |-> s[k]]

Remove(t) == turn = 0 /\ list' = FirstHalf(list) /\ UNCHANGED turn

StartRun == turn = 0 /\ turn' = 1 /\ UNCHANGED list

Poll(t) ==
    /\ turn \in 1 .. Len(list)
    /\ t = list[turn]
    /\ turn' = turn + 1
    /\ UNCHANGED list

EndRun == turn > Len(list) /\ turn' = 0 /\ UNCHANGED list

Next ==
    \/ \E t \in Tickers : Add(t) \/ Remove(t) \/ Poll(t)
    \/ StartRun
    \/ EndRun

Spec == Init /\ [][Next]_<<list, turn>>
=============================================================================
