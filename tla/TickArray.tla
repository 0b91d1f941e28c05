------------------------------ MODULE TickArray ------------------------------
(***************************************************************************)
(* mysook::TickArray (device/lib/Firmware/Firmware.h), loop by loop: the   *)
(* growing array of ticker pointers, its add() with stretch(), its         *)
(* remove() and its run().                                                 *)
(*                                                                         *)
(* In remove() the loop body subtracts one from ticker_count on every turn, *)
(* and the shift it means to do is written on the parameter ("ticker"), not *)
(* on the array ("tickers"): it assigns objects that have no data and moves *)
(* nothing.                                                                *)
(***************************************************************************)
EXTENDS Integers, Sequences

CONSTANTS
    Tickers,
    Uninit,     \* what a slot of new TickerPtr[n] holds before it is written
    Capacity,   \* the constructor's capacity
    By,         \* the stretch() step
    MaxCount    \* bound on ticker_count

ASSUME UninitAssumption   == Uninit \notin Tickers
ASSUME CapacityAssumption == Capacity \in Nat /\ By \in Nat \ {0} /\ MaxCount \in Nat

VARIABLES
    tickers,            \* a zero-based array
    ticker_count,
    ticker_capacity,
    new_tickers,        \* stretch()'s new array
    arg,                \* the parameter of the call in progress
    searching,          \* of remove()
    i,                  \* the loop variable of the call in progress
    pc                  \* the call in progress: "idle", "stretch", "remove" or "run"

vars == <<tickers, ticker_count, ticker_capacity, new_tickers, arg, searching, i, pc>>

Slot == Tickers \cup {Uninit}
NewArray(n) == [k \in 0 .. n - 1 |-> Uninit]

Init ==
    /\ tickers = NewArray(Capacity)
    /\ ticker_count = 0
    /\ ticker_capacity = Capacity
    /\ new_tickers = <<>>
    /\ arg = Uninit
    /\ searching = FALSE
    /\ i = 0
    /\ pc = "idle"

\* (wrong: off by one)
FullPastTheEnd == ticker_count > ticker_capacity

Full == ticker_count >= ticker_capacity

\* tickers[ticker_count++] = ticker, in the array the pointer now refers to
Store(array, t) ==
    /\ tickers' = [array EXCEPT ![ticker_count] = t]
    /\ ticker_count' = ticker_count + 1

Add(t) ==
    /\ pc = "idle"
    /\ ~Full
    /\ Store(tickers, t)
    /\ UNCHANGED <<ticker_capacity, new_tickers, arg, searching, i, pc>>

\* add() on a full array: stretch() copies the array into a larger one first.
AddFull(t) ==
    /\ pc = "idle"
    /\ Full
    /\ ticker_capacity' = ticker_capacity + By
    /\ new_tickers' = NewArray(ticker_capacity + By)
    /\ arg' = t
    /\ i' = 0
    /\ pc' = "stretch"
    /\ UNCHANGED <<tickers, ticker_count, searching>>

\* (wrong: the index of the source is forgotten)
StretchCopyFirst ==
    /\ pc = "stretch"
    /\ i < ticker_count
    /\ new_tickers' = [new_tickers EXCEPT ![i] = tickers[0]]
    /\ i' = i + 1
    /\ UNCHANGED <<tickers, ticker_count, ticker_capacity, arg, searching, pc>>

StretchCopy ==
    /\ pc = "stretch"
    /\ i < ticker_count
    /\ new_tickers' = [new_tickers EXCEPT ![i] = tickers[i]]
    /\ i' = i + 1
    /\ UNCHANGED <<tickers, ticker_count, ticker_capacity, arg, searching, pc>>

\* (wrong: the last entry is not copied)
StretchDoneEarly ==
    /\ pc = "stretch"
    /\ ~(i < ticker_count - 1)
    /\ Store(new_tickers, arg)
    /\ new_tickers' = <<>>
    /\ arg' = Uninit
    /\ i' = 0
    /\ pc' = "idle"
    /\ UNCHANGED <<ticker_capacity, searching>>

StretchDone ==
    /\ pc = "stretch"
    /\ ~(i < ticker_count)
    /\ Store(new_tickers, arg)
    /\ new_tickers' = <<>>
    /\ arg' = Uninit
    /\ i' = 0
    /\ pc' = "idle"
    /\ UNCHANGED <<ticker_capacity, searching>>

Remove(t) ==
    /\ pc = "idle"
    /\ arg' = t
    /\ searching' = TRUE
    /\ i' = 0
    /\ pc' = "remove"
    /\ UNCHANGED <<tickers, ticker_count, ticker_capacity, new_tickers>>

RemoveStep ==
    /\ pc = "remove"
    /\ i < ticker_count
    /\ searching' = (searching /\ tickers[i] # arg)
    /\ ticker_count' = ticker_count - 1
    /\ i' = i + 1
    /\ UNCHANGED <<tickers, ticker_capacity, new_tickers, arg, pc>>

RemoveDone ==
    /\ pc = "remove"
    /\ ~(i < ticker_count)
    /\ arg' = Uninit
    /\ searching' = FALSE
    /\ i' = 0
    /\ pc' = "idle"
    /\ UNCHANGED <<tickers, ticker_count, ticker_capacity, new_tickers>>

Run ==
    /\ pc = "idle"
    /\ i' = 0
    /\ pc' = "run"
    /\ UNCHANGED <<tickers, ticker_count, ticker_capacity, new_tickers, arg, searching>>

\* tickers[i]->ready_for_tick(now) and perhaps its tick()
RunPoll(t) ==
    /\ pc = "run"
    /\ i < ticker_count
    /\ t = tickers[i]
    /\ i' = i + 1
    /\ UNCHANGED <<tickers, ticker_count, ticker_capacity, new_tickers, arg, searching, pc>>

RunDone ==
    /\ pc = "run"
    /\ ~(i < ticker_count)
    /\ i' = 0
    /\ pc' = "idle"
    /\ UNCHANGED <<tickers, ticker_count, ticker_capacity, new_tickers, arg, searching>>

Next ==
    \/ \E t \in Tickers : ticker_count < MaxCount /\ (Add(t) \/ AddFull(t))
    \/ StretchCopy
    \/ StretchDone
    \/ \E t \in Tickers : Remove(t)
    \/ RemoveStep
    \/ RemoveDone
    \/ Run
    \/ \E t \in Slot : RunPoll(t)
    \/ RunDone

Spec == Init /\ [][Next]_vars

-----------------------------------------------------------------------------
(* Properties *)

\* The slots the array has: while stretch() copies, the pointer still refers to
\* the old array although ticker_capacity is already the new one.
Size == IF pc = "stretch" THEN ticker_capacity - By ELSE ticker_capacity

TypeOK ==
    /\ ticker_capacity \in Nat
    /\ Size \in Nat
    /\ ticker_count \in 0 .. Size
    /\ tickers \in [0 .. Size - 1 -> Slot]
    /\ new_tickers \in IF pc = "stretch" THEN [0 .. ticker_capacity - 1 -> Slot] ELSE {<<>>}
    /\ arg \in Slot
    /\ searching \in BOOLEAN
    /\ i \in Nat
    /\ pc \in {"idle", "stretch", "remove", "run"}

\* The entries of the list: until remove() returns, those it started with.
Count == IF pc = "remove" THEN ticker_count + i ELSE ticker_count
Live == [k \in 1 .. Count |-> tickers[k - 1]]

\* The loops stay inside the array, the copy is a copy, and no entry of the list
\* is a slot that nobody wrote.
LoopInv ==
    /\ Count <= Size
    /\ \A k \in 0 .. Count - 1 : tickers[k] \in Tickers
    /\ pc \in {"stretch", "run"} => i <= ticker_count
    /\ pc = "stretch" => /\ arg \in Tickers
                         /\ \A k \in 0 .. i - 1 : new_tickers[k] = tickers[k]
    /\ pc = "remove" => arg \in Tickers /\ i <= ticker_count + 1

IInv == TypeOK /\ LoopInv

\* The array as a list: one that loses its second half on every remove().
Abs == INSTANCE TickerList
       WITH list <- Live, turn <- IF pc = "run" THEN i + 1 ELSE 0

\* Whatever order add(), remove() and run() are called in, the array is the list of
\* TickerList: stretching loses, duplicates and reorders nothing, a pass polls
\* exactly the entries in order, and remove() keeps the first half (Firmware.h:77-127).
Implements == Abs!Spec
=============================================================================
