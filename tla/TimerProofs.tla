----------------------------- MODULE TimerProofs -----------------------------
(* The ticking timer never fires early, never overtakes the clock, and misses *)
(* a due tick only across a wrap, for every counter width, every set of waits *)
(* and every gap between two polls.                                           *)
EXTENDS Timer, TLAPS

\* What next_tick_after computes from any previous tick and any legal wait
\* (Firmware.cpp:32-39).
LEMMA ScheduleLemma ==
    ASSUME NEW prev \in Time, NEW w \in 0 .. ULONG_MAX - 1
    PROVE  /\ NextTickAfter(prev, w).next \in Time
           /\ NextTickAfter(prev, w).rollover \in Time
           /\ \/ /\ NextTickAfter(prev, w).next = prev + w
                 /\ NextTickAfter(prev, w).rollover = ULONG_MAX
              \/ /\ ULONG_MAX - prev < w
                 /\ NextTickAfter(prev, w).next = w - (ULONG_MAX - prev)
                 /\ NextTickAfter(prev, w).rollover = prev
  BY ClockAssumption DEF NextTickAfter, Time

\* The history product of Lag, by the number of laps: the only fact about
\* multiplication the arguments below need.
LEMMA LagLemma ==
    ASSUME TypeOK
    PROVE  /\ laps = 0 => Lag = now - previous_tick
           /\ laps = 1 => Lag = ULONG_MAX + 1 + now - previous_tick
           /\ laps >= 1 => Lag >= ULONG_MAX + 1 + now - previous_tick
           /\ laps >= 2 => Lag > ULONG_MAX
           /\ Lag \in Int
<1> DEFINE M == ULONG_MAX + 1
<1>1. M \in Nat /\ M > ULONG_MAX
  BY ClockAssumption
<1>2. laps \in Nat /\ now \in Int /\ previous_tick \in Int
      /\ now - previous_tick >= -ULONG_MAX
  BY ClockAssumption DEF TypeOK, Time
<1>3. laps * M \in Int
  BY <1>1, <1>2
<1>4. laps >= 1 => laps * M >= M
  BY <1>1, <1>2
<1>5. laps >= 2 => laps * M >= 2 * M
  BY <1>1, <1>2
<1>6. (laps = 0 => laps * M = 0) /\ (laps = 1 => laps * M = M)
  BY <1>1, <1>2
<1>7. Lag = laps * M + (now - previous_tick)
  BY DEF Lag
<1> HIDE DEF M
<1>8. QED
  BY <1>1, <1>2, <1>3, <1>4, <1>5, <1>6, <1>7, ClockAssumption DEF M

\* The constructor leaves a consistent schedule (Firmware.h:54).
LEMMA InitInv == Init => IInv
<1> SUFFICES ASSUME Init PROVE IInv
  OBVIOUS
<1>1. now \in Time /\ previous_tick = now /\ 0 \in 0 .. ULONG_MAX - 1
  BY ClockAssumption DEF Init
<1>2. QED
  BY <1>1, ScheduleLemma, ClockAssumption DEF Init, IInv, TypeOK, ScheduleShape, Time

\* Every step keeps the schedule and the counter consistent.
LEMMA NextInv == IInv /\ [Next]_vars => IInv'
<1> SUFFICES ASSUME IInv, [Next]_vars PROVE IInv'
  OBVIOUS
<1> USE ClockAssumption DEF IInv, TypeOK, ScheduleShape, Time
<1>1. ASSUME NEW d \in 1 .. MaxGap, Advance(d) PROVE IInv'
  <2>1. d \in 1 .. ULONG_MAX
    BY GapAssumption
  <2>2. CASE ULONG_MAX - now < d
    BY <1>1, <2>1, <2>2 DEF Advance
  <2>3. CASE ~(ULONG_MAX - now < d)
    BY <1>1, <2>1, <2>3 DEF Advance
  <2>4. QED
    BY <2>2, <2>3
<1>2. ASSUME NEW speed \in Waits, Fire(speed) PROVE IInv'
  <2>1. speed \in 0 .. ULONG_MAX - 1
    BY WaitAssumption
  <2>2. /\ laps' \in Nat
        /\ laps' = 0 => now' >= previous_tick'
    BY <1>2 DEF Fire, Ready
  <2>3. QED
    BY <1>2, <2>1, <2>2, ScheduleLemma DEF Fire, Schedule
<1>3. CASE NotReady
  BY <1>3 DEF NotReady
<1>4. ASSUME NEW w \in Waits, Nudge(w) PROVE IInv'
  <2>1. w \in 0 .. ULONG_MAX - 1
    BY WaitAssumption
  <2>2. QED
    BY <1>4, <2>1, ScheduleLemma DEF Nudge, Schedule
<1>5. ASSUME NEW w \in Waits, ResetTick(w) PROVE IInv'
  <2>1. w \in 0 .. ULONG_MAX - 1
    BY WaitAssumption
  <2>2. QED
    BY <1>5, <2>1, ScheduleLemma DEF ResetTick, Schedule
<1>6. CASE UNCHANGED vars
  BY <1>6 DEF vars
<1>7. QED
  BY <1>1, <1>2, <1>3, <1>4, <1>5, <1>6 DEF Next

\* The invariant on which the three theorems rest.
LEMMA Invariance == Spec => []IInv
  BY InitInv, NextInv, PTL DEF Spec

\* The state of the timer keeps its type: next_tick and rollover never leave the
\* counter's range (Firmware.cpp:32-39 subtracts before it adds).
THEOREM TimerTypeCorrect == Spec => []TypeOK
<1>1. IInv => TypeOK
  BY DEF IInv
<1>2. QED
  BY <1>1, Invariance, PTL

\* ready_for_tick never answers true early (Firmware.cpp:43-52).
THEOREM TimerNeverEarly == Spec => []NeverEarly
<1>1. IInv => NeverEarly
  <2> SUFFICES ASSUME IInv, phase = "poll", Ready PROVE Lag >= wait
    BY DEF NeverEarly
  <2>1. TypeOK
    BY DEF IInv
  <2>2. CASE laps = 0
    BY <2>1, <2>2, LagLemma, ClockAssumption DEF IInv, ScheduleShape, TypeOK, Time, Ready
  <2>3. CASE laps = 1
    BY <2>1, <2>3, LagLemma, ClockAssumption DEF IInv, ScheduleShape, TypeOK, Time, Ready
  <2>4. CASE laps >= 2
    BY <2>1, <2>4, LagLemma, ClockAssumption DEF TypeOK
  <2>5. QED
    BY <2>1, <2>2, <2>3, <2>4 DEF TypeOK
<1>2. QED
  BY <1>1, Invariance, PTL

\* Catching up never carries previous_tick into the future (Firmware.cpp:45).
THEOREM TimerNeverAhead == Spec => []NeverAhead
<1>1. IInv => NeverAhead
  <2> SUFFICES ASSUME IInv PROVE Lag >= 0
    BY DEF NeverAhead
  <2>1. TypeOK
    BY DEF IInv
  <2>2. CASE laps = 0
    BY <2>1, <2>2, LagLemma DEF IInv, TypeOK, Time
  <2>3. CASE laps >= 1
    BY <2>1, <2>3, LagLemma, ClockAssumption DEF TypeOK, Time
  <2>4. QED
    BY <2>1, <2>2, <2>3 DEF TypeOK
<1>2. QED
  BY <1>1, Invariance, PTL

\* A due tick is missed only when the counter wrapped behind an unwrapped
\* schedule (Firmware.cpp:44).
THEOREM TimerMissOnlyAcrossWrap == Spec => []MissOnlyAcrossWrap
<1>1. IInv => MissOnlyAcrossWrap
  <2> SUFFICES ASSUME IInv, phase = "poll", Lag > wait, Lag <= ULONG_MAX, ~Ready
               PROVE  next_tick >= previous_tick /\ now < previous_tick
    BY DEF MissOnlyAcrossWrap
  <2>1. TypeOK
    BY DEF IInv
  <2>2. CASE laps = 0
    BY <2>1, <2>2, LagLemma, ClockAssumption DEF IInv, ScheduleShape, TypeOK, Time, Ready
  <2>3. CASE laps = 1
    BY <2>1, <2>3, LagLemma, ClockAssumption DEF IInv, ScheduleShape, TypeOK, Time, Ready
  <2>4. CASE laps >= 2
    BY <2>1, <2>4, LagLemma, ClockAssumption DEF TypeOK
  <2>5. QED
    BY <2>1, <2>2, <2>3, <2>4 DEF TypeOK
<1>2. QED
  BY <1>1, Invariance, PTL
=============================================================================
