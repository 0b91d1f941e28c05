-------------------------------- MODULE Timer --------------------------------
(***************************************************************************)
(* mysook::TickingVariableTimer (device/lib/Firmware): the rate limiter    *)
(* under every firmware main tick, VM, flipper, LED and animation.  The    *)
(* loop of Firmware::loop reads the wrapping microsecond counter once a    *)
(* pass and offers it to ready_for_tick; the timer keeps the schedule of   *)
(* its next tick in three unsigned longs.                                  *)
(*                                                                         *)
(* `laps` and `wait` are history variables, absent from the code: how many *)
(* times the counter has wrapped since it read previous_tick, and the wait *)
(* the present schedule was computed from.                                 *)
(***************************************************************************)
EXTENDS Integers

CONSTANTS
    ULONG_MAX,  \* largest value of the microsecond counter
    Waits,      \* the waits the timers of the firmware ask for
    MaxGap,     \* longest time between two passes of the loop
    MaxLaps     \* bound on the history variable laps

ASSUME ClockAssumption == ULONG_MAX \in Nat \ {0}
ASSUME WaitAssumption  == Waits \subseteq 0 .. ULONG_MAX - 1
ASSUME GapAssumption   == MaxGap \in 1 .. ULONG_MAX
ASSUME LapsAssumption  == MaxLaps \in Nat

VARIABLES
    now,            \* what get_micros() returns
    previous_tick,
    next_tick,
    rollover,
    phase,          \* "body": between polls, "poll": ready_for_tick is next
    laps,
    wait

vars == <<now, previous_tick, next_tick, rollover, phase, laps, wait>>

Time == 0 .. ULONG_MAX

\* (wrong: a schedule that wraps is left open ended)
NextTickAfterOpenEnded(prev, w) ==
    [next |-> IF ULONG_MAX - prev < w THEN w - (ULONG_MAX - prev) ELSE prev + w,
     rollover |-> ULONG_MAX]

\* next_tick_after(w) with previous_tick = prev: the pair next_tick, rollover.
\* When prev + w passes ULONG_MAX the code subtracts ULONG_MAX, not 2^32, and
\* remembers prev as the end of the interval in which the tick is due.
NextTickAfter(prev, w) ==
    IF ULONG_MAX - prev < w
    THEN [next |-> w - (ULONG_MAX - prev), rollover |-> prev]
    ELSE [next |-> prev + w, rollover |-> ULONG_MAX]

Schedule(prev, w) ==
    /\ next_tick' = NextTickAfter(prev, w).next
    /\ rollover'  = NextTickAfter(prev, w).rollover
    /\ wait'      = w

\* (wrong: the test does not look at rollover)
ReadyOnceReached == now >= next_tick

\* (wrong: TickingTimer's strict comparison)
ReadyStrictly == now > next_tick /\ now <= rollover

\* The test of ready_for_tick.
Ready == now >= next_tick /\ now <= rollover

\* True microseconds since previous_tick.
Lag == laps * (ULONG_MAX + 1) + (now - previous_tick)

\* The constructor: both ticks are the present time, and nudge_tick() runs with
\* the base class's tick_speed(), 0, because the object is not yet the derived one.
Init ==
    /\ now \in Time
    /\ previous_tick = now
    /\ next_tick = NextTickAfter(now, 0).next
    /\ rollover  = NextTickAfter(now, 0).rollover
    /\ phase = "body"
    /\ laps = 0
    /\ wait = 0

\* The rest of the loop takes between 1 and MaxGap microseconds, then
\* get_micros() is read; the counter wraps.
Advance(d) ==
    /\ phase = "body"
    /\ IF ULONG_MAX - now < d
       THEN laps < MaxLaps /\ now' = d - (ULONG_MAX - now) - 1 /\ laps' = laps + 1
       ELSE now' = now + d /\ UNCHANGED laps
    /\ phase' = "poll"
    /\ UNCHANGED <<previous_tick, next_tick, rollover, wait>>

\* ready_for_tick(now) returns true: the timer moves to the scheduled time (not
\* to now) and schedules the next tick from tick_speed().
Fire(speed) ==
    /\ phase = "poll"
    /\ Ready
    /\ previous_tick' = next_tick
    /\ Schedule(next_tick, speed)
    /\ laps' = IF next_tick < previous_tick THEN laps - 1 ELSE laps
    /\ phase' = "body"
    /\ UNCHANGED now

\* ready_for_tick(now) returns false.
NotReady ==
    /\ phase = "poll"
    /\ ~Ready
    /\ phase' = "body"
    /\ UNCHANGED <<now, previous_tick, next_tick, rollover, laps, wait>>

\* nudge_tick() after a change of speed (VM urgency, BlinkyLED, Animator), or
\* next_tick_after(w) itself (Animator::tick, TClockConfig::ping): the tick is
\* rescheduled from the same previous_tick.
Nudge(w) ==
    /\ phase = "body"
    /\ Schedule(previous_tick, w)
    /\ UNCHANGED <<now, previous_tick, phase, laps>>

\* reset_tick(): start over from the present time.
ResetTick(w) ==
    /\ phase = "body"
    /\ previous_tick' = now
    /\ Schedule(now, w)
    /\ laps' = 0
    /\ UNCHANGED <<now, phase>>

Next ==
    \/ \E d \in 1 .. MaxGap : Advance(d)
    \/ \E speed \in Waits : Fire(speed)
    \/ NotReady
    \/ \E w \in Waits : Nudge(w)
    \/ \E w \in Waits : ResetTick(w)

Spec == Init /\ [][Next]_vars

-----------------------------------------------------------------------------
(* Properties *)

TypeOK ==
    /\ {now, previous_tick, next_tick, rollover} \subseteq Time
    /\ phase \in {"body", "poll"}
    /\ laps \in Nat
    /\ wait \in 0 .. ULONG_MAX - 1

\* A poll that answers true is never early: at least `wait` microseconds have
\* really passed since the previous scheduled tick, wherever the counter wrapped
\* in between (Firmware.cpp ready_for_tick).
NeverEarly == phase = "poll" /\ Ready => Lag >= wait

\* The timer's own past never overtakes the clock: however often it fires, is
\* nudged or falls behind and catches up, previous_tick is not in the future, so
\* over any stretch of time it ticks no more often than its speeds allow
\* (Firmware.cpp:45 steps previous_tick to the scheduled time, not to now).
NeverAhead == Lag >= 0

\* A due tick is missed in one way only: the schedule did not wrap, the counter
\* did, and no poll fell between next_tick and the wrap.  Everywhere else a poll
\* that finds more than `wait` microseconds passed answers true, as long as it comes within
\* one round of the counter (Lag <= ULONG_MAX): a loop held up for longer reads a counter
\* that has forgotten how long.
MissOnlyAcrossWrap ==
    phase = "poll" /\ Lag > wait /\ Lag <= ULONG_MAX /\ ~Ready
        => next_tick >= previous_tick /\ now < previous_tick

\* The schedule is always one of two: unwrapped, previous_tick + wait and open
\* ended; or wrapped, one microsecond late and closed at previous_tick.
ScheduleShape ==
    \/ next_tick = previous_tick + wait /\ rollover = ULONG_MAX
    \/ /\ ULONG_MAX - previous_tick < wait
       /\ next_tick = wait - (ULONG_MAX - previous_tick)
       /\ rollover = previous_tick

\* The inductive invariant: between two polls at least a microsecond passes.
IInv ==
    /\ TypeOK
    /\ ScheduleShape
    /\ laps = 0 => now >= previous_tick
    /\ phase = "poll" /\ laps = 0 => now > previous_tick

\* The comment at Firmware.cpp:41: ready_for_tick "checks if tick_speed() micros
\* have passed, accounting for rollovers".  One microsecond of slack is allowed
\* for the subtraction of ULONG_MAX in next_tick_after.
AccountsForRollover == phase = "poll" /\ Lag > wait => Ready
=============================================================================
