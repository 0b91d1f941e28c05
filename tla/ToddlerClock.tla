----------------------------- MODULE ToddlerClock -----------------------------
(***************************************************************************)
(* The toddler clock (device/tclock): it shows by colour whether it is     *)
(* night or day, sets its clock and its alarm from its service every ten   *)
(* seconds, and fetches the alarm at once after a packet from outside.     *)
(*                                                                         *)
(* A pass of Firmware::loop polls UDP, then runs the configuration ticker, *)
(* then draws.  A fetch blocks the pass, and in the meantime the service   *)
(* stores alarms, the network comes and goes and the watchdog may bite.    *)
(* What the real time clock shows matters to the fetches only in whether   *)
(* it is the service's time; Phase is a function of it.                    *)
(***************************************************************************)
EXTENDS AlarmFile, ZoneFile, Integers, FiniteSets

CONSTANTS
    Hours, Minutes, \* in a day, in an hour
    MaxRequests     \* bound on the stores under way at once, of either file

ASSUME DayAssumption == Hours \in Nat \ {0, 1} /\ Minutes \in Nat \ {0, 1}

Times == [h : 0 .. Hours - 1, m : 0 .. Minutes - 1]

ASSUME FieldsAssumption == Fields = {"morning_time", "sleeping_time"} /\ Values \subseteq Times

VARIABLES
    pc,         \* the next step of the pass
    due,        \* have the ten seconds of the configuration ticker passed
    pinged,     \* TClockConfig::pinged
    connected,  \* Network::connected()
    config,     \* the alarm, on the device
    right       \* is the real time clock set to what the service says

deviceVars == <<pc, due, pinged, connected, config, right>>
serviceVars == <<fileVars, zoneVars>>
vars == <<serviceVars, deviceVars>>

-----------------------------------------------------------------------------
(* What the clock shows *)

BeforeTime(check, against) ==
    check.h < against.h \/ (check.h = against.h /\ check.m < against.m)

\* (wrong: a minute before the full hour is still in that hour)
TransitionStartNoBorrow(t) ==
    [h |-> t.h, m |-> IF t.m = 0 THEN Minutes - 1 ELSE t.m - 1]

\* A minute before, of the same day: a minute before midnight is the last of that day.
TransitionStart(t) ==
    [h |-> IF t.m > 0 THEN t.h ELSE IF t.h > 0 THEN t.h - 1 ELSE Hours - 1,
     m |-> IF t.m > 0 THEN t.m - 1 ELSE Minutes - 1]

BeforeTransitionTime(check, against) == BeforeTime(check, TransitionStart(against))

Phase(now, a) ==
    CASE BeforeTransitionTime(now, a["morning_time"])  -> "night"
      [] OTHER ->
    CASE BeforeTime(now, a["morning_time"])            -> "becoming day"
      [] OTHER ->
    CASE BeforeTransitionTime(now, a["sleeping_time"]) -> "day"
      [] OTHER ->
    CASE BeforeTime(now, a["sleeping_time"])           -> "becoming night"
      [] OTHER                                         -> "night"

IsDaytime(now, a) ==
    ~BeforeTime(now, a["morning_time"]) /\ BeforeTransitionTime(now, a["sleeping_time"])

-----------------------------------------------------------------------------
(* The pass *)

DeviceInit ==
    /\ pc = "udp"
    /\ due = TRUE
    /\ pinged = FALSE
    /\ connected = FALSE
    /\ config = Default
    /\ right = FALSE

Udp ==
    /\ pc = "udp"
    /\ pc' = "config"
    /\ UNCHANGED <<due, pinged, connected, config, right>>

\* go_crazy: a packet of 21 bytes, by day.
Zostayify ==
    /\ \E now \in Times : IsDaytime(now, config)
    /\ connected
    /\ Udp

\* next_tick_after(0) counts from the tick before and so is over already.
Ping ==
    /\ pc = "udp"
    /\ connected
    /\ pinged' = TRUE
    /\ due' = TRUE
    /\ pc' = "config"
    /\ UNCHANGED <<connected, config, right>>

\* (wrong: the time is fetched after a packet only)
ConfigTickOnPing ==
    /\ pc = "config"
    /\ IF connected /\ due
       THEN /\ pc' = IF pinged THEN "time" ELSE "alarm"
            /\ due' \in BOOLEAN
       ELSE /\ pc' = "draw"
            /\ UNCHANGED due
    /\ UNCHANGED <<pinged, connected, config, right>>

\* (wrong: the flag is not looked at)
ConfigTickAlways ==
    /\ pc = "config"
    /\ IF connected /\ due
       THEN /\ pc' = "time"
            /\ due' \in BOOLEAN
       ELSE /\ pc' = "draw"
            /\ UNCHANGED due
    /\ UNCHANGED <<pinged, connected, config, right>>

\* A ticker that was kept waiting may have its next turn at once.
ConfigTick ==
    /\ pc = "config"
    /\ IF connected /\ due
       THEN /\ pc' = IF pinged THEN "alarm" ELSE "time"
            /\ due' \in BOOLEAN
       ELSE /\ pc' = "draw"
            /\ UNCHANGED due
    /\ UNCHANGED <<pinged, connected, config, right>>

\* The service looks the offset up for every GET of the time.
FetchTime ==
    /\ pc = "time"
    /\ connected
    /\ ZoneReadable
    /\ right' = TRUE
    /\ pc' = "alarm"
    /\ UNCHANGED <<due, pinged, connected, config>>

\* (wrong: only the first alarm is taken)
FetchAlarmOnce ==
    /\ pc = "alarm"
    /\ connected
    /\ Readable
    /\ config' = IF config = Default THEN Content ELSE config
    /\ pc' = "draw"
    /\ UNCHANGED <<due, pinged, connected, right>>

FetchAlarm ==
    /\ pc = "alarm"
    /\ connected
    /\ Readable
    /\ config' = Content
    /\ pc' = "draw"
    /\ UNCHANGED <<due, pinged, connected, right>>

\* No answer, a status that is not 200, JSON that does not parse: all stays as it was.
FetchFails ==
    /\ \/ pc = "time"  /\ pc' = "alarm"
       \/ pc = "alarm" /\ pc' = "draw"
    /\ UNCHANGED <<due, pinged, connected, config, right>>

Draw ==
    /\ pc = "draw"
    /\ pc' = "udp"
    /\ UNCHANGED <<due, pinged, connected, config, right>>

Pass == Udp \/ Zostayify \/ Ping \/ ConfigTick \/ FetchTime \/ FetchAlarm \/ FetchFails \/ Draw

-----------------------------------------------------------------------------
(* Meanwhile *)

Elapse ==
    /\ ~due
    /\ due' = TRUE
    /\ UNCHANGED <<pc, pinged, connected, config, right>>

WiFiChanges ==
    /\ connected' = ~connected
    /\ UNCHANGED <<pc, due, pinged, config, right>>

\* The chip loses time, or the service's clock is set, to summer time for one.
Drift ==
    /\ right
    /\ right' = FALSE
    /\ UNCHANGED <<pc, due, pinged, connected, config>>

\* The watchdog, or the power.  One of the two chips keeps the time, the other starts again.
Reboot ==
    /\ right' \in {right, FALSE}
    /\ pc' = "udp" /\ due' = TRUE /\ pinged' = FALSE /\ connected' = FALSE
    /\ config' = Default

DeviceNext == Pass \/ Elapse \/ WiFiChanges \/ Drift \/ Reboot

Stores == Cardinality(UnderWay) + fetched + opened

\* Both files belong to one service.
Service ==
    /\ \/ FileNext /\ UNCHANGED zoneVars
       \/ ZoneNext /\ UNCHANGED fileVars
       \/ Die /\ ZoneDie
    /\ Stores' <= MaxRequests

Init == FileInit /\ ZoneInit /\ DeviceInit

Next ==
    \/ DeviceNext /\ UNCHANGED serviceVars
    \/ Service /\ UNCHANGED deviceVars

Spec == Init /\ [][Next]_vars

\* The loop goes on, time passes, and what is asked again and again, by a clock that is
\* connected and of a file that can be read, is answered some time.
FairSpec ==
    /\ Spec
    /\ WF_vars(Pass /\ UNCHANGED serviceVars)
    /\ WF_vars(Elapse /\ UNCHANGED serviceVars)
    /\ SF_vars(FetchTime /\ UNCHANGED serviceVars)
    /\ SF_vars(FetchAlarm /\ UNCHANGED serviceVars)

-----------------------------------------------------------------------------
(* Properties *)

TypeOK ==
    /\ FileTypeOK
    /\ ZoneTypeOK
    /\ pc \in {"udp", "config", "time", "alarm", "draw"}
    /\ due \in BOOLEAN /\ pinged \in BOOLEAN /\ connected \in BOOLEAN /\ right \in BOOLEAN
    /\ config \in Alarms

MinuteOf(t) == t.h * Minutes + t.m

\* Whatever alarm the service sends, the clock shows dawn for the minute before the morning
\* time, day from then on, dusk for the minute before the sleeping time and night else, and
\* takes it for daytime when it shows day.  An alarm at midnight is the exception: a morning
\* at midnight has no day, a bedtime at midnight comes a minute early and without dusk.
PhaseRight ==
    LET morning == MinuteOf(config["morning_time"])
        bedtime == IF MinuteOf(config["sleeping_time"]) = 0
                   THEN Hours * Minutes ELSE MinuteOf(config["sleeping_time"])
    IN  \A now \in Times :
          LET minute == MinuteOf(now)
              phase  == Phase(now, config)
          IN  IF morning = 0
              THEN phase = "night"
              ELSE /\ phase = "becoming day" <=> minute = morning - 1
                   /\ phase = "day" <=> minute \in morning .. bedtime - 2
                   /\ phase = "becoming night" <=>
                         minute = bedtime - 1 /\ minute >= morning /\ bedtime < Hours * Minutes
                   /\ IsDaytime(now, config) <=> phase = "day"

\* A file that nobody is about to write and that cannot be read stays so: no request gets
\* as far as to repair it.  The clock then keeps the alarm it has until it restarts, and has
\* that it was built with from then on; without the time zone it is never set right again.
Broken == ~Readable /\ UnderWay = {}
ZoneBroken == ~ZoneReadable /\ fetched + opened = 0

Bricked ==
    [][ /\ Broken => /\ Broken'
                     /\ config' = config \/ Reboot
        /\ ZoneBroken => ZoneBroken' /\ (right' => right) ]_vars

\* An alarm that stays stored reaches a clock that stays connected, and stays there.
AlarmArrives ==
    \A a \in Alarms : <>[](connected /\ Readable /\ Content = a) => <>[](config = a)

\* A clock that stays connected to a service that can read its time zone is set right
\* again, unless a packet has reached it.
TimeArrives == <>[](connected /\ ZoneReadable) => [](~right => <>(right \/ pinged))

\* ping() is to fetch at once what is fetched every ten seconds, but nothing clears its flag:
\* from the packet until the clock restarts, whatever it fetches meanwhile, a clock that is
\* wrong, or goes wrong, stays so.
PingLosesTime ==
    [][pinged => (pinged' \/ Reboot) /\ (right' => right)]_vars
=============================================================================
