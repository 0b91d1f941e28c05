------------------------- MODULE ToddlerClockProofs -------------------------
(* What holds of the toddler clock and its alarm file for every set of       *)
(* requests, bodies and alarms, and for a day of any length.                 *)
EXTENDS ToddlerClock, TLAPS

-----------------------------------------------------------------------------
(* The file *)

\* What a PUT writes is a whole alarm again.
LEMMA MergedType ==
    ASSUME NEW a \in Alarms, NEW b \in PartialAlarms
    PROVE  Merged(a, b) \in Alarms
<1>1. PICK F \in SUBSET Fields : b \in [F -> Values]  BY DEF PartialAlarms
<1>2. \A f \in Fields : (IF f \in DOMAIN b THEN b[f] ELSE a[f]) \in Values  BY <1>1 DEF Alarms
<1> QED  BY <1>2 DEF Merged, Alarms

LEMMA DefaultIsBody == Default \in Alarms /\ Default \in PartialAlarms
  BY DefaultAssumption DEF PartialAlarms, Alarms

LEMMA ContentType == ASSUME FileTypeOK, Readable PROVE Content \in Alarms
  BY DefaultIsBody DEF FileTypeOK, Readable, Content

LEMMA FileInitTypeOK == FileInit => FileTypeOK
<1> SUFFICES ASSUME FileInit PROVE FileTypeOK  OBVIOUS
<1> USE DEF FileInit
<1>1. text \in Alarms \cup {Absent, Garbage} /\ size \in Nat /\ expected \in Alarms
  BY DefaultIsBody
<1>2. stage \in [Users -> {"idle", "merged", "opened"}]  OBVIOUS
<1>3. body \in PartialAlarms /\ next \in [Users -> Alarms]  BY DefaultIsBody
<1>4. spoilt \in BOOLEAN  OBVIOUS
<1> QED  BY <1>1, <1>2, <1>3, <1>4 DEF FileTypeOK

LEMMA FileNextTypeOK == FileTypeOK /\ (FileNext \/ Die) => FileTypeOK'
<1> SUFFICES ASSUME FileTypeOK, FileNext \/ Die PROVE FileTypeOK'  OBVIOUS
<1> USE DEF FileTypeOK
<1>1. ASSUME NEW u \in Users, NEW b \in Bodies, Put(u, b)  PROVE FileTypeOK'
  <2>1. b \in PartialAlarms  BY BodiesAssumption
  <2>2. Content \in Alarms  BY <1>1, ContentType DEF Put
  <2>3. Merged(Content, b) \in Alarms  BY <2>1, <2>2, MergedType
  <2>4. expected' \in Alarms /\ spoilt' \in BOOLEAN /\ body' \in PartialAlarms
    BY <1>1, <2>1, <2>2, DefaultIsBody DEF Put, Count
  <2> QED  BY <1>1, <2>1, <2>3, <2>4 DEF Put
<1>2. ASSUME NEW u \in Users, Open(u)  PROVE FileTypeOK'
  BY <1>2 DEF Open
<1>3. ASSUME NEW u \in Users, Write(u)  PROVE FileTypeOK'
  <2>1. Length[next[u]] \in Nat  BY LengthAssumption
  <2>2. Merged(expected, body) \in Alarms  BY MergedType
  <2> QED  BY <1>3, <2>1, <2>2, DefaultIsBody DEF Write
<1>4. ASSUME Die  PROVE FileTypeOK'
  BY <1>4, DefaultIsBody DEF Die
<1> QED  BY <1>1, <1>2, <1>3, <1>4 DEF FileNext

\* While nothing has gone wrong one request at most is under way, and what it will write is
\* what the stores so far add up to with its body merged in.
OneAtATime ==
    ~spoilt =>
      /\ \A u, v \in Users : (stage[u] # "idle" /\ stage[v] # "idle") => u = v
      /\ (\A u \in Users : stage[u] # "opened") => Readable /\ Content = expected
      /\ \A u \in Users : stage[u] # "idle" => next[u] = Merged(expected, body)
      /\ \A u \in Users : stage[u] = "opened" => size = 0

LEMMA FileInitOne == FileInit => OneAtATime
  BY TextAssumption DEF FileInit, OneAtATime, Readable, Content

LEMMA FileNextOne == FileTypeOK /\ OneAtATime /\ (FileNext \/ Die) => OneAtATime'
<1> SUFFICES ASSUME FileTypeOK, OneAtATime, FileNext \/ Die, ~spoilt' PROVE OneAtATime'
  BY DEF OneAtATime
<1> USE DEF FileTypeOK
<1>1. ASSUME NEW u \in Users, NEW b \in Bodies, Put(u, b)  PROVE OneAtATime'
  <2>1. /\ UnderWay = {}
        /\ Readable
        /\ expected' = Content
    BY <1>1 DEF Put, Count, OneAtATime, UnderWay
  <2>2. /\ \A v \in Users \ {u} : stage'[v] = "idle"
        /\ stage'[u] = "merged"
        /\ next'[u] = Merged(Content, b) /\ body' = b
        /\ text' = text
    BY <1>1, <2>1 DEF Put, Count, UnderWay
  <2> QED  BY <2>1, <2>2 DEF OneAtATime, Readable, Content
<1>2. ASSUME NEW u \in Users, Open(u)  PROVE OneAtATime'
  <2>1. stage' = [stage EXCEPT ![u] = "opened"] /\ stage[u] = "merged"  BY <1>2 DEF Open
  <2> QED  BY <1>2, <2>1 DEF Open, OneAtATime
<1>3. ASSUME NEW u \in Users, Write(u)  PROVE OneAtATime'
  <2>1. /\ stage[u] = "opened" /\ size = 0
        /\ next[u] = Merged(expected, body)
        /\ \A v \in Users \ {u} : stage[v] = "idle"
    BY <1>3 DEF Write, OneAtATime
  <2>2. Length[next[u]] >= size  BY <2>1, LengthAssumption
  <2>3. text' = next[u] /\ expected' = next[u]  BY <1>3, <2>1, <2>2 DEF Write
  <2>4. next[u] # Absent /\ next[u] # Garbage  BY TextAssumption
  <2>5. \A v \in Users : stage'[v] = "idle"  BY <1>3, <2>1 DEF Write
  <2> QED  BY <2>3, <2>4, <2>5 DEF OneAtATime, Readable, Content
<1>4. ASSUME Die  PROVE OneAtATime'
  <2>1. /\ ~spoilt /\ \A u \in Users : stage[u] # "opened"
        /\ expected' = expected /\ text' = text
        /\ \A u \in Users : stage'[u] = "idle"
    BY <1>4 DEF Die
  <2> QED  BY <2>1 DEF OneAtATime, Readable, Content
<1> QED  BY <1>1, <1>2, <1>3, <1>4 DEF FileNext

-----------------------------------------------------------------------------
(* The clock *)

LEMMA InitTypeOK == Init => TypeOK
<1> SUFFICES ASSUME Init PROVE TypeOK  OBVIOUS
<1> USE DEF Init, DeviceInit
<1>1. FileTypeOK /\ ZoneTypeOK  BY FileInitTypeOK DEF ZoneInit, ZoneTypeOK
<1>2. due \in BOOLEAN /\ pinged \in BOOLEAN /\ connected \in BOOLEAN /\ right \in BOOLEAN
  OBVIOUS
<1>3. config \in Alarms  BY DefaultIsBody
<1> QED  BY <1>1, <1>2, <1>3 DEF TypeOK

LEMMA FileUnchanged ==
    ASSUME FileTypeOK, UNCHANGED fileVars  PROVE FileTypeOK'
  BY DEF FileTypeOK, fileVars

LEMMA ZoneKept ==
    ASSUME ZoneTypeOK, ZoneNext \/ ZoneDie \/ UNCHANGED zoneVars  PROVE ZoneTypeOK'
<1> USE DEF ZoneTypeOK
<1>1. CASE ZonePut  BY <1>1 DEF ZonePut
<1>2. CASE ZoneOpen  BY <1>2 DEF ZoneOpen
<1>3. CASE ZoneWrite  BY <1>3 DEF ZoneWrite
<1>4. CASE ZoneDie  BY <1>4 DEF ZoneDie
<1>5. CASE UNCHANGED zoneVars  BY <1>5 DEF zoneVars
<1> QED  BY <1>1, <1>2, <1>3, <1>4, <1>5 DEF ZoneNext

LEMMA NextTypeOK == TypeOK /\ [Next]_vars => TypeOK'
<1> SUFFICES ASSUME TypeOK, [Next]_vars PROVE TypeOK'  OBVIOUS
<1> USE DEF TypeOK
<1>1. ASSUME DeviceNext, UNCHANGED serviceVars  PROVE TypeOK'
  <2>1. FileTypeOK' /\ ZoneTypeOK'  BY <1>1, FileUnchanged, ZoneKept DEF serviceVars
  <2>2. CASE Pass
    <3>1. ASSUME FetchAlarm  PROVE TypeOK'
      BY <2>1, <3>1, ContentType DEF FetchAlarm
    <3> QED
      BY <2>1, <2>2, <3>1
      DEF Pass, Udp, Zostayify, Ping, ConfigTick, FetchTime, FetchFails, Draw
  <2>3. CASE Reboot
    <3> USE <2>3 DEF Reboot
    <3>1. due' \in BOOLEAN /\ pinged' \in BOOLEAN /\ connected' \in BOOLEAN  OBVIOUS
    <3>2. right' \in BOOLEAN
      <4>1. CASE right' = FALSE  BY <4>1
      <4>2. CASE right' = right  BY <4>2
      <4> QED  BY <4>1, <4>2
    <3>3. config' \in Alarms /\ pc' = "udp"  BY DefaultIsBody
    <3> QED  BY <2>1, <3>1, <3>2, <3>3
  <2>4. CASE Elapse \/ WiFiChanges \/ Drift
    BY <2>1, <2>4 DEF Elapse, WiFiChanges, Drift
  <2> QED  BY <1>1, <2>2, <2>3, <2>4 DEF DeviceNext
<1>2. ASSUME Service, UNCHANGED deviceVars  PROVE TypeOK'
  <2>1. FileTypeOK'  BY <1>2, FileNextTypeOK, FileUnchanged DEF Service
  <2>2. ZoneTypeOK'  BY <1>2, ZoneKept DEF Service
  <2> QED  BY <1>2, <2>1, <2>2 DEF deviceVars
<1>3. ASSUME UNCHANGED vars  PROVE TypeOK'
  BY <1>3, FileUnchanged, ZoneKept DEF vars, serviceVars, deviceVars
<1> QED  BY <1>1, <1>2, <1>3 DEF Next

\* Every variable of the clock and of its service's files keeps its type: what the clock holds is a
\* whole alarm, and so is what the file holds when it can be read.
THEOREM ClockTypeCorrect == Spec => []TypeOK
<1> QED  BY InitTypeOK, NextTypeOK, PTL DEF Spec

\* The stores that came one after the other are all in the file, for every number of
\* requests, every alarm and every length of its text.
THEOREM ClockStoresAddUp == Spec => []StoresAddUp
<1>1. Init => OneAtATime  BY FileInitOne DEF Init
<1>2. TypeOK /\ OneAtATime /\ [Next]_vars => OneAtATime'
  <2> SUFFICES ASSUME TypeOK, OneAtATime, [Next]_vars PROVE OneAtATime'  OBVIOUS
  <2>1. CASE FileNext \/ Die  BY <2>1, FileNextOne DEF TypeOK
  <2>2. CASE UNCHANGED fileVars
    BY <2>2 DEF fileVars, OneAtATime, Readable, Content
  <2> QED  BY <2>1, <2>2 DEF Next, Service, vars, serviceVars
<1>3. OneAtATime => StoresAddUp  BY DEF OneAtATime, StoresAddUp
<1> QED  BY <1>1, <1>2, <1>3, ClockTypeCorrect, PTL DEF Spec

\* No request repairs a file that a store has left unreadable, and without the time zone
\* the clock is not set.
THEOREM ClockBricked == Spec => Bricked
<1>1. ASSUME TypeOK, Next, Broken
      PROVE  Broken' /\ (config' = config \/ Reboot)
  <2>1. ~Readable /\ \A u \in Users : stage[u] = "idle"  BY <1>1 DEF Broken, UnderWay
  <2>2. ~FileNext  BY <2>1 DEF FileNext, Put, Open, Write
  <2>3. text' = text /\ UnderWay' = UnderWay
    <3>1. CASE Die  BY <2>1, <3>1 DEF Die, UnderWay
    <3>2. CASE UNCHANGED fileVars  BY <3>2 DEF fileVars, UnderWay
    <3> QED  BY <1>1, <2>2, <3>1, <3>2 DEF Next, Service, serviceVars
  <2>4. Broken'  BY <1>1, <2>3 DEF Broken, Readable
  <2>5. config' = config \/ Reboot
    BY <1>1, <2>1 DEF Next, Service, deviceVars, DeviceNext, Pass, Udp, Zostayify, Ping, ConfigTick,
       FetchTime, FetchAlarm, FetchFails, Draw, Elapse, WiFiChanges, Drift
  <2> QED  BY <2>4, <2>5
<1>2. ASSUME TypeOK, Next, ZoneBroken
      PROVE  ZoneBroken' /\ (right' => right)
  <2>1. ~ZoneReadable /\ fetched = 0 /\ opened = 0
    BY <1>2 DEF ZoneBroken, TypeOK, ZoneTypeOK
  <2>2. ~ZoneNext  BY <2>1 DEF ZoneNext, ZonePut, ZoneOpen, ZoneWrite
  <2>3. UNCHANGED zoneVars
    BY <1>2, <2>1, <2>2 DEF Next, Service, serviceVars, zoneVars, ZoneDie
  <2>4. ZoneBroken'  BY <1>2, <2>3 DEF ZoneBroken, ZoneReadable, zoneVars
  <2>5. right' => right
    BY <1>2, <2>1 DEF Next, Service, deviceVars, DeviceNext, Pass, Udp, Zostayify, Ping, ConfigTick,
       FetchTime, FetchAlarm, FetchFails, Draw, Elapse, WiFiChanges, Drift, Reboot
  <2> QED  BY <2>4, <2>5
<1>3. TypeOK /\ [Next]_vars =>
        [ /\ Broken => Broken' /\ (config' = config \/ Reboot)
          /\ ZoneBroken => ZoneBroken' /\ (right' => right) ]_vars
  BY <1>1, <1>2
<1> QED  BY <1>3, ClockTypeCorrect, PTL DEF Spec, Bricked

\* A pass that asks for the time began before any packet reached the clock.
PingedPass == pinged => pc # "time"

\* The flag that ping() sets stays until a restart, and no pass with it sets the clock.
THEOREM ClockPingLosesTime == Spec => PingLosesTime
<1>1. Init => PingedPass  BY DEF Init, DeviceInit, PingedPass
<1>2. ASSUME TypeOK, PingedPass, Next  PROVE PingedPass'
  <2>1. CASE UNCHANGED deviceVars  BY <1>2, <2>1 DEF deviceVars, PingedPass
  <2>2. CASE DeviceNext
    BY <1>2, <2>2 DEF DeviceNext, Pass, Udp, Zostayify, Ping, ConfigTick, FetchTime, FetchAlarm,
       FetchFails, Draw, Elapse, WiFiChanges, Drift, Reboot, PingedPass
  <2> QED  BY <1>2, <2>1, <2>2 DEF Next
<1>3. TypeOK /\ PingedPass /\ [Next]_vars => PingedPass'
  <2>1. PingedPass /\ UNCHANGED vars => PingedPass'  BY DEF vars, deviceVars, PingedPass
  <2> QED  BY <1>2, <2>1
<1>4. ASSUME TypeOK, PingedPass, Next, pinged
      PROVE  (pinged' \/ Reboot) /\ (right' => right)
  <2>1. pc # "time"  BY <1>4 DEF PingedPass
  <2>2. CASE UNCHANGED deviceVars  BY <1>4, <2>2 DEF deviceVars
  <2>3. CASE Reboot
    <3>1. right' => right  BY <1>4, <2>3 DEF Reboot, TypeOK
    <3> QED  BY <2>3, <3>1
  <2>4. CASE Pass \/ Elapse \/ WiFiChanges \/ Drift
    <3>1. pinged'
      BY <1>4, <2>4 DEF Pass, Udp, Zostayify, Ping, ConfigTick, FetchTime, FetchAlarm, FetchFails,
         Draw, Elapse, WiFiChanges, Drift, TypeOK
    <3>2. right' => right
      BY <1>4, <2>1, <2>4 DEF Pass, Udp, Zostayify, Ping, ConfigTick, FetchTime, FetchAlarm,
         FetchFails, Draw, Elapse, WiFiChanges, Drift, TypeOK
    <3> QED  BY <3>1, <3>2
  <2> QED  BY <1>4, <2>2, <2>3, <2>4 DEF Next, DeviceNext
<1>5. TypeOK /\ PingedPass /\ [Next]_vars =>
        [pinged => (pinged' \/ Reboot) /\ (right' => right)]_vars
  BY <1>4
<1> QED  BY <1>1, <1>3, <1>5, ClockTypeCorrect, PTL DEF Spec, PingLosesTime

-----------------------------------------------------------------------------
(* The colours *)

LEMMA EarlierHour ==
    ASSUME NEW h1 \in Nat, NEW h2 \in Nat, h1 < h2, NEW M \in Nat \ {0},
           NEW m1 \in 0 .. M - 1, NEW m2 \in Nat
    PROVE  h1 * M + m1 < h2 * M + m2
<1>1. h2 - h1 - 1 \in Nat  OBVIOUS
<1>2. PICK d \in Nat : h2 = h1 + 1 + d  BY <1>1
<1>3. h2 * M = h1 * M + M + d * M  BY <1>2
<1>4. d * M >= 0  OBVIOUS
<1>5. h1 * M \in Nat /\ h2 * M \in Nat /\ d * M \in Nat  OBVIOUS
<1> QED  BY <1>3, <1>4, <1>5

LEMMA MinuteType ==
    ASSUME NEW t \in Times
    PROVE  /\ t.h \in 0 .. Hours - 1 /\ t.m \in 0 .. Minutes - 1
           /\ t.h * Minutes \in Nat
           /\ MinuteOf(t) \in 0 .. Hours * Minutes - 1
           /\ MinuteOf(t) = 0 <=> (t.h = 0 /\ t.m = 0)
<1>1. t.h \in 0 .. Hours - 1 /\ t.m \in 0 .. Minutes - 1  BY DEF Times
<1>2. t.h * Minutes \in Nat /\ Hours * Minutes \in Nat  BY <1>1, DayAssumption
<1>3. MinuteOf(t) < Hours * Minutes + 0
  BY <1>1, DayAssumption, EarlierHour DEF MinuteOf
<1>4. ASSUME t.h # 0  PROVE MinuteOf(t) # 0
  <2>1. 0 * Minutes + 0 < t.h * Minutes + t.m
    BY <1>1, <1>4, DayAssumption, EarlierHour
  <2> QED  BY <2>1, <1>1, <1>2, DayAssumption DEF MinuteOf
<1>5. t.h = 0 => MinuteOf(t) = t.m  BY <1>1, DayAssumption DEF MinuteOf
<1>6. MinuteOf(t) = t.h * Minutes + t.m /\ MinuteOf(t) \in Nat  BY <1>1, <1>2 DEF MinuteOf
<1>7. MinuteOf(t) \in 0 .. Hours * Minutes - 1  BY <1>2, <1>3, <1>6
<1>8. MinuteOf(t) = 0 <=> (t.h = 0 /\ t.m = 0)  BY <1>4, <1>5, <1>6
<1> QED  BY <1>1, <1>2, <1>7, <1>8

\* Hours before minutes is the order of the minutes of the day.
LEMMA BeforeTimeIsEarlier ==
    ASSUME NEW a \in Times, NEW b \in Times
    PROVE  BeforeTime(a, b) <=> MinuteOf(a) < MinuteOf(b)
<1>1. /\ a.h \in Nat /\ b.h \in Nat /\ a.m \in 0 .. Minutes - 1 /\ b.m \in 0 .. Minutes - 1
      /\ a.h * Minutes \in Nat /\ b.h * Minutes \in Nat /\ Minutes \in Nat \ {0}
  BY MinuteType, DayAssumption
<1>2. CASE a.h < b.h
  BY <1>1, <1>2, EarlierHour DEF BeforeTime, MinuteOf
<1>3. CASE b.h < a.h
  <2>1. MinuteOf(b) < MinuteOf(a)  BY <1>1, <1>3, EarlierHour DEF MinuteOf
  <2> QED  BY <1>1, <1>3, <2>1 DEF BeforeTime, MinuteOf
<1>4. CASE a.h = b.h
  BY <1>1, <1>4 DEF BeforeTime, MinuteOf
<1> QED  BY <1>1, <1>2, <1>3, <1>4

\* The borrow of before_transition_time.
LEMMA TransitionStartMinute ==
    ASSUME NEW t \in Times
    PROVE  /\ TransitionStart(t) \in Times
           /\ MinuteOf(TransitionStart(t)) =
                 IF MinuteOf(t) = 0 THEN Hours * Minutes - 1 ELSE MinuteOf(t) - 1
<1>1. /\ t.h \in 0 .. Hours - 1 /\ t.m \in 0 .. Minutes - 1 /\ t.h * Minutes \in Nat
      /\ MinuteOf(t) = 0 <=> (t.h = 0 /\ t.m = 0)
  BY MinuteType
<1>2. Hours \in Nat \ {0, 1} /\ Minutes \in Nat \ {0, 1}  BY DayAssumption
<1>3. CASE t.m > 0
  BY <1>1, <1>2, <1>3 DEF TransitionStart, MinuteOf, Times
<1>4. CASE t.m = 0 /\ t.h > 0
  <2>1. TransitionStart(t) = [h |-> t.h - 1, m |-> Minutes - 1]
    BY <1>1, <1>4 DEF TransitionStart
  <2>2. (t.h - 1) * Minutes = t.h * Minutes - Minutes  BY <1>1, <1>2
  <2> QED  BY <1>1, <1>2, <1>4, <2>1, <2>2 DEF MinuteOf, Times
<1>5. CASE t.m = 0 /\ t.h = 0
  <2>1. TransitionStart(t) = [h |-> Hours - 1, m |-> Minutes - 1]
    BY <1>1, <1>5 DEF TransitionStart
  <2>2. (Hours - 1) * Minutes = Hours * Minutes - Minutes  BY <1>2
  <2>3. Hours * Minutes \in Nat  BY <1>2
  <2> QED  BY <1>1, <1>2, <1>5, <2>1, <2>2, <2>3 DEF MinuteOf, Times
<1> QED  BY <1>1, <1>3, <1>4, <1>5

\* Dawn, day, dusk and night come at their minutes, for every alarm and a day of any number
\* of hours of any number of minutes.
THEOREM ClockPhaseRight == Spec => []PhaseRight
<1>1. TypeOK => PhaseRight
  <2> SUFFICES ASSUME TypeOK PROVE PhaseRight  OBVIOUS
  <2> DEFINE M == config["morning_time"]
             S == config["sleeping_time"]
             morning == MinuteOf(M)
             sleeping == MinuteOf(S)
             last == Hours * Minutes
             bedtime == IF sleeping = 0 THEN last ELSE sleeping
  <2>1. M \in Times /\ S \in Times  BY FieldsAssumption DEF TypeOK, Alarms
  <2>2. morning \in 0 .. last - 1 /\ sleeping \in 0 .. last - 1 /\ last \in Nat
    BY <2>1, MinuteType, DayAssumption
  <2> SUFFICES ASSUME NEW now \in Times
               PROVE  IF morning = 0
                      THEN Phase(now, config) = "night"
                      ELSE /\ Phase(now, config) = "becoming day" <=> MinuteOf(now) = morning - 1
                           /\ Phase(now, config) = "day"
                                 <=> MinuteOf(now) \in morning .. bedtime - 2
                           /\ Phase(now, config) = "becoming night"
                                 <=> /\ MinuteOf(now) = bedtime - 1
                                     /\ MinuteOf(now) >= morning
                                     /\ bedtime < last
                           /\ IsDaytime(now, config) <=> Phase(now, config) = "day"
    BY DEF PhaseRight
  <2> DEFINE minute == MinuteOf(now)
             dawn == IF morning = 0 THEN last - 1 ELSE morning - 1
             dusk == IF sleeping = 0 THEN last - 1 ELSE sleeping - 1
             phase == IF minute < dawn THEN "night"
                      ELSE IF minute < morning THEN "becoming day"
                      ELSE IF minute < dusk THEN "day"
                      ELSE IF minute < sleeping THEN "becoming night"
                      ELSE "night"
  <2>3. minute \in 0 .. last - 1  BY MinuteType
  <2>4. /\ BeforeTime(now, M) <=> minute < morning
        /\ BeforeTime(now, S) <=> minute < sleeping
    BY <2>1, BeforeTimeIsEarlier
  <2>5. BeforeTransitionTime(now, M) <=> minute < dawn
    BY <2>1, BeforeTimeIsEarlier, TransitionStartMinute DEF BeforeTransitionTime
  <2>6. BeforeTransitionTime(now, S) <=> minute < dusk
    BY <2>1, BeforeTimeIsEarlier, TransitionStartMinute DEF BeforeTransitionTime
  <2>7. Phase(now, config) = phase  BY <2>4, <2>5, <2>6 DEF Phase
  <2>8. IsDaytime(now, config) <=> ~(minute < morning) /\ minute < dusk
    BY <2>4, <2>6 DEF IsDaytime
  <2> HIDE DEF M, S, minute, morning, sleeping, last
  <2>9. IF morning = 0
        THEN phase = "night"
        ELSE /\ phase = "becoming day" <=> minute = morning - 1
             /\ phase = "day" <=> minute \in morning .. bedtime - 2
             /\ phase = "becoming night" <=>
                   minute = bedtime - 1 /\ minute >= morning /\ bedtime < last
             /\ (~(minute < morning) /\ minute < dusk) <=> phase = "day"
    <3>1. CASE sleeping = 0  BY <2>2, <2>3, <3>1
    <3>2. CASE sleeping # 0  BY <2>2, <2>3, <3>2
    <3> QED  BY <3>1, <3>2
  <2> QED  BY <2>7, <2>8, <2>9 DEF minute
<1> QED  BY <1>1, ClockTypeCorrect, PTL
=============================================================================
