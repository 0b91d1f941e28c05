-------------------------- MODULE WiFiNetworkProofs --------------------------
(* The network's safety for every memory, every set of scan results, every    *)
(* width of the clock and of a byte, and events delayed as long as they like. *)
EXTENDS WiFiNetwork, SequenceTheorems, TLAPS

Result == [ssid : STRING, rssi : Nat \ {0}]

-----------------------------------------------------------------------------
(* The invariant *)

\* What is left of the locals when find_connection does not run.
IdleClean == pc \in {"loop", "scan"} => n = 0 /\ k = 0 /\ best_conn = 0 /\ best_signal = 0

\* The last event on its way tells of the link there is.
LastEventTells ==
    /\ link = 0 \/ joining = 0
    /\ (IF events = <<>> THEN connect_status ELSE events[Len(events)] = "got_ip") <=> link # 0

\* A count is that of the results, which then stay, or one that no scan has.
CountSound ==
    pc \in {"look", "choose"} => \/ scan = "done" /\ n = Len(found)
                                 \/ n >= BYTE - 2

Match(i, c) == found[i].ssid = Memory[c]

\* The best is among what was compared so far, the first k pairs, and unsurpassed there.
BestSoFar ==
    pc \in {"look", "choose"} /\ n = Len(found) =>
        /\ \A i \in DOMAIN found, c \in Conns :
              (i - 1) * Len(Memory) + (c - 1) < k /\ Match(i, c) => found[i].rssi <= best_signal
        /\ IF best_conn = 0
           THEN best_signal = 0
           ELSE \E i \in DOMAIN found : Match(i, best_conn) /\ found[i].rssi = best_signal
        /\ pc = "choose" => k = n * Len(Memory)

\* Until the wait is over nothing wraps between a pick and a timeout that did not.
ScheduleSound ==
    /\ timeout >= CONNECTION_TIMEOUT /\ since < CONNECTION_TIMEOUT
          => ~lapped /\ now = timeout - CONNECTION_TIMEOUT + since
    /\ ~lapped => \/ now >= timeout
                  \/ timeout >= CONNECTION_TIMEOUT /\ since < CONNECTION_TIMEOUT

\* The inductive invariant.
IInv ==
    /\ TypeOK /\ IdleClean
    /\ LastEventTells
    /\ CountSound /\ BestSoFar
    /\ ScheduleSound /\ AttemptLeftAlone

-----------------------------------------------------------------------------
(* Arithmetic *)

\* What the variable of type byte makes of a count and of the two results that are none.
LEMMA AsByteLemma ==
    /\ \A v \in 0 .. BYTE - 1 : AsByte(v) = v
    /\ AsByte(Running) = BYTE - 1
    /\ AsByte(Failed) = BYTE - 2
  BY ScanAssumption DEF AsByte, Running, Failed

\* A turn of the inner loop is one pair of a network and a configured one.
LEMMA TurnLemma ==
    ASSUME NEW L \in Nat \ {0}, NEW t \in Nat
    PROVE  /\ t \div L \in Nat
           /\ t % L \in 0 .. L - 1
           /\ t = L * (t \div L) + (t % L)
  OBVIOUS

\* The pair is the only one of its turn.
LEMMA PairLemma ==
    ASSUME NEW L \in Nat \ {0}, NEW p \in Int, NEW q \in Int,
           NEW r \in 0 .. L - 1, NEW s \in 0 .. L - 1,
           L * p + r = L * q + s
    PROVE  p = q /\ r = s
<1>1. CASE p = q
  BY <1>1
<1>2. CASE p >= q + 1
  <2>1. L * p >= L * q + L
    BY <1>2
  <2>2. QED
    BY <2>1
<1>3. CASE q >= p + 1
  <2>1. L * q >= L * p + L
    BY <1>3
  <2>2. QED
    BY <2>1
<1>4. QED
  BY <1>1, <1>2, <1>3

-----------------------------------------------------------------------------
(* Types *)

\* A configured network is not the null pointer, and there is one.
LEMMA ConnsLemma ==
    /\ Len(Memory) \in Nat \ {0}
    /\ Conns \subseteq Nat \ {0}
    /\ 1 \in Conns
    /\ InRange \subseteq Conns
  BY MemoryAssumption, RangeAssumption, EmptySeq DEF Conns

\* What the radio holds is a sequence of results that a byte can count.
LEMMA FoundLemma ==
    ASSUME TypeOK
    PROVE  /\ found \in Seq(Result)
           /\ Len(found) \in 0 .. BYTE - 3
           /\ \A i \in DOMAIN found : found[i].rssi \in Nat \ {0}
<1>1. found \in Seq(Result) /\ Len(found) < BYTE - 2
  <2>1. CASE found = <<>>
    BY <2>1, ScanAssumption, EmptySeq
  <2>2. CASE found \in Scans
    BY <2>2, ScanAssumption DEF Result
  <2>3. QED
    BY <2>1, <2>2 DEF TypeOK
<1>2. \A i \in DOMAIN found : found[i] \in Result
  BY <1>1, ElementOfSeq, LenProperties
<1>3. QED
  BY <1>1, <1>2, LenProperties, ScanAssumption DEF Result

\* What scanComplete answers.
Answer == CASE scan = "running" -> Running
            [] scan = "done"    -> Len(found)
            [] scan = "none"    -> Failed

\* How a count leaves find_connection: at once, or at the first turn of its loops
\* with as many networks as there are, or with one of two numbers no scan has.
LEMMA CountedLemma ==
    ASSUME NEW v \in {Running, Failed} \cup 0 .. BYTE - 3, Counted(v)
    PROVE  /\ n' \in 0 .. BYTE - 1
           /\ n' = v \/ (v \in {Running, Failed} /\ n' >= BYTE - 2)
           /\ pc' \in {"loop", "look"}
           /\ pc' = "loop" => n' = 0
           /\ UNCHANGED <<k, best_conn, best_signal>>
<1>1. CASE v \in {Running, Failed}
  BY <1>1, AsByteLemma, ScanAssumption DEF Counted, Running, Failed
<1>2. CASE v \in 0 .. BYTE - 3
  BY <1>2, AsByteLemma, ScanAssumption DEF Counted, Running, Failed
<1>3. QED
  BY <1>1, <1>2

\* The two calls that count, by what they count.
LEMMA ScanStepLemma ==
    ASSUME TypeOK, ScanNetworks \/ ScanComplete
    PROVE  /\ n' \in 0 .. BYTE - 1
           /\ pc = "scan"
           /\ pc' \in {"loop", "look"}
           /\ pc' = "loop" => n' = 0
           /\ n' >= BYTE - 2 \/ pc' = "loop"
              \/ (scan = "done" /\ n' = Len(found) /\ UNCHANGED <<scan, found>>)
           /\ UNCHANGED <<k, best_conn, best_signal>>
           /\ UNCHANGED <<scan, found>> \/ (found' = <<>> /\ scan' \in {"none", "running"})
           /\ scanning' \in BOOLEAN
           /\ UNCHANGED <<schedule, connect_status, current, joining, link, events>>
<1>1. CASE ScanNetworks
  <2>1. PICK v \in {Running, Failed} : Counted(v)
    BY <1>1 DEF ScanNetworks
  <2>2. n' \in 0 .. BYTE - 1 /\ (n' >= BYTE - 2 \/ n' = v) /\ pc' \in {"loop", "look"}
        /\ (pc' = "loop" => n' = 0) /\ UNCHANGED <<k, best_conn, best_signal>>
    BY <2>1, CountedLemma
  <2>3. n' # v
    BY <2>2 DEF Running, Failed
  <2>4. QED
    BY <1>1, <2>2, <2>3 DEF ScanNetworks
<1>2. CASE ScanComplete
  <2>1. PICK v : v = Answer
    OBVIOUS
  <2>2. Counted(v)
    BY <1>2, <2>1 DEF ScanComplete, Answer
  <2>3. \/ v \in {Running, Failed}
        \/ scan = "done" /\ v = Len(found) /\ v \in 0 .. BYTE - 3
    BY <2>1, FoundLemma DEF Answer, TypeOK
  <2>4. n' \in 0 .. BYTE - 1 /\ pc' \in {"loop", "look"}
        /\ (n' = v \/ (v \in {Running, Failed} /\ n' >= BYTE - 2))
        /\ (pc' = "loop" => n' = 0) /\ UNCHANGED <<k, best_conn, best_signal>>
    BY <2>2, <2>3, CountedLemma
  <2>5. n' >= BYTE - 2 \/ (scan = "done" /\ n' = Len(found))
    BY <2>3, <2>4 DEF Running, Failed
  <2>6. QED
    BY <1>2, <2>4, <2>5 DEF ScanComplete, radio
<1>3. QED
  BY <1>1, <1>2

\* The pair a turn compares: a network by its number, and a configured one.
LEMMA LookLemma ==
    ASSUME TypeOK, Look
    PROVE  LET i == (k \div Len(Memory)) + 1
               c == (k % Len(Memory)) + 1
           IN /\ i \in Nat \ {0} /\ c \in Conns
              /\ k = Len(Memory) * (i - 1) + (c - 1)
              /\ \/ /\ i \in DOMAIN found /\ Match(i, c) /\ found[i].rssi > best_signal
                    /\ best_signal' = found[i].rssi /\ best_conn' = c
                 \/ /\ i \in DOMAIN found /\ Match(i, c) => ~(found[i].rssi > best_signal)
                    /\ UNCHANGED <<best_signal, best_conn>>
<1> DEFINE i == (k \div Len(Memory)) + 1
           c == (k % Len(Memory)) + 1
<1>1. k \in Nat
  <2>1. n \in Nat /\ Len(Memory) \in Nat
    BY ConnsLemma, ScanAssumption DEF TypeOK
  <2>2. QED
    BY <2>1 DEF TypeOK
<1>2. i - 1 = k \div Len(Memory) /\ c - 1 = k % Len(Memory)
      /\ i \in Nat \ {0} /\ c \in Conns
  <2>1. /\ k \div Len(Memory) \in Nat
        /\ k % Len(Memory) \in 0 .. Len(Memory) - 1
    BY <1>1, ConnsLemma, TurnLemma
  <2>2. \A q \in Nat : q + 1 \in Nat \ {0} /\ (q + 1) - 1 = q
    OBVIOUS
  <2>3. \A r \in 0 .. Len(Memory) - 1 : r + 1 \in Conns /\ (r + 1) - 1 = r
    BY ConnsLemma DEF Conns
  <2>4. QED
    BY <2>1, <2>2, <2>3
<1>3. k = Len(Memory) * (i - 1) + (c - 1)
  BY <1>1, <1>2, ConnsLemma, TurnLemma
<1>4. \/ /\ i \in DOMAIN found /\ Match(i, c) /\ found[i].rssi > best_signal
         /\ best_signal' = found[i].rssi /\ best_conn' = c
      \/ /\ i \in DOMAIN found /\ Match(i, c) => ~(found[i].rssi > best_signal)
         /\ UNCHANGED <<best_signal, best_conn>>
  BY DEF Look, Match
<1>5. QED
  BY <1>2, <1>3, <1>4

\* begin() keeps the events a sequence.
LEMMA BeginLemma ==
    ASSUME TypeOK, NEW c \in Conns, BeginConnection(c)
    PROVE  /\ joining' = c /\ link' = 0
           /\ events' \in Seq({"got_ip", "disconnected"})
           /\ \/ link = 0 /\ events' = events
              \/ events' = Append(events, "disconnected")
<1>1. events \in Seq({"got_ip", "disconnected"})
  BY DEF TypeOK
<1>2. Append(events, "disconnected") \in Seq({"got_ip", "disconnected"})
  BY <1>1, AppendProperties
<1>3. QED
  BY <1>1, <1>2 DEF BeginConnection

\* The clock stays in its width (MC_Network.h:178, 253).
LEMMA TimeStep == TypeOK /\ [Next]_vars => {now, timeout, last_fallback}' \subseteq Time
<1> SUFFICES ASSUME TypeOK, [Next]_vars
             PROVE  now' \in Time /\ timeout' \in Time /\ last_fallback' \in Time
  OBVIOUS
<1> USE ClockAssumption DEF Time
<1>0. now \in Time /\ timeout \in Time /\ last_fallback \in Time
  BY DEF TypeOK
<1>1. ASSUME NEW d \in {0, 1}, Pass(d) PROVE now' \in Time /\ UNCHANGED <<timeout, last_fallback>>
  BY <1>0, <1>1 DEF Pass
<1>2. ASSUME PickNetwork PROVE timeout' \in Time /\ UNCHANGED <<now, last_fallback>>
  BY <1>0, <1>2 DEF PickNetwork
<1>3. ASSUME Fallback PROVE UNCHANGED <<now, timeout>> /\ last_fallback' \in {last_fallback, now}
  BY <1>3 DEF Fallback
<1>4. CASE ScanNetworks \/ ScanComplete \/ Look \/ LookDone
  BY <1>0, <1>4 DEF ScanNetworks, ScanComplete, Look, LookDone, schedule
<1>5. CASE \/ \E s \in Scans : ScanDone(s)
           \/ ScanFails \/ JoinSucceeds \/ JoinFails \/ LinkLost \/ HandleWifiEvent
           \/ UNCHANGED vars
  BY <1>0, <1>5 DEF ScanDone, ScanFails, JoinSucceeds, JoinFails, LinkLost, HandleWifiEvent,
                    loop, schedule, vars
<1>6. QED
  BY <1>0, <1>1, <1>2, <1>3, <1>4, <1>5 DEF Next, LoopStep

\* The indices of the two loops stay in theirs, and the best is a configured network.
LEMMA ChoiceStep ==
    ASSUME TypeOK, IdleClean, [Next]_vars
    PROVE  /\ n' \in 0 .. BYTE - 1 /\ k' \in 0 .. n' * Len(Memory)
           /\ best_conn' \in Conns \cup {0} /\ best_signal' \in Nat
           /\ pc' \in {"loop", "scan", "look", "choose"}
           /\ IdleClean'
<1>0. /\ n \in 0 .. BYTE - 1 /\ k \in 0 .. n * Len(Memory)
      /\ best_conn \in Conns \cup {0} /\ best_signal \in Nat
      /\ pc \in {"loop", "scan", "look", "choose"}
      /\ n * Len(Memory) \in Nat
  BY ConnsLemma, ScanAssumption DEF TypeOK
<1>1. ASSUME NEW d \in {0, 1}, Pass(d)
      PROVE  pc = "loop" /\ pc' \in {"loop", "scan"} /\ UNCHANGED choice
  BY <1>1 DEF Pass
<1>2. CASE ScanNetworks \/ ScanComplete
  <2>1. /\ n' \in 0 .. BYTE - 1 /\ pc = "scan" /\ pc' \in {"loop", "look"}
        /\ pc' = "loop" => n' = 0
        /\ UNCHANGED <<k, best_conn, best_signal>>
    BY <1>2, ScanStepLemma
  <2>2. k = 0 /\ best_conn = 0 /\ best_signal = 0
    BY <2>1 DEF IdleClean
  <2>3. n' * Len(Memory) \in Nat
    BY <2>1, ConnsLemma, ScanAssumption
  <2>4. QED
    BY <1>0, <2>1, <2>2, <2>3 DEF IdleClean
<1>3. CASE Look
  <2>1. UNCHANGED <<n, pc>> /\ pc = "look" /\ k' = k + 1 /\ k < n * Len(Memory)
    BY <1>3 DEF Look
  <2>2. best_conn' \in Conns \cup {0} /\ best_signal' \in Nat
    BY <1>0, <1>3, LookLemma, FoundLemma
  <2>3. QED
    BY <1>0, <2>1, <2>2 DEF IdleClean
<1>4. CASE LookDone
  BY <1>0, <1>4 DEF LookDone, choice, IdleClean
<1>5. CASE PickNetwork \/ Fallback
  <2>1. Return
    BY <1>5 DEF PickNetwork, Fallback
  <2>2. 0 * Len(Memory) = 0
    BY ConnsLemma
  <2>3. QED
    BY <2>1, <2>2, ScanAssumption DEF Return, IdleClean
<1>6. ASSUME \/ \E s \in Scans : ScanDone(s)
             \/ ScanFails \/ JoinSucceeds \/ JoinFails \/ LinkLost \/ HandleWifiEvent
             \/ UNCHANGED vars
      PROVE  UNCHANGED <<pc, choice>>
  BY <1>6 DEF ScanDone, ScanFails, JoinSucceeds, JoinFails, LinkLost, HandleWifiEvent, loop, vars
<1>7. QED
  BY <1>0, <1>1, <1>2, <1>3, <1>4, <1>5, <1>6 DEF Next, LoopStep, choice, IdleClean

\* What the radio holds, and what the loop and the WiFi task know of it.
LEMMA RadioStep ==
    ASSUME TypeOK, [Next]_vars
    PROVE  /\ since' \in 0 .. CONNECTION_TIMEOUT
           /\ {lapped', connect_status', scanning'} \subseteq BOOLEAN
           /\ {current', joining', link'} \subseteq Conns \cup {0}
           /\ scan' \in {"none", "running", "done"}
           /\ found' \in Scans \cup {<<>>}
           /\ events' \in Seq({"got_ip", "disconnected"})
<1>0. /\ since \in 0 .. CONNECTION_TIMEOUT
      /\ lapped \in BOOLEAN /\ connect_status \in BOOLEAN /\ scanning \in BOOLEAN
      /\ current \in Conns \cup {0} /\ joining \in Conns \cup {0} /\ link \in Conns \cup {0}
      /\ scan \in {"none", "running", "done"}
      /\ found \in Scans \cup {<<>>}
      /\ events \in Seq({"got_ip", "disconnected"})
      /\ best_conn \in Conns \cup {0}
      /\ now \in Nat
  BY ClockAssumption DEF TypeOK, Time
<1>1. ASSUME NEW d \in {0, 1}, Pass(d)
      PROVE  /\ since' \in 0 .. CONNECTION_TIMEOUT /\ lapped' \in BOOLEAN
             /\ UNCHANGED <<connect_status, scanning, current, radio>>
  BY <1>0, <1>1, ClockAssumption DEF Pass
<1>2. ASSUME ScanNetworks \/ ScanComplete
      PROVE  /\ scan' \in {"none", "running", "done"} /\ found' \in Scans \cup {<<>>}
             /\ scanning' \in BOOLEAN
             /\ UNCHANGED <<schedule, connect_status, current, joining, link, events>>
  BY <1>0, <1>2, ScanStepLemma
<1>3. CASE Look \/ LookDone
  BY <1>0, <1>3 DEF Look, LookDone, schedule, radio
<1>4. ASSUME PickNetwork
      PROVE  /\ since' = 0 /\ lapped' = FALSE
             /\ current' \in Conns /\ joining' \in Conns /\ link' = 0
             /\ events' \in Seq({"got_ip", "disconnected"})
             /\ UNCHANGED <<connect_status, scanning, scan, found>>
  <2>1. best_conn \in Conns /\ BeginConnection(best_conn)
    BY <1>0, <1>4 DEF PickNetwork
  <2>2. joining' = best_conn /\ link' = 0 /\ events' \in Seq({"got_ip", "disconnected"})
    BY <2>1, BeginLemma
  <2>3. QED
    BY <1>4, <2>1, <2>2 DEF PickNetwork
<1>5. ASSUME Fallback
      PROVE  /\ current' \in Conns /\ joining' \in Conns \cup {0} /\ link' \in Conns \cup {0}
             /\ events' \in Seq({"got_ip", "disconnected"})
             /\ UNCHANGED <<since, lapped, connect_status, scanning, scan, found>>
  <2>1. CASE BeginConnection(1)
    BY <1>5, <2>1, BeginLemma, ConnsLemma DEF Fallback
  <2>2. CASE UNCHANGED <<joining, link, events>>
    BY <1>0, <1>5, <2>2, ConnsLemma DEF Fallback
  <2>3. QED
    BY <1>5, <2>1, <2>2 DEF Fallback
<1>6. ASSUME \/ \E s \in Scans : ScanDone(s)
             \/ ScanFails
      PROVE  /\ scan' \in {"none", "running", "done"} /\ found' \in Scans \cup {<<>>}
             /\ UNCHANGED <<loop, joining, link, events>>
  BY <1>0, <1>6 DEF ScanDone, ScanFails
<1>7. ASSUME JoinSucceeds \/ JoinFails \/ LinkLost
      PROVE  /\ joining' \in Conns \cup {0} /\ link' \in Conns \cup {0}
             /\ events' \in Seq({"got_ip", "disconnected"})
             /\ UNCHANGED <<loop, scan, found>>
  <2>1. \A e \in {"got_ip", "disconnected"} :
           Append(events, e) \in Seq({"got_ip", "disconnected"})
    BY <1>0, AppendProperties
  <2>2. QED
    BY <1>0, <1>7, <2>1, ConnsLemma DEF JoinSucceeds, JoinFails, LinkLost
<1>8. ASSUME HandleWifiEvent
      PROVE  /\ connect_status' \in BOOLEAN
             /\ events' \in Seq({"got_ip", "disconnected"})
             /\ UNCHANGED <<schedule, scanning, current, scan, found, joining, link>>
  BY <1>0, <1>8, HeadTailProperties DEF HandleWifiEvent
<1>9. CASE UNCHANGED vars
  BY <1>0, <1>9 DEF vars, schedule, radio
<1>10. QED
  <2>1. CASE \E d \in {0, 1} : Pass(d)
    BY <1>0, <1>1, <2>1 DEF radio
  <2>2. CASE ScanNetworks \/ ScanComplete
    BY <1>0, <1>2, <2>2 DEF schedule
  <2>3. CASE PickNetwork
    BY <1>0, <1>4, <2>3, ClockAssumption
  <2>4. CASE Fallback
    BY <1>0, <1>5, <2>4
  <2>5. CASE \/ \E s \in Scans : ScanDone(s)
             \/ ScanFails
    BY <1>0, <1>6, <2>5 DEF loop, schedule
  <2>6. CASE JoinSucceeds \/ JoinFails \/ LinkLost
    BY <1>0, <1>7, <2>6 DEF loop, schedule
  <2>7. CASE HandleWifiEvent
    BY <1>0, <1>8, <2>7 DEF schedule
  <2>8. QED
    BY <1>3, <1>9, <2>1, <2>2, <2>3, <2>4, <2>5, <2>6, <2>7 DEF Next, LoopStep

\* Every step keeps the types.
LEMMA TypeStep == TypeOK /\ IdleClean /\ [Next]_vars => TypeOK' /\ IdleClean'
  BY TimeStep, ChoiceStep, RadioStep DEF TypeOK

-----------------------------------------------------------------------------
(* Status, schedule and count *)

\* The last event of a longer sequence.
LEMMA LastOfAppend ==
    ASSUME NEW S, NEW s \in Seq(S), NEW e \in S
    PROVE  Append(s, e) # <<>> /\ Append(s, e)[Len(Append(s, e))] = e
  BY AppendProperties, LenProperties

\* Each event the radio sends tells of the link it leaves.
LEMMA EventStep == TypeOK /\ LastEventTells /\ [Next]_vars => LastEventTells'
<1> SUFFICES ASSUME TypeOK, LastEventTells, [Next]_vars PROVE LastEventTells'
  OBVIOUS
<1>0. /\ events \in Seq({"got_ip", "disconnected"})
      /\ best_conn \in Conns \cup {0}
  BY DEF TypeOK
<1>1. ASSUME NEW e \in {"got_ip", "disconnected"}, events' = Append(events, e)
      PROVE  events' # <<>> /\ events'[Len(events')] = e
  BY <1>0, <1>1, LastOfAppend
<1>2. CASE UNCHANGED <<connect_status, joining, link, events>>
  BY <1>2 DEF LastEventTells
<1>3. ASSUME NEW c \in Conns, BeginConnection(c), connect_status' = connect_status
      PROVE  LastEventTells'
  <2>1. CASE link = 0 /\ events' = events
    BY <1>3, <2>1, BeginLemma DEF LastEventTells
  <2>2. CASE events' = Append(events, "disconnected")
    BY <1>1, <1>3, <2>2, BeginLemma DEF LastEventTells
  <2>3. QED
    BY <1>3, <2>1, <2>2, BeginLemma
<1>4. CASE PickNetwork
  BY <1>0, <1>3, <1>4 DEF PickNetwork
<1>5. CASE Fallback
  BY <1>2, <1>3, <1>5, ConnsLemma DEF Fallback
<1>6. CASE JoinSucceeds
  BY <1>1, <1>6, ConnsLemma DEF JoinSucceeds, LastEventTells
<1>7. CASE JoinFails
  BY <1>1, <1>7 DEF JoinFails, LastEventTells
<1>8. CASE LinkLost
  BY <1>1, <1>8 DEF LinkLost, LastEventTells
<1>9. CASE HandleWifiEvent
  <2>1. events # <<>> /\ events' = Tail(events) /\ UNCHANGED <<joining, link>>
        /\ connect_status' = (Head(events) = "got_ip")
    BY <1>9 DEF HandleWifiEvent
  <2>2. /\ events' \in Seq({"got_ip", "disconnected"})
        /\ Len(events') = Len(events) - 1
        /\ \A i \in 1 .. Len(events') : events'[i] = events[i + 1]
    BY <1>0, <2>1, HeadTailProperties
  <2>3. CASE events' = <<>>
    <3>1. Len(events) = 1
      <4>1. Len(events') = 0
        BY <2>3, EmptySeq
      <4>2. QED
        BY <1>0, <2>2, <4>1, LenProperties
    <3>2. Head(events) = events[Len(events)]
      BY <1>0, <2>1, <3>1
    <3>3. QED
      BY <2>1, <2>3, <3>2 DEF LastEventTells
  <2>4. CASE events' # <<>>
    <3>1. Len(events') \in 1 .. Len(events')
      BY <2>2, <2>4, EmptySeq, LenProperties
    <3>2. events'[Len(events')] = events[Len(events)]
      BY <1>0, <2>2, <3>1, LenProperties
    <3>3. QED
      BY <2>1, <2>4, <3>2 DEF LastEventTells
  <2>5. QED
    BY <2>3, <2>4
<1>10. CASE \/ \E d \in {0, 1} : Pass(d)
            \/ ScanNetworks \/ ScanComplete \/ Look \/ LookDone
            \/ \E s \in Scans : ScanDone(s)
            \/ ScanFails
            \/ UNCHANGED vars
  BY <1>2, <1>10 DEF Pass, ScanNetworks, ScanComplete, Look, LookDone, ScanDone, ScanFails,
                     radio, loop, vars
<1>11. QED
  BY <1>4, <1>5, <1>6, <1>7, <1>8, <1>9, <1>10 DEF Next, LoopStep

\* Between a pick and the end of its wait the clock and the schedule move together.
LEMMA ScheduleStep ==
    ASSUME TypeOK, ScheduleSound, AttemptLeftAlone, [Next]_vars
    PROVE  ScheduleSound' /\ AttemptLeftAlone'
<1> USE ClockAssumption DEF ScheduleSound, AttemptLeftAlone
<1>0. /\ now \in 0 .. CLOCK - 1 /\ timeout \in 0 .. CLOCK - 1
      /\ since \in 0 .. CONNECTION_TIMEOUT /\ lapped \in BOOLEAN
  BY DEF TypeOK, Time
<1>1. ASSUME NEW d \in {0, 1}, Pass(d) PROVE ScheduleSound' /\ AttemptLeftAlone'
  <2> DEFINE soon == since + d < CONNECTION_TIMEOUT
  <2>1. /\ timeout' = timeout
        /\ since' = IF soon THEN since + d ELSE CONNECTION_TIMEOUT
        /\ lapped' = (lapped \/ now + d >= CLOCK)
        /\ pc' # "loop" => now' >= timeout
    BY <1>1 DEF Pass, Ready
  <2>2. now' = IF now + d >= CLOCK THEN now + d - CLOCK ELSE now + d
    BY <1>0, <1>1 DEF Pass
  <2>3. CASE soon /\ timeout >= CONNECTION_TIMEOUT
    <3>1. ~lapped /\ now = timeout - CONNECTION_TIMEOUT + since
      BY <1>0, <2>3
    <3>2. now + d < timeout
      BY <1>0, <2>3, <3>1
    <3>3. QED
      BY <1>0, <2>1, <2>2, <2>3, <3>1, <3>2
  <2>4. ~lapped' => ~lapped /\ now' = now + d
    BY <1>0, <2>1, <2>2
  <2>5. CASE soon /\ timeout < CONNECTION_TIMEOUT
    <3>1. ~lapped' => now' >= timeout
      BY <1>0, <2>4, <2>5
    <3>2. QED
      BY <1>0, <2>1, <2>5, <3>1
  <2>6. CASE ~soon
    <3>1. since' = CONNECTION_TIMEOUT
      BY <2>1, <2>6
    <3>2. ~lapped' => now' >= timeout
      BY <1>0, <2>4, <2>6
    <3>3. QED
      BY <1>0, <2>1, <3>1, <3>2
  <2>7. QED
    BY <2>3, <2>5, <2>6, <1>0
<1>2. CASE PickNetwork
  <2>1. /\ timeout' = (now + CONNECTION_TIMEOUT) % CLOCK
        /\ since' = 0 /\ lapped' = FALSE /\ pc' = "loop" /\ now' = now
    BY <1>2 DEF PickNetwork, Return
  <2>2. timeout' = IF now + CONNECTION_TIMEOUT >= CLOCK
                   THEN now + CONNECTION_TIMEOUT - CLOCK ELSE now + CONNECTION_TIMEOUT
    BY <1>0, <2>1
  <2>3. QED
    BY <1>0, <2>1, <2>2
<1>3. CASE Fallback
  BY <1>3 DEF Fallback, Return
<1>4. CASE ScanNetworks \/ ScanComplete
  <2>1. pc = "scan" /\ UNCHANGED schedule
    BY <1>4, ScanStepLemma
  <2>2. QED
    BY <2>1 DEF schedule
<1>5. CASE \/ Look \/ LookDone
           \/ \E s \in Scans : ScanDone(s)
           \/ ScanFails \/ JoinSucceeds \/ JoinFails \/ LinkLost \/ HandleWifiEvent
           \/ UNCHANGED vars
  <2>1. UNCHANGED schedule /\ (pc' # "loop" => pc # "loop")
    BY <1>5 DEF Look, LookDone, ScanDone, ScanFails, JoinSucceeds, JoinFails, LinkLost,
                HandleWifiEvent, loop, vars
  <2>2. QED
    BY <2>1 DEF schedule
<1>6. QED
  BY <1>1, <1>2, <1>3, <1>4, <1>5 DEF Next, LoopStep

\* The results that were counted are there until the loops are over.
LEMMA CountStep ==
    ASSUME TypeOK, CountSound, [Next]_vars
    PROVE  /\ CountSound'
           /\ pc \in {"look", "choose"} /\ n = Len(found) /\ pc' # "loop" =>
                 UNCHANGED <<n, found>>
<1>1. Len(found) \in 0 .. BYTE - 3
  BY FoundLemma
<1>2. CASE ScanNetworks \/ ScanComplete
  <2>1. pc = "scan"
    BY <1>2, ScanStepLemma
  <2>2. n' >= BYTE - 2 \/ pc' = "loop"
        \/ (scan = "done" /\ n' = Len(found) /\ UNCHANGED <<scan, found>>)
    BY <1>2, ScanStepLemma
  <2>3. QED
    BY <2>1, <2>2 DEF CountSound
<1>3. CASE \E s \in Scans : ScanDone(s)
  BY <1>1, <1>3, ScanAssumption DEF ScanDone, loop, choice, CountSound
<1>4. CASE ScanFails
  BY <1>1, <1>4, ScanAssumption DEF ScanFails, loop, choice, CountSound
<1>5. CASE PickNetwork \/ Fallback
  BY <1>5 DEF PickNetwork, Fallback, Return, CountSound
<1>6. CASE \/ \E d \in {0, 1} : Pass(d)
           \/ Look \/ LookDone \/ JoinSucceeds \/ JoinFails \/ LinkLost \/ HandleWifiEvent
           \/ UNCHANGED vars
  BY <1>6 DEF Pass, Look, LookDone, JoinSucceeds, JoinFails, LinkLost, HandleWifiEvent,
              radio, loop, choice, vars, CountSound
<1>7. QED
  BY <1>2, <1>3, <1>4, <1>5, <1>6 DEF Next, LoopStep

-----------------------------------------------------------------------------
(* The choice *)

\* One turn compares the next pair and leaves the best of all so far.
LEMMA LookKeepsBest == TypeOK /\ BestSoFar /\ Look => BestSoFar'
<1> SUFFICES ASSUME TypeOK, BestSoFar, Look, n' = Len(found') PROVE BestSoFar'
  BY DEF BestSoFar
<1> DEFINE L == Len(Memory)
           ii == (k \div L) + 1
           cc == (k % L) + 1
<1>1. /\ pc = "look" /\ k' = k + 1
      /\ UNCHANGED <<pc, n, found>>
  BY DEF Look, radio
<1>2. /\ \A i \in DOMAIN found, c \in Conns :
            (i - 1) * L + (c - 1) < k /\ Match(i, c) => found[i].rssi <= best_signal
      /\ IF best_conn = 0
         THEN best_signal = 0
         ELSE \E i \in DOMAIN found : Match(i, best_conn) /\ found[i].rssi = best_signal
  BY <1>1 DEF BestSoFar
<1>3. /\ ii \in Nat \ {0} /\ cc \in Conns /\ k = L * (ii - 1) + (cc - 1)
      /\ \/ /\ ii \in DOMAIN found /\ Match(ii, cc) /\ found[ii].rssi > best_signal
            /\ best_signal' = found[ii].rssi /\ best_conn' = cc
         \/ /\ ii \in DOMAIN found /\ Match(ii, cc) => ~(found[ii].rssi > best_signal)
            /\ UNCHANGED <<best_signal, best_conn>>
  BY LookLemma
<1>4. k \in Int /\ best_signal \in Nat /\ L \in Nat \ {0} /\ Conns = 1 .. L
  BY ConnsLemma DEF TypeOK, Conns
<1>5. \A i \in DOMAIN found : i \in Nat \ {0} /\ found[i].rssi \in Nat \ {0}
  BY FoundLemma, LenProperties
<1>6. PICK i0, c0 : i0 = ii /\ c0 = cc
  OBVIOUS
<1> HIDE DEF ii, cc, L
<1>7. best_signal' \in Nat /\ best_signal <= best_signal'
  BY <1>3, <1>4, <1>5
<1>8. ASSUME NEW i \in DOMAIN found, NEW c \in Conns,
             (i - 1) * L + (c - 1) < k + 1, Match(i, c)
      PROVE  found[i].rssi <= best_signal'
  <2>1. CASE (i - 1) * L + (c - 1) < k
    BY <1>2, <1>4, <1>5, <1>7, <1>8, <2>1
  <2>2. CASE ~((i - 1) * L + (c - 1) < k)
    <3>1. i - 1 \in Int /\ c - 1 \in 0 .. L - 1 /\ i0 - 1 \in Int /\ c0 - 1 \in 0 .. L - 1
      BY <1>3, <1>4, <1>5, <1>6
    <3>2. PICK a \in Int : a = L * (i - 1)
      BY <1>4, <3>1
    <3>3. a = (i - 1) * L
      BY <1>4, <3>1, <3>2
    <3>4. a + (c - 1) = k
      BY <1>4, <1>8, <2>2, <3>1, <3>3
    <3>5. L * (i - 1) + (c - 1) = L * (i0 - 1) + (c0 - 1)
      BY <1>3, <1>6, <3>2, <3>4
    <3>6. i - 1 = i0 - 1 /\ c - 1 = c0 - 1
      BY <1>4, <3>1, <3>5, PairLemma
    <3>7. i = ii /\ c = cc
      BY <1>3, <1>4, <1>5, <1>6, <3>6
    <3>8. QED
      BY <1>3, <1>4, <1>5, <1>8, <3>7
  <2>3. QED
    BY <2>1, <2>2
<1>9. IF best_conn' = 0
      THEN best_signal' = 0
      ELSE \E i \in DOMAIN found : Match(i, best_conn') /\ found[i].rssi = best_signal'
  <2>1. CASE UNCHANGED <<best_signal, best_conn>>
    BY <1>2, <2>1
  <2>2. CASE /\ ii \in DOMAIN found /\ Match(ii, cc)
             /\ best_signal' = found[ii].rssi /\ best_conn' = cc
    <3>1. best_conn' # 0
      BY <1>3, <1>4, <2>2
    <3>2. QED
      BY <2>2, <3>1
  <2>3. QED
    BY <1>3, <2>1, <2>2
<1>10. QED
  BY <1>1, <1>8, <1>9 DEF BestSoFar, Match, L

\* Every step does.
LEMMA BestStep ==
    TypeOK /\ IdleClean /\ CountSound /\ BestSoFar /\ [Next]_vars => BestSoFar'
<1> SUFFICES ASSUME TypeOK, IdleClean, CountSound, BestSoFar, [Next]_vars PROVE BestSoFar'
  OBVIOUS
<1>1. CASE ScanNetworks \/ ScanComplete
  <2>1. pc = "scan" /\ pc' \in {"loop", "look"} /\ UNCHANGED <<k, best_conn, best_signal>>
    BY <1>1, ScanStepLemma
  <2>2. k' = 0 /\ best_conn' = 0 /\ best_signal' = 0
    BY <2>1 DEF IdleClean
  <2>3. found' \in Seq(Result)
    BY RadioStep, ScanAssumption, EmptySeq DEF Result
  <2>4. ASSUME NEW i \in DOMAIN found', NEW c \in Conns
        PROVE  ~((i - 1) * Len(Memory) + (c - 1) < 0)
    <3>1. i - 1 \in Nat /\ c - 1 \in Nat /\ Len(Memory) \in Nat
      BY <2>3, LenProperties, ConnsLemma
    <3>2. (i - 1) * Len(Memory) \in Nat
      BY <3>1
    <3>3. QED
      BY <3>1, <3>2
  <2>5. QED
    BY <2>1, <2>2, <2>4 DEF BestSoFar
<1>2. CASE Look
  BY <1>2, LookKeepsBest
<1>3. CASE LookDone
  BY <1>3 DEF LookDone, choice, radio, BestSoFar, Match
<1>4. CASE (\E s \in Scans : ScanDone(s)) \/ ScanFails
  <2>1. scan = "running" /\ UNCHANGED loop /\ Len(found') < BYTE - 2
    BY <1>4, FoundLemma, ScanAssumption DEF ScanDone, ScanFails
  <2>2. pc \in {"look", "choose"} => n >= BYTE - 2
    BY <2>1 DEF CountSound
  <2>3. Len(found') \in Nat
    BY <1>4, FoundLemma, ScanAssumption, LenProperties DEF ScanDone, ScanFails
  <2>4. n \in Nat
    BY ScanAssumption DEF TypeOK
  <2>5. ~(pc' \in {"look", "choose"} /\ n' = Len(found'))
    BY <2>1, <2>2, <2>3, <2>4, ScanAssumption DEF loop, choice
  <2>6. QED
    BY <2>5 DEF BestSoFar
<1>5. CASE (\E d \in {0, 1} : Pass(d)) \/ PickNetwork \/ Fallback
  <2>1. pc' \in {"loop", "scan"}
    BY <1>5 DEF Pass, PickNetwork, Fallback, Return
  <2>2. QED
    BY <2>1 DEF BestSoFar
<1>6. CASE JoinSucceeds \/ JoinFails \/ LinkLost \/ HandleWifiEvent \/ UNCHANGED vars
  BY <1>6 DEF JoinSucceeds, JoinFails, LinkLost, HandleWifiEvent, loop, radio, choice, vars,
              BestSoFar, Match
<1>7. QED
  BY <1>1, <1>2, <1>3, <1>4, <1>5, <1>6 DEF Next, LoopStep

-----------------------------------------------------------------------------
(* The theorems *)

\* connect() finds nothing done and nothing on its way.
LEMMA InitInv == Init => IInv
<1> SUFFICES ASSUME Init PROVE IInv
  OBVIOUS
<1>1. 0 * Len(Memory) = 0
  BY ConnsLemma
<1>2. <<>> \in Seq({"got_ip", "disconnected"})
  BY EmptySeq
<1>3. TypeOK
  <2>1. {now, timeout, last_fallback} \subseteq Time /\ since \in 0 .. CONNECTION_TIMEOUT
    BY ClockAssumption DEF Init, Time
  <2>2. n \in 0 .. BYTE - 1 /\ k \in 0 .. n * Len(Memory) /\ best_signal \in Nat
    BY <1>1, ScanAssumption DEF Init
  <2>3. /\ {lapped, connect_status, scanning} \subseteq BOOLEAN
        /\ {current, best_conn, joining, link} \subseteq Conns \cup {0}
        /\ pc \in {"loop", "scan", "look", "choose"}
        /\ scan \in {"none", "running", "done"}
        /\ found \in Scans \cup {<<>>}
    BY DEF Init
  <2>4. QED
    BY <1>2, <2>1, <2>2, <2>3 DEF TypeOK, Init
<1>4. LastEventTells /\ IdleClean /\ CountSound /\ BestSoFar
  BY DEF Init, LastEventTells, IdleClean, CountSound, BestSoFar
<1>5. ScheduleSound /\ AttemptLeftAlone
  BY ClockAssumption DEF Init, ScheduleSound, AttemptLeftAlone
<1>6. QED
  BY <1>3, <1>4, <1>5 DEF IInv

\* Every step of the loop and of the WiFi task keeps the invariant.
LEMMA NextInv == IInv /\ [Next]_vars => IInv'
  BY TypeStep, EventStep, CountStep, BestStep, ScheduleStep DEF IInv

\* The invariant holds of every behaviour, however the WiFi task falls between the
\* steps of find_connection.
THEOREM WiFiInvariant == Spec => []IInv
  BY InitInv, NextInv, PTL DEF Spec

\* The clock, the indices of both loops and what the radio holds keep their types
\* (MC_Network.h:148-157).
THEOREM WiFiTypeCorrect == Spec => []TypeOK
<1>1. IInv => TypeOK
  BY DEF IInv
<1>2. QED
  BY <1>1, WiFiInvariant, PTL

\* connected() tells the truth once all events have arrived (MC_Network.h:69-100).
THEOREM WiFiStatusSettles == Spec => []StatusSettles
<1>1. IInv => StatusSettles
  BY DEF IInv, LastEventTells, StatusSettles
<1>2. QED
  BY <1>1, WiFiInvariant, PTL

\* find_connection picks the strongest configured network (MC_Network.h:148-158).
THEOREM WiFiPicksStrongest == Spec => []PicksStrongest
<1>1. IInv => PicksStrongest
  <2> SUFFICES ASSUME IInv, pc = "choose", n = Len(found)
               PROVE  IF Known(found) = {}
                      THEN best_conn = 0
                      ELSE \E i \in Known(found) :
                              /\ found[i].ssid = Memory[best_conn]
                              /\ \A j \in Known(found) : found[j].rssi <= found[i].rssi
    BY DEF PicksStrongest
  <2>1. TypeOK /\ best_conn \in Conns \cup {0}
    BY DEF IInv, TypeOK
  <2>2. /\ \A i \in DOMAIN found, c \in Conns :
              (i - 1) * Len(Memory) + (c - 1) < k /\ Match(i, c) => found[i].rssi <= best_signal
        /\ IF best_conn = 0
           THEN best_signal = 0
           ELSE \E i \in DOMAIN found : Match(i, best_conn) /\ found[i].rssi = best_signal
        /\ k = n * Len(Memory)
    BY DEF IInv, BestSoFar
  <2>3. ASSUME NEW i \in DOMAIN found, NEW c \in Conns
        PROVE  (i - 1) * Len(Memory) + (c - 1) < k
    <3>1. i \in 1 .. n /\ n \in Nat /\ c <= Len(Memory) /\ c \in Nat /\ Len(Memory) \in Nat
      BY <2>1, FoundLemma, LenProperties, ConnsLemma DEF Conns
    <3>2. (n - i) * Len(Memory) >= 0
      BY <3>1
    <3>3. (i - 1) * Len(Memory) + Len(Memory) + (n - i) * Len(Memory) = n * Len(Memory)
      BY <3>1
    <3>4. (i - 1) * Len(Memory) \in Int /\ (n - i) * Len(Memory) \in Int /\ n * Len(Memory) \in Int
      BY <3>1
    <3>5. QED
      BY <2>2, <3>1, <3>2, <3>3, <3>4
  <2>4. \A j \in Known(found) : found[j].rssi <= best_signal
    BY <2>2, <2>3 DEF Known, Match
  <2>5. \A j \in Known(found) : found[j].rssi \in Nat \ {0}
    BY <2>1, FoundLemma DEF Known
  <2>6. CASE best_conn = 0
    <3>1. Known(found) = {}
      BY <2>2, <2>4, <2>5, <2>6
    <3>2. QED
      BY <2>6, <3>1
  <2>7. CASE best_conn # 0
    <3>1. PICK i \in DOMAIN found : Match(i, best_conn) /\ found[i].rssi = best_signal
      BY <2>2, <2>7
    <3>2. i \in Known(found)
      BY <2>1, <2>7, <3>1 DEF Known, Match
    <3>3. QED
      BY <2>4, <3>1, <3>2 DEF Match
  <2>8. QED
    BY <2>6, <2>7
<1>2. QED
  BY <1>1, WiFiInvariant, PTL

\* An attempt has its time before the next look, unless that was scheduled across a
\* wrap (MC_Network.h:178, 253).
THEOREM WiFiAttemptLeftAlone == Spec => []AttemptLeftAlone
<1>1. IInv => AttemptLeftAlone
  BY DEF IInv
<1>2. QED
  BY <1>1, WiFiInvariant, PTL

\* The next look is late only if micros() wrapped before it (MC_Network.h:253).
THEOREM WiFiSilentOnlyAcrossWrap == Spec => []SilentOnlyAcrossWrap
<1>1. IInv => SilentOnlyAcrossWrap
  <2> SUFFICES ASSUME IInv, since >= CONNECTION_TIMEOUT, ~Ready(now) PROVE lapped
    BY DEF SilentOnlyAcrossWrap
  <2>1. /\ now \in Int /\ timeout \in Int /\ since \in Int
        /\ lapped \in BOOLEAN
        /\ ScheduleSound
    BY ClockAssumption DEF IInv, TypeOK, Time
  <2>2. QED
    BY <2>1, ClockAssumption DEF ScheduleSound, Ready
<1>2. QED
  BY <1>1, WiFiInvariant, PTL
=============================================================================
