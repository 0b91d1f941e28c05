----------------------------- MODULE WiFiNetwork -----------------------------
(***************************************************************************)
(* MC_Network (device/lib/MC_Network) on the ESP32: find_connection, which *)
(* the loop calls on every pass while there is no connection, and the      *)
(* events of the WiFi task, which fall between any two of its steps.       *)
(*                                                                         *)
(* The radio is the environment, as this code uses it: a scan runs in the  *)
(* background and its results replace the former ones; begin() drops the   *)
(* link and tries to join; joins and links fail at any time; events come   *)
(* in order, but late.  disconnect() is left out: no firmware calls it.    *)
(***************************************************************************)
EXTENDS Integers, Sequences

CONSTANTS
    Memory,             \* memory[0 .. conns - 1]: the configured SSIDs
    Scans,              \* what a scan may find: sequences of networks
    InRange,            \* the configured networks that can be joined
    CLOCK,              \* micros() counts modulo CLOCK
    BYTE,               \* a byte counts modulo BYTE
    CONNECTION_TIMEOUT,
    FALLBACK_PERIOD,
    MaxEvents           \* bound on the events on their way

Conns == 1 .. Len(Memory)

ASSUME MemoryAssumption == Memory \in Seq(STRING) /\ Memory # <<>>
ASSUME RangeAssumption  == InRange \subseteq Conns
ASSUME ScanAssumption   == /\ BYTE \in Nat /\ BYTE > 2
                           /\ Scans \subseteq Seq([ssid : STRING, rssi : Nat \ {0}])
                           /\ \A s \in Scans : Len(s) < BYTE - 2
ASSUME ClockAssumption  == /\ CLOCK \in Nat
                           /\ CONNECTION_TIMEOUT \in 1 .. CLOCK - 1
                           /\ FALLBACK_PERIOD \in 1 .. CLOCK - 1

VARIABLES
    now,            \* micros(), in units of several seconds
    timeout, last_fallback,
    connect_status,
    scanning,
    current,        \* 0 is the null pointer
    pc,             \* where find_connection is; "loop" is outside
    n, k,           \* k counts the turns of both its loops
    best_conn, best_signal,
    scan, found,    \* the radio: its scan, "none", "running" or "done", and the results,
    joining, link,  \* the connection it tries and the one it has,
    events,         \* and what it has to tell
    since, lapped   \* history: time since a network was picked; did micros() wrap

schedule == <<now, timeout, last_fallback, since, lapped>>
choice == <<n, k, best_conn, best_signal>>
radio == <<scan, found, joining, link, events>>
vars  == <<schedule, connect_status, scanning, current, pc, choice, radio>>

Running == -1
Failed  == -2

\* The result of a scan is kept in a variable of type byte.
AsByte(v) == v % BYTE

\* setup() calls connect(), and with it find_connection, before the first pass.
Init ==
    /\ now = 0 /\ timeout = 0 /\ last_fallback = 0
    /\ connect_status = FALSE /\ scanning = FALSE /\ current = 0
    /\ pc = "scan"
    /\ n = 0 /\ k = 0 /\ best_conn = 0 /\ best_signal = 0
    /\ scan = "none" /\ found = <<>> /\ joining = 0 /\ link = 0 /\ events = <<>>
    /\ since = CONNECTION_TIMEOUT /\ lapped = FALSE

-----------------------------------------------------------------------------
(* The loop: ready_for_tick and find_connection *)

\* (wrong: strict)
ReadyAfter(time) == time > timeout

Ready(time) == time >= timeout

\* One pass of the loop, d units of time after the last.
Pass(d) ==
    /\ pc = "loop"
    /\ now' = (now + d) % CLOCK
    /\ since' = IF since + d < CONNECTION_TIMEOUT THEN since + d ELSE CONNECTION_TIMEOUT
    /\ lapped' = (lapped \/ now + d >= CLOCK)
    /\ pc' = IF Ready(now') /\ ~connect_status THEN "scan" ELSE "loop"
    /\ UNCHANGED <<timeout, last_fallback, connect_status, scanning, current, choice, radio>>

\* The counted networks, or a result that is none: as a byte, Running and Failed are
\* neither of the values the code compares it with, and count as networks.
Counted(v) ==
    /\ n' = IF AsByte(v) \in {Running, Failed} THEN 0 ELSE AsByte(v)
    /\ pc' = IF n' = 0 THEN "loop" ELSE "look"
    /\ UNCHANGED <<k, best_conn, best_signal>>

\* scanNetworks(true): while a scan runs there is nothing to start.
ScanNetworks ==
    /\ pc = "scan"
    /\ ~scanning
    /\ scanning' = TRUE
    /\ \/ scan = "running" /\ Counted(Running) /\ UNCHANGED <<scan, found>>
       \/ scan # "running" /\ Counted(Running) /\ scan' = "running" /\ found' = <<>>
       \/ scan # "running" /\ Counted(Failed) /\ scan' = "none" /\ found' = <<>>
    /\ UNCHANGED <<schedule, connect_status, current, joining, link, events>>

\* (wrong: scanning stays set)
ScanCompleteAgain ==
    /\ pc = "scan"
    /\ scanning
    /\ Counted(CASE scan = "running" -> Running
                 [] scan = "done"    -> Len(found)
                 [] scan = "none"    -> Failed)
    /\ UNCHANGED <<schedule, connect_status, scanning, current, radio>>

ScanComplete ==
    /\ pc = "scan"
    /\ scanning
    /\ scanning' = FALSE
    /\ Counted(CASE scan = "running" -> Running
                 [] scan = "done"    -> Len(found)
                 [] scan = "none"    -> Failed)
    /\ UNCHANGED <<schedule, connect_status, current, radio>>

\* (wrong: the strongest so far is not remembered)
LookForgetful ==
    /\ pc = "look"
    /\ k < n * Len(Memory)
    /\ LET i == (k \div Len(Memory)) + 1
           c == (k % Len(Memory)) + 1
       IN best_conn' = IF i \in DOMAIN found /\ found[i].ssid = Memory[c]
                       THEN c ELSE best_conn
    /\ k' = k + 1
    /\ UNCHANGED <<schedule, connect_status, scanning, current, pc, n, best_signal, radio>>

\* One turn of the inner loop: network i against memory[c].  A network that the
\* radio has no result for has an empty SSID.
Look ==
    /\ pc = "look"
    /\ k < n * Len(Memory)
    /\ LET i == (k \div Len(Memory)) + 1
           c == (k % Len(Memory)) + 1
       IN IF i \in DOMAIN found /\ found[i].ssid = Memory[c] /\ found[i].rssi > best_signal
          THEN best_signal' = found[i].rssi /\ best_conn' = c
          ELSE UNCHANGED <<best_signal, best_conn>>
    /\ k' = k + 1
    /\ UNCHANGED <<schedule, connect_status, scanning, current, pc, n, radio>>

LookDone ==
    /\ pc = "look"
    /\ k = n * Len(Memory)
    /\ pc' = "choose"
    /\ UNCHANGED <<schedule, connect_status, scanning, current, choice, radio>>

\* The locals of find_connection are gone.
Return == pc' = "loop" /\ n' = 0 /\ k' = 0 /\ best_conn' = 0 /\ best_signal' = 0

\* begin_connection: WiFi.begin(current) gives up what the radio has or tries.
BeginConnection(c) ==
    /\ Len(events) <= MaxEvents
    /\ joining' = c
    /\ link' = 0
    /\ \/ link = 0 /\ UNCHANGED events
       \/ (link # 0 \/ joining # 0) /\ events' = Append(events, "disconnected")

\* (wrong: the attempt is given no time)
PickNetworkAtOnce ==
    /\ pc = "choose"
    /\ best_conn # 0
    /\ timeout' = now
    /\ since' = 0 /\ lapped' = FALSE
    /\ current' = best_conn
    /\ BeginConnection(best_conn)
    /\ Return
    /\ UNCHANGED <<now, last_fallback, connect_status, scanning, scan, found>>

\* A network was found, pick it and connect.
PickNetwork ==
    /\ pc = "choose"
    /\ best_conn # 0
    /\ timeout' = (now + CONNECTION_TIMEOUT) % CLOCK
    /\ since' = 0 /\ lapped' = FALSE
    /\ current' = best_conn
    /\ BeginConnection(best_conn)
    /\ Return
    /\ UNCHANGED <<now, last_fallback, connect_status, scanning, scan, found>>

\* None was found: the first one of the memory, every FALLBACK_PERIOD.
Fallback ==
    /\ pc = "choose"
    /\ best_conn = 0
    /\ current' = 1
    /\ IF (last_fallback + FALLBACK_PERIOD) % CLOCK < now
       THEN BeginConnection(1) /\ last_fallback' = now
       ELSE UNCHANGED <<joining, link, events, last_fallback>>
    /\ Return
    /\ UNCHANGED <<now, timeout, since, lapped, connect_status, scanning, scan, found>>

-----------------------------------------------------------------------------
(* The WiFi task *)

loop == <<schedule, connect_status, scanning, current, pc, choice>>

ScanDone(s) == scan = "running" /\ scan' = "done" /\ found' = s
               /\ UNCHANGED <<loop, joining, link, events>>
ScanFails   == scan = "running" /\ scan' = "none"
               /\ UNCHANGED <<loop, found, joining, link, events>>

JoinSucceeds ==
    /\ joining \in InRange
    /\ link' = joining /\ joining' = 0
    /\ events' = Append(events, "got_ip")
    /\ UNCHANGED <<loop, scan, found>>

JoinFails ==
    /\ joining # 0
    /\ Len(events) < MaxEvents
    /\ joining' = 0
    /\ events' = Append(events, "disconnected")
    /\ UNCHANGED <<loop, link, scan, found>>

\* The link is lost; for some reasons the library joins again by itself.
LinkLost ==
    /\ link # 0
    /\ Len(events) < MaxEvents
    /\ link' = 0 /\ joining' \in {0, link}
    /\ events' = Append(events, "disconnected")
    /\ UNCHANGED <<loop, scan, found>>

\* (wrong: a lost connection is not noticed)
HandleWifiEventUp ==
    /\ events # <<>>
    /\ connect_status' = (connect_status \/ Head(events) = "got_ip")
    /\ events' = Tail(events)
    /\ UNCHANGED <<schedule, scanning, current, pc, choice, scan, found, joining, link>>

\* handle_wifi_event; the event of an association without an address is only logged.
HandleWifiEvent ==
    /\ events # <<>>
    /\ connect_status' = (Head(events) = "got_ip")
    /\ events' = Tail(events)
    /\ UNCHANGED <<schedule, scanning, current, pc, choice, scan, found, joining, link>>

-----------------------------------------------------------------------------
LoopStep ==
    \/ \E d \in {0, 1} : Pass(d)
    \/ ScanNetworks
    \/ ScanComplete
    \/ Look
    \/ LookDone
    \/ PickNetwork
    \/ Fallback

Next ==
    \/ LoopStep
    \/ \E s \in Scans : ScanDone(s)
    \/ ScanFails
    \/ JoinSucceeds
    \/ JoinFails
    \/ LinkLost
    \/ HandleWifiEvent

Spec == Init /\ [][Next]_vars

Known(s) == {i \in DOMAIN s : \E c \in Conns : s[i].ssid = Memory[c]}

\* The loop never stops and time passes; events arrive; of the joins begun again and
\* again with a network in range some succeed; of the scans asked for again and again
\* some start, and of those some show a configured network and end between scanNetworks
\* and scanComplete, since the radio knows nothing of the parity of passes.
FairSpec ==
    /\ Spec
    /\ WF_vars(LoopStep)
    /\ SF_vars(Pass(1))
    /\ WF_vars(HandleWifiEvent)
    /\ SF_vars(JoinSucceeds)
    /\ SF_vars(ScanNetworks /\ scan' = "running")
    /\ SF_vars(scanning /\ \E s \in Scans : Known(s) # {} /\ ScanDone(s))

-----------------------------------------------------------------------------
(* Properties *)

Time == 0 .. CLOCK - 1

TypeOK ==
    /\ {now, timeout, last_fallback} \subseteq Time
    /\ since \in 0 .. CONNECTION_TIMEOUT
    /\ {lapped, connect_status, scanning} \subseteq BOOLEAN
    /\ {current, best_conn, joining, link} \subseteq Conns \cup {0}
    /\ pc \in {"loop", "scan", "look", "choose"}
    /\ n \in 0 .. BYTE - 1
    /\ k \in 0 .. n * Len(Memory)
    /\ best_signal \in Nat
    /\ scan \in {"none", "running", "done"}
    /\ found \in Scans \cup {<<>>}
    /\ events \in Seq({"got_ip", "disconnected"})

\* Whatever find_connection tears down and begins while events of earlier links are
\* still on their way, once they have all arrived connected() tells whether there is
\* a link (MC_Network.h:69-100).
StatusSettles == events = <<>> => (connect_status <=> link # 0)

\* When the scan was over before its networks were counted, the connection picked is
\* a configured one that no other configured network in the results outshines, and
\* none is picked only if there is none (MC_Network.h:148-158).
PicksStrongest ==
    pc = "choose" /\ n = Len(found) =>
        IF Known(found) = {}
        THEN best_conn = 0
        ELSE \E i \in Known(found) :
                /\ found[i].ssid = Memory[best_conn]
                /\ \A j \in Known(found) : found[j].rssi <= found[i].rssi

\* An attempt to join a network that was found is left alone for CONNECTION_TIMEOUT,
\* unless the schedule of the next look wrapped (MC_Network.h:178, 253).
AttemptLeftAlone ==
    pc # "loop" => since >= CONNECTION_TIMEOUT \/ timeout < CONNECTION_TIMEOUT

\* A disconnected sign stops looking for longer than that in one case only: micros()
\* wrapped behind the schedule (MC_Network.h:253).
SilentOnlyAcrossWrap ==
    since >= CONNECTION_TIMEOUT /\ ~Ready(now) => lapped

\* The comment in find_connection, "No configured network was found", over the branch
\* that falls back to memory[0].
NoConfiguredNetworkFound ==
    pc = "choose" /\ best_conn = 0 => scan # "running" /\ Known(found) = {}

\* However links are lost and attempts fail, the sign is connected again, although
\* the fallback and the alternation of its two scan calls keep getting in the way.
Reconnects == ~connect_status ~> connect_status
=============================================================================
