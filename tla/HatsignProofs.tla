---------------------------- MODULE HatsignProofs ----------------------------
(* The hat sign's safety for every list length, every set of programs and     *)
(* heap objects and every reply: lists, ownership, reference counts.          *)
EXTENDS Hatsign, FiniteSetTheorems, SequenceTheorems, TLAPS

-----------------------------------------------------------------------------
(* The ticker lists *)

PreNames == {"network", "led", "zostayify", "flipper"}

\* fetch_queue's add of the flipper, spelt out for each list it may meet.
LEMMA AddFlipper ==
    /\ Append(<<"network">>, "flipper") = <<"network", "flipper">>
    /\ Append(<<"network", "led">>, "flipper") = <<"network", "led", "flipper">>
    /\ Append(BootList, "flipper") = <<"network", "led", "zostayify", "flipper">>
<1> DEFINE one == <<"network">>
           two == <<"network", "led">>
           three == <<"network", "led", "zostayify">>
<1>1. one \in Seq(PreNames) /\ two \in Seq(PreNames) /\ three \in Seq(PreNames)
  BY DEF PreNames
<1>2. "flipper" \in PreNames
  BY DEF PreNames
<1>3. Append(one, "flipper") = <<"network", "flipper">>
  <2>1. Len(Append(one, "flipper")) = 2 /\ Append(one, "flipper") \in Seq(PreNames)
    BY <1>1, <1>2, AppendProperties
  <2>2. Append(one, "flipper")[1] = "network" /\ Append(one, "flipper")[2] = "flipper"
    BY <1>1, <1>2, AppendProperties
  <2>3. <<"network", "flipper">> \in Seq(PreNames)
    BY DEF PreNames
  <2>4. \A k \in 1 .. 2 : Append(one, "flipper")[k] = <<"network", "flipper">>[k]
    BY <2>2
  <2>5. QED
    BY <2>1, <2>3, <2>4, SeqEqual
<1>4. Append(two, "flipper") = <<"network", "led", "flipper">>
  <2>1. Len(Append(two, "flipper")) = 3 /\ Append(two, "flipper") \in Seq(PreNames)
    BY <1>1, <1>2, AppendProperties
  <2>2. /\ Append(two, "flipper")[1] = "network" /\ Append(two, "flipper")[2] = "led"
        /\ Append(two, "flipper")[3] = "flipper"
    BY <1>1, <1>2, AppendProperties
  <2>3. <<"network", "led", "flipper">> \in Seq(PreNames)
    BY DEF PreNames
  <2>4. \A k \in 1 .. 3 : Append(two, "flipper")[k] = <<"network", "led", "flipper">>[k]
    BY <2>2
  <2>5. QED
    BY <2>1, <2>3, <2>4, SeqEqual
<1>5. Append(three, "flipper") = <<"network", "led", "zostayify", "flipper">>
  <2>1. Len(Append(three, "flipper")) = 4 /\ Append(three, "flipper") \in Seq(PreNames)
    BY <1>1, <1>2, AppendProperties
  <2>2. /\ Append(three, "flipper")[1] = "network" /\ Append(three, "flipper")[2] = "led"
        /\ Append(three, "flipper")[3] = "zostayify" /\ Append(three, "flipper")[4] = "flipper"
    BY <1>1, <1>2, AppendProperties
  <2>3. <<"network", "led", "zostayify", "flipper">> \in Seq(PreNames)
    BY DEF PreNames
  <2>4. \A k \in 1 .. 4 : Append(three, "flipper")[k] = <<"network", "led", "zostayify", "flipper">>[k]
    BY <2>2
  <2>5. QED
    BY <2>1, <2>3, <2>4, SeqEqual
<1>6. QED
  BY <1>3, <1>4, <1>5 DEF BootList

\* The halves remove() keeps, of the lists a reset may meet (Firmware.h:113-126).
LEMMA RemoveFlipper ==
    /\ Pre!FirstHalf(BootList) = <<"network">>
    /\ Pre!FirstHalf(<<"network", "led", "zostayify", "flipper">>) = <<"network", "led">>
<1>1. Pre!FirstHalf(BootList) = <<"network">>
  <2>1. Len(BootList) = 3 /\ BootList[1] = "network" /\ 3 \div 2 = 1
    BY DEF BootList
  <2>2. Pre!FirstHalf(BootList) = [k \in 1 .. 1 |-> BootList[k]]
    BY <2>1 DEF Pre!FirstHalf
  <2>3. QED
    BY <2>1, <2>2
<1>2. Pre!FirstHalf(<<"network", "led", "zostayify", "flipper">>) = <<"network", "led">>
  <2> DEFINE four == <<"network", "led", "zostayify", "flipper">>
  <2>1. Len(four) = 4 /\ four[1] = "network" /\ four[2] = "led" /\ 4 \div 2 = 2
    OBVIOUS
  <2>2. Pre!FirstHalf(four) = [k \in 1 .. 2 |-> four[k]]
    BY <2>1 DEF Pre!FirstHalf
  <2>3. QED
    BY <2>1, <2>2
<1>3. QED
  BY <1>1, <1>2

\* replace_program on a list of one (nametag.cpp:105-143).
LEMMA ReplaceVM == ASSUME NEW old, NEW new
                   PROVE Append(Post!FirstHalf(<<old>>), new) = <<new>>
<1>1. Len(<<old>>) \div 2 = 0
  OBVIOUS
<1>2. Post!FirstHalf(<<old>>) = << >>
  BY <1>1 DEF Post!FirstHalf
<1>3. QED
  BY <1>2

-----------------------------------------------------------------------------
(* The program list: how often an object is listed *)

Places(s, b) == {k \in DOMAIN s : s[k] = b}
Times(s, b) == Cardinality(Places(s, b))

\* Counting entries is counting positions, of which there are Len(s).
LEMMA TimesBound == ASSUME NEW s \in Seq(Blocks), NEW b
                    PROVE /\ IsFiniteSet(Places(s, b))
                          /\ Times(s, b) \in 0 .. Len(s)
                          /\ Times(s, b) = 0 <=> \A k \in DOMAIN s : s[k] # b
<1>1. DOMAIN s = 1 .. Len(s) /\ Len(s) \in Nat
  OBVIOUS
<1>2. IsFiniteSet(1 .. Len(s)) /\ Cardinality(1 .. Len(s)) = Len(s)
  BY <1>1, FS_Interval
<1>3. Places(s, b) \subseteq 1 .. Len(s)
  BY <1>1 DEF Places
<1>4. IsFiniteSet(Places(s, b)) /\ Cardinality(Places(s, b)) <= Len(s)
  BY <1>2, <1>3, FS_Subset
<1>5. Cardinality(Places(s, b)) \in Nat
  BY <1>4, FS_CardinalityType
<1>6. Cardinality(Places(s, b)) = 0 <=> Places(s, b) = {}
  BY <1>4, FS_EmptySet
<1>7. QED
  BY <1>1, <1>4, <1>5, <1>6 DEF Times, Places

\* A further entry counts for its own object and for no other.
LEMMA TimesAppend == ASSUME NEW s \in Seq(Blocks), NEW e \in Blocks, NEW b
                     PROVE Times(Append(s, e), b) = Times(s, b) + (IF e = b THEN 1 ELSE 0)
<1>1. /\ DOMAIN Append(s, e) = 1 .. Len(s) + 1
      /\ \A k \in 1 .. Len(s) : Append(s, e)[k] = s[k]
      /\ Append(s, e)[Len(s) + 1] = e
      /\ DOMAIN s = 1 .. Len(s) /\ Len(s) \in Nat
  BY AppendProperties
<1>2. Len(s) + 1 \notin Places(s, b)
  BY <1>1 DEF Places
<1>0. IsFiniteSet(Places(s, b)) /\ Times(s, b) \in 0 .. Len(s)
  BY TimesBound
<1>3. CASE e = b
  <2>1. Places(Append(s, e), b) = Places(s, b) \cup {Len(s) + 1}
    BY <1>1, <1>3 DEF Places
  <2>2. QED
    BY <1>0, <1>2, <1>3, <2>1, FS_AddElement DEF Times
<1>4. CASE e # b
  <2>1. Places(Append(s, e), b) = Places(s, b)
    BY <1>1, <1>4 DEF Places
  <2>2. QED
    BY <1>0, <1>1, <1>4, <2>1 DEF Times
<1>5. QED
  BY <1>3, <1>4

-----------------------------------------------------------------------------
(* The initial states and the steps that leave lists, heap and VM alone *)

PhaseNames == {"loop", "pre", "main", "fetch", "signal", "halt", "post"}

\* Power on (nametag.h, main.cpp).
LEMMA InitInv == Init => IInv
<1> SUFFICES ASSUME Init PROVE IInv
  OBVIOUS
<1>1. pre_tickers = BootList /\ post_tickers = <<"builtin">> /\ ~was_reset /\ ~fetched
  BY DEF Init
<1>2. BootList \in Seq(PreNames) /\ Len(BootList) = 3
  BY DEF BootList, PreNames
<1>3. post_tickers \in Seq({"builtin", "web"}) /\ Len(post_tickers) = 1
  BY <1>1
<1>4. programs = << >> /\ << >> \in Seq(Blocks) /\ Len(<< >>) = 0
  BY DEF Init
<1>5. heap \in [Blocks -> {Free} \cup [id : ProgramIds, refcount : 1 .. MaxList]]
  BY DEF Init, NoHeap
<1>6. vm = Builtin /\ web_binary = None
  BY DEF Init
<1>7. vm \in [vm : {"builtin", "web"}, halted : BOOLEAN, program : Blocks \cup {None}]
  BY <1>6 DEF Builtin
<1>8. MaxList \in Nat /\ MaxItems \in Nat /\ index \in 0 .. MaxList /\ items \in 0 .. MaxItems
  BY BoundAssumption DEF Init
<1>9. pre_turn \in 0 .. Len(pre_tickers) + 1 /\ post_turn \in 0 .. Len(post_tickers) + 1
  BY <1>1, <1>2, <1>3 DEF Init
<1>10. TypeOK
  <2>1. /\ {connected, fetched, refetched, was_reset} \subseteq BOOLEAN
        /\ phase \in {"loop", "pre", "main", "fetch", "signal", "halt", "post"}
        /\ signal \in {FS_NONE, FS_FLIP, FS_RESET}
    BY DEF Init
  <2>2. pre_tickers \in Seq(PreNames) /\ web_binary \in Blocks \cup {None}
    BY <1>1, <1>2, <1>6
  <2>3. programs \in Seq(Blocks) /\ Len(programs) <= MaxList
    BY <1>4, <1>8
  <2>4. QED
    BY <1>3, <1>5, <1>7, <1>8, <1>9, <2>1, <2>2, <2>3 DEF TypeOK, PreNames
<1>11. Entries = {}
  BY <1>4 DEF Entries
<1>12. CountsSound
  BY <1>11 DEF CountsSound
<1>13. VmOwned /\ RunsListedProgram
  BY <1>6 DEF VmOwned, RunsListedProgram, Builtin
<1>14. PreTickersShape /\ post_tickers = <<vm.vm>>
  BY <1>1, <1>6 DEF PreTickersShape, Builtin
<1>15. signal # FS_RESET /\ phase # "fetch"
  BY DEF Init, FS_NONE, FS_RESET
<1>16. QED
  BY <1>10, <1>12, <1>13, <1>14, <1>15 DEF IInv

\* A reboot puts the same values in place.
LEMMA RebootInv == ASSUME IInv, Reboot PROVE IInv'
<1>1. Init'
  BY DEF IInv, TypeOK, Reboot, Init
<1>2. QED
  BY <1>1, InitInv, PTL

\* Polls, idle passes, failed fetches and WiFi events.
LEMMA QuietInv ==
    ASSUME IInv,
           UNCHANGED <<pre_tickers, post_tickers, fetched, vm, web_binary, store, refetched,
                       was_reset>>,
           connected' \in BOOLEAN,
           pre_turn' \in 0 .. Len(pre_tickers) + 1,
           post_turn' \in 0 .. Len(post_tickers) + 1,
           phase' \in PhaseNames,
           phase' = "fetch" => phase = "fetch",
           signal' \in {FS_NONE, FS_FLIP, FS_RESET},
           signal' = FS_RESET => ~was_reset
    PROVE  IInv'
<1>1. TypeOK'
  BY DEF IInv, TypeOK, PhaseNames, store
<1>2. CountsSound'
  <2>1. CountsSound /\ programs' = programs /\ heap' = heap
    BY DEF IInv, store
  <2>2. Entries' = Entries /\ \A b : Occurrences(b)' = Occurrences(b)
    BY <2>1 DEF Entries, Occurrences
  <2>3. QED
    BY <2>1, <2>2 DEF CountsSound
<1>3. RunsListedProgram'
  BY DEF IInv, RunsListedProgram, Entries, store
<1>4. QED
  BY <1>1, <1>2, <1>3 DEF IInv, PreTickersShape, VmOwned

-----------------------------------------------------------------------------
(* Loop, polls, and the ticks that only pass *)

\* The VM's tick may halt it; who owns it and whose words it runs stays.
LEMMA PollVMInv == ASSUME IInv, NEW halts \in BOOLEAN, PollVM(halts) PROVE IInv'
<1>1. vm' = [vm EXCEPT !.halted = vm.halted \/ halts]
  BY DEF PollVM
<1>2. vm \in [vm : {"builtin", "web"}, halted : BOOLEAN, program : Blocks \cup {None}]
  BY DEF IInv, TypeOK
<1>3. /\ vm' \in [vm : {"builtin", "web"}, halted : BOOLEAN, program : Blocks \cup {None}]
      /\ vm'.vm = vm.vm /\ vm'.program = vm.program
  BY <1>1, <1>2
<1>4. /\ post_tickers' = post_tickers /\ post_turn \in 1 .. Len(post_tickers)
      /\ post_turn' = post_turn + 1 /\ phase' = "post"
      /\ UNCHANGED <<connected, pre_tickers, pre_turn, fetched, signal, web_binary, programs,
                     index, heap, items, refetched, was_reset>>
  BY DEF PollVM, Post!Poll, store
<1>5. Len(post_tickers) = 1
  BY DEF IInv
<1>6. post_turn' \in 0 .. Len(post_tickers) + 1
  BY <1>4, <1>5
<1>7. TypeOK'
  BY <1>3, <1>4, <1>6 DEF IInv, TypeOK
<1>8. Entries' = Entries /\ \A b : Occurrences(b)' = Occurrences(b)
  BY <1>4 DEF Entries, Occurrences
<1>9. CountsSound' /\ RunsListedProgram'
  BY <1>3, <1>4, <1>8 DEF IInv, CountsSound, RunsListedProgram
<1>10. QED
  BY <1>3, <1>4, <1>7, <1>9 DEF IInv, PreTickersShape, VmOwned

\* Everything else that leaves lists, heap and VM alone.
LEMMA PassInv ==
    ASSUME IInv,
           \/ Loop \/ PreDone \/ Idle \/ MainTick \/ FetchFails \/ NoSignal \/ PostDone
           \/ WiFiEvent
           \/ \E t \in {"network", "led"} : PollOther(t)
           \/ \E packet \in {FS_NONE, FS_FLIP, FS_RESET} : PollListener(packet)
           \/ \E ready \in BOOLEAN : PollFlipper(ready)
    PROVE  IInv'
<1>1. /\ connected \in BOOLEAN /\ phase \in PhaseNames
      /\ pre_turn \in 0 .. Len(pre_tickers) + 1 /\ Len(pre_tickers) \in Nat
      /\ post_turn \in 0 .. Len(post_tickers) + 1 /\ Len(post_tickers) \in Nat
      /\ signal \in {FS_NONE, FS_FLIP, FS_RESET}
      /\ signal = FS_RESET => ~was_reset
  BY DEF IInv, TypeOK, PhaseNames
<1>2. CASE WiFiEvent
  BY <1>1, <1>2, QuietInv DEF WiFiEvent, lists, store
<1>3. CASE Loop
  BY <1>1, <1>3, QuietInv DEF Loop, Pre!StartRun, PhaseNames, store
<1>4. CASE PreDone
  BY <1>1, <1>4, QuietInv DEF PreDone, Pre!EndRun, PhaseNames, store
<1>5. CASE Idle
  BY <1>1, <1>5, QuietInv DEF Idle, Post!StartRun, PhaseNames, store
<1>6. CASE MainTick \/ FetchFails \/ NoSignal
  BY <1>1, <1>6, QuietInv DEF MainTick, FetchFails, NoSignal, lists, PhaseNames, store
<1>7. CASE PostDone
  BY <1>1, <1>7, QuietInv DEF PostDone, Post!EndRun, PhaseNames, store
<1>8. CASE \E t \in {"network", "led"} : PollOther(t)
  BY <1>1, <1>8, QuietInv DEF PollOther, Pre!Poll, PhaseNames, store
<1>9. CASE \E ready \in BOOLEAN : PollFlipper(ready)
  BY <1>1, <1>9, QuietInv DEF PollFlipper, Pre!Poll, PhaseNames, store, FS_FLIP, FS_RESET
<1>10. CASE \E packet \in {FS_NONE, FS_FLIP, FS_RESET} : PollListener(packet)
  <2>1. PICK packet \in {FS_NONE, FS_FLIP, FS_RESET} : PollListener(packet)
    BY <1>10
  <2>2. pre_turn \in 1 .. Len(pre_tickers) /\ pre_tickers[pre_turn] = "zostayify"
    BY <2>1 DEF PollListener, Pre!Poll
  <2>3. ~was_reset
    <3>1. CASE was_reset
      BY <2>2, <3>1 DEF IInv, PreTickersShape
    <3>2. QED
      BY <3>1
  <2>4. QED
    BY <1>1, <2>1, <2>3, QuietInv DEF PollListener, Pre!Poll, PhaseNames, store
<1>11. QED
  BY <1>2, <1>3, <1>4, <1>5, <1>6, <1>7, <1>8, <1>9, <1>10

-----------------------------------------------------------------------------
(* The fetch *)

HeapObject == [id : ProgramIds, refcount : 1 .. MaxList]

\* What the invariant says of the list and the heap, apart from the rest.
LEMMA StoreFacts ==
    ASSUME IInv
    PROVE  /\ programs \in Seq(Blocks) /\ Len(programs) \in 0 .. MaxList /\ MaxList \in Nat \ {0}
           /\ heap \in [Blocks -> {Free} \cup HeapObject]
           /\ \A b : Occurrences(b) = Times(programs, b)
           /\ \A b \in Blocks : b \in Entries <=> Occurrences(b) # 0
           /\ Entries \subseteq Blocks
           /\ \A b \in Entries : /\ heap[b] \in HeapObject /\ heap[b].refcount = Occurrences(b)
                                 /\ Occurrences(b) \in 1 .. MaxList
<1>1. programs \in Seq(Blocks) /\ Len(programs) <= MaxList /\ MaxList \in Nat \ {0}
  BY BoundAssumption DEF IInv, TypeOK
<1>2. heap \in [Blocks -> {Free} \cup HeapObject]
  BY DEF IInv, TypeOK, HeapObject
<1>3. \A b : Occurrences(b) = Times(programs, b)
  BY DEF Occurrences, Times, Places
<1>4. \A b : Times(programs, b) = 0 <=> \A k \in DOMAIN programs : programs[k] # b
  BY <1>1, TimesBound
<1>5. \A b \in Blocks : b \in Entries <=> Occurrences(b) # 0
  BY <1>3, <1>4 DEF Entries
<1>6. Entries \subseteq Blocks
  BY <1>1 DEF Entries
<1>7. ASSUME NEW b \in Entries PROVE heap[b] \in HeapObject /\ heap[b].refcount = Occurrences(b)
  <2>1. heap[b].refcount = Occurrences(b)
    BY DEF IInv, CountsSound
  <2>2. Free.refcount = 0
    BY DEF Free
  <2>3. heap[b] # Free
    BY <1>5, <1>6, <2>1, <2>2
  <2>4. QED
    BY <1>2, <1>6, <2>1, <2>3
<1>8. Len(programs) \in 0 .. MaxList
  BY <1>1
<1>9. QED
  BY <1>1, <1>2, <1>3, <1>5, <1>6, <1>7, <1>8 DEF HeapObject

\* clear_programs leaves an empty list and nothing in it to count
\* (nametag-fetch.cpp:12-20).
LEMMA MainTickFetchInv == ASSUME IInv, MainTickFetch PROVE IInv'
<1>1. /\ heap' = Cleared /\ programs' = << >> /\ index' = 0 /\ items' = 0
      /\ refetched' = TRUE /\ phase' = "fetch" /\ ~fetched
      /\ UNCHANGED <<connected, pre_tickers, pre_turn, post_tickers, post_turn, fetched, signal,
                     vm, web_binary, was_reset>>
  BY DEF MainTickFetch, lists
<1>2. Cleared \in [Blocks -> {Free} \cup HeapObject]
  <2>1. SUFFICES ASSUME NEW b \in Blocks
                 PROVE  \/ Occurrences(b) = 0 /\ heap[b] \in {Free} \cup HeapObject
                        \/ Occurrences(b) # 0 /\ heap[b].refcount = Occurrences(b)
    BY DEF Cleared
  <2>2. QED
    BY StoreFacts
<1>3. << >> \in Seq(Blocks) /\ Len(<< >>) = 0
  OBVIOUS
<1>4. TypeOK'
  BY <1>1, <1>2, <1>3, BoundAssumption DEF IInv, TypeOK, HeapObject
<1>5. Entries' = {}
  BY <1>1 DEF Entries
<1>6. CountsSound' /\ RunsListedProgram'
  BY <1>1, <1>5 DEF CountsSound, RunsListedProgram
<1>7. QED
  BY <1>1, <1>4, <1>6 DEF IInv, PreTickersShape, VmOwned

\* What a step of the fetch leaves alone: it need only keep list and heap in order.
LEMMA FetchStepInv ==
    ASSUME IInv, phase = "fetch", phase' \in {"fetch", "signal"},
           UNCHANGED <<connected, pre_tickers, pre_turn, post_tickers, post_turn, fetched, signal,
                       vm, web_binary, index, refetched, was_reset>>,
           items' \in 0 .. MaxItems,
           programs' \in Seq(Blocks), Len(programs') <= MaxList,
           heap' \in [Blocks -> {Free} \cup HeapObject],
           CountsSound'
    PROVE  IInv'
<1>1. TypeOK'
  BY DEF IInv, TypeOK, HeapObject
<1>2. RunsListedProgram'
  BY DEF IInv, RunsListedProgram
<1>3. QED
  BY <1>1, <1>2 DEF IInv, PreTickersShape, VmOwned

\* The next entry of the reply, of which there are at most MaxItems.
LEMMA NextItemFacts ==
    ASSUME IInv, NextItem
    PROVE  /\ phase = "fetch" /\ phase' = "fetch" /\ items' \in 0 .. MaxItems
           /\ UNCHANGED <<connected, pre_tickers, pre_turn, post_tickers, post_turn, fetched,
                          signal, vm, web_binary, index, refetched, was_reset>>
<1>1. items \in 0 .. MaxItems /\ MaxItems \in Nat
  BY BoundAssumption DEF IInv, TypeOK
<1>2. QED
  BY <1>1 DEF NextItem, lists

\* An entry at the end of a list that is not full.
LEMMA EntryAppended ==
    ASSUME IInv, ~Full, NEW e \in Blocks, programs' = Append(programs, e)
    PROVE  /\ programs' \in Seq(Blocks) /\ Len(programs') \in 1 .. MaxList
           /\ Entries' = Entries \cup {e}
           /\ \A b : Occurrences(b)' = Occurrences(b) + (IF e = b THEN 1 ELSE 0)
           /\ Occurrences(e)' \in 1 .. MaxList
<1>1. programs \in Seq(Blocks) /\ Len(programs) \in Nat /\ Len(programs) < MaxList /\ MaxList \in Nat
  BY StoreFacts DEF Full
<1>2. /\ programs' \in Seq(Blocks) /\ Len(programs') = Len(programs) + 1
      /\ \A k \in 1 .. Len(programs) : programs'[k] = programs[k]
      /\ programs'[Len(programs) + 1] = e
  BY <1>1, AppendProperties
<1>3. Len(programs') \in 1 .. MaxList
  BY <1>1, <1>2
<1>4. DOMAIN programs = 1 .. Len(programs) /\ DOMAIN programs' = 1 .. Len(programs) + 1
  BY <1>1, <1>2
<1>5. Entries' = Entries \cup {e}
  BY <1>1, <1>2, <1>4 DEF Entries
<1>6. \A b : Occurrences(b) = Times(programs, b) /\ Occurrences(b)' = Times(programs', b)
  BY DEF Occurrences, Times, Places
<1>7. \A b : Occurrences(b)' = Occurrences(b) + (IF e = b THEN 1 ELSE 0)
  BY <1>1, <1>6, TimesAppend
<1>8. Occurrences(e) \in 0 .. Len(programs)
  BY <1>1, <1>6, TimesBound
<1>9. Occurrences(e)' \in 1 .. MaxList
  BY <1>1, <1>7, <1>8
<1>10. QED
  BY <1>2, <1>3, <1>5, <1>7, <1>9

\* readd_program takes one more reference to the object it lists again
\* (nametag-fetch.cpp:39-53).
LEMMA ReaddProgramInv == ASSUME IInv, NEW id \in ProgramIds, ReaddProgram(id) PROVE IInv'
<1>1. NextItem /\ ~Full
  BY DEF ReaddProgram
<1>2. PICK k \in Listed(id) : /\ heap' = [heap EXCEPT ![programs[k]].refcount = @ + 1]
                              /\ programs' = Append(programs, programs[k])
  BY DEF ReaddProgram
<1>3. PICK found \in Blocks : found = programs[k] /\ found \in Entries
  BY StoreFacts DEF Listed, Entries
<1>4. /\ programs' \in Seq(Blocks) /\ Len(programs') <= MaxList
      /\ Entries' = Entries \cup {found}
      /\ \A b : Occurrences(b)' = Occurrences(b) + (IF found = b THEN 1 ELSE 0)
      /\ Occurrences(found)' \in 1 .. MaxList
  BY <1>1, <1>2, <1>3, EntryAppended
<1>5. heap[found] \in HeapObject /\ heap[found].refcount = Occurrences(found)
  BY <1>3, StoreFacts
<1>6. heap'[found] = [heap[found] EXCEPT !.refcount = heap[found].refcount + 1]
  BY <1>2, <1>3, StoreFacts
<1>7. /\ heap'[found].id = heap[found].id
      /\ heap'[found].refcount = Occurrences(found)'
      /\ heap'[found] \in HeapObject
  BY <1>4, <1>5, <1>6 DEF HeapObject
<1>8. \A b \in Blocks : b # found => heap'[b] = heap[b]
  BY <1>2, <1>3, StoreFacts
<1>9. heap' \in [Blocks -> {Free} \cup HeapObject]
  <2>1. heap' = [b \in Blocks |-> heap'[b]]
    BY <1>2, StoreFacts
  <2>2. \A b \in Blocks : heap'[b] \in {Free} \cup HeapObject
    BY <1>7, <1>8, StoreFacts
  <2>3. QED
    BY <2>1, <2>2
<1>10. Entries' = Entries
  BY <1>3, <1>4
<1>11. CountsSound'
  <2>1. CountsSound
    BY DEF IInv
  <2>2. \A b \in Entries : heap'[b].refcount = Occurrences(b)'
    BY <1>4, <1>7, <1>8, StoreFacts
  <2>3. \A b \in Entries : heap'[b].id = heap[b].id
    BY <1>7, <1>8, StoreFacts
  <2>4. QED
    BY <1>10, <2>1, <2>2, <2>3 DEF CountsSound
<1>12. QED
  BY <1>1, <1>4, <1>9, <1>11, NextItemFacts, FetchStepInv

\* add_program lists a new object once; no listed one has its id, and none is at its
\* address (nametag-fetch.cpp:22-37, 116-183).
LEMMA AddProgramInv ==
    ASSUME IInv, NEW id \in ProgramIds, NEW e \in Blocks, AddProgram(id, e) PROVE IInv'
<1>1. /\ NextItem /\ ~Full /\ Listed(id) = {} /\ heap[e] = Free
      /\ heap' = [heap EXCEPT ![e] = [id |-> id, refcount |-> 1]]
      /\ programs' = Append(programs, e)
  BY DEF AddProgram
<1>2. e \notin Entries
  <2>1. heap[e].refcount = 0
    BY <1>1 DEF Free
  <2>2. QED
    BY <2>1, StoreFacts DEF HeapObject
<1>3. /\ programs' \in Seq(Blocks) /\ Len(programs') <= MaxList
      /\ Entries' = Entries \cup {e}
      /\ \A b : Occurrences(b)' = Occurrences(b) + (IF e = b THEN 1 ELSE 0)
  BY <1>1, EntryAppended
<1>4. Occurrences(e)' = 1
  BY <1>2, <1>3, StoreFacts
<1>5. heap'[e] = [id |-> id, refcount |-> 1] /\ \A b \in Blocks : b # e => heap'[b] = heap[b]
  BY <1>1, StoreFacts
<1>6. heap' \in [Blocks -> {Free} \cup HeapObject]
  <2>1. [id |-> id, refcount |-> 1] \in HeapObject
    BY BoundAssumption DEF HeapObject
  <2>2. QED
    BY <1>1, <2>1, StoreFacts
<1>7. \A b \in Entries : heap[b].id # id
  BY <1>1 DEF Entries, Listed
<1>8. CountsSound'
  <2>1. CountsSound
    BY DEF IInv
  <2>2. \A b \in Entries \cup {e} : heap'[b].refcount = Occurrences(b)'
    BY <1>2, <1>3, <1>4, <1>5, StoreFacts
  <2>3. \A b, c \in Entries \cup {e} : heap'[b].id = heap'[c].id => b = c
    BY <1>2, <1>5, <1>7, <2>1, StoreFacts DEF CountsSound
  <2>4. QED
    BY <1>3, <2>2, <2>3 DEF CountsSound
<1>9. QED
  BY <1>1, <1>3, <1>6, <1>8, NextItemFacts, FetchStepInv

\* A program that is not added.
LEMMA SkipProgramInv == ASSUME IInv, NEW id \in ProgramIds, SkipProgram(id) PROVE IInv'
<1>1. NextItem /\ programs' = programs /\ heap' = heap
  BY DEF SkipProgram
<1>2. Entries' = Entries /\ \A b : Occurrences(b)' = Occurrences(b)
  BY <1>1 DEF Entries, Occurrences
<1>3. CountsSound'
  BY <1>1, <1>2 DEF IInv, CountsSound
<1>4. QED
  BY <1>1, <1>3, StoreFacts, NextItemFacts, FetchStepInv

\* An object lost on a failed read belongs to no entry (nametag-fetch.cpp:155-162).
LEMMA ShortReadInv ==
    ASSUME IInv, NEW id \in ProgramIds, NEW e \in Blocks, ShortRead(id, e) PROVE IInv'
<1>1. /\ phase = "fetch" /\ phase' = "signal" /\ heap[e] = Free
      /\ heap' = [heap EXCEPT ![e] = [id |-> id, refcount |-> 1]]
      /\ UNCHANGED <<connected, pre_tickers, pre_turn, post_tickers, post_turn, fetched, signal,
                     vm, web_binary, programs, index, items, refetched, was_reset>>
  BY DEF ShortRead, lists
<1>2. e \notin Entries
  <2>1. heap[e].refcount = 0
    BY <1>1 DEF Free
  <2>2. QED
    BY <2>1, StoreFacts DEF HeapObject
<1>3. heap' \in [Blocks -> {Free} \cup HeapObject]
  <2>1. [id |-> id, refcount |-> 1] \in HeapObject
    BY BoundAssumption DEF HeapObject
  <2>2. QED
    BY <1>1, <2>1, StoreFacts
<1>4. Entries' = Entries /\ \A b : Occurrences(b)' = Occurrences(b)
  BY <1>1 DEF Entries, Occurrences
<1>5. \A b \in Entries : heap'[b] = heap[b]
  BY <1>1, <1>2, StoreFacts
<1>6. CountsSound'
  BY <1>4, <1>5 DEF IInv, CountsSound
<1>7. items' \in 0 .. MaxItems
  BY <1>1 DEF IInv, TypeOK
<1>8. QED
  BY <1>1, <1>3, <1>6, <1>7, StoreFacts, FetchStepInv

\* The queue is fetched: the flipper joins whichever list a reset has left
\* (nametag.cpp:76-82).
LEMMA FetchDoneInv == ASSUME IInv, FetchDone PROVE IInv'
<1>1. /\ phase = "fetch" /\ phase' = "signal" /\ fetched' = TRUE
      /\ pre_tickers' = Append(pre_tickers, "flipper") /\ pre_turn = 0 /\ pre_turn' = 0
      /\ UNCHANGED <<connected, post_tickers, post_turn, signal, vm, web_binary, programs, index,
                     heap, items, refetched, was_reset>>
  BY DEF FetchDone, Pre!Add, store
<1>2. ~fetched
  BY <1>1 DEF IInv
<1>3. PreTickersShape'
  BY <1>1, <1>2, AddFlipper DEF IInv, PreTickersShape
<1>4. pre_tickers' \in Seq(PreNames) /\ Len(pre_tickers') \in Nat
  BY <1>1, AppendProperties DEF IInv, TypeOK, PreNames
<1>5. TypeOK'
  BY <1>1, <1>4 DEF IInv, TypeOK, PreNames
<1>6. Entries' = Entries /\ \A b : Occurrences(b)' = Occurrences(b)
  BY <1>1 DEF Entries, Occurrences
<1>7. CountsSound' /\ RunsListedProgram'
  BY <1>1, <1>6 DEF IInv, CountsSound, RunsListedProgram
<1>8. QED
  BY <1>1, <1>3, <1>5, <1>7 DEF IInv, VmOwned

-----------------------------------------------------------------------------
(* The signal and the halted VM *)

\* replace_program leaves one VM in the list, begun, owned if it was made here
\* (nametag.cpp:105-143).
LEMMA ReplaceProgramFacts ==
    ASSUME IInv, NEW binary \in Blocks \cup {None}, ReplaceProgram(binary)
    PROVE  /\ vm' \in [vm : {"builtin", "web"}, halted : BOOLEAN, program : Blocks \cup {None}]
           /\ post_tickers' = <<vm'.vm>> /\ post_tickers' \in Seq({"builtin", "web"})
           /\ Len(post_tickers') = 1
           /\ web_binary' = binary /\ VmOwned'
           /\ vm'.vm = "web" => vm'.program = binary /\ binary # None
           /\ refetched' = FALSE
<1>1. /\ vm' = IF binary = None THEN Builtin ELSE Web(binary)
      /\ web_binary' = binary /\ refetched' = FALSE
      /\ post_tickers' = Append(Post!FirstHalf(post_tickers), vm'.vm)
  BY DEF ReplaceProgram
<1>2. /\ vm'.vm \in {"builtin", "web"} /\ vm'.program = binary
      /\ vm'.vm = "web" <=> binary # None
      /\ vm' \in [vm : {"builtin", "web"}, halted : BOOLEAN, program : Blocks \cup {None}]
  BY <1>1 DEF Builtin, Web
<1>3. post_tickers = <<vm.vm>>
  BY DEF IInv
<1>4. post_tickers' = <<vm'.vm>>
  BY <1>1, <1>3, ReplaceVM
<1>5. <<vm'.vm>> \in Seq({"builtin", "web"}) /\ Len(<<vm'.vm>>) = 1
  BY <1>2
<1>6. QED
  BY <1>1, <1>2, <1>4, <1>5 DEF VmOwned

\* A flip puts up a listed program, or the built-in one for an empty list
\* (nametag.cpp:84-89, nametag-fetch.h:70-75).
LEMMA TakeFlipInv == ASSUME IInv, TakeFlip PROVE IInv'
<1>1. /\ ReplaceProgram(NextProgram) /\ index' = Wrapped + 1 /\ signal' = FS_NONE
      /\ phase' = "halt"
      /\ UNCHANGED <<connected, pre_tickers, pre_turn, post_turn, fetched, programs, heap, items,
                     was_reset>>
  BY DEF TakeFlip
<1>2. /\ index \in 0 .. MaxList /\ Len(programs) \in 0 .. MaxList /\ MaxList \in Nat \ {0}
      /\ programs \in Seq(Blocks)
  BY StoreFacts DEF IInv, TypeOK
<1>3. index' \in 0 .. MaxList
  BY <1>1, <1>2 DEF Wrapped
<1>4. PICK binary \in Blocks \cup {None} :
          /\ binary = NextProgram
          /\ binary # None => /\ Wrapped + 1 \in DOMAIN programs
                             /\ binary = programs[Wrapped + 1]
  <2>1. CASE Wrapped < Len(programs)
    <3>1. Wrapped + 1 \in DOMAIN programs
      BY <1>2, <2>1 DEF Wrapped
    <3>2. NextProgram = programs[Wrapped + 1] /\ NextProgram \in Blocks
      BY <1>2, <2>1, <3>1 DEF NextProgram
    <3>3. QED
      BY <3>1, <3>2
  <2>2. CASE ~(Wrapped < Len(programs))
    BY <2>2 DEF NextProgram
  <2>3. QED
    BY <2>1, <2>2
<1>5. ReplaceProgram(binary)
  BY <1>1, <1>4
<1>6. /\ vm' \in [vm : {"builtin", "web"}, halted : BOOLEAN, program : Blocks \cup {None}]
      /\ post_tickers' = <<vm'.vm>> /\ post_tickers' \in Seq({"builtin", "web"})
      /\ Len(post_tickers') = 1
      /\ web_binary' = binary /\ VmOwned'
      /\ vm'.vm = "web" => vm'.program = binary /\ binary # None
      /\ refetched' = FALSE
  BY <1>5, ReplaceProgramFacts
<1>7. post_turn \in 0 .. 2
  BY DEF IInv, TypeOK
<1>8. TypeOK'
  BY <1>1, <1>3, <1>6, <1>7 DEF IInv, TypeOK
<1>9. Entries' = Entries /\ \A b : Occurrences(b)' = Occurrences(b)
  BY <1>1 DEF Entries, Occurrences
<1>10. CountsSound'
  BY <1>1, <1>9 DEF IInv, CountsSound
<1>11. RunsListedProgram'
  <2>1. ASSUME vm'.vm = "web"
        PROVE  /\ index' \in DOMAIN programs' /\ vm'.program = programs'[index']
               /\ heap'[vm'.program] # Free
    <3>1. /\ index' \in DOMAIN programs' /\ vm'.program = programs'[index']
          /\ vm'.program = binary /\ heap' = heap /\ programs' = programs
      BY <1>1, <1>4, <1>6, <2>1
    <3>2. binary \in Entries
      BY <3>1 DEF Entries
    <3>3. heap[binary].refcount # 0
      BY <3>2, StoreFacts
    <3>4. QED
      BY <3>1, <3>3 DEF Free
  <2>2. QED
    BY <2>1 DEF RunsListedProgram
<1>12. signal' # FS_RESET
  BY <1>1 DEF FS_NONE, FS_RESET
<1>13. QED
  BY <1>1, <1>6, <1>8, <1>10, <1>11, <1>12 DEF IInv, PreTickersShape

\* A reset is acted on once: the half it leaves has no listener (nametag.cpp:90-94).
LEMMA TakeResetInv == ASSUME IInv, TakeReset PROVE IInv'
<1>1. /\ signal = FS_RESET /\ fetched' = FALSE /\ signal' = FS_NONE /\ was_reset' = TRUE
      /\ phase' = "halt" /\ pre_turn = 0 /\ pre_turn' = 0
      /\ pre_tickers' = Pre!FirstHalf(pre_tickers)
      /\ UNCHANGED <<connected, post_tickers, post_turn, vm, web_binary, programs, index, heap,
                     items, refetched>>
  BY DEF TakeReset, Pre!Remove, store
<1>2. pre_tickers \in {<<"network", "led", "zostayify", "flipper">>, BootList}
  BY <1>1 DEF IInv, PreTickersShape
<1>3. pre_tickers' \in {<<"network", "led">>, <<"network">>}
  BY <1>1, <1>2, RemoveFlipper
<1>4. pre_tickers' \in Seq(PreNames) /\ Len(pre_tickers') \in Nat
  <2>1. <<"network">> \in Seq(PreNames) /\ <<"network", "led">> \in Seq(PreNames)
    BY DEF PreNames
  <2>2. pre_tickers' \in Seq(PreNames)
    BY <1>3, <2>1
  <2>3. QED
    BY <2>2
<1>5. TypeOK'
  <2>1. pre_turn' \in 0 .. Len(pre_tickers') + 1
    BY <1>1, <1>4
  <2>2. {connected, fetched, refetched, was_reset}' \subseteq BOOLEAN
    BY <1>1 DEF IInv, TypeOK
  <2>3. signal' \in {FS_NONE, FS_FLIP, FS_RESET}
    BY <1>1
  <2>4. QED
    BY <1>1, <1>4, <2>1, <2>2, <2>3 DEF IInv, TypeOK, PreNames
<1>6. Entries' = Entries /\ \A b : Occurrences(b)' = Occurrences(b)
  BY <1>1 DEF Entries, Occurrences
<1>7. CountsSound' /\ RunsListedProgram'
  BY <1>1, <1>6 DEF IInv, CountsSound, RunsListedProgram
<1>8. signal' # FS_RESET
  BY <1>1 DEF FS_NONE, FS_RESET
<1>9. QED
  BY <1>1, <1>3, <1>5, <1>7, <1>8 DEF IInv, PreTickersShape, VmOwned

\* The end of the main tick (nametag.cpp:97-101).
LEMMA RecoverInv == ASSUME IInv, Recover PROVE IInv'
<1>1. /\ phase' = "post" /\ post_turn' = 1
      /\ UNCHANGED <<connected, pre_tickers, pre_turn, fetched, signal, programs, index, heap,
                     items, was_reset>>
  BY DEF Recover, store
<1>2. Entries' = Entries /\ \A b : Occurrences(b)' = Occurrences(b)
  BY <1>1 DEF Entries, Occurrences
<1>3. CountsSound'
  BY <1>1, <1>2 DEF IInv, CountsSound
<1>4. CASE vm.halted
  <2>1. ReplaceProgram(None)
    BY <1>4 DEF Recover
  <2>2. /\ vm' \in [vm : {"builtin", "web"}, halted : BOOLEAN, program : Blocks \cup {None}]
        /\ post_tickers' = <<vm'.vm>> /\ post_tickers' \in Seq({"builtin", "web"})
        /\ Len(post_tickers') = 1
        /\ web_binary' = None /\ VmOwned' /\ vm'.vm # "web" /\ refetched' = FALSE
    BY <2>1, ReplaceProgramFacts
  <2>3. TypeOK'
    <3>1. post_turn' \in 0 .. Len(post_tickers') + 1 /\ web_binary' \in Blocks \cup {None}
      BY <1>1, <2>2
    <3>2. {connected, fetched, refetched, was_reset}' \subseteq BOOLEAN
      BY <1>1, <2>2 DEF IInv, TypeOK
    <3>3. QED
      BY <1>1, <2>2, <3>1, <3>2 DEF IInv, TypeOK
  <2>4. QED
    BY <1>1, <1>3, <2>2, <2>3 DEF IInv, PreTickersShape, RunsListedProgram
<1>5. CASE ~vm.halted
  <2>1. UNCHANGED <<vm, web_binary, post_tickers, refetched>>
    BY <1>5 DEF Recover
  <2>2. Len(post_tickers) = 1
    BY DEF IInv
  <2>3. TypeOK'
    BY <1>1, <2>1, <2>2 DEF IInv, TypeOK
  <2>4. RunsListedProgram'
    BY <1>1, <1>2, <2>1 DEF IInv, RunsListedProgram
  <2>5. QED
    BY <1>1, <1>3, <2>1, <2>3, <2>4 DEF IInv, PreTickersShape, VmOwned
<1>6. QED
  BY <1>4, <1>5

-----------------------------------------------------------------------------
(* Every step keeps the invariant *)

LEMMA NextInv == IInv /\ [Next]_vars => IInv'
<1> SUFFICES ASSUME IInv, [Next]_vars PROVE IInv'
  OBVIOUS
<1>1. CASE \/ Loop \/ PreDone \/ Idle \/ MainTick \/ FetchFails \/ NoSignal \/ PostDone
           \/ WiFiEvent
           \/ \E t \in {"network", "led"} : PollOther(t)
           \/ \E packet \in {FS_NONE, FS_FLIP, FS_RESET} : PollListener(packet)
           \/ \E ready \in BOOLEAN : PollFlipper(ready)
  BY <1>1, PassInv
<1>2. CASE \E halts \in BOOLEAN : PollVM(halts)
  BY <1>2, PollVMInv
<1>3. CASE MainTickFetch
  BY <1>3, MainTickFetchInv
<1>4. CASE \E id \in ProgramIds : ReaddProgram(id) \/ SkipProgram(id)
  BY <1>4, ReaddProgramInv, SkipProgramInv
<1>5. CASE \E id \in ProgramIds, b \in Blocks : AddProgram(id, b) \/ ShortRead(id, b)
  BY <1>5, AddProgramInv, ShortReadInv
<1>6. CASE FetchDone
  BY <1>6, FetchDoneInv
<1>7. CASE TakeFlip
  BY <1>7, TakeFlipInv
<1>8. CASE TakeReset
  BY <1>8, TakeResetInv
<1>9. CASE Recover
  BY <1>9, RecoverInv
<1>10. CASE UseDeleted \/ Trap
  BY <1>10, RebootInv DEF UseDeleted, Trap
<1>11. CASE UNCHANGED vars
  <2>1. UNCHANGED <<pre_tickers, post_tickers, fetched, vm, web_binary, store, refetched, was_reset,
                    connected, pre_turn, post_turn, phase, signal>>
    BY <1>11 DEF vars, lists
  <2>2. /\ connected \in BOOLEAN /\ phase \in PhaseNames
        /\ pre_turn \in 0 .. Len(pre_tickers) + 1
        /\ post_turn \in 0 .. Len(post_tickers) + 1
        /\ signal \in {FS_NONE, FS_FLIP, FS_RESET}
        /\ signal = FS_RESET => ~was_reset
    BY DEF IInv, TypeOK, PhaseNames
  <2>3. QED
    BY <2>1, <2>2, QuietInv
<1>12. QED
  BY <1>1, <1>2, <1>3, <1>4, <1>5, <1>6, <1>7, <1>8, <1>9, <1>10, <1>11 DEF Next, LoopStep

\* All of the hat sign's safety rests on this one invariant.
THEOREM HatsignInvariant == Spec => []IInv
<1>1. Init => IInv
  BY InitInv
<1>2. IInv /\ [Next]_vars => IInv'
  BY NextInv
<1>3. QED
  BY <1>1, <1>2, PTL DEF Spec

\* Every variable keeps its type; with it, the list of programs never outgrows its
\* array, nor index (nametag-fetch.h:60-75).
THEOREM HatsignTypeCorrect == Spec => []TypeOK
<1>1. IInv => TypeOK
  BY DEF IInv
<1>2. QED
  BY <1>1, HatsignInvariant, PTL

\* One flipper in the list exactly while the queue counts as fetched, the network
\* first, one VM, the current one (nametag.cpp:70-143).
THEOREM HatsignListsSound == Spec => []ListsSound
<1>1. ASSUME IInv PROVE ListsSound
  <2> DEFINE flippers == {k \in DOMAIN pre_tickers : pre_tickers[k] = "flipper"}
  <2>1. pre_tickers # << >> /\ Head(pre_tickers) = "network"
    BY <1>1 DEF IInv, PreTickersShape, BootList
  <2>2. fetched => \E k \in 1 .. 4 : flippers = {k}
    <3>1. CASE was_reset /\ fetched /\ pre_tickers = <<"network", "flipper">>
      <4>1. flippers = {2}
        BY <3>1
      <4>2. QED
        BY <4>1
    <3>2. CASE was_reset /\ fetched /\ pre_tickers = <<"network", "led", "flipper">>
      <4>1. flippers = {3}
        BY <3>2
      <4>2. QED
        BY <4>1
    <3>3. CASE ~was_reset /\ fetched
      <4>1. pre_tickers = <<"network", "led", "zostayify", "flipper">>
        BY <1>1, <3>3 DEF IInv, PreTickersShape
      <4>2. flippers = {4}
        BY <4>1
      <4>3. QED
        BY <4>2
    <3>4. QED
      BY <1>1, <3>1, <3>2, <3>3 DEF IInv, PreTickersShape
  <2>3. ~fetched => flippers = {}
    BY <1>1 DEF IInv, PreTickersShape, BootList
  <2> HIDE DEF flippers
  <2>4. Cardinality(flippers) = IF fetched THEN 1 ELSE 0
    <3>1. CASE fetched
      BY <2>2, <3>1, FS_Singleton
    <3>2. CASE ~fetched
      BY <2>3, <3>2, FS_EmptySet
    <3>3. QED
      BY <3>1, <3>2
  <2> USE DEF flippers
  <2>5. QED
    BY <1>1, <2>1, <2>4 DEF IInv, ListsSound
<1>2. QED
  BY <1>1, HatsignInvariant, PTL

\* The VM that clear_program deletes is one that replace_program made.
THEOREM HatsignVmOwned == Spec => []VmOwned
<1>1. IInv => VmOwned
  BY DEF IInv
<1>2. QED
  BY <1>1, HatsignInvariant, PTL

\* Reference counts are entry counts, so clearing the list frees each object once.
THEOREM HatsignCountsSound == Spec => []CountsSound
<1>1. IInv => CountsSound
  BY DEF IInv
<1>2. QED
  BY <1>1, HatsignInvariant, PTL

\* A VM runs the words of the entry before the index, and they are there, unless a
\* fetch began after it was put up.
THEOREM HatsignRunsListedProgram == Spec => []RunsListedProgram
<1>1. IInv => RunsListedProgram
  BY DEF IInv
<1>2. QED
  BY <1>1, HatsignInvariant, PTL

\* No packet reaches a sign that was reset (Firmware.h:113-126).
THEOREM HatsignDeafAfterReset == Spec => []DeafAfterReset
<1>1. IInv => DeafAfterReset
  BY DEF IInv, PreTickersShape, DeafAfterReset
<1>2. QED
  BY <1>1, HatsignInvariant, PTL
=============================================================================
