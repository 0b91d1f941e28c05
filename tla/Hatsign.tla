------------------------------- MODULE Hatsign -------------------------------
(***************************************************************************)
(* The hat sign (device/hatsign): the firmware loop of NameTag with its    *)
(* two ticker lists, the UDP listener and the flipper that signal it, the  *)
(* fetcher that holds the queue of web programs on the heap, and the       *)
(* virtual machine that runs one of them or the built-in program.          *)
(*                                                                         *)
(* The lists are TickerList's; of a VM only what the firmware sees is kept *)
(* (module VM has the rest), of a timer only that it may be ready.  HTTP   *)
(* and the network are the environment: a request fails anywhere, a reply  *)
(* lists any programs, packets of any kind arrive, the connection comes    *)
(* and goes between any two steps, as the WiFi task's events do.           *)
(***************************************************************************)
EXTENDS Integers, Sequences, FiniteSets

CONSTANTS
    ProgramIds,     \* programs the service has
    Blocks,         \* heap addresses of WebProgramInfo objects
    None,           \* the null pointer
    MaxList,        \* length of NameTagFetch::programs
    MaxItems,       \* bound on the entries of one reply
    MaxLeaks        \* bound on the objects given up on a short read

ASSUME NoneAssumption  == None \notin Blocks
ASSUME BoundAssumption == {MaxList, MaxItems, MaxLeaks} \subseteq Nat /\ MaxList > 0
ASSUME HeapAssumption  == IsFiniteSet(Blocks) /\ Cardinality(Blocks) >= MaxList + MaxLeaks

VARIABLES
    connected,      \* network.connected()
    pre_tickers, pre_turn,
    post_tickers, post_turn,
    phase,          \* "loop", "pre", "main", "fetch", "signal", "halt", "post"
    fetched,
    signal,         \* NameTagFlipper::flipper
    vm,             \* which VM, whether it has halted, whose words it runs
    web_binary,
    programs,       \* NameTagFetch::programs[0 .. length - 1]
    index,
    heap,           \* the objects: refcount 0 is free memory
    items,          \* entries of the reply dealt with
    refetched,      \* history: a fetch began since vm was put up
    was_reset       \* history: a reset was acted on since power on

lists == <<pre_tickers, pre_turn, post_tickers, post_turn>>
store == <<programs, index, heap, items>>
vars  == <<connected, lists, phase, fetched, signal, vm, web_binary, store, refetched, was_reset>>

Pre  == INSTANCE TickerList WITH list <- pre_tickers, turn <- pre_turn,
            Tickers <- {"network", "led", "zostayify", "flipper"}
Post == INSTANCE TickerList WITH list <- post_tickers, turn <- post_turn,
            Tickers <- {"builtin", "web"}

FS_NONE  == "none"
FS_FLIP  == "flip"
FS_RESET == "reset"

Builtin == [vm |-> "builtin", halted |-> FALSE, program |-> None]
Web(b)  == [vm |-> "web", halted |-> FALSE, program |-> b]
Free    == [id |-> None, refcount |-> 0]

-----------------------------------------------------------------------------
(* Power on, and what sends the sign back to it *)

BootList == <<"network", "led", "zostayify">>
NoHeap   == [b \in Blocks |-> Free]

\* The constructor and start().  Global objects start out zeroed, so web_binary and
\* the flipper's signal, which no constructor sets, are null.
Init ==
    /\ connected \in BOOLEAN
    /\ pre_tickers = BootList /\ pre_turn = 0
    /\ post_tickers = <<"builtin">> /\ post_turn = 0
    /\ phase = "loop"
    /\ fetched = FALSE
    /\ signal = FS_NONE
    /\ vm = Builtin /\ web_binary = None
    /\ programs = <<>> /\ index = 0 /\ heap = NoHeap /\ items = 0
    /\ refetched = FALSE /\ was_reset = FALSE

\* The processor traps and restarts.
Reboot ==
    /\ pre_tickers' = BootList /\ pre_turn' = 0
    /\ post_tickers' = <<"builtin">> /\ post_turn' = 0
    /\ phase' = "loop"
    /\ fetched' = FALSE
    /\ signal' = FS_NONE
    /\ vm' = Builtin /\ web_binary' = None
    /\ programs' = <<>> /\ index' = 0 /\ heap' = NoHeap /\ items' = 0
    /\ refetched' = FALSE /\ was_reset' = FALSE
    /\ UNCHANGED connected

\* The WiFi task connects or disconnects, between any two steps of the loop.
WiFiEvent == connected' = ~connected /\ UNCHANGED <<lists, phase, fetched, signal, vm,
                                                   web_binary, store, refetched, was_reset>>

-----------------------------------------------------------------------------
(* Firmware::loop: the pre-tickers, the main tick if it is due, the post-tickers *)

Loop ==
    /\ phase = "loop"
    /\ phase' = "pre"
    /\ Pre!StartRun
    /\ UNCHANGED <<connected, post_tickers, post_turn, fetched, signal, vm, web_binary, store,
                   refetched, was_reset>>

\* The network and the LED: nothing the sign reads changes but by WiFiEvent.
PollOther(t) ==
    /\ phase = "pre"
    /\ Pre!Poll(t)
    /\ UNCHANGED <<connected, post_tickers, post_turn, phase, fetched, signal, vm, web_binary,
                   store, refetched, was_reset>>

\* UdpListener::tick: one packet at most, and only while connected.  A packet of 21
\* bytes means flip, one of 5 means reset, any other nothing; the signal has one slot.
PollListener(packet) ==
    /\ phase = "pre"
    /\ Pre!Poll("zostayify")
    /\ packet # FS_NONE => connected
    /\ signal' = IF packet = FS_NONE THEN signal ELSE packet
    /\ UNCHANGED <<connected, post_tickers, post_turn, phase, fetched, vm, web_binary, store,
                   refetched, was_reset>>

\* NameTagFlipper::tick, every 30 seconds while it is in the list.
PollFlipper(ready) ==
    /\ phase = "pre"
    /\ Pre!Poll("flipper")
    /\ signal' = IF ready THEN FS_FLIP ELSE signal
    /\ UNCHANGED <<connected, post_tickers, post_turn, phase, fetched, vm, web_binary, store,
                   refetched, was_reset>>

PreDone ==
    /\ phase = "pre"
    /\ Pre!EndRun
    /\ phase' = "main"
    /\ UNCHANGED <<connected, post_tickers, post_turn, fetched, signal, vm, web_binary, store,
                   refetched, was_reset>>

\* The main tick is not due.
Idle ==
    /\ phase = "main"
    /\ phase' = "post"
    /\ Post!StartRun
    /\ UNCHANGED <<connected, pre_tickers, pre_turn, fetched, signal, vm, web_binary, store,
                   refetched, was_reset>>

\* The VM's tick: it runs on, it halts, or it traps.  Module VM has the cases: the
\* built-in program may only exhaust its stack, a web program may also divide by
\* zero, and one whose memory was freed may do anything.
PollVM(halts) ==
    /\ phase = "post"
    /\ Post!Poll(vm.vm)
    /\ vm' = [vm EXCEPT !.halted = @ \/ halts]
    /\ UNCHANGED <<connected, pre_tickers, pre_turn, phase, fetched, signal, web_binary, store,
                   refetched, was_reset>>

Trap == phase = "post" /\ post_turn = 1 /\ vm.vm = "web" /\ ~vm.halted /\ Reboot

PostDone ==
    /\ phase = "post"
    /\ Post!EndRun
    /\ phase' = "loop"
    /\ UNCHANGED <<connected, pre_tickers, pre_turn, fetched, signal, vm, web_binary, store,
                   refetched, was_reset>>

-----------------------------------------------------------------------------
(* NameTag::tick, first part: fetch the queue *)

Entries == {programs[k] : k \in DOMAIN programs}
Occurrences(b) == Cardinality({k \in DOMAIN programs : programs[k] = b})
Allocated == {b \in Blocks : heap[b] # Free}
Leaked    == {b \in Allocated : Occurrences(b) = 0}

\* clear_programs(): one refdec per entry, and delete at zero.
Cleared ==
    [b \in Blocks |-> IF Occurrences(b) = 0 THEN heap[b]
                      ELSE IF heap[b].refcount = Occurrences(b) THEN Free
                      ELSE [heap[b] EXCEPT !.refcount = @ - Occurrences(b)]]

\* (wrong: the cleared list keeps its length)
MainTickFetchKeepsLength ==
    /\ phase = "main"
    /\ ~fetched /\ connected
    /\ heap' = Cleared /\ index' = 0 /\ items' = 0
    /\ refetched' = TRUE
    /\ phase' = "fetch"
    /\ UNCHANGED <<connected, lists, fetched, signal, vm, web_binary, programs, was_reset>>

\* fetch_queue() starts by clearing the list.
MainTickFetch ==
    /\ phase = "main"
    /\ ~fetched /\ connected
    /\ heap' = Cleared /\ programs' = <<>> /\ index' = 0 /\ items' = 0
    /\ refetched' = TRUE
    /\ phase' = "fetch"
    /\ UNCHANGED <<connected, lists, fetched, signal, vm, web_binary, was_reset>>

MainTick ==
    /\ phase = "main"
    /\ fetched \/ ~connected
    /\ phase' = "signal"
    /\ UNCHANGED <<connected, lists, fetched, signal, vm, web_binary, store, refetched, was_reset>>

NextItem ==
    /\ phase = "fetch"
    /\ items < MaxItems
    /\ items' = items + 1
    /\ UNCHANGED <<connected, lists, phase, fetched, signal, vm, web_binary, index, refetched,
                   was_reset>>

Full == Len(programs) >= MaxList
Listed(id) == {k \in DOMAIN programs : heap[programs[k]].id = id}

\* (wrong: the program is entered again without a reference)
ReaddProgramUncounted(id) ==
    /\ NextItem
    /\ ~Full
    /\ \E k \in Listed(id) :
          /\ \A j \in Listed(id) : k <= j
          /\ programs' = Append(programs, programs[k])
    /\ UNCHANGED heap

\* readd_program(id) finds the program in the list and enters it again.
ReaddProgram(id) ==
    /\ NextItem
    /\ ~Full
    /\ \E k \in Listed(id) :
          /\ \A j \in Listed(id) : k <= j
          /\ heap' = [heap EXCEPT ![programs[k]].refcount = @ + 1]
          /\ programs' = Append(programs, programs[k])

\* (wrong: add_program without its test of length)
AddProgramUnchecked(id, b) ==
    /\ NextItem
    /\ Full \/ Listed(id) = {}
    /\ heap[b] = Free
    /\ heap' = [heap EXCEPT ![b] = [id |-> id, refcount |-> 1]]
    /\ programs' = Append(programs, b)

\* A program not yet listed is downloaded into a new object and added.
AddProgram(id, b) ==
    /\ NextItem
    /\ ~Full /\ Listed(id) = {}
    /\ heap[b] = Free
    /\ heap' = [heap EXCEPT ![b] = [id |-> id, refcount |-> 1]]
    /\ programs' = Append(programs, b)

\* The program is too long, has partial words, or (readd_program and add_program
\* both refuse) the list is full: then its object is deleted and used once more,
\* in a log line, which may go well.
SkipProgram(id) ==
    /\ NextItem
    /\ Full \/ Listed(id) = {}
    /\ UNCHANGED <<programs, heap>>

UseDeleted == phase = "fetch" /\ items < MaxItems /\ Full /\ Reboot

\* A read of the body fails: fetch_queue returns false and its object is lost.
ShortRead(id, b) ==
    /\ phase = "fetch"
    /\ items < MaxItems
    /\ Full \/ Listed(id) = {}
    /\ Cardinality(Leaked) < MaxLeaks
    /\ heap[b] = Free
    /\ heap' = [heap EXCEPT ![b] = [id |-> id, refcount |-> 1]]
    /\ phase' = "signal"
    /\ UNCHANGED <<connected, lists, fetched, signal, vm, web_binary, programs, index, items,
                   refetched, was_reset>>

\* A request or the parser fails: the list stays as far as it got.
FetchFails ==
    /\ phase = "fetch"
    /\ phase' = "signal"
    /\ UNCHANGED <<connected, lists, fetched, signal, vm, web_binary, store, refetched, was_reset>>

FetchDone ==
    /\ phase = "fetch"
    /\ fetched' = TRUE
    /\ Pre!Add("flipper")
    /\ phase' = "signal"
    /\ UNCHANGED <<connected, post_tickers, post_turn, signal, vm, web_binary, store, refetched,
                   was_reset>>

-----------------------------------------------------------------------------
(* NameTag::tick, second part: the signal and the halted VM *)

\* (wrong: web_binary is not cleared with the VM it belongs to)
ReplaceProgramKeepsBinary(binary) ==
    /\ vm' = IF binary = None THEN Builtin ELSE Web(binary)
    /\ web_binary' = IF binary = None THEN web_binary ELSE binary
    /\ post_tickers' = Append(Post!FirstHalf(post_tickers), vm'.vm)
    /\ refetched' = FALSE

\* (wrong: the built-in program is put back without begin())
ReplaceProgramUnbegun(binary) ==
    /\ vm' = IF binary = None THEN [Builtin EXCEPT !.halted = TRUE] ELSE Web(binary)
    /\ web_binary' = binary
    /\ post_tickers' = Append(Post!FirstHalf(post_tickers), vm'.vm)
    /\ refetched' = FALSE

\* replace_program(binary): clear_program takes the VM out of the list (and, when
\* web_binary is set, deletes it), then the new one is begun and put in.
ReplaceProgram(binary) ==
    /\ vm' = IF binary = None THEN Builtin ELSE Web(binary)
    /\ web_binary' = binary
    /\ post_tickers' = Append(Post!FirstHalf(post_tickers), vm'.vm)
    /\ refetched' = FALSE

\* (wrong: the last program is skipped)
WrappedEarly == IF index >= Len(programs) - 1 THEN 0 ELSE index

\* next_program(): the program at index, or none when the list is empty.
Wrapped == IF index >= Len(programs) THEN 0 ELSE index
NextProgram == IF Wrapped < Len(programs) THEN programs[Wrapped + 1] ELSE None

TakeFlip ==
    /\ phase = "signal"
    /\ signal = FS_FLIP
    /\ ReplaceProgram(NextProgram)
    /\ index' = Wrapped + 1
    /\ signal' = FS_NONE
    /\ phase' = "halt"
    /\ UNCHANGED <<connected, pre_tickers, pre_turn, post_turn, fetched, programs, heap, items,
                   was_reset>>

\* (wrong: the flipper stays in the list)
TakeResetKeepsFlipper ==
    /\ phase = "signal"
    /\ signal = FS_RESET
    /\ fetched' = FALSE
    /\ signal' = FS_NONE
    /\ was_reset' = TRUE
    /\ phase' = "halt"
    /\ UNCHANGED <<connected, lists, vm, web_binary, store, refetched>>

\* (wrong: the queue still counts as fetched)
TakeResetStaysFetched ==
    /\ phase = "signal"
    /\ signal = FS_RESET
    /\ signal' = FS_NONE
    /\ Pre!Remove("flipper")
    /\ was_reset' = TRUE
    /\ phase' = "halt"
    /\ UNCHANGED <<connected, post_tickers, post_turn, fetched, vm, web_binary, store, refetched>>

TakeReset ==
    /\ phase = "signal"
    /\ signal = FS_RESET
    /\ fetched' = FALSE
    /\ signal' = FS_NONE
    /\ Pre!Remove("flipper")
    /\ was_reset' = TRUE
    /\ phase' = "halt"
    /\ UNCHANGED <<connected, post_tickers, post_turn, vm, web_binary, store, refetched>>

NoSignal ==
    /\ phase = "signal"
    /\ signal = FS_NONE
    /\ phase' = "halt"
    /\ UNCHANGED <<connected, lists, fetched, signal, vm, web_binary, store, refetched, was_reset>>

\* The main tick ends with the built-in program in the place of a halted VM.
Recover ==
    /\ phase = "halt"
    /\ IF vm.halted THEN ReplaceProgram(None)
                    ELSE UNCHANGED <<vm, web_binary, post_tickers, refetched>>
    /\ phase' = "post"
    /\ post_turn' = 1
    /\ UNCHANGED <<connected, pre_tickers, pre_turn, fetched, signal, store, was_reset>>

-----------------------------------------------------------------------------
LoopStep ==
    \/ Loop
    \/ \E t \in {"network", "led"} : PollOther(t)
    \/ \E packet \in {FS_NONE, FS_FLIP, FS_RESET} : PollListener(packet)
    \/ \E ready \in BOOLEAN : PollFlipper(ready)
    \/ PreDone
    \/ Idle
    \/ MainTickFetch
    \/ MainTick
    \/ \E id \in ProgramIds : ReaddProgram(id) \/ SkipProgram(id)
    \/ \E id \in ProgramIds, b \in Blocks : AddProgram(id, b) \/ ShortRead(id, b)
    \/ UseDeleted
    \/ FetchFails
    \/ FetchDone
    \/ TakeFlip
    \/ TakeReset
    \/ NoSignal
    \/ Recover
    \/ \E halts \in BOOLEAN : PollVM(halts)
    \/ Trap
    \/ PostDone

Next == LoopStep \/ WiFiEvent

Spec == Init /\ [][Next]_vars

\* The loop never stops (every request times out, and a reply has at most MaxItems
\* entries), and the 100 ms and 30 s timers, polled on every pass, come due again
\* and again.
FairSpec ==
    /\ Spec
    /\ WF_vars(LoopStep)
    /\ SF_vars(MainTickFetch \/ MainTick)
    /\ SF_vars(PollFlipper(TRUE))

-----------------------------------------------------------------------------
(* Properties *)

TypeOK ==
    /\ {connected, fetched, refetched, was_reset} \subseteq BOOLEAN
    /\ pre_tickers \in Seq({"network", "led", "zostayify", "flipper"})
    /\ post_tickers \in Seq({"builtin", "web"})
    /\ pre_turn \in 0 .. Len(pre_tickers) + 1
    /\ post_turn \in 0 .. Len(post_tickers) + 1
    /\ phase \in {"loop", "pre", "main", "fetch", "signal", "halt", "post"}
    /\ signal \in {FS_NONE, FS_FLIP, FS_RESET}
    /\ vm \in [vm : {"builtin", "web"}, halted : BOOLEAN, program : Blocks \cup {None}]
    /\ web_binary \in Blocks \cup {None}
    /\ programs \in Seq(Blocks) /\ Len(programs) <= MaxList
    /\ index \in 0 .. MaxList /\ items \in 0 .. MaxItems
    /\ heap \in [Blocks -> {Free} \cup [id : ProgramIds, refcount : 1 .. MaxList]]

\* Whatever fetches, resets and halts do to the lists, and although remove() drops
\* half of one: the network is polled first in every pass, the flipper is in the
\* list exactly while the queue counts as fetched, and exactly one VM runs, the
\* current one (nametag.cpp tick, replace_program).
ListsSound ==
    /\ pre_tickers # <<>> /\ Head(pre_tickers) = "network"
    /\ Cardinality({k \in DOMAIN pre_tickers : pre_tickers[k] = "flipper"})
           = IF fetched THEN 1 ELSE 0
    /\ post_tickers = <<vm.vm>>

\* web_binary decides whether clear_program deletes the VM: it is set exactly while
\* the VM is one that replace_program made, so the built-in one is never deleted and
\* no other one is lost (nametag.cpp:105-143).
VmOwned == web_binary = vm.program /\ (web_binary # None <=> vm.vm = "web")

\* Across re-adds, skips, failures and refetches, an object's reference count is the
\* number of its entries in the list, and no program is loaded twice, so clearing
\* the list frees each object once (nametag-fetch.cpp:12-53).
CountsSound ==
    /\ \A b \in Entries : heap[b].refcount = Occurrences(b)
    /\ \A b, c \in Entries : heap[b].id = heap[c].id => b = c

\* The words a web VM runs are those of the entry the index has just passed, never
\* freed memory, unless a fetch has begun since the program was put up: after a
\* reset, or after a flip that came before the first complete fetch, the VM goes on
\* running a program that clear_programs has deleted (nametag-fetch.cpp:12-20,
\* nametag.cpp:76-91).
RunsListedProgram ==
    vm.vm = "web" /\ ~refetched =>
        /\ index \in DOMAIN programs
        /\ vm.program = programs[index]
        /\ heap[vm.program] # Free

\* What remove() costs: a sign that has acted on one reset polls its UDP listener
\* never again, so no packet, a second reset least of all, reaches it until it
\* restarts (Firmware.h:113-126, nametag.cpp:90-94).
DeafAfterReset ==
    was_reset => signal # FS_RESET /\ (\A k \in DOMAIN pre_tickers : pre_tickers[k] # "zostayify")

\* The lists ListsSound speaks of, in full: what remove() has left is one of two.
PreTickersShape ==
    pre_tickers \in
        IF was_reset
        THEN IF fetched THEN {<<"network", "led", "flipper">>, <<"network", "flipper">>}
                        ELSE {<<"network", "led">>, <<"network">>}
        ELSE IF fetched THEN {<<"network", "led", "zostayify", "flipper">>}
                        ELSE {BootList}

\* The inductive invariant: while a queue is fetched it does not count as fetched, and
\* a VM put up before is one whose words may be gone.
IInv ==
    /\ TypeOK
    /\ PreTickersShape
    /\ post_tickers = <<vm.vm>>
    /\ signal = FS_RESET => ~was_reset
    /\ VmOwned
    /\ CountsSound
    /\ RunsListedProgram
    /\ phase = "fetch" => refetched /\ ~fetched

\* A VM that halted is replaced by the running built-in program, or by the next of
\* the queue, however the fetches go (nametag.cpp:97-101).
HaltRecovers == vm.halted ~> ~vm.halted

\* Every entry of a fetched queue gets its turn: the sign begins it, unless the queue
\* is dropped by a reset or a restart first (nametag.cpp:84-89, nametag-fetch.h:70-75).
EveryProgramShown ==
    \A k \in 1 .. MaxList :
        (fetched /\ k <= Len(programs)) ~>
            (~fetched \/ (k <= Len(programs) /\ vm.program = programs[k]))
=============================================================================
