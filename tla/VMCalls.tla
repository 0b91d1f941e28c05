-------------------------------- MODULE VMCalls --------------------------------
(***************************************************************************)
(* The nametag machine with a record of the calls its program has made,    *)
(* and the refinement of CallStack it is kept for.  The record is a        *)
(* history: it follows the instructions, never the words jump_sub and      *)
(* return_sub keep on the stack, and constrains no step of the machine.    *)
(***************************************************************************)
EXTENDS VM

VARIABLES
    calls,  \* the unfinished calls, each with its return address and its caller's segment
    loose   \* the program has reached below its segment since it began

callVars == <<vars, calls, loose>>

Segment == m.reg[REG.STACK_SEGMENT]

\* Words an instruction takes off the stack before it does anything else.
TakingOne == {OP.GOTO, OP.GOSUB, OP.GET, OP.POP, OP.DUP, OP.READ, OP.READARG, OP.PUTCHAR,
              OP.FILL_ROWS, OP.FILL_COLUMNS, OP.MASK_ROWS, OP.MASK_COLUMNS}
             \cup Unary \cup DOMAIN Setting
TakingTwo == {OP.CMP, OP.CMPSUB, OP.SET, OP.PIXEL, OP.SWAP, OP.WRITE, OP.ALLOC, OP.SET_CURSOR}
             \cup Binary
Takes(op) == CASE op \in TakingOne -> 1
               [] op \in TakingTwo -> 2
               [] op \in {OP.FILL_BITS, OP.MASK_BITS} -> H
               [] OTHER -> 0

\* Words a frame of a tick mode takes.
FrameTakes == CASE m.reg[REG.MARK] = 0 -> 0
                [] m.reg[REG.TICK_MODE] = MODE.MASK_BITS -> H
                [] OTHER -> 1

Taken == IF m.reg[REG.TICK_MODE] = MODE.NONE THEN Takes(Fetched(m)) ELSE FrameTakes

\* The program takes, moves or overwrites what lies below its segment.
Meddles ==
    \/ phase = "tick" /\ m.stack_ptr - Taken < Segment
    \/ Executing({OP.SET}) /\ Signed(A) = REG.STACK_SEGMENT
    \/ Executing({OP.WRITE}) /\ Signed(Wrap(Segment + A)) < Segment

Calling == Executing({OP.GOSUB}) \/ (Executing({OP.CMPSUB}) /\ B # 0)

Began == phase = "scan" /\ phase' = "idle"

\* begin() makes the main sub's frame, which returns to the last scanned word.
RecordBegin ==
    /\ Began
    /\ calls' = <<[return |-> Wrap(scan - 1), segment |-> 0]>>
    /\ loose' = FALSE
RecordCall ==
    /\ Calling /\ ~loose /\ ~Meddles
    /\ calls' = Append(calls, [return |-> m.program_ptr + 1, segment |-> Segment])
    /\ UNCHANGED loose
RecordReturn ==
    /\ Executing({OP.RETURN}) /\ ~loose /\ ~Meddles
    /\ calls' = IF calls = <<>> THEN <<>> ELSE SubSeq(calls, 1, Len(calls) - 1)
    /\ UNCHANGED loose
RecordMeddling ==
    /\ loose \/ Meddles
    /\ ~Began
    /\ calls' = <<>>
    /\ loose' = TRUE
RecordNothing ==
    /\ ~Began /\ ~Calling /\ ~Executing({OP.RETURN}) /\ ~loose /\ ~Meddles
    /\ UNCHANGED <<calls, loose>>

CallInit == Init /\ calls = <<>> /\ loose = FALSE
CallNext == Next /\ (RecordBegin \/ RecordCall \/ RecordReturn \/ RecordMeddling \/ RecordNothing)
CallSpec == CallInit /\ [][CallNext]_callVars

-----------------------------------------------------------------------------
(* Properties *)

Running == phase \in {"idle", "tick"} /\ ~m.halted

Promised == Running /\ ~loose

CallMode == IF ~Running THEN "off" ELSE IF loose THEN "loose" ELSE "runs"

AbsAt    == IF Promised THEN m.program_ptr ELSE 0
AbsSeg   == IF Promised THEN Segment ELSE 0
AbsCalls == IF Promised THEN calls ELSE <<>>

CallStackOf == INSTANCE CallStack WITH
    mode <- CallMode, at <- AbsAt, seg <- AbsSeg, calls <- AbsCalls

\* Bottom of the segment of the k-th unfinished call; 0 is what called main.
Base(k) == IF k = Len(calls) THEN Segment ELSE calls[k + 1].segment

\* The two words below each unfinished call's segment are its return address and
\* its caller's segment, no two of these frames overlap, and the stack never
\* shrinks below the running sub's segment.
FramesKept ==
    Promised =>
        /\ Base(0) = 0
        /\ m.stack_ptr >= Segment
        /\ \A j, k \in 0 .. Len(calls) : j < k => Base(k) >= Base(j) + 2
        /\ \A k \in 1 .. Len(calls) : /\ m.stack[Base(k) - 2] = calls[k].return
                                     /\ m.stack[Base(k) - 1] = calls[k].segment

\* Calls nest: whatever a program pushes, paints, reads, allocates or jumps to,
\* its OP_RETURN goes back to the instruction after the call and to the caller's
\* segment, at any depth, as long as the program itself keeps above its segment.
CallsNest == CallStackOf!Spec
=============================================================================
