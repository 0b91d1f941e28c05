---------------------------------- MODULE VM ----------------------------------
(***************************************************************************)
(* The nametag virtual machine (device/hatsign/src/vm.h, ops.h): a stack   *)
(* machine of 32-bit words that a nametag program drives its panel with.   *)
(* The firmware loop calls tick(); one tick executes instructions until    *)
(* the program ticks, halts, or is past its time slice on a clock of       *)
(* microseconds that wraps.                                                *)
(*                                                                         *)
(* A program is any sequence of words whatever, followed by two OP_HALT,   *)
(* as the fetcher and the built-in programs terminate it.  What the pixels *)
(* and the masks contain is left out; everything that decides what runs    *)
(* next (stack, registers, pointers, modes, halting) is kept, and so are   *)
(* the settings the machine holds twice: in a register and in the panel.   *)
(***************************************************************************)
EXTENDS Integers, Sequences

CONSTANTS
    WordBits,       \* width of uint32_t
    WordMod,        \* 2^WordBits
    STACK_SIZE,
    HEAP_SIZE,      \* number of registers
    W, H,           \* panel size
    Programs,       \* the words between the program's start and its terminator
    Starts,         \* the sub a program is started at
    Garbage,        \* what memory nobody initialised may hold
    RandomWords,    \* what rand() may return
    CursorPoints,   \* where printing a glyph may leave the cursor
    ULONG_MAX,      \* the last reading of get_micros(), after which it is 0
    MAX_TIME_SLICE,
    Durations       \* time between two readings of the clock, an instruction between them

Word == 0 .. WordMod - 1
Clock == 0 .. ULONG_MAX

ASSUME WordAssumption    == WordBits \in Nat /\ WordMod \in Nat /\ WordMod > 57005
ASSUME StackAssumption   == STACK_SIZE \in Nat /\ STACK_SIZE > 2 /\ STACK_SIZE < WordMod
ASSUME HeapAssumption    == HEAP_SIZE \in Nat /\ HEAP_SIZE > 9
ASSUME PanelAssumption   == W \in Word /\ H \in Word \ {0}
ASSUME ProgramAssumption == \A p \in Programs : p \in Seq(Word) /\ Len(p) + 2 < WordMod
ASSUME InputAssumption   == Starts \cup Garbage \cup RandomWords \subseteq Word
ASSUME CursorAssumption  == CursorPoints \subseteq Word \X Word
\* An instruction may take less than a microsecond; none takes a round of the clock.
ASSUME ClockAssumption   == /\ ULONG_MAX \in Nat /\ MAX_TIME_SLICE \in Nat
                            /\ Durations \subseteq Clock /\ Durations \ {0} # {}

VARIABLES
    body,       \* the program's words before its two terminators
    start,      \* VM::_start
    call_index, \* sub number -> position of its OP_SUB
    scan,       \* the i of scan_subs
    max_ptr,
    m,          \* the other fields of class VM, see Fresh
    phase,      \* "new", "scan" (in begin), "idle", "tick" (in tick_exec), "trapped"
    tick_start, \* the local of tick_exec, 0 outside it
    now         \* its last reading of the clock, 0 outside it

vars == <<body, start, call_index, scan, max_ptr, m, phase, tick_start, now>>

OP == [SUB |-> 1, RETURN |-> 2, GOTO |-> 3, GOSUB |-> 4, TICK |-> 5, NOOP |-> 8,
       CMP |-> 17, CMPSUB |-> 18,
       EQ |-> 33, LT |-> 34, LE |-> 35, GT |-> 36, GE |-> 37, NE |-> 38,
       ADD |-> 49, MIN |-> 50, MUL |-> 51, DIV |-> 52, MOD |-> 53,
       AND |-> 65, OR |-> 66, XOR |-> 67, NOT |-> 68, BSL |-> 69, BSR |-> 70, COMP |-> 71,
       RAND |-> 81, WIDTH |-> 82, HEIGHT |-> 83,
       SET |-> 129, GET |-> 130, TICK_MODE |-> 131, FILL |-> 161, PIXEL |-> 162,
       PUSH |-> 193, POP |-> 194, DUP |-> 195, SWAP |-> 197, ALLOC |-> 202,
       PUTCHAR |-> 209, SET_CURSOR |-> 210,
       URGENCY |-> 387, BRIGHTNESS |-> 643, FOREGROUND |-> 899, BACKGROUND |-> 1155,
       MASKGROUND |-> 1411, MARK |-> 1667,
       FILL_ROWS |-> 8353, MASK_ROWS |-> 8369, FILL_COLUMNS |-> 16545,
       MASK_COLUMNS |-> 16561, FILL_BITS |-> 32929, MASK_BITS |-> 32945,
       READ |-> 32968, WRITE |-> 32969, READARG |-> 32971, HALT |-> 57005]

REG == [TICK_MODE |-> 0, URGENCY |-> 1, BRIGHTNESS |-> 2, FOREGROUND |-> 3,
        BACKGROUND |-> 4, MASKGROUND |-> 5, MARK |-> 6, STACK_SEGMENT |-> 7,
        CURSOR_X |-> 8, CURSOR_Y |-> 9]

MODE == [NONE |-> 0, BRIGHTNESS |-> 1, MASK_ROWS |-> 8369, MASK_COLUMNS |-> 16561,
         MASK_BITS |-> 32945]

MAX_BRIGHTNESS == 75

\* uint32_t arithmetic, and a uint32_t passed where the code takes an int.
Wrap(n) == n % WordMod
Signed(w) == IF 2 * w >= WordMod THEN w - WordMod ELSE w

-----------------------------------------------------------------------------
(* The machine's own operations: functions of the machine. *)

Code(i) == IF i < Len(body) THEN body[i + 1] ELSE OP.HALT

Halt(n) == [n EXCEPT !.halted = TRUE]

\* step(): the word under program_ptr, and the machine past it.
Fetched(n) == IF n.halted THEN OP.HALT ELSE Code(n.program_ptr)
Stepped(n) == IF n.halted THEN n ELSE [n EXCEPT !.program_ptr = @ + 1]

\* pop() halts on an empty stack and returns 0; the instruction carries on.
Popped(n) == IF n.stack_ptr <= 0 THEN 0 ELSE n.stack[n.stack_ptr - 1]
\* (wrong: tests below zero only)
PopLate(n) ==
    IF n.stack_ptr < 0 THEN Halt(n)
    ELSE [n EXCEPT !.stack_ptr = @ - 1, !.reg[REG.MARK] = Wrap(@ - 1)]
Pop(n) ==
    IF n.stack_ptr <= 0 THEN Halt(n)
    ELSE [n EXCEPT !.stack_ptr = @ - 1, !.reg[REG.MARK] = Wrap(@ - 1)]

Push(n, v) ==
    IF n.stack_ptr >= STACK_SIZE THEN Halt(n)
    ELSE [n EXCEPT !.stack[n.stack_ptr] = v, !.stack_ptr = @ + 1,
                   !.reg[REG.MARK] = Wrap(@ + 1)]

\* k calls of pop(), and k calls of push(v).
PopMany(n, k) ==
    LET done == IF k <= n.stack_ptr THEN k ELSE IF n.stack_ptr > 0 THEN n.stack_ptr ELSE 0
    IN [n EXCEPT !.stack_ptr = @ - done, !.reg[REG.MARK] = Wrap(@ - done),
                 !.halted = @ \/ k > done]
\* (wrong: makes the room in one go)
PushManyAtOnce(n, v, k) ==
    [n EXCEPT !.stack = [i \in DOMAIN @ |-> IF i >= n.stack_ptr /\ i < n.stack_ptr + k
                                           THEN v ELSE @[i]],
              !.stack_ptr = IF k > 0 THEN @ + k ELSE @]
PushMany(n, v, k) ==
    LET room == STACK_SIZE - n.stack_ptr
        done == IF k <= 0 THEN 0 ELSE IF k <= room THEN k ELSE room
    IN [n EXCEPT !.stack = [i \in DOMAIN @ |-> IF i >= n.stack_ptr /\ i < n.stack_ptr + done
                                               THEN v ELSE @[i]],
                 !.stack_ptr = @ + done, !.reg[REG.MARK] = Wrap(@ + done),
                 !.halted = @ \/ k > done]

GetSub(sub) == IF sub \in DOMAIN call_index THEN call_index[sub] ELSE 0

\* (wrong: no upper bound)
JumpAnywhere(n, p) == IF p < 0 THEN Halt(n) ELSE [n EXCEPT !.program_ptr = p]
Jump(n, p) == IF p > max_ptr \/ p < 0 THEN Halt(n) ELSE [n EXCEPT !.program_ptr = p]

InStack(p) == p >= 0 /\ p < STACK_SIZE
\* read_stack(p) halts outside the stack and returns 0.
StackRead(n, p) == IF InStack(p) THEN n.stack[p] ELSE 0
AfterRead(n, p) == IF InStack(p) THEN n ELSE Halt(n)
StackWrite(n, p, v) == IF InStack(p) THEN [n EXCEPT !.stack[p] = v] ELSE Halt(n)

IsRegister(r) == r >= 0 /\ r < HEAP_SIZE
\* get_register(r) halts on an illegal register and returns 0.
Register(n, r) == IF IsRegister(r) THEN n.reg[r] ELSE 0
AfterGet(n, r) == IF IsRegister(r) THEN n ELSE Halt(n)

\* What the panel makes of a register: Color(uint32_t) keeps 24 bits, the tick
\* speed is 50 ms times the urgency, the brightness is capped.
Color(w) == w % 16777216
Hertz(u) == Wrap(50000 * u)
Capped(b) == IF b > MAX_BRIGHTNESS THEN MAX_BRIGHTNESS ELSE b

\* set_register(r, v): the register, and the setting it stands for.
SetRegister(n, r, v) ==
    IF ~IsRegister(r) THEN Halt(n)
    ELSE LET s == [n EXCEPT !.reg[r] = v]
         IN CASE r = REG.URGENCY       -> [s EXCEPT !.tick_speed = Hertz(v)]
              [] r = REG.BRIGHTNESS    -> [s EXCEPT !.brightness = Capped(v)]
              [] r = REG.FOREGROUND    -> [s EXCEPT !.fg = Color(v)]
              [] r = REG.BACKGROUND    -> [s EXCEPT !.bg = Color(v)]
              [] r = REG.STACK_SEGMENT -> IF v >= STACK_SIZE THEN Halt(s) ELSE s
              [] r = REG.CURSOR_X      -> [s EXCEPT !.cursor = <<v, n.reg[REG.CURSOR_Y]>>]
              [] r = REG.CURSOR_Y      -> [s EXCEPT !.cursor = <<n.reg[REG.CURSOR_X], v>>]
              [] OTHER                 -> s

\* (wrong: the panel's cursor alone)
SetPanelCursor(n, x, y) == [n EXCEPT !.cursor = <<x, y>>]
\* VM::set_cursor: the panel's cursor, then both registers.
SetCursor(n, x, y) ==
    SetRegister(SetRegister([n EXCEPT !.cursor = <<x, y>>], REG.CURSOR_X, x), REG.CURSOR_Y, y)

\* (wrong: the segment is moved before it is saved)
JumpSubSavesCallee(n, p) ==
    LET moved == SetRegister(n, REG.STACK_SEGMENT, n.stack_ptr)
    IN Jump(Push(Push(moved, n.program_ptr), n.reg[REG.STACK_SEGMENT]), p)

\* jump_sub saves the return address and the caller's segment on the stack.
JumpSub(n, p) ==
    LET saved == Push(Push(n, n.program_ptr), n.reg[REG.STACK_SEGMENT])
    IN Jump(SetRegister(saved, REG.STACK_SEGMENT, saved.stack_ptr), p)

\* (wrong: the caller's segment is not restored)
ReturnInSegment(n) ==
    LET base     == n.reg[REG.STACK_SEGMENT]
        address  == Signed(StackRead(n, base - 2))
        read     == AfterRead(AfterRead(n, base - 2), base - 1)
    IN Jump([read EXCEPT !.stack_ptr = base - 2], address)

\* return_sub reads them back from below the segment, wherever that is.
ReturnSub(n) ==
    LET base     == n.reg[REG.STACK_SEGMENT]
        address  == Signed(StackRead(n, base - 2))
        read     == AfterRead(AfterRead(n, base - 2), base - 1)
        returned == Jump([read EXCEPT !.stack_ptr = base - 2], address)
    IN SetRegister(returned, REG.STACK_SEGMENT, StackRead(n, base - 1))

\* next_tick(): the frame is drawn and the tick is over.
NextTick(n) == [n EXCEPT !.ticked = TRUE]

-----------------------------------------------------------------------------
(* Arithmetic of the OP_BINARY_EXPR and OP_UNARY_EXPR instructions. *)

BitAnd[x \in Nat, y \in Nat] ==
    IF x = 0 \/ y = 0 THEN 0 ELSE 2 * BitAnd[x \div 2, y \div 2] + (x % 2) * (y % 2)

Truth(p) == IF p THEN 1 ELSE 0

Binary == {OP.EQ, OP.LT, OP.LE, OP.GT, OP.GE, OP.NE, OP.ADD, OP.MIN, OP.MUL, OP.DIV, OP.MOD,
           OP.AND, OP.OR, OP.XOR, OP.BSL, OP.BSR}
Unary  == {OP.NOT, OP.COMP}
Divide == {OP.DIV, OP.MOD}

\* The values `b op a` may have.  A shift by the width of a word or more is
\* undefined: the ESP32 shifts by the low bits of a, a constant folder gives 0.
Shifts(a) == IF a < WordBits THEN {a} ELSE {a % WordBits, WordBits}
Results(op, b, a) ==
    {r \in CASE op = OP.EQ  -> {Truth(b = a)}
             [] op = OP.LT  -> {Truth(b < a)}
             [] op = OP.LE  -> {Truth(b <= a)}
             [] op = OP.GT  -> {Truth(b > a)}
             [] op = OP.GE  -> {Truth(b >= a)}
             [] op = OP.NE  -> {Truth(b # a)}
             [] op = OP.ADD -> {Wrap(b + a)}
             [] op = OP.MIN -> {Wrap(b - a)}
             [] op = OP.MUL -> {Wrap(b * a)}
             [] op = OP.DIV -> {b \div a}
             [] op = OP.MOD -> {b % a}
             [] op = OP.AND -> {BitAnd[a, b]}
             [] op = OP.OR  -> {a + b - BitAnd[a, b]}
             [] op = OP.XOR -> {a + b - 2 * BitAnd[a, b]}
             [] op = OP.BSL -> {(b % 2^(WordBits - k)) * 2^k : k \in Shifts(a)}
             [] op = OP.BSR -> {b \div 2^k : k \in Shifts(a)}
             [] op = OP.NOT -> {Truth(a = 0)}
             [] op = OP.COMP -> {WordMod - 1 - a}
     : r \in Word}

-----------------------------------------------------------------------------
(* Creation, begin() and the tick. *)

White == Wrap(16777215)

\* A machine just constructed.  A built-in machine is a zeroed global, one made
\* by replace_program holds whatever its memory held.
Fresh(g) == [program_ptr |-> 0, stack_ptr |-> 0, halted |-> FALSE, ticked |-> FALSE,
             stack |-> [i \in 0 .. STACK_SIZE - 1 |-> g],
             reg |-> [r \in 0 .. HEAP_SIZE - 1 |-> g],
             tick_speed |-> 50000 % WordMod, brightness |-> 255,
             fg |-> Color(White), bg |-> 0, cursor |-> <<0, 0>>]

Init ==
    /\ body \in Programs
    /\ start \in Starts
    /\ \E g \in Garbage : m = Fresh(g)
    /\ call_index = <<>>
    /\ scan = 0
    /\ max_ptr = 0
    /\ phase = "new"
    /\ tick_start = 0
    /\ now = 0

\* begin(), up to its call of scan_subs.  replace_program begins a new machine,
\* or the built-in one again after it was halted.
Begin ==
    /\ phase = "new" \/ (phase = "idle" /\ m.halted)
    /\ m' = [m EXCEPT !.halted = FALSE]
    /\ call_index' = <<>>
    /\ scan' = 0
    /\ phase' = "scan"
    /\ UNCHANGED <<body, start, max_ptr, tick_start, now>>

ScanStep ==
    /\ phase = "scan"
    /\ Code(scan) # OP.HALT
    /\ call_index' = IF Code(scan) = OP.SUB
                     THEN [s \in DOMAIN call_index \cup {Code(scan + 1)} |->
                               IF s = Code(scan + 1) THEN scan ELSE call_index[s]]
                     ELSE call_index
    /\ scan' = scan + (IF Code(scan) \in {OP.PUSH, OP.SUB} THEN 2 ELSE 1)
    /\ UNCHANGED <<body, start, max_ptr, m, phase, tick_start, now>>

\* (wrong: the colour registers reset, the panel's colours not)
BegunInOldColours(n, top) ==
    LET ready == [n EXCEPT
            !.program_ptr = GetSub(start), !.stack_ptr = 0,
            !.reg = [@ EXCEPT ![REG.TICK_MODE] = MODE.NONE, ![REG.URGENCY] = 10,
                              ![REG.BRIGHTNESS] = 30, ![REG.FOREGROUND] = White,
                              ![REG.BACKGROUND] = 0, ![REG.MASKGROUND] = 0],
            !.tick_speed = Hertz(10), !.brightness = 30]
        framed == Push(Push(ready, Wrap(top - 1)), 0)
    IN [framed EXCEPT !.reg = [@ EXCEPT ![REG.STACK_SEGMENT] = framed.stack_ptr,
                                        ![REG.MARK] = framed.stack_ptr]]

\* The rest of begin().  The stack and the user registers keep what they hold.
Begun(n, top) ==
    LET ready == [n EXCEPT
            !.program_ptr = GetSub(start), !.stack_ptr = 0,
            !.reg = [@ EXCEPT ![REG.TICK_MODE] = MODE.NONE, ![REG.URGENCY] = 10,
                              ![REG.BRIGHTNESS] = 30, ![REG.FOREGROUND] = White,
                              ![REG.BACKGROUND] = 0, ![REG.MASKGROUND] = 0],
            !.tick_speed = Hertz(10), !.brightness = 30, !.fg = Color(White), !.bg = 0]
        framed == Push(Push(ready, Wrap(top - 1)), 0)
    IN [framed EXCEPT !.reg = [@ EXCEPT ![REG.STACK_SEGMENT] = framed.stack_ptr,
                                        ![REG.MARK] = framed.stack_ptr]]

FinishBegin ==
    /\ phase = "scan"
    /\ Code(scan) = OP.HALT
    /\ max_ptr' = scan
    /\ m' = Begun(m, scan)
    /\ phase' = "idle"
    /\ UNCHANGED <<body, start, call_index, scan, tick_start, now>>

\* NameTag::clear_program halts the running machine between two ticks.
ClearProgram ==
    /\ phase = "idle"
    /\ ~m.halted
    /\ m' = Halt(m)
    /\ UNCHANGED <<body, start, call_index, scan, max_ptr, phase, tick_start, now>>

TickExec ==
    /\ phase = "idle"
    /\ ~m.halted
    /\ m' = [m EXCEPT !.ticked = FALSE]
    /\ tick_start' \in Clock
    /\ now' = tick_start'
    /\ phase' = "tick"
    /\ UNCHANGED <<body, start, call_index, scan, max_ptr>>

\* The loop's test, in unsigned longs: past the slice's end, itself wrapped.
Deadline == (tick_start + MAX_TIME_SLICE) % (ULONG_MAX + 1)
\* (wrong: the sum is made in a wider type and does not wrap with the clock)
OverrunWide(reading) == tick_start + MAX_TIME_SLICE < reading
Overrun(reading) == Deadline < reading

LeaveTick(p) == phase' = p /\ tick_start' = 0 /\ now' = 0

\* One turn of the loop of tick_exec: step_exec leaves the machine n, and the
\* loop ends when the program ticked, halted or is found past its time slice.
Turn(n) ==
    /\ m' = n
    /\ \E d \in Durations :
           LET reading == (now + d) % (ULONG_MAX + 1) IN
           IF n.ticked \/ n.halted \/ Overrun(reading) THEN LeaveTick("idle")
           ELSE phase' = "tick" /\ now' = reading /\ UNCHANGED tick_start
    /\ UNCHANGED <<body, start, call_index, scan, max_ptr>>

-----------------------------------------------------------------------------
(* step_exec: one instruction, when no tick mode is on. *)

Executing(ops) ==
    /\ phase = "tick"
    /\ m.reg[REG.TICK_MODE] = MODE.NONE
    /\ Fetched(m) \in ops

\* The machine past the opcode, and past one and two operands popped.
Op0 == Stepped(m)
A   == Popped(Op0)
Op1 == Pop(Op0)
B   == Popped(Op1)
Op2 == Pop(Op1)

OpSub     == Executing({OP.SUB})    /\ Turn(Stepped(Op0))
OpReturn  == Executing({OP.RETURN}) /\ Turn(ReturnSub(Op0))
OpGoto    == Executing({OP.GOTO})   /\ Turn(Jump(Op1, GetSub(A)))
OpGosub   == Executing({OP.GOSUB})  /\ Turn(JumpSub(Op1, GetSub(A)))
OpTick    == Executing({OP.TICK})   /\ Turn(NextTick(Op0))
OpCmp     == Executing({OP.CMP})    /\ Turn(IF B # 0 THEN Jump(Op2, GetSub(A)) ELSE Op2)
OpCmpSub  == Executing({OP.CMPSUB}) /\ Turn(IF B # 0 THEN JumpSub(Op2, GetSub(A)) ELSE Op2)
OpHalt    == Executing({OP.HALT})   /\ Turn(Halt(Op0))
\* NOOP, and FILL, which only paints.
OpNothing == Executing({OP.NOOP, OP.FILL}) /\ Turn(Op0)

OpBinary ==
    /\ Executing(Binary)
    /\ Fetched(m) \in Divide => A # 0
    /\ \E r \in Results(Fetched(m), B, A) : Turn(Push(Op2, r))
OpUnary == Executing(Unary) /\ \E r \in Results(Fetched(m), 0, A) : Turn(Push(Op1, r))
\* Dividing by zero raises a hardware exception.
Trap ==
    /\ Executing(Divide)
    /\ A = 0
    /\ LeaveTick("trapped")
    /\ UNCHANGED <<body, start, call_index, scan, max_ptr, m>>

OpRand   == Executing({OP.RAND})   /\ \E r \in RandomWords : Turn(Push(Op0, r))
OpWidth  == Executing({OP.WIDTH})  /\ Turn(Push(Op0, W))
OpHeight == Executing({OP.HEIGHT}) /\ Turn(Push(Op0, H))

OpSet == Executing({OP.SET}) /\ Turn(SetRegister(Op2, Signed(A), B))
OpGet == Executing({OP.GET})
         /\ Turn(Push(AfterGet(Op1, Signed(A)), Register(Op1, Signed(A))))

\* The instructions that set a register of their own.
Setting == [op \in {OP.TICK_MODE, OP.URGENCY, OP.BRIGHTNESS, OP.FOREGROUND, OP.BACKGROUND,
                    OP.MASKGROUND} |->
            CASE op = OP.TICK_MODE  -> REG.TICK_MODE
              [] op = OP.URGENCY    -> REG.URGENCY
              [] op = OP.BRIGHTNESS -> REG.BRIGHTNESS
              [] op = OP.FOREGROUND -> REG.FOREGROUND
              [] op = OP.BACKGROUND -> REG.BACKGROUND
              [] op = OP.MASKGROUND -> REG.MASKGROUND]
OpSetting == Executing(DOMAIN Setting) /\ Turn(SetRegister(Op1, Setting[Fetched(m)], A))
OpMark    == Executing({OP.MARK}) /\ Turn(SetRegister(Op0, REG.MARK, 0))

\* The painting and masking instructions, by the words they pop.
OpPaint1 == Executing({OP.FILL_ROWS, OP.FILL_COLUMNS, OP.MASK_ROWS, OP.MASK_COLUMNS})
            /\ Turn(Op1)
OpPaint2 == Executing({OP.PIXEL}) /\ Turn(Op2)
OpPaintH == Executing({OP.FILL_BITS, OP.MASK_BITS}) /\ Turn(PopMany(Op0, H))

OpPush == Executing({OP.PUSH}) /\ Turn(Push(Stepped(Op0), Fetched(Op0)))
OpPop  == Executing({OP.POP})  /\ Turn(Op1)
OpDup  == Executing({OP.DUP})  /\ Turn(Push(Push(Op1, A), A))
OpSwap == Executing({OP.SWAP}) /\ Turn(Push(Push(Op2, A), B))

OpRead ==
    /\ Executing({OP.READ})
    /\ LET p == Signed(Wrap(m.reg[REG.STACK_SEGMENT] + A))
       IN Turn(Push(AfterRead(Op1, p), StackRead(Op1, p)))
OpReadArg ==
    /\ Executing({OP.READARG})
    /\ LET p == Signed(Wrap(m.reg[REG.STACK_SEGMENT] - A - 2))
       IN Turn(Push(AfterRead(Op1, p), StackRead(Op1, p)))
OpWrite == Executing({OP.WRITE})
           /\ Turn(StackWrite(Op2, Signed(Wrap(m.reg[REG.STACK_SEGMENT] + A)), B))
OpAlloc == Executing({OP.ALLOC}) /\ Turn(PushMany(Op2, B, Signed(A)))

OpPutChar   == Executing({OP.PUTCHAR}) /\ \E c \in CursorPoints : Turn(SetCursor(Op1, c[1], c[2]))
OpSetCursor == Executing({OP.SET_CURSOR}) /\ Turn(SetCursor(Op2, B, A))

KnownOps == {OP[o] : o \in DOMAIN OP}
OpInvalid ==
    /\ phase = "tick"
    /\ m.reg[REG.TICK_MODE] = MODE.NONE
    /\ Fetched(m) \notin KnownOps
    /\ Turn(Halt(Op0))

-----------------------------------------------------------------------------
(* step_exec: one frame of a tick mode. *)

InMode(mode) == phase = "tick" /\ m.reg[REG.TICK_MODE] = mode /\ m.reg[REG.MARK] > 0

ModeBrightness ==
    /\ InMode(MODE.BRIGHTNESS)
    /\ Turn(NextTick(SetRegister(Pop(m), REG.BRIGHTNESS, Popped(m))))
\* (wrong: looks at the mask without taking it)
ModeMaskPeek ==
    /\ InMode(MODE.MASK_ROWS) \/ InMode(MODE.MASK_COLUMNS)
    /\ Turn(NextTick(m))
ModeMask ==
    /\ InMode(MODE.MASK_ROWS) \/ InMode(MODE.MASK_COLUMNS)
    /\ Turn(NextTick(Pop(m)))
ModeMaskBits ==
    /\ InMode(MODE.MASK_BITS)
    /\ Turn(NextTick(PopMany(m, H)))

ModeOver ==
    /\ phase = "tick"
    /\ m.reg[REG.TICK_MODE] \in {MODE.BRIGHTNESS, MODE.MASK_ROWS, MODE.MASK_COLUMNS, MODE.MASK_BITS}
    /\ m.reg[REG.MARK] = 0
    /\ Turn(SetRegister(m, REG.TICK_MODE, MODE.NONE))
ModeInvalid ==
    /\ phase = "tick"
    /\ m.reg[REG.TICK_MODE] \notin {MODE.NONE, MODE.BRIGHTNESS, MODE.MASK_ROWS,
                                    MODE.MASK_COLUMNS, MODE.MASK_BITS}
    /\ Turn(Halt(m))

\* After a trap the board starts over.
Reboot ==
    /\ phase = "trapped"
    /\ \E g \in Garbage : m' = Fresh(g)
    /\ call_index' = <<>>
    /\ scan' = 0
    /\ max_ptr' = 0
    /\ phase' = "new"
    /\ UNCHANGED <<body, start, tick_start, now>>

StepExec ==
    \/ OpSub \/ OpReturn \/ OpGoto \/ OpGosub \/ OpTick \/ OpCmp \/ OpCmpSub \/ OpHalt
    \/ OpNothing \/ OpBinary \/ OpUnary \/ Trap \/ OpRand \/ OpWidth \/ OpHeight
    \/ OpSet \/ OpGet \/ OpSetting \/ OpMark \/ OpPaint1 \/ OpPaint2 \/ OpPaintH
    \/ OpPush \/ OpPop \/ OpDup \/ OpSwap \/ OpRead \/ OpReadArg \/ OpWrite \/ OpAlloc
    \/ OpPutChar \/ OpSetCursor \/ OpInvalid
    \/ ModeBrightness \/ ModeMask \/ ModeMaskBits \/ ModeOver \/ ModeInvalid

Next == Begin \/ ScanStep \/ FinishBegin \/ ClearProgram \/ TickExec \/ StepExec \/ Reboot

Spec == Init /\ [][Next]_vars

\* An instruction by which the clock has moved on, or the last of its tick.
TimedStep == StepExec /\ (now' # now \/ phase' # "tick")

\* The firmware loop polls the machine for ever, tick_exec is a plain call, and
\* time does not stand still while it runs.
FairSpec == Spec /\ WF_vars(TickExec) /\ WF_vars(TimedStep)

-----------------------------------------------------------------------------
(* Properties *)

Pointer == 0 .. Len(body) + 1

MachineType ==
    [program_ptr : Nat, stack_ptr : -2 .. STACK_SIZE, halted : BOOLEAN, ticked : BOOLEAN,
     stack : [0 .. STACK_SIZE - 1 -> Word], reg : [0 .. HEAP_SIZE - 1 -> Word],
     tick_speed : Word, brightness : Nat, fg : Nat, bg : Nat, cursor : Word \X Word]

\* Every field keeps its type; program_ptr is an int that never goes negative.
TypeOK ==
    /\ body \in Programs
    /\ start \in Starts
    /\ DOMAIN call_index \subseteq Word
    /\ call_index = [s \in DOMAIN call_index |-> call_index[s]]
    /\ \A s \in DOMAIN call_index : call_index[s] \in Pointer
    /\ scan \in Pointer
    /\ max_ptr \in Pointer
    /\ m \in MachineType
    /\ phase \in {"new", "scan", "idle", "tick", "trapped"}
    /\ tick_start \in Clock
    /\ now \in Clock

Live == phase \in {"idle", "tick", "trapped"} /\ ~m.halted

\* Whatever words a program is made of (an operand cut off, a jump into an
\* operand, a return to a forged address), the machine never fetches past the
\* second terminator: step() and scan_subs read program[] with no bound check.
NoOverread == Live => m.program_ptr <= Len(body) + 1

\* push, pop, jump_sub and return_sub keep the stack pointer and the stack
\* segment of a running machine inside the stack, whatever the program does to
\* them; return_sub itself indexes with the segment before it checks anything.
StackBounds ==
    Live => /\ m.stack_ptr >= 0
            /\ m.reg[REG.STACK_SEGMENT] < STACK_SIZE

Mirrored(n) ==
    /\ n.tick_speed = Hertz(n.reg[REG.URGENCY])
    /\ n.brightness = Capped(n.reg[REG.BRIGHTNESS])
    /\ n.fg = Color(n.reg[REG.FOREGROUND])
    /\ n.bg = Color(n.reg[REG.BACKGROUND])

\* The brightness, the two colours and the tick speed exist twice, as a register
\* and as a setting of the panel or the timer: between any two instructions the
\* two agree, however the register was reached (its own instruction, OP_SET with
\* a computed number, a tick mode, a restart over an old machine's memory).
SettingsMirrored == phase \in {"idle", "tick", "trapped"} => Mirrored(m)

\* Every entry of call_index is the position of an OP_SUB that is followed by
\* the number it is entered under, so a jump by number never lands elsewhere.
IndexSound ==
    \A s \in DOMAIN call_index : Code(call_index[s]) = OP.SUB /\ Code(call_index[s] + 1) = s

\* Whichever instruction moves the cursor (printing, OP_SET_CURSOR, OP_SET on
\* either register), it leaves the panel's cursor and the two registers equal.
CursorMirrored ==
    [][ \/ phase' = "new"
        \/ m'.cursor = <<m'.reg[REG.CURSOR_X], m'.reg[REG.CURSOR_Y]>>
        \/ /\ m'.cursor = m.cursor
           /\ m'.reg[REG.CURSOR_X] = m.reg[REG.CURSOR_X]
           /\ m'.reg[REG.CURSOR_Y] = m.reg[REG.CURSOR_Y] ]_vars

InTickMode == phase \in {"idle", "tick"} /\ ~m.halted /\ m.reg[REG.TICK_MODE] # MODE.NONE

\* As long as a tick mode stays on, each of its frames takes words off the stack,
\* and nothing between two frames gives any back, so that no mode outlasts the
\* stack it found, whatever REG_MARK has wrapped to.
ModeConsumes ==
    [][ InTickMode /\ InTickMode' =>
            /\ m'.stack_ptr <= m.stack_ptr
            /\ phase = "tick" => m'.stack_ptr < m.stack_ptr ]_vars

\* No instruction can carry the clock from the slice's end, or before it, to
\* beyond its wrap.
DeadlineSeen == \A d \in Durations : Deadline + d <= ULONG_MAX

\* MAX_TIME_SLICE: no program, looping without a tick or not, keeps the firmware
\* loop from running, also where the clock wraps in the slice, with one exception:
\* a slice that ends less than an instruction before the wrap may be missed for
\* a round of the clock, and one that ends at ULONG_MAX is never found over.
TickReturns == phase = "tick" /\ DeadlineSeen ~> phase # "tick"

\* A tick mode ends: each of its frames takes at least one word off the stack,
\* so it runs out of marked words or out of stack, even where the frames' words
\* do not divide the marked ones and REG_MARK wraps below zero.
TickModeEnds ==
    (phase = "idle" /\ ~m.halted /\ m.reg[REG.TICK_MODE] # MODE.NONE)
        ~> (m.reg[REG.TICK_MODE] = MODE.NONE \/ m.halted)

\* OP_RETURN in the main sub: the frame begin() made is the one it returns by.
ReturnsFromMain ==
    /\ Executing({OP.RETURN})
    /\ m.reg[REG.STACK_SEGMENT] = 2
    /\ m.stack[0] = Wrap(max_ptr - 1)
    /\ m.stack[1] = 0

Over == m.halted \/ phase = "trapped"

\* OP_RETURN in main goes on with the last scanned word, not the terminator: when
\* nothing but the terminator ends the program, the machine does halt after it,
\* unless that word divides, by the 0 an empty stack gives.
MainReturnHalts == (ReturnsFromMain /\ max_ptr >= Len(body)) ~> Over

\* Behind the last word, or at it with nothing on the stack to work on.
Ending ==
    /\ phase \in {"idle", "tick"} /\ ~m.halted
    /\ m.reg[REG.TICK_MODE] = MODE.NONE
    /\ \/ m.program_ptr >= Len(body)
       \/ /\ m.program_ptr = Len(body) - 1
          /\ m.stack_ptr = 0 /\ m.reg[REG.STACK_SEGMENT] = 0

\* The way from there to the halt, whatever the last word is: it cannot jump, call,
\* return or change the mode for want of an operand, so each instruction is the
\* machine's last or moves it on, and there are three at most (NoOverread).
MainReturnEnds ==
    [][ /\ (ReturnsFromMain /\ max_ptr >= Len(body)) \/ Ending => (Over \/ Ending)'
        /\ phase = "tick" /\ Ending => Over' \/ m'.program_ptr > m.program_ptr ]_vars

\* The comment in begin(), "Make it so OP_RETURN in main will halt", for every
\* program.
ReturnInMainWillHalt == ReturnsFromMain ~> m.halted
=============================================================================
