--------------------------------- MODULE MCVM ---------------------------------
(* Programs for the machine: every sequence of at most three words over an   *)
(* alphabet with an instruction of each kind, and programs that go further   *)
(* into calls, tick modes and the stack's limits.                            *)
EXTENDS VM, SequencesExt

P(n) == <<OP.PUSH, n>>

Alphabet == {OP.SUB, OP.RETURN, OP.PUSH, OP.GOTO, OP.GOSUB, OP.DUP, OP.TICK, OP.DIV, 0}
ShortPrograms == SeqOf(Alphabet, 3)

\* sub 1 calls sub 2, which returns; sub 1 loops with a tick.
Calls == <<OP.SUB, 1, OP.MARK>> \o P(2) \o <<OP.GOSUB, OP.TICK>> \o P(1) \o <<OP.GOTO, OP.SUB, 2, OP.RETURN>>
\* sub 1 calls itself until the stack is full.
Deep == <<OP.SUB, 1>> \o P(1) \o <<OP.GOSUB>>
\* main, entered at the start, returns.
Returns == <<OP.SUB, 1, OP.NOOP, OP.RETURN, OP.SUB, 2, OP.TICK>>
Busy == <<OP.SUB, 1>> \o P(1) \o <<OP.GOTO>>
\* cmp and cmpsub, taken and not.
Compare(v) == P(v) \o P(2) \o <<OP.CMPSUB>> \o P(v) \o P(7) \o <<OP.CMP, OP.HALT, OP.SUB, 2, OP.RETURN>>
CompareSub(v) == <<OP.SUB, 1, OP.MARK>> \o P(v) \o P(2) \o <<OP.CMPSUB>> \o P(v) \o P(1)
                 \o <<OP.CMP, OP.RETURN, OP.SUB, 2, OP.RETURN>>
Expression(op, b, a) == P(b) \o P(a) \o <<op, OP.POP>>
Operands == {0, 1, 6, 17, 65535}
Expressions == {Expression(op, b, a) : op \in (Binary \cup Unary) \ {OP.MUL}, b \in Operands, a \in Operands}
               \cup {Expression(OP.MUL, b, a) : b \in {0, 3, 250}, a \in {0, 7, 100}}
\* the settings by their own instructions and by OP_SET, read back by OP_GET
Sets == {P(v) \o P(r) \o <<OP.SET>> \o P(r) \o <<OP.GET>> :
             v \in {0, 3, 80, 300, 20000}, r \in 0 .. HEAP_SIZE \cup {65535}}
Settings == {P(v) \o <<op, OP.TICK>> : v \in {0, 3, 80, 20000}, op \in DOMAIN Setting}
\* a tick mode over n marked words of four
TickModes == {P(1) \o <<OP.MARK>> \o P(3) \o P(4) \o P(0) \o P(1) \o P(mode) \o <<OP.TICK_MODE>>
                 \o <<OP.TICK>> :
                 mode \in {MODE.BRIGHTNESS, MODE.MASK_ROWS, MODE.MASK_COLUMNS, MODE.MASK_BITS, 5}}
             \cup {<<OP.MARK>> \o P(3) \o P(4) \o P(1) \o P(MODE.MASK_BITS) \o <<OP.TICK_MODE>>}
             \cup {P(9) \o <<OP.MARK>> \o P(MODE.MASK_ROWS) \o <<OP.TICK_MODE>>,
                   P(9) \o P(6) \o <<OP.SET>> \o P(MODE.MASK_BITS) \o <<OP.TICK_MODE>>}
\* the segment moved by OP_SET, then the words around it
\* (OP_RETURN to memory nobody wrote could loop with REG_MARK two higher each time:
\* jump_sub counts the frame it pushes, return_sub does not count it back)
Segments == {<<OP.MARK>> \o P(s) \o P(7) \o <<OP.SET>> \o P(v) \o <<op>> :
                 s \in {0, 1, 2, STACK_SIZE - 1, STACK_SIZE}, v \in {0, 1, 65535, 65534},
                 op \in {OP.READ, OP.READARG, OP.GOSUB}}
            \cup {P(s) \o P(7) \o <<OP.SET, OP.RETURN>> : s \in {0, 1, 2, STACK_SIZE}}
            \cup {<<OP.MARK>> \o P(5) \o P(v) \o <<OP.WRITE, OP.RETURN>> : v \in {0, 65535, 65534, 9}}
            \cup {P(60) \o P(65534) \o <<OP.WRITE, OP.RETURN>>}
Allocs == {P(7) \o P(n) \o <<OP.ALLOC, OP.SWAP>> : n \in {0, 2, STACK_SIZE, 65535}}
Paints == {P(1) \o P(2) \o <<op>> :
               op \in {OP.FILL_ROWS, OP.FILL_COLUMNS, OP.MASK_ROWS, OP.MASK_COLUMNS, OP.FILL_BITS,
                       OP.MASK_BITS, OP.PIXEL, OP.FILL, OP.PUTCHAR, OP.SET_CURSOR, OP.SWAP}}
          \cup {<<OP.RAND, OP.WIDTH, OP.HEIGHT>>, P(65) \o <<OP.PUTCHAR>> \o P(3) \o P(8) \o <<OP.SET>>,
                P(5) \o P(6) \o <<OP.SET_CURSOR>> \o P(65) \o <<OP.PUTCHAR>> \o P(2) \o P(9) \o <<OP.SET>>}

Written == {Calls, Deep, Returns, Busy} \cup {Compare(v) : v \in {0, 1}} \cup {CompareSub(v) : v \in {0, 1}}
\* main returns to a last word of every kind, one that is no instruction among them
Ends == {<<OP.RETURN, w>> : w \in KnownOps \cup {0}}

SafetyPrograms == ShortPrograms \cup Written \cup Expressions \cup Sets \cup Settings
                  \cup TickModes \cup Segments \cup Allocs \cup Paints \cup Ends
LivePrograms == Written \cup TickModes \cup Settings \cup Ends

\* An OP_HALT before the program's end: main's OP_RETURN lands on the operand of
\* the OP_PUSH before it, a 1, which is OP_SUB and takes the OP_HALT for its number.
EarlyHalt == {<<OP.SUB, 1, OP.RETURN, OP.SUB, 7, OP.TICK>> \o P(7) \o <<OP.GOTO>> \o P(1) \o
              <<OP.HALT>> \o P(7) \o <<OP.GOTO>>}
MCCursor == {<<4, 0>>}
=============================================================================
