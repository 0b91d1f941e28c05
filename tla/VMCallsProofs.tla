----------------------------- MODULE VMCallsProofs -----------------------------
(***************************************************************************)
(* Calls nest in the nametag machine (VMCalls), proved for every program,  *)
(* stack size and panel.  The argument has three parts: what each          *)
(* operation of the machine leaves alone below the running sub's segment   *)
(* (Kept); that an instruction either is plain and keeps all of it, or is  *)
(* a call, a return or a loosening and is recorded as one (StepKinds); and *)
(* what a call and a return do to the frames (FramesCall, FramesReturn).   *)
(* The frames are ordered pairwise in FramesKept, not neighbour by         *)
(* neighbour, so that no induction over the calls is needed.               *)
(***************************************************************************)
EXTENDS VMProofs, VMCalls, SequenceTheorems

Frame == [return : Nat, segment : Nat]

\* The inductive invariant: the machine's own, and the frames of the calls.
CallInv ==
    /\ IInv
    /\ calls \in Seq(Frame)
    /\ loose \in BOOLEAN
    /\ FramesKept

-----------------------------------------------------------------------------
(* What the machine's operations leave alone *)

\* If q still runs, n did, the segment is where it was, nothing below b has
\* changed, and the stack has not shrunk below b.
Kept(n, q, b) ==
    ~q.halted => /\ ~n.halted
                 /\ q.stack_ptr >= b
                 /\ q.reg[REG.STACK_SEGMENT] = n.reg[REG.STACK_SEGMENT]
                 /\ \A i \in 0 .. b - 1 : q.stack[i] = n.stack[i]

Room(n, b) == ~n.halted => n.stack_ptr >= b

\* Two operations in a row.
LEMMA KeptChain ==
    ASSUME NEW n, NEW q, NEW r, NEW b, Kept(n, q, b), Kept(q, r, b)
    PROVE  Kept(n, r, b)
BY DEF Kept

\* Where something was kept, there is room for the next operation.
LEMMA KeptRoom == ASSUME NEW n, NEW q, NEW b, Kept(n, q, b) PROVE Room(q, b)
BY DEF Kept, Room

\* halt() promises nothing.
LEMMA HaltKept == ASSUME NEW n \in MachineType, NEW b PROVE Kept(n, Halt(n), b)
BY DEF Kept, Halt, MachineType

\* pop() takes a word above b and nothing else.
LEMMA PopKept ==
    ASSUME NEW n \in MachineType, NEW b \in Nat, ~n.halted => n.stack_ptr - 1 >= b
    PROVE  Kept(n, Pop(n), b)
<1>1. n.reg \in [0 .. HEAP_SIZE - 1 -> Word]
    BY DEF MachineType
<1>2. \A w : [n.reg EXCEPT ![REG.MARK] = w][REG.STACK_SEGMENT] = n.reg[REG.STACK_SEGMENT]
    BY <1>1, Registers, RegisterNumbers
<1> QED BY <1>2, HaltKept DEF Pop, Kept, MachineType

\* push() stores above b.
LEMMA PushKept ==
    ASSUME NEW n \in MachineType, NEW b \in Nat, Room(n, b), NEW v
    PROVE  Kept(n, Push(n, v), b)
<1>1. n.reg \in [0 .. HEAP_SIZE - 1 -> Word] /\ n.stack \in [0 .. STACK_SIZE - 1 -> Word]
    BY DEF MachineType
<1>2. CASE n.stack_ptr >= STACK_SIZE
    BY <1>2, HaltKept DEF Push
<1>3. CASE ~(n.stack_ptr >= STACK_SIZE)
  <2> DEFINE s == [n.stack EXCEPT ![n.stack_ptr] = v]
             g == [n.reg EXCEPT ![REG.MARK] = Wrap(n.reg[REG.MARK] + 1)]
             q == [n EXCEPT !.stack = s, !.stack_ptr = n.stack_ptr + 1, !.reg = g]
  <2>1. Push(n, v) = q
      BY <1>3 DEF Push, MachineType
  <2>2. g[REG.STACK_SEGMENT] = n.reg[REG.STACK_SEGMENT]
      BY <1>1, Registers, RegisterNumbers
  <2>3. n.stack_ptr \in Int /\ STACK_SIZE \in Int
      BY StackAssumption DEF MachineType
  <2>4. n.stack_ptr >= b => \A i \in 0 .. b - 1 : s[i] = n.stack[i]
      BY <1>1, <1>3, <2>3
  <2> HIDE DEF s, g
  <2>5. q.stack = s /\ q.reg = g /\ q.stack_ptr = n.stack_ptr + 1 /\ q.halted = n.halted
      BY DEF MachineType
  <2> HIDE DEF q
  <2> QED BY <2>1, <2>2, <2>3, <2>4, <2>5 DEF Kept, Room
<1> QED BY <1>2, <1>3

\* k calls of pop() take words above b.
LEMMA PopManyKept ==
    ASSUME NEW n \in MachineType, NEW b \in Nat, NEW k \in Nat, ~n.halted => n.stack_ptr - k >= b
    PROVE  Kept(n, PopMany(n, k), b)
<1> DEFINE done == IF k <= n.stack_ptr THEN k ELSE IF n.stack_ptr > 0 THEN n.stack_ptr ELSE 0
           g == [n.reg EXCEPT ![REG.MARK] = Wrap(n.reg[REG.MARK] - done)]
           q == [n EXCEPT !.stack_ptr = n.stack_ptr - done, !.reg = g,
                          !.halted = n.halted \/ k > done]
<1>1. n.reg \in [0 .. HEAP_SIZE - 1 -> Word] /\ n.stack_ptr \in Int
    BY StackAssumption DEF MachineType
<1>2. PopMany(n, k) = q
    BY DEF PopMany, MachineType
<1>3. g[REG.STACK_SEGMENT] = n.reg[REG.STACK_SEGMENT]
    BY <1>1, Registers, RegisterNumbers
<1>4. ~n.halted => n.stack_ptr - done >= b
    BY <1>1
<1> HIDE DEF done, g
<1>5. /\ q.stack = n.stack /\ q.reg = g /\ q.stack_ptr = n.stack_ptr - done
      /\ q.halted = (n.halted \/ k > done)
    BY DEF MachineType
<1> HIDE DEF q
<1> QED BY <1>2, <1>3, <1>4, <1>5 DEF Kept

\* So do k calls of push() store them, or halt.
LEMMA PushManyKept ==
    ASSUME NEW n \in MachineType, NEW b \in Nat, Room(n, b), NEW v, NEW k \in Int
    PROVE  Kept(n, PushMany(n, v, k), b)
<1> DEFINE room == STACK_SIZE - n.stack_ptr
           done == IF k <= 0 THEN 0 ELSE IF k <= room THEN k ELSE room
           s == [i \in DOMAIN n.stack |-> IF i >= n.stack_ptr /\ i < n.stack_ptr + done
                                          THEN v ELSE n.stack[i]]
           g == [n.reg EXCEPT ![REG.MARK] = Wrap(n.reg[REG.MARK] + done)]
           q == [n EXCEPT !.stack = s, !.stack_ptr = n.stack_ptr + done, !.reg = g,
                          !.halted = n.halted \/ k > done]
<1>1. /\ n.reg \in [0 .. HEAP_SIZE - 1 -> Word] /\ n.stack \in [0 .. STACK_SIZE - 1 -> Word]
      /\ n.stack_ptr \in -2 .. STACK_SIZE
    BY DEF MachineType
<1>2. PushMany(n, v, k) = q
    BY DEF PushMany, MachineType
<1>3. g[REG.STACK_SEGMENT] = n.reg[REG.STACK_SEGMENT]
    BY <1>1, Registers, RegisterNumbers
<1>4. done \in Nat /\ n.stack_ptr \in Int
    BY <1>1, StackAssumption
<1>5. n.stack_ptr >= b => b <= STACK_SIZE
    BY <1>1, StackAssumption
<1> HIDE DEF done
<1>6. n.stack_ptr >= b => \A i \in 0 .. b - 1 : s[i] = n.stack[i]
    BY <1>1, <1>4, <1>5, StackAssumption
<1> HIDE DEF s, g
<1>7. /\ q.stack = s /\ q.reg = g /\ q.stack_ptr = n.stack_ptr + done
      /\ q.halted = (n.halted \/ k > done)
    BY DEF MachineType
<1> HIDE DEF q
<1>8. ~q.halted => ~n.halted
    BY <1>7, Zenon
<1>9. n.stack_ptr >= b => q.stack_ptr >= b
    BY <1>4, <1>7
<1> QED BY <1>2, <1>3, <1>6, <1>7, <1>8, <1>9 DEF Kept, Room

\* Operations that only move the program pointer or end the tick, or halt.
LEMMA MoveKept ==
    ASSUME NEW n \in MachineType, NEW b \in Nat, Room(n, b)
    PROVE  /\ Kept(n, n, b)
           /\ \A p : Kept(n, Jump(n, p), b)
           /\ \A p : Kept(n, AfterRead(n, p), b)
           /\ \A r : Kept(n, AfterGet(n, r), b)
           /\ Kept(n, NextTick(n), b)
           /\ Kept(n, Stepped(n), b)
<1>1. Kept(n, n, b)
    BY DEF Kept, Room
<1>2. /\ \A p : Kept(n, Jump(n, p), b)
      /\ Kept(n, NextTick(n), b)
      /\ Kept(n, Stepped(n), b)
    BY HaltKept DEF Jump, NextTick, Stepped, Kept, Room, MachineType
<1>3. /\ \A p : Kept(n, AfterRead(n, p), b)
      /\ \A r : Kept(n, AfterGet(n, r), b)
    BY <1>1, HaltKept DEF AfterRead, AfterGet
<1> QED BY <1>1, <1>2, <1>3

\* write_stack at or above b.
LEMMA WriteKept ==
    ASSUME NEW n \in MachineType, NEW b \in Nat, Room(n, b), NEW p \in Int, p >= b, NEW v
    PROVE  Kept(n, StackWrite(n, p, v), b)
<1>1. CASE ~InStack(p)
    BY <1>1, HaltKept DEF StackWrite
<1>2. CASE InStack(p)
  <2> DEFINE s == [n.stack EXCEPT ![p] = v]
             q == [n EXCEPT !.stack = s]
  <2>1. StackWrite(n, p, v) = q
      BY <1>2 DEF StackWrite, MachineType
  <2>2. \A i \in 0 .. b - 1 : s[i] = n.stack[i]
      BY <1>2 DEF InStack, MachineType
  <2> HIDE DEF s
  <2>3. q.stack = s /\ q.reg = n.reg /\ q.stack_ptr = n.stack_ptr /\ q.halted = n.halted
      BY DEF MachineType
  <2> HIDE DEF q
  <2> QED BY <2>1, <2>2, <2>3 DEF Kept, Room
<1> QED BY <1>1, <1>2

\* set_register of any register but the segment's.
LEMMA SetRegisterKept ==
    ASSUME NEW n \in MachineType, NEW b \in Nat, Room(n, b), NEW r \in Int, NEW v,
           r # REG.STACK_SEGMENT
    PROVE  Kept(n, SetRegister(n, r, v), b)
<1>1. CASE ~IsRegister(r)
    BY <1>1, HaltKept DEF SetRegister
<1>2. CASE IsRegister(r)
  <2> DEFINE g == [n.reg EXCEPT ![r] = v]
             s == [n EXCEPT !.reg = g]
             q == SetRegister(n, r, v)
             outcomes == {s, [s EXCEPT !.tick_speed = Hertz(v)],
                          [s EXCEPT !.brightness = Capped(v)], [s EXCEPT !.fg = Color(v)],
                          [s EXCEPT !.bg = Color(v)],
                          [s EXCEPT !.cursor = <<v, n.reg[REG.CURSOR_Y]>>],
                          [s EXCEPT !.cursor = <<n.reg[REG.CURSOR_X], v>>]}
  <2>1. s = [n EXCEPT !.reg[r] = v]
      BY DEF MachineType
  <2>2. g[REG.STACK_SEGMENT] = n.reg[REG.STACK_SEGMENT]
      BY <1>2, Registers DEF IsRegister, MachineType
  <2> HIDE DEF g
  <2>3. s.stack = n.stack /\ s.stack_ptr = n.stack_ptr /\ s.halted = n.halted /\ s.reg = g
      BY DEF MachineType
  <2>4. q \in outcomes
      BY <1>2, <2>1 DEF SetRegister
  <2>5. \A e \in outcomes : /\ e.stack = n.stack /\ e.stack_ptr = n.stack_ptr
                            /\ e.halted = n.halted /\ e.reg = g
      BY <2>3 DEF MachineType
  <2> HIDE DEF q, s
  <2> QED BY <2>2, <2>4, <2>5 DEF Kept, Room, q
<1> QED BY <1>1, <1>2

\* set_cursor sets two registers that are not the segment's.
LEMMA SetCursorKept ==
    ASSUME NEW n, Good(n), NEW b \in Nat, Room(n, b), NEW x \in Word, NEW y \in Word
    PROVE  Kept(n, SetCursor(n, x, y), b)
<1> DEFINE c == [n EXCEPT !.cursor = <<x, y>>]
           s == SetRegister(c, REG.CURSOR_X, x)
<1>1. c \in MachineType /\ Kept(n, c, b) /\ Good(c)
  <2>1. /\ c \in MachineType /\ c.stack_ptr = n.stack_ptr /\ c.stack = n.stack
        /\ c.halted = n.halted /\ c.reg = n.reg /\ c.program_ptr = n.program_ptr
        /\ c.tick_speed = n.tick_speed /\ c.brightness = n.brightness
        /\ c.fg = n.fg /\ c.bg = n.bg
      BY DEF Good, MachineType
  <2> HIDE DEF c
  <2> QED BY <2>1 DEF Kept, Room, Good, Mirrored
<1> HIDE DEF c
<1>2. /\ REG.CURSOR_X \in Int /\ REG.CURSOR_Y \in Int
      /\ REG.CURSOR_X # REG.STACK_SEGMENT /\ REG.CURSOR_Y # REG.STACK_SEGMENT
    BY RegisterNumbers
<1>3. s \in MachineType /\ Kept(c, s, b)
    BY <1>1, <1>2, KeptRoom, SetRegisterKept, SetRegisterGood DEF Good
<1> HIDE DEF s
<1>4. Kept(s, SetRegister(s, REG.CURSOR_Y, y), b)
    BY <1>2, <1>3, KeptRoom, SetRegisterKept
<1>5. SetCursor(n, x, y) = SetRegister(s, REG.CURSOR_Y, y)
    BY DEF SetCursor, c, s
<1> QED BY <1>1, <1>3, <1>4, <1>5, KeptChain

-----------------------------------------------------------------------------
(* What a call leaves on the stack *)

\* A push that does not halt stores its word.
LEMMA PushStores ==
    ASSUME NEW n \in MachineType, n.stack_ptr >= 0, NEW v \in Word, ~Push(n, v).halted
    PROVE  /\ n.stack_ptr \in 0 .. STACK_SIZE - 1 /\ ~n.halted
           /\ Push(n, v) \in MachineType
           /\ Push(n, v).stack_ptr = n.stack_ptr + 1
           /\ Push(n, v).reg[REG.STACK_SEGMENT] = n.reg[REG.STACK_SEGMENT]
           /\ Push(n, v).program_ptr = n.program_ptr
           /\ Push(n, v).stack = [n.stack EXCEPT ![n.stack_ptr] = v]
<1>1. n.stack_ptr \in 0 .. STACK_SIZE
    BY StackAssumption DEF MachineType
<1>2. n.stack_ptr \in 0 .. STACK_SIZE - 1
  <2>1. ~(n.stack_ptr >= STACK_SIZE)
      BY DEF Push, Halt, MachineType
  <2> QED BY <1>1, <2>1, StackAssumption
<1>3. /\ Push(n, v) \in MachineType /\ Push(n, v).stack_ptr = n.stack_ptr + 1
      /\ Push(n, v).reg = [n.reg EXCEPT ![REG.MARK] = Wrap(n.reg[REG.MARK] + 1)]
      /\ Push(n, v).program_ptr = n.program_ptr /\ Push(n, v).halted = n.halted
      /\ Push(n, v).stack = [n.stack EXCEPT ![n.stack_ptr] = v]
    BY <1>2, PushFields
<1>4. n.reg \in [0 .. HEAP_SIZE - 1 -> Word]
    BY DEF MachineType
<1>5. Push(n, v).reg[REG.STACK_SEGMENT] = n.reg[REG.STACK_SEGMENT]
    BY <1>3, <1>4, Registers, RegisterNumbers
<1> QED BY <1>2, <1>3, <1>5

\* jump_sub that does not halt: the return address and the caller's segment are
\* the two words below the new segment, and what lies below them is kept.
LEMMA JumpSubFrame ==
    ASSUME TypeOK, NEW n, Good(n), NEW p \in Int, ~JumpSub(n, p).halted
    PROVE  LET q == JumpSub(n, p)
               top == n.stack_ptr
           IN  /\ ~n.halted
               /\ top \in Nat
               /\ q.stack_ptr = top + 2
               /\ q.reg[REG.STACK_SEGMENT] = top + 2
               /\ q.stack[top] = n.program_ptr
               /\ q.stack[top + 1] = n.reg[REG.STACK_SEGMENT]
               /\ \A i \in 0 .. top - 1 : q.stack[i] = n.stack[i]
<1> DEFINE top == n.stack_ptr
           first == Push(n, n.program_ptr)
           saved == Push(first, n.reg[REG.STACK_SEGMENT])
           moved == SetRegister(saved, REG.STACK_SEGMENT, saved.stack_ptr)
           q == Jump(moved, p)
<1>1. n.program_ptr \in Word /\ n.reg[REG.STACK_SEGMENT] \in Word
    BY SavedWords
<1>2. n \in MachineType /\ first \in MachineType /\ first.stack_ptr >= 0
      /\ saved \in MachineType /\ saved.stack_ptr \in Word /\ n.stack_ptr >= 0
  <2>1. Good(first) /\ Good(saved)
      BY <1>1, PushGood
  <2> HIDE DEF first, saved
  <2>2. saved.stack_ptr \in Word
      BY <2>1, Fields, StackAssumption, WordAssumption DEF Word
  <2> QED BY <2>1, <2>2 DEF Good
<1>3. JumpSub(n, p) = q
    BY DEF JumpSub
<1>4. /\ moved.stack = saved.stack /\ moved.stack_ptr = saved.stack_ptr
      /\ moved.reg[REG.STACK_SEGMENT] = saved.stack_ptr
      /\ ~moved.halted => ~saved.halted
      /\ moved \in MachineType
  <2> HIDE DEF saved
  <2> QED BY <1>2, SetSegment
<1> HIDE DEF moved
<1>5. /\ q.stack = moved.stack /\ q.stack_ptr = moved.stack_ptr /\ q.reg = moved.reg
      /\ ~moved.halted
    BY <1>3, <1>4, JumpFields
<1> HIDE DEF q
<1>6. ~saved.halted
    BY <1>4, <1>5
<1>7. /\ first.stack_ptr \in 0 .. STACK_SIZE - 1 /\ ~first.halted
      /\ saved.stack_ptr = first.stack_ptr + 1
      /\ saved.stack = [first.stack EXCEPT ![first.stack_ptr] = n.reg[REG.STACK_SEGMENT]]
  <2> HIDE DEF first
  <2> QED BY <1>1, <1>2, <1>6, PushStores
<1> HIDE DEF saved
<1>8. /\ top \in 0 .. STACK_SIZE - 1 /\ ~n.halted
      /\ first.stack_ptr = top + 1
      /\ first.stack = [n.stack EXCEPT ![top] = n.program_ptr]
    BY <1>1, <1>2, <1>7, PushStores
<1> HIDE DEF first
<1>9. n.stack \in [0 .. STACK_SIZE - 1 -> Word] /\ top + 1 \in 0 .. STACK_SIZE - 1
    BY <1>2, <1>7, <1>8 DEF MachineType
<1>10. q.stack = [[n.stack EXCEPT ![top] = n.program_ptr] EXCEPT ![top + 1] = n.reg[REG.STACK_SEGMENT]]
    BY <1>4, <1>5, <1>7, <1>8
<1>11. top \in Nat /\ q.stack_ptr = top + 2 /\ q.reg[REG.STACK_SEGMENT] = top + 2
    BY <1>4, <1>5, <1>7, <1>8
<1>12. /\ q.stack[top] = n.program_ptr
       /\ q.stack[top + 1] = n.reg[REG.STACK_SEGMENT]
       /\ \A i \in 0 .. top - 1 : q.stack[i] = n.stack[i]
  <2> DEFINE f == [n.stack EXCEPT ![top] = n.program_ptr]
  <2>1. DOMAIN n.stack = 0 .. STACK_SIZE - 1 /\ top \in 0 .. STACK_SIZE - 1
      BY <1>8, <1>9
  <2> HIDE DEF top
  <2>2. /\ DOMAIN f = 0 .. STACK_SIZE - 1 /\ f[top] = n.program_ptr
        /\ \A i \in 0 .. top - 1 : f[i] = n.stack[i]
    <3>1. DOMAIN f = DOMAIN n.stack /\ f[top] = n.program_ptr
        BY <2>1
    <3>2. \A i \in DOMAIN n.stack : i # top => f[i] = n.stack[i]
        OBVIOUS
    <3>3. \A i \in 0 .. top - 1 : i \in DOMAIN n.stack /\ i # top
        BY <2>1, StackAssumption
    <3> QED BY <2>1, <3>1, <3>2, <3>3
  <2>3. q.stack = [f EXCEPT ![top + 1] = n.reg[REG.STACK_SEGMENT]]
      BY <1>10
  <2> HIDE DEF f
  <2>4. q.stack[top + 1] = n.reg[REG.STACK_SEGMENT]
      BY <1>9, <2>2, <2>3
  <2>5. \A i \in 0 .. top : q.stack[i] = f[i]
      BY <1>8, <1>9, <2>2, <2>3
  <2> QED BY <1>8, <2>2, <2>4, <2>5
<1> QED BY <1>3, <1>8, <1>11, <1>12

-----------------------------------------------------------------------------
(* One instruction, of a program that keeps above its segment *)

\* The opcodes, by the words they take.
LEMMA Opcodes ==
    /\ \A op \in TakingOne : Takes(op) = 1
    /\ \A op \in TakingTwo : Takes(op) = 2
    /\ \A op \in {OP.FILL_BITS, OP.MASK_BITS} : Takes(op) = H
    /\ \A op \in {OP.SUB, OP.RETURN, OP.TICK, OP.HALT, OP.NOOP, OP.FILL, OP.RAND, OP.WIDTH,
                  OP.HEIGHT, OP.MARK, OP.PUSH} : Takes(op) = 0
BY DEF Takes, TakingOne, TakingTwo, OP, Unary, Binary, Setting

\* The instructions that neither call nor return.
Plain == {OP.SUB, OP.GOTO, OP.TICK, OP.CMP, OP.NOOP, OP.HALT,
          OP.FILL, OP.RAND, OP.WIDTH, OP.HEIGHT, OP.SET, OP.GET, OP.MARK, OP.PIXEL,
          OP.FILL_ROWS, OP.FILL_COLUMNS, OP.MASK_ROWS, OP.MASK_COLUMNS,
          OP.FILL_BITS, OP.MASK_BITS, OP.PUSH, OP.POP, OP.DUP, OP.SWAP, OP.READ,
          OP.READARG, OP.WRITE, OP.ALLOC, OP.PUTCHAR, OP.SET_CURSOR}
         \cup Binary \cup Unary \cup DOMAIN Setting

\* An instruction is plain, a call or a return, and only one of the three.
LEMMA NotCall ==
    /\ OP.GOSUB \notin Plain /\ OP.CMPSUB \notin Plain /\ OP.RETURN \notin Plain
    /\ OP.GOSUB # OP.CMPSUB /\ OP.GOSUB # OP.RETURN /\ OP.CMPSUB # OP.RETURN
    /\ OP.GOSUB \in KnownOps /\ OP.CMPSUB \in KnownOps /\ OP.RETURN \in KnownOps
    /\ Divide \subseteq Plain
<1>1. /\ OP.GOSUB \notin Plain /\ OP.CMPSUB \notin Plain /\ OP.RETURN \notin Plain
      /\ OP.GOSUB # OP.CMPSUB /\ OP.GOSUB # OP.RETURN /\ OP.CMPSUB # OP.RETURN
    BY DEF OP, Plain, Binary, Unary, Setting
<1>2. OP.GOSUB \in KnownOps /\ OP.CMPSUB \in KnownOps /\ OP.RETURN \in KnownOps
    BY DEF OP, KnownOps
<1>3. Divide \subseteq Plain
    BY DEF Divide, Binary, Plain
<1> QED BY <1>1, <1>2, <1>3

\* The running sub's segment, and the room above it.
LEMMA SegmentRoom ==
    ASSUME CallInv, Promised, phase = "tick"
    PROVE  /\ Segment \in 0 .. STACK_SIZE - 1
           /\ Segment \in Nat
           /\ m \in MachineType
           /\ m.stack_ptr >= Segment
           /\ ~m.halted
<1>1. Good(m) /\ ~m.halted
    BY Ticking DEF CallInv
<1>2. Segment \in 0 .. STACK_SIZE - 1 /\ Segment \in Nat
    BY <1>1, SegmentInside DEF Segment
<1> QED BY <1>1, <1>2 DEF CallInv, FramesKept, Good

\* An instruction that has taken its operands has left what lies below its
\* segment alone.
LEMMA OperandsKept ==
    ASSUME CallInv, Promised, ~Meddles, phase = "tick", m.reg[REG.TICK_MODE] = MODE.NONE,
           Fetched(m) # OP.HALT
    PROVE  /\ Kept(m, Op0, Segment)
           /\ Kept(m, Stepped(Op0), Segment)
           /\ Fetched(m) \in TakingOne \cup TakingTwo => Kept(m, Op1, Segment)
           /\ Fetched(m) \in TakingTwo => Kept(m, Op2, Segment)
           /\ m.stack_ptr - Takes(Fetched(m)) >= Segment
           /\ Op0.stack_ptr = m.stack_ptr
           /\ Op0.program_ptr = m.program_ptr + 1
           /\ Op0.stack = m.stack /\ Op0.reg = m.reg
           /\ Op1.program_ptr = m.program_ptr + 1
           /\ Op2.program_ptr = m.program_ptr + 1
<1>1. /\ m \in MachineType /\ Segment \in Nat /\ m.stack_ptr >= Segment /\ ~m.halted
    BY SegmentRoom
<1>2. Op0 \in MachineType /\ Op1 \in MachineType /\ Op2 \in MachineType
    BY Operands DEF CallInv, Good
<1>3. Kept(m, Op0, Segment) /\ Kept(Op0, Stepped(Op0), Segment)
    BY <1>1, <1>2, MoveKept, KeptRoom DEF Op0, Room
<1>4. /\ Op0.stack_ptr = m.stack_ptr /\ Op0.program_ptr = m.program_ptr + 1
      /\ Op0.stack = m.stack /\ Op0.reg = m.reg
    BY <1>1 DEF Op0, Stepped, MachineType
<1>5. /\ Op1.program_ptr = Op0.program_ptr /\ Op2.program_ptr = Op1.program_ptr
      /\ ~Op1.halted => Op1.stack_ptr = Op0.stack_ptr - 1
    BY <1>2 DEF Op1, Op2, Pop, Halt, MachineType
<1>6. m.stack_ptr - Takes(Fetched(m)) >= Segment
  <2>1. ~(m.stack_ptr - Takes(Fetched(m)) < Segment)
      BY DEF Meddles, Taken
  <2>2. m.stack_ptr \in Int /\ Takes(Fetched(m)) \in Int
      BY <1>1, PanelAssumption, WordAssumption, StackAssumption DEF MachineType, Takes, Word
  <2> QED BY <1>1, <2>1, <2>2
<1>7. Fetched(m) \in TakingOne \cup TakingTwo => Kept(Op0, Op1, Segment)
  <2>1. SUFFICES ASSUME Fetched(m) \in TakingOne \cup TakingTwo PROVE Kept(Op0, Op1, Segment)
      OBVIOUS
  <2>2. Takes(Fetched(m)) \in {1, 2} /\ m.stack_ptr \in Int
      BY <1>1, <2>1, Opcodes, StackAssumption DEF MachineType
  <2>3. Op0.stack_ptr - 1 >= Segment
      BY <1>1, <1>4, <1>6, <2>2
  <2> QED BY <1>1, <1>2, <2>3, PopKept DEF Op1
<1>8. Fetched(m) \in TakingTwo => Kept(Op1, Op2, Segment)
  <2>1. SUFFICES ASSUME Fetched(m) \in TakingTwo PROVE Kept(Op1, Op2, Segment)
      OBVIOUS
  <2>2. Takes(Fetched(m)) = 2 /\ m.stack_ptr \in Int
      BY <1>1, <2>1, Opcodes, StackAssumption DEF MachineType
  <2>3. ~Op1.halted => Op1.stack_ptr - 1 >= Segment
      BY <1>1, <1>4, <1>5, <1>6, <2>2
  <2> QED BY <1>1, <1>2, <2>3, PopKept DEF Op2
<1> QED BY <1>3, <1>4, <1>5, <1>6, <1>7, <1>8, KeptChain

\* What every group of plain instructions is shown to do.
PlainTurn ==
    /\ Kept(m, m', Segment)
    /\ UNCHANGED <<body, start, call_index, scan, max_ptr>>
    /\ phase' \in {"idle", "tick"}

\* A turn that leaves a machine in which the segment was kept.
LEMMA TurnPlain ==
    ASSUME CallInv, phase = "tick", NEW n, Turn(n), Kept(m, n, Segment)
    PROVE  PlainTurn
<1>1. phase' \in {"idle", "tick"}
    BY DEF Turn, LeaveTick
<1> QED BY <1>1 DEF Turn, PlainTurn

\* The plain instructions that run and jump.
LEMMA ControlKept ==
    ASSUME CallInv, Promised, ~Meddles, OpSub \/ OpGoto \/ OpTick \/ OpCmp \/ OpNothing
    PROVE  PlainTurn
<1>1. phase = "tick" /\ Fetched(m) # OP.HALT /\ m.reg[REG.TICK_MODE] = MODE.NONE
    BY NotHalt DEF OpSub, OpGoto, OpTick, OpCmp, OpNothing, Executing
<1>2. Op0 \in MachineType /\ Op1 \in MachineType /\ Op2 \in MachineType
    BY <1>1, Operands DEF CallInv, Good
<1>3. /\ Kept(m, Op0, Segment) /\ Kept(m, Stepped(Op0), Segment)
      /\ Fetched(m) \in TakingOne \cup TakingTwo => Kept(m, Op1, Segment)
      /\ Fetched(m) \in TakingTwo => Kept(m, Op2, Segment)
      /\ Segment \in Nat
    BY <1>1, OperandsKept, SegmentRoom
<1>4. CASE OpSub
    BY <1>1, <1>3, <1>4, TurnPlain DEF OpSub
<1>5. CASE OpGoto
  <2>1. Kept(m, Op1, Segment)
      BY <1>3, <1>5 DEF OpGoto, Executing, TakingOne
  <2>2. Kept(m, Jump(Op1, GetSub(A)), Segment)
      BY <1>2, <1>3, <2>1, KeptRoom, MoveKept, KeptChain
  <2> QED BY <1>1, <1>5, <2>2, TurnPlain DEF OpGoto
<1>6. CASE OpTick
  <2>1. Kept(m, NextTick(Op0), Segment)
      BY <1>2, <1>3, KeptRoom, MoveKept, KeptChain
  <2> QED BY <1>1, <1>6, <2>1, TurnPlain DEF OpTick
<1>7. CASE OpCmp
  <2>1. Kept(m, Op2, Segment)
      BY <1>3, <1>7 DEF OpCmp, Executing, TakingTwo
  <2>2. Kept(m, Jump(Op2, GetSub(A)), Segment)
      BY <1>2, <1>3, <2>1, KeptRoom, MoveKept, KeptChain
  <2>3. Kept(m, IF B # 0 THEN Jump(Op2, GetSub(A)) ELSE Op2, Segment)
      BY <2>1, <2>2
  <2> QED BY <1>1, <1>7, <2>3, TurnPlain DEF OpCmp
<1>8. CASE OpNothing
    BY <1>1, <1>3, <1>8, TurnPlain DEF OpNothing
<1> QED BY <1>4, <1>5, <1>6, <1>7, <1>8

\* The instructions that compute.
LEMMA ArithmeticKept ==
    ASSUME CallInv, Promised, ~Meddles, OpBinary \/ OpUnary \/ OpRand \/ OpWidth \/ OpHeight
    PROVE  PlainTurn
<1>1. phase = "tick" /\ Fetched(m) # OP.HALT /\ m.reg[REG.TICK_MODE] = MODE.NONE
    BY NotHalt DEF OpBinary, OpUnary, OpRand, OpWidth, OpHeight, Executing
<1>2. Op0 \in MachineType /\ Op1 \in MachineType /\ Op2 \in MachineType
    BY <1>1, Operands DEF CallInv, Good
<1>3. /\ Kept(m, Op0, Segment)
      /\ Fetched(m) \in TakingOne \cup TakingTwo => Kept(m, Op1, Segment)
      /\ Fetched(m) \in TakingTwo => Kept(m, Op2, Segment)
      /\ Segment \in Nat
    BY <1>1, OperandsKept, SegmentRoom
<1>4. ASSUME NEW n \in MachineType, Kept(m, n, Segment) PROVE \A v : Kept(m, Push(n, v), Segment)
    BY <1>3, <1>4, KeptRoom, PushKept, KeptChain
<1>5. CASE OpBinary
  <2>1. Kept(m, Op2, Segment)
      BY <1>3, <1>5 DEF OpBinary, Executing, TakingTwo
  <2>2. PICK r \in Results(Fetched(m), B, A) : Turn(Push(Op2, r))
      BY <1>5 DEF OpBinary
  <2> QED BY <1>1, <1>2, <1>4, <2>1, <2>2, TurnPlain
<1>6. CASE OpUnary
  <2>1. Kept(m, Op1, Segment)
      BY <1>3, <1>6 DEF OpUnary, Executing, TakingOne
  <2>2. PICK r \in Results(Fetched(m), 0, A) : Turn(Push(Op1, r))
      BY <1>6 DEF OpUnary
  <2> QED BY <1>1, <1>2, <1>4, <2>1, <2>2, TurnPlain
<1>7. CASE OpRand
  <2>1. PICK r \in RandomWords : Turn(Push(Op0, r))
      BY <1>7 DEF OpRand
  <2> QED BY <1>1, <1>2, <1>3, <1>4, <2>1, TurnPlain
<1>8. CASE OpWidth
    BY <1>1, <1>2, <1>3, <1>4, <1>8, TurnPlain DEF OpWidth
<1>9. CASE OpHeight
    BY <1>1, <1>2, <1>3, <1>4, <1>9, TurnPlain DEF OpHeight
<1> QED BY <1>5, <1>6, <1>7, <1>8, <1>9

\* The instructions on registers, the panel's settings and its cursor.
LEMMA SettingKept ==
    ASSUME CallInv, Promised, ~Meddles,
           OpSet \/ OpGet \/ OpSetting \/ OpMark \/ OpPutChar \/ OpSetCursor
    PROVE  PlainTurn
<1>1. phase = "tick" /\ Fetched(m) # OP.HALT /\ m.reg[REG.TICK_MODE] = MODE.NONE
    BY NotHalt DEF OpSet, OpGet, OpSetting, OpMark, OpPutChar, OpSetCursor, Executing
<1>2. /\ Op0 \in MachineType /\ Op1 \in MachineType /\ Op2 \in MachineType
      /\ Good(Op1) /\ Good(Op2) /\ A \in Word /\ B \in Word /\ Signed(A) \in Int
    BY <1>1, Operands DEF CallInv, Good
<1>3. /\ Kept(m, Op0, Segment)
      /\ Fetched(m) \in TakingOne \cup TakingTwo => Kept(m, Op1, Segment)
      /\ Fetched(m) \in TakingTwo => Kept(m, Op2, Segment)
      /\ Segment \in Nat
    BY <1>1, OperandsKept, SegmentRoom
<1>4. CASE OpSet
  <2>1. Kept(m, Op2, Segment)
      BY <1>3, <1>4 DEF OpSet, Executing, TakingTwo
  <2>2. Signed(A) # REG.STACK_SEGMENT
      BY <1>4 DEF OpSet, Meddles
  <2>3. Kept(m, SetRegister(Op2, Signed(A), B), Segment)
      BY <1>2, <1>3, <2>1, <2>2, KeptRoom, SetRegisterKept, KeptChain
  <2> QED BY <1>1, <1>4, <2>3, TurnPlain DEF OpSet
<1>5. CASE OpGet
  <2> DEFINE got == AfterGet(Op1, Signed(A))
  <2>1. Kept(m, Op1, Segment)
      BY <1>3, <1>5 DEF OpGet, Executing, TakingOne
  <2>2. Kept(m, got, Segment) /\ got \in MachineType
      BY <1>2, <1>3, <2>1, KeptRoom, MoveKept, KeptChain, GetGood DEF Good
  <2> HIDE DEF got
  <2>3. Kept(m, Push(got, Register(Op1, Signed(A))), Segment)
      BY <1>3, <2>2, KeptRoom, PushKept, KeptChain
  <2> QED BY <1>1, <1>5, <2>3, TurnPlain DEF OpGet, got
<1>6. CASE OpSetting
  <2>1. Fetched(m) \in DOMAIN Setting
      BY <1>6 DEF OpSetting, Executing
  <2>2. Kept(m, Op1, Segment)
      BY <1>3, <2>1 DEF TakingOne
  <2>3. Kept(m, SetRegister(Op1, Setting[Fetched(m)], A), Segment)
      BY <1>2, <1>3, <2>1, <2>2, SettingNumbers, KeptRoom, SetRegisterKept, KeptChain
  <2> QED BY <1>1, <1>6, <2>3, TurnPlain DEF OpSetting
<1>7. CASE OpMark
  <2>1. REG.MARK \in Int /\ REG.MARK # REG.STACK_SEGMENT
      BY RegisterNumbers
  <2>2. Kept(m, SetRegister(Op0, REG.MARK, 0), Segment)
      BY <1>2, <1>3, <2>1, KeptRoom, SetRegisterKept, KeptChain
  <2> QED BY <1>1, <1>7, <2>2, TurnPlain DEF OpMark
<1>8. CASE OpPutChar
  <2>1. Kept(m, Op1, Segment)
      BY <1>3, <1>8 DEF OpPutChar, Executing, TakingOne
  <2>2. PICK c \in CursorPoints : Turn(SetCursor(Op1, c[1], c[2]))
      BY <1>8 DEF OpPutChar
  <2>3. c[1] \in Word /\ c[2] \in Word
      BY CursorAssumption
  <2>4. Kept(m, SetCursor(Op1, c[1], c[2]), Segment)
      BY <1>2, <1>3, <2>1, <2>3, KeptRoom, SetCursorKept, KeptChain
  <2> QED BY <1>1, <2>2, <2>4, TurnPlain
<1>9. CASE OpSetCursor
  <2>1. Kept(m, Op2, Segment)
      BY <1>3, <1>9 DEF OpSetCursor, Executing, TakingTwo
  <2>2. Kept(m, SetCursor(Op2, B, A), Segment)
      BY <1>2, <1>3, <2>1, KeptRoom, SetCursorKept, KeptChain
  <2> QED BY <1>1, <1>9, <2>2, TurnPlain DEF OpSetCursor
<1> QED BY <1>4, <1>5, <1>6, <1>7, <1>8, <1>9

\* The instructions on the stack, and those that paint.
LEMMA StackKept ==
    ASSUME CallInv, Promised, ~Meddles,
           \/ OpPaint1 \/ OpPaint2 \/ OpPaintH \/ OpPush \/ OpPop \/ OpDup \/ OpSwap
           \/ OpRead \/ OpReadArg \/ OpWrite \/ OpAlloc
    PROVE  PlainTurn
<1>1. phase = "tick" /\ Fetched(m) # OP.HALT /\ m.reg[REG.TICK_MODE] = MODE.NONE
    BY NotHalt DEF OpPaint1, OpPaint2, OpPaintH, OpPush, OpPop, OpDup, OpSwap, OpRead, OpReadArg,
                   OpWrite, OpAlloc, Executing
<1>2. /\ Op0 \in MachineType /\ Op1 \in MachineType /\ Op2 \in MachineType
      /\ Good(Op1) /\ Good(Op2) /\ A \in Word /\ B \in Word
      /\ Stepped(Op0) \in MachineType /\ Signed(A) \in Int
    BY <1>1, Operands DEF CallInv, Good
<1>3. /\ Kept(m, Op0, Segment) /\ Kept(m, Stepped(Op0), Segment)
      /\ Fetched(m) \in TakingOne \cup TakingTwo => Kept(m, Op1, Segment)
      /\ Fetched(m) \in TakingTwo => Kept(m, Op2, Segment)
      /\ Segment \in Nat /\ Op0.stack_ptr = m.stack_ptr
      /\ m.stack_ptr - Takes(Fetched(m)) >= Segment
    BY <1>1, OperandsKept, SegmentRoom
<1>4. ASSUME NEW n \in MachineType, Kept(m, n, Segment) PROVE \A v : Kept(m, Push(n, v), Segment)
    BY <1>3, <1>4, KeptRoom, PushKept, KeptChain
<1>5. /\ OpPaint1 \/ OpPop \/ OpDup \/ OpRead \/ OpReadArg => Kept(m, Op1, Segment)
      /\ OpPaint2 \/ OpSwap \/ OpWrite \/ OpAlloc => Kept(m, Op2, Segment)
    BY <1>3 DEF OpPaint1, OpPop, OpDup, OpRead, OpReadArg, OpPaint2, OpSwap, OpWrite, OpAlloc,
                Executing, TakingOne, TakingTwo
<1>6. CASE OpPaint1 \/ OpPop
    BY <1>1, <1>5, <1>6, TurnPlain DEF OpPaint1, OpPop
<1>7. CASE OpPaint2
    BY <1>1, <1>5, <1>7, TurnPlain DEF OpPaint2
<1>8. CASE OpPaintH
  <2>1. Takes(Fetched(m)) = H /\ H \in Nat
      BY <1>8, Opcodes, PanelAssumption, WordAssumption DEF OpPaintH, Executing, Word
  <2>2. Kept(m, PopMany(Op0, H), Segment)
      BY <1>2, <1>3, <2>1, PopManyKept, KeptChain
  <2> QED BY <1>1, <1>8, <2>2, TurnPlain DEF OpPaintH
<1>9. CASE OpPush
    BY <1>1, <1>2, <1>3, <1>4, <1>9, TurnPlain DEF OpPush
<1>10. CASE OpDup
  <2>1. Push(Op1, A) \in MachineType
      BY <1>2, PushGood DEF Good
  <2> QED BY <1>1, <1>2, <1>4, <1>5, <1>10, <2>1, TurnPlain DEF OpDup
<1>11. CASE OpSwap
  <2>1. Push(Op2, A) \in MachineType
      BY <1>2, PushGood DEF Good
  <2> QED BY <1>1, <1>2, <1>4, <1>5, <1>11, <2>1, TurnPlain DEF OpSwap
<1>12. ASSUME NEW p \in Int, Kept(m, Op1, Segment)
       PROVE  \A v : Kept(m, Push(AfterRead(Op1, p), v), Segment)
  <2>1. Kept(m, AfterRead(Op1, p), Segment) /\ AfterRead(Op1, p) \in MachineType
      BY <1>2, <1>3, <1>12, KeptRoom, ReadGood, MoveKept, KeptChain DEF Good
  <2> QED BY <1>4, <2>1
<1>13. /\ Signed(Wrap(m.reg[REG.STACK_SEGMENT] + A)) \in Int
       /\ Signed(Wrap(m.reg[REG.STACK_SEGMENT] - A - 2)) \in Int
    BY <1>1, Addresses DEF CallInv
<1>14. CASE OpRead
    BY <1>1, <1>5, <1>12, <1>13, <1>14, TurnPlain DEF OpRead
<1>15. CASE OpReadArg
    BY <1>1, <1>5, <1>12, <1>13, <1>15, TurnPlain DEF OpReadArg
<1>16. CASE OpWrite
  <2> DEFINE p == Signed(Wrap(m.reg[REG.STACK_SEGMENT] + A))
  <2>1. ~(p < Segment)
      BY <1>16 DEF OpWrite, Meddles, Segment
  <2>2. p \in Int /\ p >= Segment
      BY <1>3, <1>13, <2>1
  <2> HIDE DEF p
  <2>3. Kept(m, StackWrite(Op2, p, B), Segment)
      BY <1>2, <1>3, <1>5, <1>16, <2>2, KeptRoom, WriteKept, KeptChain
  <2> QED BY <1>1, <1>16, <2>3, TurnPlain DEF OpWrite, p
<1>17. CASE OpAlloc
  <2>1. Kept(m, PushMany(Op2, B, Signed(A)), Segment)
      BY <1>2, <1>3, <1>5, <1>17, KeptRoom, PushManyKept, KeptChain
  <2> QED BY <1>1, <1>17, <2>1, TurnPlain DEF OpAlloc
<1> QED BY <1>6, <1>7, <1>8, <1>9, <1>10, <1>11, <1>14, <1>15, <1>16, <1>17

\* Halting, and the frames of a tick mode.
LEMMA ModeKept ==
    ASSUME CallInv, Promised, ~Meddles,
           \/ OpHalt \/ OpInvalid
           \/ ModeBrightness \/ ModeMask \/ ModeMaskBits \/ ModeOver \/ ModeInvalid
    PROVE  PlainTurn
<1>1. phase = "tick"
    BY DEF OpHalt, OpInvalid, Executing, ModeBrightness, ModeMask, ModeMaskBits, ModeOver,
           ModeInvalid, InMode
<1>2. /\ Segment \in Nat /\ m \in MachineType /\ m.stack_ptr >= Segment
      /\ Good(m) /\ Pop(m) \in MachineType /\ Good(Pop(m)) /\ Popped(m) \in Word
      /\ m.stack_ptr \in Int /\ H \in Nat
  <2>1. Segment \in Nat /\ m \in MachineType /\ m.stack_ptr >= Segment
      BY <1>1, SegmentRoom
  <2>2. Good(m)
      BY <1>1, Ticking DEF CallInv
  <2>3. Good(Pop(m)) /\ Popped(m) \in Word
      BY <2>2, PopGood
  <2>4. Pop(m) \in MachineType
      BY <2>3 DEF Good
  <2>5. m.stack_ptr \in Int
      BY <2>1, StackAssumption DEF MachineType
  <2>6. H \in Nat
      BY PanelAssumption, WordAssumption DEF Word
  <2> QED BY <2>1, <2>2, <2>3, <2>4, <2>5, <2>6
<1>3. m.reg[REG.TICK_MODE] # MODE.NONE => m.stack_ptr - FrameTakes >= Segment
  <2>1. m.reg[REG.TICK_MODE] # MODE.NONE => ~(m.stack_ptr - FrameTakes < Segment)
      BY <1>1 DEF Meddles, Taken
  <2>2. FrameTakes \in Int
      BY <1>2 DEF FrameTakes
  <2> QED BY <1>2, <2>1, <2>2
<1>4. /\ MODE.BRIGHTNESS # MODE.NONE /\ MODE.MASK_ROWS # MODE.NONE /\ MODE.MASK_COLUMNS # MODE.NONE
      /\ MODE.MASK_BITS # MODE.NONE /\ MODE.MASK_BITS # MODE.BRIGHTNESS
      /\ MODE.MASK_BITS # MODE.MASK_ROWS /\ MODE.MASK_BITS # MODE.MASK_COLUMNS
    BY DEF MODE
<1>5. CASE OpHalt \/ OpInvalid
  <2>1. Op0 \in MachineType
    <3>1. m.program_ptr + 1 \in Nat
        BY <1>2 DEF MachineType
    <3>2. [m EXCEPT !.program_ptr = m.program_ptr + 1] \in MachineType
        BY <1>2, <3>1 DEF MachineType
    <3> QED BY <1>2, <3>2 DEF Op0, Stepped
  <2>2. Kept(m, Op0, Segment)
      BY <1>2, MoveKept DEF Op0, Room
  <2>3. Kept(m, Halt(Op0), Segment)
      BY <2>1, <2>2, HaltKept, KeptChain
  <2> QED BY <1>1, <1>5, <2>3, TurnPlain DEF OpHalt, OpInvalid
<1>6. ASSUME ModeBrightness \/ ModeMask PROVE Kept(m, Pop(m), Segment)
  <2>1. m.reg[REG.MARK] # 0 /\ m.reg[REG.MARK] \in Word
      BY <1>2, <1>6, Fields, WordAssumption DEF ModeBrightness, ModeMask, InMode, Word
  <2>2. FrameTakes = 1
      BY <1>4, <1>6, <2>1 DEF ModeBrightness, ModeMask, InMode, FrameTakes
  <2>3. m.stack_ptr - 1 >= Segment
      BY <1>3, <1>4, <1>6, <2>2 DEF ModeBrightness, ModeMask, InMode
  <2> QED BY <1>2, <2>3, PopKept
<1>7. CASE ModeBrightness
  <2> DEFINE q == SetRegister(Pop(m), REG.BRIGHTNESS, Popped(m))
  <2>1. REG.BRIGHTNESS \in Int /\ REG.BRIGHTNESS # REG.STACK_SEGMENT
      BY RegisterNumbers
  <2>2. q \in MachineType
      BY <1>2, <2>1, SetRegisterGood DEF Good
  <2>3. Kept(m, q, Segment)
      BY <1>2, <1>6, <1>7, <2>1, KeptRoom, SetRegisterKept, KeptChain
  <2> HIDE DEF q
  <2>4. Kept(m, NextTick(q), Segment)
      BY <1>2, <2>2, <2>3, KeptRoom, MoveKept, KeptChain
  <2> QED BY <1>1, <1>7, <2>4, TurnPlain DEF ModeBrightness, q
<1>8. CASE ModeMask
  <2>1. Kept(m, NextTick(Pop(m)), Segment)
      BY <1>2, <1>6, <1>8, KeptRoom, MoveKept, KeptChain
  <2> QED BY <1>1, <1>8, <2>1, TurnPlain DEF ModeMask
<1>9. CASE ModeMaskBits
  <2>1. m.reg[REG.MARK] # 0
      BY <1>2, <1>9, Fields, WordAssumption DEF ModeMaskBits, InMode, Word
  <2>2. FrameTakes = H
      BY <1>9, <2>1 DEF ModeMaskBits, InMode, FrameTakes
  <2>3. m.stack_ptr - H >= Segment
      BY <1>3, <1>4, <1>9, <2>2 DEF ModeMaskBits, InMode
  <2>4. Kept(m, PopMany(m, H), Segment) /\ PopMany(m, H) \in MachineType
      BY <1>2, <2>3, PopManyKept, PopManyGood DEF Good
  <2>5. Kept(m, NextTick(PopMany(m, H)), Segment)
      BY <1>2, <2>4, KeptRoom, MoveKept, KeptChain
  <2> QED BY <1>1, <1>9, <2>5, TurnPlain DEF ModeMaskBits
<1>10. CASE ModeOver
  <2>1. REG.TICK_MODE \in Int /\ REG.TICK_MODE # REG.STACK_SEGMENT
      BY RegisterNumbers
  <2>2. Kept(m, SetRegister(m, REG.TICK_MODE, MODE.NONE), Segment)
      BY <1>2, <2>1, SetRegisterKept DEF Room
  <2> QED BY <1>1, <1>10, <2>2, TurnPlain DEF ModeOver
<1>11. CASE ModeInvalid
    BY <1>1, <1>2, <1>11, HaltKept, TurnPlain DEF ModeInvalid
<1> QED BY <1>5, <1>7, <1>8, <1>9, <1>10, <1>11

-----------------------------------------------------------------------------
(* Which record a step makes *)

\* The instructions that neither call nor return, and the frames of a tick mode.
PlainStep ==
    \/ OpSub \/ OpGoto \/ OpTick \/ OpCmp \/ OpNothing
    \/ OpBinary \/ OpUnary \/ OpRand \/ OpWidth \/ OpHeight
    \/ OpSet \/ OpGet \/ OpSetting \/ OpMark \/ OpPutChar \/ OpSetCursor
    \/ OpPaint1 \/ OpPaint2 \/ OpPaintH \/ OpPush \/ OpPop \/ OpDup \/ OpSwap
    \/ OpRead \/ OpReadArg \/ OpWrite \/ OpAlloc
    \/ OpHalt \/ OpInvalid
    \/ ModeBrightness \/ ModeMask \/ ModeMaskBits \/ ModeOver \/ ModeInvalid

\* They are recorded as nothing.
LEMMA PlainCalls ==
    ASSUME IInv, PlainStep
    PROVE  /\ phase = "tick"
           /\ ~Calling
           /\ ~Executing({OP.RETURN})
<1>1. Fetched(m) \in Plain => ~Calling /\ ~Executing({OP.RETURN})
    BY NotCall DEF Calling, Executing
<1>2. Fetched(m) \notin KnownOps => ~Calling /\ ~Executing({OP.RETURN})
    BY NotCall DEF Calling, Executing
<1>3. m.reg[REG.TICK_MODE] # MODE.NONE => ~Calling /\ ~Executing({OP.RETURN})
    BY DEF Calling, Executing
<1>4. ASSUME OpSub \/ OpGoto \/ OpTick \/ OpCmp \/ OpNothing \/ OpBinary \/ OpUnary \/ OpRand
             \/ OpWidth \/ OpHeight \/ OpHalt
      PROVE  phase = "tick" /\ Fetched(m) \in Plain
    BY <1>4 DEF OpSub, OpGoto, OpTick, OpCmp, OpNothing, OpBinary, OpUnary, OpRand, OpWidth,
                OpHeight, OpHalt, Executing, Plain
<1>5. ASSUME OpSet \/ OpGet \/ OpSetting \/ OpMark \/ OpPutChar \/ OpSetCursor
      PROVE  phase = "tick" /\ Fetched(m) \in Plain
    BY <1>5 DEF OpSet, OpGet, OpSetting, OpMark, OpPutChar, OpSetCursor, Executing, Plain
<1>6. ASSUME \/ OpPaint1 \/ OpPaint2 \/ OpPaintH \/ OpPush \/ OpPop \/ OpDup \/ OpSwap
             \/ OpRead \/ OpReadArg \/ OpWrite \/ OpAlloc
      PROVE  phase = "tick" /\ Fetched(m) \in Plain
    BY <1>6 DEF OpPaint1, OpPaint2, OpPaintH, OpPush, OpPop, OpDup, OpSwap, OpRead, OpReadArg,
                OpWrite, OpAlloc, Executing, Plain
<1>7. CASE OpInvalid
    BY <1>2, <1>7 DEF OpInvalid
<1>8. CASE ModeBrightness \/ ModeMask \/ ModeMaskBits \/ ModeOver \/ ModeInvalid
  <2>1. phase = "tick" /\ m.reg[REG.TICK_MODE] # MODE.NONE
      BY <1>8 DEF ModeBrightness, ModeMask, ModeMaskBits, ModeOver, ModeInvalid, InMode, MODE
  <2> QED BY <1>3, <2>1
<1> QED BY <1>1, <1>4, <1>5, <1>6, <1>7, <1>8 DEF PlainStep

\* Every one of them is a plain turn, for a program that keeps to its segment.
LEMMA PlainKept == ASSUME CallInv, Promised, ~Meddles, PlainStep PROVE PlainTurn
BY ControlKept, ArithmeticKept, SettingKept, StackKept, ModeKept DEF PlainStep

\* The six kinds of steps of the machine and its record.
Plainly == Promised /\ PlainTurn /\ UNCHANGED <<calls, loose>>
Calls ==
    /\ Promised
    /\ RecordCall
    /\ \E n, p : /\ Good(n) /\ p \in Int
                 /\ Kept(m, n, Segment)
                 /\ n.program_ptr = m.program_ptr + 1
                 /\ m' = JumpSub(n, p)
    /\ phase' \in {"idle", "tick"}
Returns ==
    /\ Promised
    /\ RecordReturn
    /\ Good(Op0) /\ ~Op0.halted /\ Op0.stack = m.stack /\ Op0.reg = m.reg
    /\ m' = ReturnSub(Op0)
    /\ phase' \in {"idle", "tick"}
Begins == FinishBegin /\ RecordBegin
Loosens == loose' = TRUE /\ calls' = <<>> /\ (Running' => Running)
Outside ==
    /\ UNCHANGED <<calls, loose>>
    /\ Running' => /\ Running
                   /\ m'.stack = m.stack /\ m'.stack_ptr = m.stack_ptr
                   /\ m'.reg = m.reg /\ m'.program_ptr = m.program_ptr

\* Between two instructions the record loosens at most.
LEMMA OutsideSteps ==
    ASSUME CallInv, [CallNext]_callVars,
           \/ Begin \/ ScanStep \/ ClearProgram \/ TickExec \/ Trap \/ Reboot
           \/ UNCHANGED callVars
    PROVE  Loosens \/ Outside
<1>1. CASE UNCHANGED callVars
    BY <1>1 DEF callVars, vars, Outside, Running
<1>2. CASE \/ Begin \/ ScanStep \/ ClearProgram \/ TickExec \/ Trap \/ Reboot
  <2>1. /\ ~Began /\ ~Calling /\ ~Executing({OP.RETURN})
    <3>1. CASE Trap
      <4>1. phase = "tick" /\ Fetched(m) \in Plain
          BY <3>1, NotCall DEF Trap, Executing
      <4> QED BY <4>1, NotCall DEF Began, Calling, Executing
    <3>2. CASE \/ Begin \/ ScanStep \/ ClearProgram \/ TickExec \/ Reboot
        BY <3>2 DEF Begin, ScanStep, ClearProgram, TickExec, Reboot, Began, Calling, Executing
    <3> QED BY <1>2, <3>1, <3>2
  <2>2. Running' => /\ Running
                    /\ m'.stack = m.stack /\ m'.stack_ptr = m.stack_ptr
                    /\ m'.reg = m.reg /\ m'.program_ptr = m.program_ptr
    <3>1. CASE Begin \/ ScanStep \/ Trap \/ Reboot
        BY <3>1 DEF Begin, ScanStep, Trap, LeaveTick, Reboot, Running
    <3>2. CASE ClearProgram
        BY <3>2 DEF ClearProgram, Halt, Running, CallInv, IInv, TypeOK, MachineType
    <3>3. CASE TickExec
        BY <3>3 DEF TickExec, Running, CallInv, IInv, TypeOK, MachineType
    <3> QED BY <1>2, <3>1, <3>2, <3>3
  <2>3. CASE RecordMeddling
      BY <2>2, <2>3 DEF RecordMeddling, Loosens
  <2>4. CASE RecordNothing
      BY <2>2, <2>4 DEF RecordNothing, Outside
  <2>5. CASE UNCHANGED callVars
      BY <1>1, <2>5
  <2> QED BY <2>1, <2>3, <2>4, <2>5 DEF CallNext, RecordBegin, RecordCall, RecordReturn
<1> QED BY <1>1, <1>2

\* An instruction of a program that has loosened, or does so now.
LEMMA LooseSteps ==
    ASSUME CallInv, CallNext, phase = "tick", loose \/ Meddles
    PROVE  Loosens
<1>1. Running
    BY Ticking DEF CallInv, Running
<1>2. ~RecordBegin /\ ~RecordCall /\ ~RecordReturn /\ ~RecordNothing
    BY DEF RecordBegin, Began, RecordCall, RecordReturn, RecordNothing
<1> QED BY <1>1, <1>2 DEF CallNext, RecordMeddling, Loosens

\* Every step is of one of the six kinds.
LEMMA StepKinds ==
    ASSUME CallInv, [CallNext]_callVars
    PROVE  Plainly \/ Calls \/ Returns \/ Begins \/ Loosens \/ Outside
<1>1. CASE \/ Begin \/ ScanStep \/ ClearProgram \/ TickExec \/ Trap \/ Reboot
           \/ UNCHANGED callVars
    BY <1>1, OutsideSteps
<1>2. CASE FinishBegin /\ CallNext
  <2>1. Began /\ ~Calling /\ ~Executing({OP.RETURN})
      BY <1>2 DEF FinishBegin, Began, Calling, Executing
  <2> QED BY <1>2, <2>1 DEF CallNext, RecordCall, RecordReturn, RecordMeddling, RecordNothing,
                            Begins
<1>3. ASSUME CallNext, phase = "tick", loose \/ Meddles PROVE Loosens
    BY <1>3, LooseSteps
<1>4. ASSUME CallNext, phase = "tick", ~loose, ~Meddles
      PROVE  /\ Promised
             /\ RecordCall \/ RecordReturn \/ RecordNothing
             /\ RecordNothing => UNCHANGED <<calls, loose>>
  <2>1. Promised
      BY <1>4, Ticking DEF CallInv, Promised, Running
  <2> QED BY <1>4, <2>1 DEF CallNext, RecordBegin, Began, RecordMeddling, RecordNothing
<1>5. CASE PlainStep /\ CallNext
  <2>1. phase = "tick" /\ ~RecordCall /\ ~RecordReturn
      BY <1>5, PlainCalls DEF CallInv, RecordCall, RecordReturn
  <2>2. CASE loose \/ Meddles
      BY <1>3, <1>5, <2>1, <2>2
  <2>3. CASE ~loose /\ ~Meddles
    <3>1. Promised /\ UNCHANGED <<calls, loose>>
        BY <1>4, <1>5, <2>1, <2>3
    <3>2. PlainTurn
        BY <1>5, <2>3, <3>1, PlainKept
    <3> QED BY <3>1, <3>2 DEF Plainly
  <2> QED BY <2>2, <2>3
<1>6. ASSUME CallNext, OpReturn \/ OpGosub \/ OpCmpSub, ~loose, ~Meddles
      PROVE  /\ phase = "tick" /\ Promised /\ phase' \in {"idle", "tick"}
             /\ Fetched(m) # OP.HALT /\ m.reg[REG.TICK_MODE] = MODE.NONE
             /\ Good(Op0) /\ ~Op0.halted /\ Good(Op1) /\ Good(Op2)
             /\ GetSub(A) \in Int
             /\ Op0.stack = m.stack /\ Op0.reg = m.reg
             /\ Op1.program_ptr = m.program_ptr + 1
             /\ Op2.program_ptr = m.program_ptr + 1
             /\ Fetched(m) \in TakingOne \cup TakingTwo => Kept(m, Op1, Segment)
             /\ Fetched(m) \in TakingTwo => Kept(m, Op2, Segment)
  <2>1. /\ phase = "tick" /\ Fetched(m) # OP.HALT /\ m.reg[REG.TICK_MODE] = MODE.NONE
      BY <1>6, NotHalt DEF OpReturn, OpGosub, OpCmpSub, Executing
  <2>2. phase' \in {"idle", "tick"}
      BY <1>6 DEF OpReturn, OpGosub, OpCmpSub, Turn, LeaveTick
  <2>3. Promised
      BY <1>4, <1>6, <2>1
  <2>4. Good(Op0) /\ ~Op0.halted /\ Good(Op1) /\ Good(Op2) /\ GetSub(A) \in Int
      BY <2>1, Operands, GetSubType DEF CallInv, IInv
  <2> QED BY <1>6, <2>1, <2>2, <2>3, <2>4, OperandsKept
<1>7. CASE (OpReturn \/ OpGosub \/ OpCmpSub) /\ CallNext
  <2>1. phase = "tick"
      BY <1>7 DEF OpReturn, OpGosub, OpCmpSub, Executing
  <2>2. CASE loose \/ Meddles
      BY <1>3, <1>7, <2>1, <2>2
  <2>3. CASE ~loose /\ ~Meddles /\ OpReturn
    <3>1. RecordReturn
      <4>1. Executing({OP.RETURN}) /\ ~Calling
          BY <2>3, NotCall DEF OpReturn, Calling, Executing
      <4> QED BY <1>4, <1>7, <2>1, <2>3, <4>1 DEF RecordCall, RecordNothing
    <3>2. m' = ReturnSub(Op0)
        BY <2>3 DEF OpReturn, Turn
    <3> QED BY <1>6, <1>7, <2>3, <3>1, <3>2 DEF Returns
  <2>4. ASSUME ~loose, ~Meddles, Calling
        PROVE  RecordCall
    <3>1. ~Executing({OP.RETURN})
        BY <2>4, NotCall DEF Calling, Executing
    <3> QED BY <1>4, <1>7, <2>1, <2>4, <3>1 DEF RecordReturn, RecordNothing
  <2>5. CASE ~loose /\ ~Meddles /\ OpGosub
    <3>1. RecordCall
        BY <2>4, <2>5 DEF OpGosub, Calling
    <3>2. m' = JumpSub(Op1, GetSub(A))
        BY <2>5 DEF OpGosub, Turn
    <3>3. Kept(m, Op1, Segment)
        BY <1>6, <1>7, <2>5 DEF OpGosub, Executing, TakingOne
    <3> QED BY <1>6, <1>7, <2>5, <3>1, <3>2, <3>3 DEF Calls
  <2>6. CASE ~loose /\ ~Meddles /\ OpCmpSub
    <3>1. Kept(m, Op2, Segment)
        BY <1>6, <1>7, <2>6 DEF OpCmpSub, Executing, TakingTwo
    <3>2. CASE B # 0
      <4>1. RecordCall
          BY <2>4, <2>6, <3>2 DEF OpCmpSub, Calling
      <4>2. m' = JumpSub(Op2, GetSub(A))
          BY <2>6, <3>2 DEF OpCmpSub, Turn
      <4> QED BY <1>6, <1>7, <2>6, <3>1, <4>1, <4>2 DEF Calls
    <3>3. CASE B = 0
      <4>1. ~RecordCall /\ ~RecordReturn
          BY <2>6, <3>3, NotCall DEF OpCmpSub, Executing, RecordCall, RecordReturn, Calling
      <4>2. Promised /\ UNCHANGED <<calls, loose>>
          BY <1>4, <1>7, <2>1, <2>6, <4>1
      <4>3. Turn(Op2)
          BY <2>6, <3>3 DEF OpCmpSub
      <4>4. PlainTurn
          BY <2>1, <3>1, <4>3, TurnPlain
      <4> QED BY <4>2, <4>4 DEF Plainly
    <3> QED BY <3>2, <3>3
  <2> QED BY <1>7, <2>2, <2>3, <2>5, <2>6
<1> QED BY <1>1, <1>2, <1>5, <1>7 DEF CallNext, Next, StepExec, PlainStep

-----------------------------------------------------------------------------
(* The frames on a stack *)

BaseOf(c, s, k) == IF k = Len(c) THEN s ELSE c[k + 1].segment

\* FramesKept of the calls c, the segment s, the stack pointer top and the stack st.
FramesOf(c, s, top, st) ==
    /\ BaseOf(c, s, 0) = 0
    /\ top >= s
    /\ \A j, k \in 0 .. Len(c) : j < k => BaseOf(c, s, k) >= BaseOf(c, s, j) + 2
    /\ \A k \in 1 .. Len(c) : /\ st[BaseOf(c, s, k) - 2] = c[k].return
                              /\ st[BaseOf(c, s, k) - 1] = c[k].segment

\* FramesKept now, and after a step, in terms of FramesOf.
LEMMA FramesNow == FramesKept <=> (Promised => FramesOf(calls, Segment, m.stack_ptr, m.stack))
BY DEF FramesKept, FramesOf, Base, BaseOf

\* The same of the next state.
LEMMA FramesNext ==
    FramesKept' <=> (Promised' => FramesOf(calls', m'.reg[REG.STACK_SEGMENT], m'.stack_ptr, m'.stack))
BY DEF FramesKept, FramesOf, Base, BaseOf, Segment

\* The segments of the unfinished calls lie between 0 and the running sub's.
LEMMA Bases ==
    ASSUME NEW c \in Seq(Frame), NEW s \in Nat, NEW top, NEW st, FramesOf(c, s, top, st)
    PROVE  /\ Len(c) \in Nat
           /\ \A k \in 0 .. Len(c) : BaseOf(c, s, k) \in Nat
           /\ \A k \in 1 .. Len(c) : BaseOf(c, s, k) >= 2 /\ BaseOf(c, s, k) <= s
<1>1. Len(c) \in Nat
    OBVIOUS
<1>2. \A k \in 0 .. Len(c) : BaseOf(c, s, k) \in Nat
  <2> TAKE k \in 0 .. Len(c)
  <2>1. k # Len(c) => c[k + 1] \in Frame
      BY <1>1
  <2> QED BY <2>1 DEF BaseOf, Frame
<1>3. ASSUME NEW k \in 1 .. Len(c) PROVE BaseOf(c, s, k) >= 2 /\ BaseOf(c, s, k) <= s
  <2>1. BaseOf(c, s, 0) = 0 /\ BaseOf(c, s, Len(c)) = s
      BY DEF FramesOf, BaseOf
  <2>2. BaseOf(c, s, k) >= BaseOf(c, s, 0) + 2
      BY <1>1 DEF FramesOf
  <2>3. k # Len(c) => BaseOf(c, s, Len(c)) >= BaseOf(c, s, k) + 2
      BY <1>1 DEF FramesOf
  <2> QED BY <1>1, <1>2, <2>1, <2>2, <2>3
<1> QED BY <1>1, <1>2, <1>3

\* What happens above the running sub's segment leaves the frames alone.
LEMMA FramesStay ==
    ASSUME NEW c \in Seq(Frame), NEW s \in Nat, NEW top, NEW st, FramesOf(c, s, top, st),
           NEW top2, top2 >= s, NEW st2, \A i \in 0 .. s - 1 : st2[i] = st[i]
    PROVE  FramesOf(c, s, top2, st2)
<1>1. ASSUME NEW k \in 1 .. Len(c)
      PROVE  /\ st2[BaseOf(c, s, k) - 2] = c[k].return
             /\ st2[BaseOf(c, s, k) - 1] = c[k].segment
  <2>1. BaseOf(c, s, k) - 2 \in 0 .. s - 1 /\ BaseOf(c, s, k) - 1 \in 0 .. s - 1
    <3>1. k \in 0 .. Len(c)
        BY Bases
    <3> QED BY <3>1, Bases
  <2> QED BY <2>1 DEF FramesOf
<1> QED BY <1>1 DEF FramesOf

\* A call lays a frame above all the others.
LEMMA FramesCall ==
    ASSUME NEW c \in Seq(Frame), NEW s \in Nat, NEW top, NEW st, FramesOf(c, s, top, st),
           NEW low \in Nat, low >= s, NEW r \in Nat, NEW st2,
           \A i \in 0 .. low - 1 : st2[i] = st[i], st2[low] = r, st2[low + 1] = s
    PROVE  LET d == Append(c, [return |-> r, segment |-> s])
           IN  d \in Seq(Frame) /\ FramesOf(d, low + 2, low + 2, st2)
<1> DEFINE e == [return |-> r, segment |-> s]
           d == Append(c, e)
           base(k) == BaseOf(c, s, k)
           after(k) == BaseOf(d, low + 2, k)
<1>1. e \in Frame /\ e.return = r /\ e.segment = s
    BY DEF Frame
<1> HIDE DEF e
<1>2. /\ d \in Seq(Frame) /\ Len(c) \in Nat /\ Len(d) = Len(c) + 1 /\ d[Len(c) + 1] = e
      /\ \A k \in 1 .. Len(c) : d[k] = c[k]
    BY <1>1, AppendProperties
<1> HIDE DEF d
<1>3. ASSUME NEW k \in 0 .. Len(c) PROVE after(k) = base(k) /\ base(k) \in Nat
  <2>1. k # Len(c) => k + 1 \in 1 .. Len(c)
      BY <1>2
  <2>2. after(k) = d[k + 1].segment
      BY <1>2 DEF BaseOf
  <2> QED BY <1>1, <1>2, <2>1, <2>2, Bases DEF BaseOf
<1>4. after(Len(c) + 1) = low + 2 /\ base(Len(c)) = s
    BY <1>2 DEF BaseOf
<1>5. base(0) = 0 /\ \A j, k \in 0 .. Len(c) : j < k => base(k) >= base(j) + 2
    BY DEF FramesOf
<1>6. \A k \in 0 .. Len(c) : base(k) <= s
  <2>1. Len(c) \in 0 .. Len(c)
      BY <1>2
  <2> QED BY <1>2, <1>3, <1>4, <1>5, <2>1, Bases
<1>7. \A k \in 1 .. Len(c) : st[base(k) - 2] = c[k].return /\ st[base(k) - 1] = c[k].segment
    BY DEF FramesOf
<1>8. \A k \in 1 .. Len(c) : base(k) >= 2
    BY Bases
<1> HIDE DEF base, after
<1>9. 0 \in 0 .. Len(c) /\ after(0) = 0
    BY <1>2, <1>3, <1>5
<1>10. ASSUME NEW j \in 0 .. Len(d), NEW k \in 0 .. Len(d), j < k PROVE after(k) >= after(j) + 2
  <2>1. j \in 0 .. Len(c)
      BY <1>2, <1>10
  <2>2. CASE k \in 0 .. Len(c)
      BY <1>3, <1>5, <1>10, <2>1, <2>2
  <2>3. CASE k = Len(c) + 1
      BY <1>3, <1>4, <1>6, <2>1, <2>3
  <2> QED BY <1>2, <2>2, <2>3
<1>11. ASSUME NEW k \in 1 .. Len(d)
       PROVE  st2[after(k) - 2] = d[k].return /\ st2[after(k) - 1] = d[k].segment
  <2>1. CASE k \in 1 .. Len(c)
    <3>1. k \in 0 .. Len(c) /\ after(k) = base(k) /\ base(k) \in Nat
        BY <1>2, <1>3, <2>1
    <3>2. base(k) - 2 \in 0 .. low - 1 /\ base(k) - 1 \in 0 .. low - 1
        BY <1>6, <1>8, <2>1, <3>1
    <3> QED BY <1>2, <1>7, <2>1, <3>1, <3>2
  <2>2. CASE k = Len(c) + 1
    <3>1. after(k) - 2 = low /\ after(k) - 1 = low + 1
        BY <1>4, <2>2
    <3> QED BY <1>1, <1>2, <2>2, <3>1
  <2> QED BY <1>2, <2>1, <2>2
<1>12. FramesOf(d, low + 2, low + 2, st2)
    BY <1>9, <1>10, <1>11 DEF FramesOf, after
<1> QED BY <1>2, <1>12 DEF d, e

\* A segment of two or more is a call's: its frame names the call, and taking it
\* leaves the frames of the others.
LEMMA FramesReturn ==
    ASSUME NEW c \in Seq(Frame), NEW s \in Nat, NEW top, NEW st, FramesOf(c, s, top, st), s >= 2
    PROVE  LET n == Len(c)
               d == SubSeq(c, 1, n - 1)
           IN  /\ n \in Nat /\ n > 0 /\ c # <<>>
               /\ d \in Seq(Frame)
               /\ st[s - 2] = c[n].return /\ st[s - 1] = c[n].segment
               /\ FramesOf(d, c[n].segment, s - 2, st)
<1> DEFINE n == Len(c)
           d == SubSeq(c, 1, n - 1)
           base(k) == BaseOf(c, s, k)
           after(k) == BaseOf(d, c[n].segment, k)
<1>1. n \in Nat /\ n > 0 /\ c # <<>>
  <2>1. n = 0 => BaseOf(c, s, 0) = s
      BY DEF BaseOf
  <2> QED BY <2>1 DEF FramesOf
<1>2. /\ d \in Seq(Frame) /\ Len(d) = n - 1
      /\ \A k \in 1 .. n - 1 : d[k] = c[k]
  <2>1. 1 \in 1 .. Len(c) + 1 /\ n - 1 \in 0 .. Len(c)
      BY <1>1
  <2>2. /\ d \in Seq(Frame) /\ Len(d) = IF 1 <= n - 1 THEN n - 1 - 1 + 1 ELSE 0
        /\ \A k \in 1 .. n - 1 - 1 + 1 : d[k] = c[1 + k - 1]
    <3> HIDE DEF n, d
    <3> QED BY <1>1, <2>1, SubSeqProperties DEF d
  <2> HIDE DEF n, d
  <2>3. n - 1 - 1 + 1 = n - 1 /\ Len(d) = n - 1
      BY <1>1, <2>2
  <2>4. \A k \in 1 .. n - 1 : 1 + k - 1 = k
      BY <1>1
  <2> QED BY <2>2, <2>3, <2>4
<1> HIDE DEF d
<1>3. \A k \in 0 .. n - 1 : after(k) = base(k)
  <2> TAKE k \in 0 .. n - 1
  <2>1. k # n - 1 => k + 1 \in 1 .. n - 1
      BY <1>1
  <2>2. base(k) = c[k + 1].segment
      BY <1>1 DEF BaseOf
  <2> QED BY <1>1, <1>2, <2>1, <2>2 DEF BaseOf
<1>4. base(n) = s /\ base(n - 1) = c[n].segment
    BY <1>1 DEF BaseOf
<1>5. /\ base(0) = 0
      /\ \A j, k \in 0 .. n : j < k => base(k) >= base(j) + 2
      /\ \A k \in 1 .. n : st[base(k) - 2] = c[k].return /\ st[base(k) - 1] = c[k].segment
    BY DEF FramesOf
<1>6. \A k \in 0 .. n : base(k) \in Nat
    BY Bases
<1> HIDE DEF base, after, n
<1>7. s >= base(n - 1) + 2
    BY <1>1, <1>4, <1>5
<1>8. n \in 1 .. n /\ n - 1 \in 0 .. n
    BY <1>1
<1>9. st[s - 2] = c[n].return /\ st[s - 1] = c[n].segment
    BY <1>4, <1>5, <1>8
<1>10. s - 2 >= c[n].segment
    BY <1>4, <1>6, <1>7, <1>8
<1>11. after(0) = 0
    BY <1>1, <1>3, <1>5
<1>12. \A j, k \in 0 .. Len(d) : j < k => after(k) >= after(j) + 2
    BY <1>1, <1>2, <1>3, <1>5
<1>13. \A k \in 1 .. Len(d) : st[after(k) - 2] = d[k].return /\ st[after(k) - 1] = d[k].segment
    BY <1>1, <1>2, <1>3, <1>5
<1>14. FramesOf(d, c[n].segment, s - 2, st)
    BY <1>10, <1>11, <1>12, <1>13 DEF FramesOf, after
<1> QED BY <1>1, <1>2, <1>9, <1>14 DEF d, n

-----------------------------------------------------------------------------
(* The invariant *)

\* A program that runs, runs on a good machine with its frames in place.
LEMMA Promise ==
    ASSUME CallInv, Promised
    PROVE  /\ FramesOf(calls, Segment, m.stack_ptr, m.stack)
           /\ Segment \in Nat /\ m.program_ptr \in Nat /\ m.stack_ptr \in Int
           /\ calls \in Seq(Frame)
<1>1. m \in MachineType /\ Segment \in Word
    BY Registers DEF CallInv, IInv, TypeOK, MachineType, Segment
<1>2. Segment \in Nat /\ m.program_ptr \in Nat /\ m.stack_ptr \in Int
    BY <1>1, WordAssumption, StackAssumption DEF Word, MachineType
<1> QED BY <1>2, FramesNow DEF CallInv

\* Whatever else a plain instruction does, the frames are where they were.
LEMMA PlainFrames ==
    ASSUME CallInv, Plainly
    PROVE  /\ calls' = calls /\ ~loose'
           /\ Running' => ~m.halted /\ Segment' = Segment
           /\ FramesKept'
<1>1. calls' = calls /\ ~loose'
    BY DEF Plainly, Promised
<1>2. ASSUME Running'
      PROVE  /\ m'.stack_ptr >= Segment
             /\ Segment' = Segment
             /\ \A i \in 0 .. Segment - 1 : m'.stack[i] = m.stack[i]
    BY <1>2 DEF Plainly, PlainTurn, Kept, Running, Segment
<1>3. ASSUME Promised'
      PROVE  FramesOf(calls', m'.reg[REG.STACK_SEGMENT], m'.stack_ptr, m'.stack)
  <2>1. Running'
      BY <1>3 DEF Promised
  <2>2. m'.reg[REG.STACK_SEGMENT] = Segment
      BY <1>2, <2>1 DEF Segment
  <2>3. FramesOf(calls, Segment, m'.stack_ptr, m'.stack)
      BY <1>2, <2>1, Promise, FramesStay DEF Plainly
  <2> QED BY <1>1, <2>2, <2>3
<1> QED BY <1>1, <1>2, <1>3, FramesNext DEF Plainly, Promised, Running

\* A call that does not halt adds one frame, under a higher segment.
LEMMA CallFrames ==
    ASSUME CallInv, Calls
    PROVE  /\ calls' = Append(calls, [return |-> m.program_ptr + 1, segment |-> Segment])
           /\ calls' \in Seq(Frame) /\ ~loose'
           /\ Running' => Segment' > Segment
           /\ FramesKept'
<1> DEFINE e == [return |-> m.program_ptr + 1, segment |-> Segment]
<1>1. calls' = Append(calls, e) /\ ~loose'
    BY DEF Calls, RecordCall
<1>2. /\ FramesOf(calls, Segment, m.stack_ptr, m.stack) /\ Segment \in Nat
      /\ m.program_ptr + 1 \in Nat /\ calls \in Seq(Frame)
    BY Promise DEF Calls
<1>3. e \in Frame
    BY <1>2 DEF Frame
<1>4. calls' \in Seq(Frame)
    BY <1>1, <1>2, <1>3, AppendProperties
<1>5. PICK n, p : /\ Good(n) /\ p \in Int
                  /\ Kept(m, n, Segment)
                  /\ n.program_ptr = m.program_ptr + 1
                  /\ m' = JumpSub(n, p)
    BY DEF Calls
<1>6. ASSUME Running'
      PROVE  /\ n.stack_ptr \in Nat /\ n.stack_ptr >= Segment
             /\ FramesOf(calls, Segment, n.stack_ptr, n.stack)
             /\ m'.stack_ptr = n.stack_ptr + 2
             /\ m'.reg[REG.STACK_SEGMENT] = n.stack_ptr + 2
             /\ m'.stack[n.stack_ptr] = m.program_ptr + 1
             /\ m'.stack[n.stack_ptr + 1] = Segment
             /\ \A i \in 0 .. n.stack_ptr - 1 : m'.stack[i] = n.stack[i]
  <2>1. ~JumpSub(n, p).halted /\ TypeOK
      BY <1>5, <1>6 DEF Running, CallInv, IInv
  <2>2. /\ ~n.halted /\ n.stack_ptr \in Nat
        /\ m'.stack_ptr = n.stack_ptr + 2
        /\ m'.reg[REG.STACK_SEGMENT] = n.stack_ptr + 2
        /\ m'.stack[n.stack_ptr] = n.program_ptr
        /\ m'.stack[n.stack_ptr + 1] = n.reg[REG.STACK_SEGMENT]
        /\ \A i \in 0 .. n.stack_ptr - 1 : m'.stack[i] = n.stack[i]
      BY <1>5, <2>1, JumpSubFrame
  <2>3. /\ n.stack_ptr >= Segment
        /\ n.reg[REG.STACK_SEGMENT] = Segment
        /\ \A i \in 0 .. Segment - 1 : n.stack[i] = m.stack[i]
      BY <1>5, <2>2 DEF Kept, Segment
  <2>4. FramesOf(calls, Segment, n.stack_ptr, n.stack)
      BY <1>2, <2>3, FramesStay
  <2> QED BY <1>5, <2>2, <2>3, <2>4
<1>7. ASSUME Promised'
      PROVE  FramesOf(calls', m'.reg[REG.STACK_SEGMENT], m'.stack_ptr, m'.stack)
  <2>1. Running'
      BY <1>7 DEF Promised
  <2>2. FramesOf(Append(calls, e), n.stack_ptr + 2, n.stack_ptr + 2, m'.stack)
    <3> DEFINE low == n.stack_ptr
    <3>1. /\ low \in Nat /\ low >= Segment /\ FramesOf(calls, Segment, low, n.stack)
          /\ m'.stack[low] = m.program_ptr + 1 /\ m'.stack[low + 1] = Segment
          /\ \A i \in 0 .. low - 1 : m'.stack[i] = n.stack[i]
        BY <1>6, <2>1
    <3> HIDE DEF low
    <3>2. FramesOf(Append(calls, e), low + 2, low + 2, m'.stack)
        BY <1>2, <3>1, FramesCall
    <3> QED BY <3>2 DEF low
  <2> QED BY <1>1, <1>6, <2>1, <2>2
<1>8. Running' => Segment' > Segment
  <2>1. Segment' = m'.reg[REG.STACK_SEGMENT]
      BY DEF Segment
  <2> QED BY <1>2, <1>6, <2>1
<1> QED BY <1>1, <1>4, <1>7, <1>8, FramesNext

\* A return that does not halt takes the last call's frame and goes where it says.
LEMMA ReturnFrames ==
    ASSUME CallInv, Returns
    PROVE  /\ calls' \in Seq(Frame) /\ ~loose'
           /\ Running' => /\ calls # <<>>
                          /\ m'.program_ptr = calls[Len(calls)].return
                          /\ Segment' = calls[Len(calls)].segment
                          /\ calls' = SubSeq(calls, 1, Len(calls) - 1)
           /\ FramesKept'
<1>1. /\ calls' = IF calls = <<>> THEN <<>> ELSE SubSeq(calls, 1, Len(calls) - 1)
      /\ ~loose'
    BY DEF Returns, RecordReturn
<1>2. /\ FramesOf(calls, Segment, m.stack_ptr, m.stack) /\ Segment \in Nat
      /\ calls \in Seq(Frame)
    BY Promise DEF Returns
<1>3. calls' \in Seq(Frame)
  <2>1. CASE calls = <<>>
      BY <1>1, <1>2, <2>1
  <2>2. CASE calls # <<>>
    <3>1. Len(calls) - 1 \in 0 .. Len(calls) /\ 1 \in 1 .. Len(calls) + 1
        BY <1>2, <2>2
    <3>2. SubSeq(calls, 1, Len(calls) - 1) \in Seq(Frame)
        BY <1>2, <3>1, SubSeqProperties
    <3> QED BY <1>1, <2>2, <3>2
  <2> QED BY <2>1, <2>2
<1>4. ASSUME Running'
      PROVE  /\ Segment >= 2
             /\ m'.program_ptr = m.stack[Segment - 2]
             /\ m'.reg[REG.STACK_SEGMENT] = m.stack[Segment - 1]
             /\ m'.stack_ptr = Segment - 2
             /\ m'.stack = m.stack
  <2>1. Good(Op0) /\ ~Op0.halted /\ ~ReturnSub(Op0).halted /\ m' = ReturnSub(Op0)
      BY <1>4 DEF Returns, Running
  <2>2. Op0.stack = m.stack /\ Op0.reg[REG.STACK_SEGMENT] = Segment
      BY DEF Returns, Segment
  <2>3. /\ Segment \in 2 .. STACK_SIZE - 1
        /\ ReturnSub(Op0).program_ptr = m.stack[Segment - 2]
        /\ ReturnSub(Op0).reg[REG.STACK_SEGMENT] = m.stack[Segment - 1]
        /\ ReturnSub(Op0).stack_ptr = Segment - 2
        /\ ReturnSub(Op0).stack = m.stack
      BY <2>1, <2>2, ReturnFrame
  <2> QED BY <2>1, <2>3
<1>5. ASSUME Running'
      PROVE  /\ calls # <<>>
             /\ m'.program_ptr = calls[Len(calls)].return
             /\ m'.reg[REG.STACK_SEGMENT] = calls[Len(calls)].segment
             /\ calls' = SubSeq(calls, 1, Len(calls) - 1)
             /\ FramesOf(calls', m'.reg[REG.STACK_SEGMENT], m'.stack_ptr, m'.stack)
  <2>1. /\ calls # <<>>
        /\ m.stack[Segment - 2] = calls[Len(calls)].return
        /\ m.stack[Segment - 1] = calls[Len(calls)].segment
        /\ FramesOf(SubSeq(calls, 1, Len(calls) - 1), calls[Len(calls)].segment, Segment - 2, m.stack)
      BY <1>2, <1>4, <1>5, FramesReturn
  <2> QED BY <1>1, <1>4, <1>5, <2>1
<1>6. Running' => Segment' = calls[Len(calls)].segment
    BY <1>5 DEF Segment
<1>7. Promised' => FramesOf(calls', m'.reg[REG.STACK_SEGMENT], m'.stack_ptr, m'.stack)
    BY <1>5 DEF Promised
<1> QED BY <1>1, <1>3, <1>5, <1>6, <1>7, FramesNext

\* begin() lays the main sub's frame.
LEMMA BeginFrames ==
    ASSUME CallInv, Begins
    PROVE  /\ calls' \in Seq(Frame) /\ ~loose' /\ ~Running
           /\ Len(calls') = 1 /\ calls'[1].segment = 0
           /\ m'.reg[REG.STACK_SEGMENT] = 2
           /\ FramesKept'
<1> DEFINE e == [return |-> Wrap(scan - 1), segment |-> 0]
<1>1. calls' = <<e>> /\ ~loose' /\ ~Running
    BY DEF Begins, RecordBegin, Began, Running
<1>2. scan \in Pointer /\ TypeOK
    BY DEF CallInv, IInv, TypeOK
<1>3. Wrap(scan - 1) \in Nat
  <2>1. scan - 1 \in Int
      BY <1>2 DEF Pointer
  <2> QED BY <2>1, WrapType, WordAssumption DEF Word
<1>4. e \in Frame /\ e.segment = 0 /\ e.return = Wrap(scan - 1)
    BY <1>3 DEF Frame
<1> HIDE DEF e
<1>5. calls' \in Seq(Frame) /\ Len(calls') = 1 /\ calls'[1] = e
    BY <1>1, <1>4
<1>6. /\ m'.stack_ptr = 2 /\ m'.reg[REG.STACK_SEGMENT] = 2
      /\ m'.stack[0] = Wrap(scan - 1) /\ m'.stack[1] = 0
  <2>1. m' = Begun(m, scan)
      BY DEF Begins, FinishBegin
  <2> QED BY <1>2, <2>1, BegunMachine
<1>7. FramesOf(calls', 2, 2, m'.stack)
  <2>1. BaseOf(calls', 2, 0) = 0 /\ BaseOf(calls', 2, 1) = 2
      BY <1>4, <1>5 DEF BaseOf
  <2>2. 0 .. Len(calls') = {0, 1} /\ 1 .. Len(calls') = {1}
      BY <1>5
  <2>3. \A k \in 1 .. Len(calls') :
            /\ m'.stack[BaseOf(calls', 2, k) - 2] = calls'[k].return
            /\ m'.stack[BaseOf(calls', 2, k) - 1] = calls'[k].segment
      BY <1>4, <1>5, <1>6, <2>1, <2>2
  <2> QED BY <2>1, <2>2, <2>3 DEF FramesOf
<1> QED BY <1>1, <1>4, <1>5, <1>6, <1>7, FramesNext

\* Between two instructions the frames stay where they are.
LEMMA OutsideFrames == ASSUME CallInv, Outside PROVE FramesKept'
<1>1. Promised' => Promised
    BY DEF Outside, Promised
<1>2. Promised' => FramesOf(calls', m'.reg[REG.STACK_SEGMENT], m'.stack_ptr, m'.stack)
    BY <1>1, Promise DEF Outside, Promised, Segment
<1> QED BY <1>2, FramesNext

\* The invariant is inductive.
LEMMA CallInvNext == ASSUME CallInv, [CallNext]_callVars PROVE CallInv'
<1>1. IInv'
  <2>1. [Next]_vars
      BY DEF CallNext, callVars
  <2> QED BY <2>1, NextInv DEF CallInv
<1>2. loose' \in BOOLEAN
  <2>1. loose \in BOOLEAN
      BY DEF CallInv
  <2>2. loose' = loose \/ loose' = TRUE \/ loose' = FALSE
      BY StepKinds DEF Plainly, Calls, RecordCall, Returns, RecordReturn, Begins, RecordBegin,
                       Loosens, Outside
  <2> QED BY <2>1, <2>2
<1>3. calls' \in Seq(Frame) /\ FramesKept'
  <2>0. calls \in Seq(Frame)
      BY DEF CallInv
  <2>1. CASE Plainly
      BY <2>0, <2>1, PlainFrames
  <2>2. CASE Calls
      BY <2>2, CallFrames
  <2>3. CASE Returns
      BY <2>3, ReturnFrames
  <2>4. CASE Begins
      BY <2>4, BeginFrames
  <2>5. CASE Loosens
      BY <2>5 DEF Loosens, FramesKept, Promised
  <2>6. CASE Outside
      BY <2>0, <2>6, OutsideFrames DEF Outside
  <2> QED BY <2>1, <2>2, <2>3, <2>4, <2>5, <2>6, StepKinds
<1> QED BY <1>1, <1>2, <1>3 DEF CallInv

\* The invariant holds at the start.
LEMMA CallInvInit == CallInit => CallInv
<1> SUFFICES ASSUME CallInit PROVE CallInv
    OBVIOUS
<1>1. IInv /\ ~Promised
    BY InitInv DEF CallInit, Init, Promised, Running
<1>2. calls \in Seq(Frame)
    BY DEF CallInit
<1>3. loose \in BOOLEAN
    BY DEF CallInit
<1>4. FramesKept
    BY <1>1 DEF FramesKept
<1> QED BY <1>1, <1>2, <1>3, <1>4 DEF CallInv

\* It holds in every reachable state.
LEMMA CallInvariance == CallSpec => []CallInv
BY CallInvInit, CallInvNext, PTL DEF CallSpec

\* The record is a history: a machine with it makes only steps of the machine.
LEMMA RecordsOnly == CallSpec => Spec
<1>1. CallInit => Init
    BY DEF CallInit
<1>2. [CallNext]_callVars => [Next]_vars
    BY DEF CallNext, callVars
<1> QED BY <1>1, <1>2, PTL DEF CallSpec, Spec

\* For every program, stack size and panel: as long as a program keeps above its
\* own segment, each of its unfinished calls keeps its return address and its
\* caller's segment on the stack, in frames that do not overlap, whatever it
\* pushes, allocates, paints, reads or writes.
THEOREM VMCallsFrames == CallSpec => []FramesKept
<1>1. CallInv => FramesKept
    BY DEF CallInv
<1> QED BY <1>1, CallInvariance, PTL

-----------------------------------------------------------------------------
(* The refinement of CallStack *)

\* The abstract state of a machine that runs and has not loosened, and of others.
LEMMA Abstract ==
    /\ Promised => /\ CallMode = "runs" /\ AbsAt = m.program_ptr
                   /\ AbsSeg = Segment /\ AbsCalls = calls
    /\ ~Promised => /\ AbsAt = 0 /\ AbsSeg = 0 /\ AbsCalls = <<>>
                    /\ CallMode = IF Running THEN "loose" ELSE "off"
BY DEF AbsAt, AbsSeg, AbsCalls, CallMode, Promised

\* The same of the next state.
LEMMA AbstractNext ==
    /\ Promised' => /\ CallMode' = "runs" /\ AbsAt' = m'.program_ptr
                    /\ AbsSeg' = Segment' /\ AbsCalls' = calls'
    /\ ~Promised' => /\ AbsAt' = 0 /\ AbsSeg' = 0 /\ AbsCalls' = <<>>
                     /\ CallMode' = IF Running' THEN "loose" ELSE "off"
BY DEF AbsAt, AbsSeg, AbsCalls, CallMode, Promised

\* The steps of CallStack, on that state.
LEMMA AbstractSteps ==
    /\ CallStackOf!Start =
         (/\ CallMode = "off" /\ CallMode' = "runs" /\ AbsAt' \in Nat /\ AbsSeg' \in Nat
          /\ Len(AbsCalls') = 1 /\ AbsCalls'[1].segment = 0)
    /\ CallStackOf!Move =
         (/\ CallMode = "runs" /\ AbsAt' \in Nat
          /\ CallMode' = CallMode /\ AbsSeg' = AbsSeg /\ AbsCalls' = AbsCalls)
    /\ CallStackOf!Call =
         (/\ CallMode = "runs" /\ AbsAt' \in Nat /\ AbsSeg' \in Nat /\ AbsSeg' > AbsSeg
          /\ AbsCalls' = Append(AbsCalls, [return |-> AbsAt + 1, segment |-> AbsSeg])
          /\ CallMode' = CallMode)
    /\ CallStackOf!Return =
         (/\ CallMode = "runs" /\ AbsCalls # <<>>
          /\ AbsAt' = AbsCalls[Len(AbsCalls)].return
          /\ AbsSeg' = AbsCalls[Len(AbsCalls)].segment
          /\ AbsCalls' = SubSeq(AbsCalls, 1, Len(AbsCalls) - 1)
          /\ CallMode' = CallMode)
    /\ CallStackOf!Loosen =
         (/\ CallMode = "runs" /\ CallMode' = "loose"
          /\ AbsAt' = 0 /\ AbsSeg' = 0 /\ AbsCalls' = <<>>)
    /\ CallStackOf!Stop =
         (/\ CallMode # "off" /\ CallMode' = "off"
          /\ AbsAt' = 0 /\ AbsSeg' = 0 /\ AbsCalls' = <<>>)
    /\ (UNCHANGED CallStackOf!vars) =
         (/\ CallMode' = CallMode
          /\ AbsAt' = AbsAt /\ AbsSeg' = AbsSeg /\ AbsCalls' = AbsCalls)
BY DEF CallStackOf!Start, CallStackOf!Move, CallStackOf!Call, CallStackOf!Return,
       CallStackOf!Loosen, CallStackOf!Stop, CallStackOf!Nothing, CallStackOf!vars

\* A machine that stops keeping its promise has stopped or loosened.
LEMMA Unpromised ==
    ASSUME ~Promised', Running' => Running,
           Promised \/ loose' = loose \/ loose' = TRUE
    PROVE  CallStackOf!Loosen \/ CallStackOf!Stop \/ UNCHANGED CallStackOf!vars
<1>1. CASE Promised
    BY <1>1, Abstract, AbstractNext, AbstractSteps
<1>2. CASE ~Promised
  <2>1. CASE Running /\ ~Running'
      BY <1>2, <2>1, Abstract, AbstractNext, AbstractSteps
  <2>2. CASE Running = Running'
      BY <1>2, <2>2, Abstract, AbstractNext, AbstractSteps
  <2> QED BY <2>1, <2>2 DEF Running
<1> QED BY <1>1, <1>2

\* The machine of the next state is one, and its segment a number.
LEMMA NextMachine == ASSUME CallInv' PROVE m'.program_ptr \in Nat /\ Segment' \in Nat
<1>1. m' \in MachineType
    BY DEF CallInv, IInv, TypeOK
<1>2. Segment' = m'.reg[REG.STACK_SEGMENT]
    BY DEF Segment
<1>3. m'.reg[REG.STACK_SEGMENT] \in Word /\ m'.program_ptr \in Nat
    BY <1>1, Registers DEF MachineType
<1> QED BY <1>2, <1>3, WordAssumption DEF Word

\* Every step of the machine is a step of CallStack, or none of its business.
LEMMA CallStep ==
    ASSUME CallInv, [CallNext]_callVars
    PROVE  CallStackOf!Next \/ UNCHANGED CallStackOf!vars
<1>1. m'.program_ptr \in Nat /\ Segment' \in Nat
    BY CallInvNext, NextMachine
<1>2. CASE Plainly
  <2>1. Promised /\ calls' = calls /\ (Running' => Segment' = Segment)
      BY <1>2, PlainFrames DEF Plainly
  <2>2. CASE Promised'
    <3>1. CallStackOf!Move
        BY <1>1, <2>1, <2>2, Abstract, AbstractNext, AbstractSteps DEF Promised
    <3> QED BY <3>1 DEF CallStackOf!Next
  <2>3. CASE ~Promised'
      BY <2>1, <2>3, Unpromised DEF CallStackOf!Next, Promised
  <2> QED BY <2>2, <2>3
<1>3. CASE Calls
  <2>1. /\ Promised
        /\ calls' = Append(calls, [return |-> m.program_ptr + 1, segment |-> Segment])
        /\ Running' => Segment' > Segment
      BY <1>3, CallFrames DEF Calls
  <2>2. CASE Promised'
    <3>1. CallStackOf!Call
        BY <1>1, <2>1, <2>2, Abstract, AbstractNext, AbstractSteps DEF Promised
    <3> QED BY <3>1 DEF CallStackOf!Next
  <2>3. CASE ~Promised'
      BY <2>1, <2>3, Unpromised DEF CallStackOf!Next, Promised
  <2> QED BY <2>2, <2>3
<1>4. CASE Returns
  <2>1. /\ Promised
        /\ Running' => /\ calls # <<>>
                       /\ m'.program_ptr = calls[Len(calls)].return
                       /\ Segment' = calls[Len(calls)].segment
                       /\ calls' = SubSeq(calls, 1, Len(calls) - 1)
      BY <1>4, ReturnFrames DEF Returns
  <2>2. CASE Promised'
    <3>1. CallStackOf!Return
        BY <2>1, <2>2, Abstract, AbstractNext, AbstractSteps DEF Promised
    <3> QED BY <3>1 DEF CallStackOf!Next
  <2>3. CASE ~Promised'
      BY <2>1, <2>3, Unpromised DEF CallStackOf!Next, Promised
  <2> QED BY <2>2, <2>3
<1>5. CASE Begins
  <2>1. ~Running /\ ~Promised /\ ~loose' /\ Len(calls') = 1 /\ calls'[1].segment = 0
      BY <1>5, BeginFrames DEF Promised
  <2>2. CASE Promised'
    <3>1. CallStackOf!Start
        BY <1>1, <2>1, <2>2, Abstract, AbstractNext, AbstractSteps
    <3> QED BY <3>1 DEF CallStackOf!Next
  <2>3. CASE ~Promised'
    <3>1. ~Running'
        BY <2>1, <2>3 DEF Promised
    <3> QED BY <2>1, <2>3, <3>1, Abstract, AbstractNext, AbstractSteps
  <2> QED BY <2>2, <2>3
<1>6. CASE Loosens
  <2>1. ~Promised' /\ loose' = TRUE /\ (Running' => Running)
      BY <1>6 DEF Loosens, Promised
  <2> QED BY <2>1, Unpromised DEF CallStackOf!Next
<1>7. CASE Outside
  <2>1. calls' = calls /\ loose' = loose /\ (Running' => Running)
      BY <1>7 DEF Outside
  <2>2. CASE Promised'
    <3>1. Promised /\ m'.program_ptr = m.program_ptr /\ Segment' = Segment
        BY <1>7, <2>2 DEF Outside, Promised, Segment
    <3> QED BY <2>1, <2>2, <3>1, Abstract, AbstractNext, AbstractSteps
  <2>3. CASE ~Promised'
      BY <2>1, <2>3, Unpromised DEF CallStackOf!Next
  <2> QED BY <2>2, <2>3
<1> QED BY <1>2, <1>3, <1>4, <1>5, <1>6, <1>7, StepKinds

\* For every program, stack size and panel: calls nest.  The machine implements
\* CallStack: a program that keeps above its own segment returns from each call to
\* the instruction after it and to the caller's segment, at any depth.
THEOREM VMCallsNest == CallSpec => CallsNest
<1>1. CallInit => CallStackOf!Init
  <2> SUFFICES ASSUME CallInit PROVE CallStackOf!Init
      OBVIOUS
  <2>1. ~Running
      BY DEF CallInit, Init, Running
  <2>2. CallMode = "off" /\ AbsAt = 0 /\ AbsSeg = 0 /\ AbsCalls = <<>>
      BY <2>1, Abstract DEF Promised
  <2> QED BY <2>2 DEF CallStackOf!Init, CallStackOf!Nothing
<1>2. CallInv /\ [CallNext]_callVars => [CallStackOf!Next]_CallStackOf!vars
    BY CallStep
<1> QED BY <1>1, <1>2, CallInvariance, PTL DEF CallSpec, CallsNest, CallStackOf!Spec
=============================================================================
