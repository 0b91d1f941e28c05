------------------------------- MODULE VMProofs -------------------------------
(***************************************************************************)
(* Proofs about the nametag machine, for every program, panel, stack and   *)
(* word size the assumptions of VM allow.  Good(n) is what holds of the    *)
(* machine in the middle of an instruction, Settled(n) what holds between  *)
(* two; each operation of the machine has a lemma that it keeps Good, and  *)
(* the inductive invariant IInv says that the machine is Settled.          *)
(***************************************************************************)
EXTENDS VM, TLAPS

Good(n) ==
    /\ n \in MachineType
    /\ n.stack_ptr >= 0
    /\ n.program_ptr \in Pointer
    /\ ~n.halted => n.reg[REG.STACK_SEGMENT] < STACK_SIZE
    /\ Mirrored(n)

Settled(n) ==
    /\ n \in MachineType
    /\ ~n.halted => /\ n.stack_ptr >= 0
                    /\ n.program_ptr \in Pointer
                    /\ n.reg[REG.STACK_SEGMENT] < STACK_SIZE
    /\ Mirrored(n)

IInv ==
    /\ TypeOK
    /\ IndexSound
    /\ phase \in {"idle", "tick", "trapped"} => Settled(m)
    /\ phase = "tick" => ~m.halted

-----------------------------------------------------------------------------
(* Words and registers *)

\* uint32_t arithmetic stays in a word.
LEMMA WrapType == ASSUME NEW n \in Int PROVE Wrap(n) \in Word
BY WordAssumption DEF Wrap, Word

\* A word passed where the code takes an int is an integer.
LEMMA SignedType == ASSUME NEW w \in Word PROVE Signed(w) \in Int
BY WordAssumption DEF Signed, Word

\* What the timer and the panel make of a register has its type.
LEMMA SettingTypes ==
    ASSUME NEW w \in Word
    PROVE  Hertz(w) \in Word /\ Capped(w) \in Nat /\ Color(w) \in Nat
BY WrapType, WordAssumption DEF Hertz, Capped, Color, Word, MAX_BRIGHTNESS

\* The numbers of the registers the machine itself uses.
LEMMA RegisterNumbers ==
    /\ REG.TICK_MODE = 0 /\ REG.URGENCY = 1 /\ REG.BRIGHTNESS = 2 /\ REG.FOREGROUND = 3
    /\ REG.BACKGROUND = 4 /\ REG.MASKGROUND = 5 /\ REG.MARK = 6 /\ REG.STACK_SEGMENT = 7
    /\ REG.CURSOR_X = 8 /\ REG.CURSOR_Y = 9
BY DEF REG

\* The registers the machine itself uses exist, and REG_MARK mirrors no setting.
LEMMA Registers ==
    /\ REG.TICK_MODE \in 0 .. HEAP_SIZE - 1
    /\ REG.URGENCY \in 0 .. HEAP_SIZE - 1
    /\ REG.BRIGHTNESS \in 0 .. HEAP_SIZE - 1
    /\ REG.FOREGROUND \in 0 .. HEAP_SIZE - 1
    /\ REG.BACKGROUND \in 0 .. HEAP_SIZE - 1
    /\ REG.MASKGROUND \in 0 .. HEAP_SIZE - 1
    /\ REG.MARK \in 0 .. HEAP_SIZE - 1
    /\ REG.STACK_SEGMENT \in 0 .. HEAP_SIZE - 1
    /\ REG.CURSOR_X \in 0 .. HEAP_SIZE - 1
    /\ REG.CURSOR_Y \in 0 .. HEAP_SIZE - 1
    /\ REG.MARK \notin {REG.URGENCY, REG.BRIGHTNESS, REG.FOREGROUND, REG.BACKGROUND,
                        REG.STACK_SEGMENT}
BY HeapAssumption DEF REG

\* A program's words are words, and past its end there is OP_HALT.
LEMMA Words ==
    ASSUME TypeOK, NEW i \in Nat
    PROVE  /\ Code(i) \in Word
           /\ Len(body) \in Nat
           /\ Len(body) + 2 < WordMod
           /\ Code(i) # OP.HALT => i < Len(body)
<1>1. body \in Seq(Word) /\ Len(body) + 2 < WordMod
    BY ProgramAssumption DEF TypeOK
<1>2. OP.HALT \in Word
    BY WordAssumption DEF OP, Word
<1>3. i < Len(body) => body[i + 1] \in Word
    BY <1>1
<1> QED BY <1>1, <1>2, <1>3 DEF Code

-----------------------------------------------------------------------------
(* The machine's operations keep it Good. *)

\* The fields the stack operations use.
LEMMA Fields ==
    ASSUME NEW n, Good(n)
    PROVE  /\ n \in MachineType
           /\ n.stack_ptr \in 0 .. STACK_SIZE
           /\ n.stack \in [0 .. STACK_SIZE - 1 -> Word]
           /\ n.reg \in [0 .. HEAP_SIZE - 1 -> Word]
           /\ n.reg[REG.MARK] \in Word
<1>1. n \in MachineType /\ n.stack_ptr >= 0
    BY DEF Good
<1>2. REG.MARK \in 0 .. HEAP_SIZE - 1
    BY Registers
<1>3. n.stack_ptr \in 0 .. STACK_SIZE
    BY <1>1, StackAssumption DEF MachineType
<1>4. n.stack \in [0 .. STACK_SIZE - 1 -> Word] /\ n.reg \in [0 .. HEAP_SIZE - 1 -> Word]
    BY <1>1 DEF MachineType
<1> QED BY <1>1, <1>2, <1>3, <1>4

\* What Good depends on.
LEMMA SameGood ==
    ASSUME NEW n, Good(n), NEW q \in MachineType,
           q.stack_ptr >= 0, q.program_ptr = n.program_ptr,
           q.tick_speed = n.tick_speed, q.brightness = n.brightness, q.fg = n.fg, q.bg = n.bg,
           q.reg[REG.URGENCY] = n.reg[REG.URGENCY],
           q.reg[REG.BRIGHTNESS] = n.reg[REG.BRIGHTNESS],
           q.reg[REG.FOREGROUND] = n.reg[REG.FOREGROUND],
           q.reg[REG.BACKGROUND] = n.reg[REG.BACKGROUND],
           ~q.halted => ~n.halted /\ q.reg[REG.STACK_SEGMENT] < STACK_SIZE
    PROVE  Good(q)
BY DEF Good, Mirrored

\* halt() only sets the flag.
LEMMA HaltGood == ASSUME NEW n, Good(n) PROVE Good(Halt(n)) /\ Halt(n).halted
<1>1. n \in MachineType
    BY DEF Good
<1>2. /\ Halt(n) \in MachineType /\ Halt(n).halted
      /\ Halt(n) = [n EXCEPT !.halted = TRUE]
    BY <1>1 DEF Halt, MachineType
<1>3. /\ Halt(n).stack_ptr = n.stack_ptr /\ Halt(n).program_ptr = n.program_ptr
      /\ Halt(n).reg = n.reg /\ Halt(n).tick_speed = n.tick_speed
      /\ Halt(n).brightness = n.brightness /\ Halt(n).fg = n.fg /\ Halt(n).bg = n.bg
    BY <1>1 DEF Halt, MachineType
<1>4. n.stack_ptr >= 0
    BY DEF Good
<1> QED BY <1>2, <1>3, <1>4, SameGood

\* The stack, its pointer, the halted flag, and a register no setting mirrors.
LEMMA StackGood ==
    ASSUME NEW n, Good(n),
           NEW s \in [0 .. STACK_SIZE - 1 -> Word], NEW p \in 0 .. STACK_SIZE,
           NEW w \in Word, NEW h \in BOOLEAN, n.halted => h
    PROVE  Good([n EXCEPT !.stack = s, !.stack_ptr = p, !.reg = [@ EXCEPT ![REG.MARK] = w], !.halted = h])
<1> DEFINE r == [n.reg EXCEPT ![REG.MARK] = w]
           q == [n EXCEPT !.stack = s, !.stack_ptr = p, !.reg = r, !.halted = h]
<1>1. n \in MachineType /\ n.reg \in [0 .. HEAP_SIZE - 1 -> Word] 
    BY Fields
<1>2. /\ r \in [0 .. HEAP_SIZE - 1 -> Word] 
      /\ r[REG.URGENCY] = n.reg[REG.URGENCY]
      /\ r[REG.BRIGHTNESS] = n.reg[REG.BRIGHTNESS]
      /\ r[REG.FOREGROUND] = n.reg[REG.FOREGROUND]
      /\ r[REG.BACKGROUND] = n.reg[REG.BACKGROUND]
      /\ r[REG.STACK_SEGMENT] = n.reg[REG.STACK_SEGMENT]
    BY <1>1, Registers
<1> HIDE DEF r
<1>3. p \in -2 .. STACK_SIZE /\ p >= 0
    BY StackAssumption
<1>4. /\ q \in MachineType
      /\ q.stack_ptr = p /\ q.reg = r /\ q.halted = h /\ q.program_ptr = n.program_ptr
      /\ q.tick_speed = n.tick_speed /\ q.brightness = n.brightness /\ q.fg = n.fg /\ q.bg = n.bg
    BY <1>1, <1>2, <1>3 DEF MachineType
<1>5. ~h => ~n.halted /\ n.reg[REG.STACK_SEGMENT] < STACK_SIZE
    BY DEF Good
<1> HIDE DEF q
<1>6. Good(q)
    BY <1>2, <1>3, <1>4, <1>5, SameGood
<1> QED BY <1>1, <1>6 DEF q, r, MachineType

\* pop() takes a word or halts.
LEMMA PopGood ==
    ASSUME NEW n, Good(n)
    PROVE  Good(Pop(n)) /\ Popped(n) \in Word
<1>1. CASE n.stack_ptr <= 0
    BY <1>1, HaltGood, WordAssumption DEF Pop, Popped, Word
<1>2. CASE ~(n.stack_ptr <= 0)
  <2> DEFINE w == Wrap(n.reg[REG.MARK] - 1)
  <2>1. /\ n \in MachineType /\ n.stack_ptr \in 0 .. STACK_SIZE /\ n.reg[REG.MARK] \in Word
        /\ n.stack \in [0 .. STACK_SIZE - 1 -> Word]
      BY Fields
  <2>2. n.stack_ptr - 1 \in 0 .. STACK_SIZE - 1
      BY <1>2, <2>1, StackAssumption
  <2>0. n.reg[REG.MARK] - 1 \in Int
      BY <2>1, WordAssumption DEF Word
  <2>3. w \in Word
      BY <2>0, WrapType
  <2>4. Popped(n) \in Word
      BY <1>2, <2>1, <2>2 DEF Popped
  <2>5. n.stack_ptr - 1 \in 0 .. STACK_SIZE /\ n.halted \in BOOLEAN
      BY <2>1, <2>2, StackAssumption DEF MachineType
  <2> HIDE DEF w
  <2>6. Good([n EXCEPT !.stack = n.stack, !.stack_ptr = n.stack_ptr - 1,
                       !.reg = [@ EXCEPT ![REG.MARK] = w], !.halted = n.halted])
      BY <2>1, <2>3, <2>5, StackGood
  <2>7. Pop(n) = [n EXCEPT !.stack = n.stack, !.stack_ptr = n.stack_ptr - 1,
                           !.reg = [@ EXCEPT ![REG.MARK] = w], !.halted = n.halted]
      BY <1>2, <2>1 DEF Pop, MachineType, w
  <2> QED BY <2>4, <2>6, <2>7
<1> QED BY <1>1, <1>2

\* push() stores a word below STACK_SIZE or halts.
LEMMA PushGood ==
    ASSUME NEW n, Good(n), NEW v \in Word
    PROVE  Good(Push(n, v))
<1>1. CASE n.stack_ptr >= STACK_SIZE
    BY <1>1, HaltGood DEF Push
<1>2. CASE ~(n.stack_ptr >= STACK_SIZE)
  <2> DEFINE w == Wrap(n.reg[REG.MARK] + 1)
             s == [n.stack EXCEPT ![n.stack_ptr] = v]
  <2>1. /\ n \in MachineType /\ n.stack_ptr \in 0 .. STACK_SIZE /\ n.reg[REG.MARK] \in Word
        /\ n.stack \in [0 .. STACK_SIZE - 1 -> Word]
      BY Fields
  <2>2. n.stack_ptr + 1 \in 0 .. STACK_SIZE /\ n.stack_ptr \in 0 .. STACK_SIZE - 1
      BY <1>2, <2>1, StackAssumption
  <2>0. n.reg[REG.MARK] + 1 \in Int
      BY <2>1, WordAssumption DEF Word
  <2>3. w \in Word
      BY <2>0, WrapType
  <2>4. s \in [0 .. STACK_SIZE - 1 -> Word]
      BY <2>1, <2>2
  <2>5. n.halted \in BOOLEAN
      BY <2>1 DEF MachineType
  <2> HIDE DEF w, s
  <2>6. Good([n EXCEPT !.stack = s, !.stack_ptr = n.stack_ptr + 1,
                       !.reg = [@ EXCEPT ![REG.MARK] = w], !.halted = n.halted])
      BY <2>1, <2>2, <2>3, <2>4, <2>5, StackGood
  <2>7. Push(n, v) = [n EXCEPT !.stack = s, !.stack_ptr = n.stack_ptr + 1,
                               !.reg = [@ EXCEPT ![REG.MARK] = w], !.halted = n.halted]
      BY <1>2, <2>1 DEF Push, MachineType, w, s
  <2> QED BY <2>6, <2>7
<1> QED BY <1>1, <1>2

\* A run of pops takes what there is and halts when that is too little.
LEMMA PopManyGood ==
    ASSUME NEW n, Good(n), NEW k \in Nat
    PROVE  Good(PopMany(n, k))
<1> DEFINE done == IF k <= n.stack_ptr THEN k ELSE IF n.stack_ptr > 0 THEN n.stack_ptr ELSE 0
           w == Wrap(n.reg[REG.MARK] - done)
           h == n.halted \/ k > done
<1>1. /\ n \in MachineType /\ n.stack_ptr \in 0 .. STACK_SIZE /\ n.reg[REG.MARK] \in Word
      /\ n.stack \in [0 .. STACK_SIZE - 1 -> Word]
    BY Fields
<1>2. done \in Int /\ n.stack_ptr - done \in 0 .. STACK_SIZE
    BY <1>1, StackAssumption
<1>0. n.reg[REG.MARK] - done \in Int
    BY <1>1, <1>2, WordAssumption DEF Word
<1>3. w \in Word
    BY <1>0, WrapType
<1>4. PopMany(n, k) = [n EXCEPT !.stack = n.stack, !.stack_ptr = n.stack_ptr - done,
                                !.reg = [@ EXCEPT ![REG.MARK] = w], !.halted = h]
    BY <1>1 DEF PopMany, MachineType
<1>5. h \in BOOLEAN /\ (n.halted => h)
    OBVIOUS
<1> HIDE DEF done, w, h
<1>6. Good([n EXCEPT !.stack = n.stack, !.stack_ptr = n.stack_ptr - done,
                     !.reg = [@ EXCEPT ![REG.MARK] = w], !.halted = h])
    BY <1>1, <1>2, <1>3, <1>5, StackGood
<1> QED BY <1>4, <1>6

\* allocate_stack stops storing at the end of the stack.
LEMMA PushManyGood ==
    ASSUME NEW n, Good(n), NEW v \in Word, NEW k \in Int
    PROVE  Good(PushMany(n, v, k))
<1> DEFINE room == STACK_SIZE - n.stack_ptr
           done == IF k <= 0 THEN 0 ELSE IF k <= room THEN k ELSE room
           s == [i \in DOMAIN n.stack |-> IF i >= n.stack_ptr /\ i < n.stack_ptr + done
                                          THEN v ELSE n.stack[i]]
           w == Wrap(n.reg[REG.MARK] + done)
           h == n.halted \/ k > done
<1>1. /\ n \in MachineType /\ n.stack_ptr \in 0 .. STACK_SIZE /\ n.reg[REG.MARK] \in Word
      /\ n.stack \in [0 .. STACK_SIZE - 1 -> Word]
    BY Fields
<1>2. done \in Int /\ n.stack_ptr + done \in 0 .. STACK_SIZE
    BY <1>1, StackAssumption
<1>0. n.reg[REG.MARK] + done \in Int
    BY <1>1, <1>2, WordAssumption DEF Word
<1>3. w \in Word
    BY <1>0, WrapType
<1>4. s \in [0 .. STACK_SIZE - 1 -> Word]
    BY <1>1
<1>5. PushMany(n, v, k) = [n EXCEPT !.stack = s, !.stack_ptr = n.stack_ptr + done,
                                    !.reg = [@ EXCEPT ![REG.MARK] = w], !.halted = h]
    BY <1>1 DEF PushMany, MachineType
<1>6. h \in BOOLEAN /\ (n.halted => h)
    OBVIOUS
<1> HIDE DEF room, done, s, w, h
<1>7. Good([n EXCEPT !.stack = s, !.stack_ptr = n.stack_ptr + done,
                     !.reg = [@ EXCEPT ![REG.MARK] = w], !.halted = h])
    BY <1>2, <1>3, <1>4, <1>6, StackGood
<1> QED BY <1>5, <1>7

\* jump() goes to a position up to max_ptr or halts.
LEMMA JumpGood ==
    ASSUME TypeOK, NEW n, Good(n), NEW p \in Int
    PROVE  Good(Jump(n, p))
<1>1. CASE p > max_ptr \/ p < 0
    BY <1>1, HaltGood DEF Jump
<1>2. CASE ~(p > max_ptr \/ p < 0)
  <2>1. n \in MachineType
      BY Fields
  <2>2. p \in Pointer
      BY <1>2, ProgramAssumption DEF TypeOK, Pointer
  <2>3. [n EXCEPT !.program_ptr = p] \in MachineType
      BY <2>1, <1>2 DEF MachineType
  <2>4. Jump(n, p) = [n EXCEPT !.program_ptr = p]
      BY <1>2 DEF Jump
  <2> DEFINE q == [n EXCEPT !.program_ptr = p]
  <2>5. /\ q.stack_ptr = n.stack_ptr /\ q.program_ptr = p /\ q.reg = n.reg /\ q.halted = n.halted
        /\ q.tick_speed = n.tick_speed /\ q.brightness = n.brightness /\ q.fg = n.fg /\ q.bg = n.bg
      BY <2>1 DEF MachineType
  <2> HIDE DEF q
  <2>6. Good(q)
      BY <2>2, <2>3, <2>5 DEF Good, Mirrored, q
  <2> QED BY <2>4, <2>6 DEF q
<1> QED BY <1>1, <1>2

\* read_stack returns a word of the stack, or halts and returns 0.
LEMMA ReadGood ==
    ASSUME NEW n, Good(n), NEW p \in Int
    PROVE  Good(AfterRead(n, p)) /\ StackRead(n, p) \in Word
<1>1. n.stack \in [0 .. STACK_SIZE - 1 -> Word]
    BY Fields
<1>2. StackRead(n, p) \in Word
    BY <1>1, StackAssumption, WordAssumption DEF StackRead, InStack, Word
<1> QED BY <1>2, HaltGood DEF AfterRead

\* write_stack changes a word of the stack or halts.
LEMMA WriteGood ==
    ASSUME NEW n, Good(n), NEW p \in Int, NEW v \in Word
    PROVE  Good(StackWrite(n, p, v))
<1>1. CASE ~InStack(p)
    BY <1>1, HaltGood DEF StackWrite
<1>2. CASE InStack(p)
  <2> DEFINE s == [n.stack EXCEPT ![p] = v]
  <2>1. /\ n \in MachineType /\ n.stack_ptr \in 0 .. STACK_SIZE /\ n.reg[REG.MARK] \in Word
        /\ n.stack \in [0 .. STACK_SIZE - 1 -> Word] /\ n.reg \in [0 .. HEAP_SIZE - 1 -> Word]
      BY Fields
  <2>2. s \in [0 .. STACK_SIZE - 1 -> Word]
      BY <2>1
  <2>3. n.halted \in BOOLEAN
      BY <2>1 DEF MachineType
  <2>4. n.reg = [n.reg EXCEPT ![REG.MARK] = n.reg[REG.MARK]]
      BY <2>1
  <2>5. StackWrite(n, p, v) = [n EXCEPT !.stack = s, !.stack_ptr = n.stack_ptr, !.reg = n.reg,
                                        !.halted = n.halted]
      BY <1>2, <2>1 DEF StackWrite, MachineType
  <2> HIDE DEF s
  <2>6. Good([n EXCEPT !.stack = s, !.stack_ptr = n.stack_ptr,
                       !.reg = [@ EXCEPT ![REG.MARK] = n.reg[REG.MARK]], !.halted = n.halted])
      BY <2>1, <2>2, <2>3, StackGood
  <2>7. [n EXCEPT !.stack = s, !.stack_ptr = n.stack_ptr, !.reg = n.reg, !.halted = n.halted]
        = [n EXCEPT !.stack = s, !.stack_ptr = n.stack_ptr,
                    !.reg = [@ EXCEPT ![REG.MARK] = n.reg[REG.MARK]], !.halted = n.halted]
      BY <2>1, <2>4 DEF MachineType
  <2> QED BY <2>5, <2>6, <2>7
<1> QED BY <1>1, <1>2

\* get_register returns a register, or halts and returns 0.
LEMMA GetGood ==
    ASSUME NEW n, Good(n), NEW r \in Int
    PROVE  Good(AfterGet(n, r)) /\ Register(n, r) \in Word
<1>1. n.reg \in [0 .. HEAP_SIZE - 1 -> Word]
    BY Fields
<1>2. Register(n, r) \in Word
    BY <1>1, HeapAssumption, WordAssumption DEF Register, IsRegister, Word
<1> QED BY <1>2, HaltGood DEF AfterGet

\* next_tick() only counts the tick.
LEMMA NextTickGood == ASSUME NEW n, Good(n) PROVE Good(NextTick(n))
<1>1. n \in MachineType /\ n.stack_ptr >= 0
    BY DEF Good
<1>2. /\ NextTick(n) \in MachineType
      /\ NextTick(n).stack_ptr = n.stack_ptr /\ NextTick(n).program_ptr = n.program_ptr
      /\ NextTick(n).reg = n.reg /\ NextTick(n).halted = n.halted
      /\ NextTick(n).tick_speed = n.tick_speed /\ NextTick(n).brightness = n.brightness
      /\ NextTick(n).fg = n.fg /\ NextTick(n).bg = n.bg
    BY <1>1 DEF NextTick, MachineType
<1>3. ~n.halted => n.reg[REG.STACK_SEGMENT] < STACK_SIZE
    BY DEF Good
<1> QED BY <1>1, <1>2, <1>3, SameGood

\* set_register writes the register and what mirrors it, and halts on a segment
\* outside the stack.
LEMMA SetRegisterGood ==
    ASSUME NEW n, Good(n), NEW r \in Int, NEW v \in Word
    PROVE  Good(SetRegister(n, r, v))
<1>1. CASE ~IsRegister(r)
    BY <1>1, HaltGood DEF SetRegister
<1>2. CASE IsRegister(r)
  <2> DEFINE q == SetRegister(n, r, v)
             g == [n.reg EXCEPT ![r] = v]
  <2>1. n \in MachineType /\ n.reg \in [0 .. HEAP_SIZE - 1 -> Word] /\ n.stack_ptr >= 0
      BY Fields DEF Good
  <2>2. r \in 0 .. HEAP_SIZE - 1
      BY <1>2, HeapAssumption DEF IsRegister
  <2>3. Hertz(v) \in Word /\ Capped(v) \in Nat /\ Color(v) \in Nat
      BY SettingTypes
  <2>4. /\ n.reg[REG.CURSOR_X] \in Word
        /\ n.reg[REG.CURSOR_Y] \in Word
      BY <2>1, Registers
  <2>5. g \in [0 .. HEAP_SIZE - 1 -> Word] /\ g[r] = v
      BY <2>1, <2>2
  <2>6. \A x \in 0 .. HEAP_SIZE - 1 : x # r => g[x] = n.reg[x]
      BY <2>1, <2>2
  <2> DEFINE s == [n EXCEPT !.reg = g]
  <2>7. s = [n EXCEPT !.reg[r] = v]
      BY <2>1 DEF MachineType
  <2> HIDE DEF g
  <2>8. /\ s \in MachineType /\ s.reg = g /\ s.stack_ptr = n.stack_ptr
        /\ s.program_ptr = n.program_ptr /\ s.halted = n.halted
        /\ s.tick_speed = n.tick_speed /\ s.brightness = n.brightness
        /\ s.fg = n.fg /\ s.bg = n.bg
      BY <2>1, <2>5 DEF MachineType
  <2>9. /\ n.program_ptr \in Pointer
        /\ ~n.halted => n.reg[REG.STACK_SEGMENT] < STACK_SIZE
        /\ n.tick_speed = Hertz(n.reg[REG.URGENCY])
        /\ n.brightness = Capped(n.reg[REG.BRIGHTNESS])
        /\ n.fg = Color(n.reg[REG.FOREGROUND])
        /\ n.bg = Color(n.reg[REG.BACKGROUND])
      BY DEF Good, Mirrored
  <2> HIDE DEF s
  <2>10. CASE r = REG.URGENCY
    <3>1. q = [s EXCEPT !.tick_speed = Hertz(v)]
        BY <1>2, <2>7, <2>10, RegisterNumbers DEF SetRegister
    <3>2. /\ q \in MachineType /\ q.reg = g /\ q.stack_ptr = n.stack_ptr
          /\ q.program_ptr = n.program_ptr /\ q.halted = n.halted
          /\ q.tick_speed = Hertz(v) /\ q.brightness = n.brightness
          /\ q.fg = n.fg /\ q.bg = n.bg
        BY <2>3, <2>8, <3>1 DEF MachineType
    <3> HIDE DEF q
    <3> QED BY <2>1, <2>5, <2>6, <2>9, <2>10, <3>2, Registers, RegisterNumbers DEF Good, Mirrored, q
  <2>11. CASE r = REG.BRIGHTNESS
    <3>1. q = [s EXCEPT !.brightness = Capped(v)]
        BY <1>2, <2>7, <2>11, RegisterNumbers DEF SetRegister
    <3>2. /\ q \in MachineType /\ q.reg = g /\ q.stack_ptr = n.stack_ptr
          /\ q.program_ptr = n.program_ptr /\ q.halted = n.halted
          /\ q.tick_speed = n.tick_speed /\ q.brightness = Capped(v)
          /\ q.fg = n.fg /\ q.bg = n.bg
        BY <2>3, <2>8, <3>1 DEF MachineType
    <3> HIDE DEF q
    <3> QED BY <2>1, <2>5, <2>6, <2>9, <2>11, <3>2, Registers, RegisterNumbers DEF Good, Mirrored, q
  <2>12. CASE r = REG.FOREGROUND
    <3>1. q = [s EXCEPT !.fg = Color(v)]
        BY <1>2, <2>7, <2>12, RegisterNumbers DEF SetRegister
    <3>2. /\ q \in MachineType /\ q.reg = g /\ q.stack_ptr = n.stack_ptr
          /\ q.program_ptr = n.program_ptr /\ q.halted = n.halted
          /\ q.tick_speed = n.tick_speed /\ q.brightness = n.brightness
          /\ q.fg = Color(v) /\ q.bg = n.bg
        BY <2>3, <2>8, <3>1 DEF MachineType
    <3> HIDE DEF q
    <3> QED BY <2>1, <2>5, <2>6, <2>9, <2>12, <3>2, Registers, RegisterNumbers DEF Good, Mirrored, q
  <2>13. CASE r = REG.BACKGROUND
    <3>1. q = [s EXCEPT !.bg = Color(v)]
        BY <1>2, <2>7, <2>13, RegisterNumbers DEF SetRegister
    <3>2. /\ q \in MachineType /\ q.reg = g /\ q.stack_ptr = n.stack_ptr
          /\ q.program_ptr = n.program_ptr /\ q.halted = n.halted
          /\ q.tick_speed = n.tick_speed /\ q.brightness = n.brightness
          /\ q.fg = n.fg /\ q.bg = Color(v)
        BY <2>3, <2>8, <3>1 DEF MachineType
    <3> HIDE DEF q
    <3> QED BY <2>1, <2>5, <2>6, <2>9, <2>13, <3>2, Registers, RegisterNumbers DEF Good, Mirrored, q
  <2>14. CASE r = REG.CURSOR_X
    <3>1. q = [s EXCEPT !.cursor = <<v, n.reg[REG.CURSOR_Y]>>]
        BY <1>2, <2>7, <2>14, RegisterNumbers DEF SetRegister
    <3>2. /\ q \in MachineType /\ q.reg = g /\ q.stack_ptr = n.stack_ptr
          /\ q.program_ptr = n.program_ptr /\ q.halted = n.halted
          /\ q.tick_speed = n.tick_speed /\ q.brightness = n.brightness
          /\ q.fg = n.fg /\ q.bg = n.bg
        BY <2>4, <2>8, <3>1 DEF MachineType
    <3> HIDE DEF q
    <3> QED BY <2>1, <2>5, <2>6, <2>9, <2>14, <3>2, Registers, RegisterNumbers DEF Good, Mirrored, q
  <2>15. CASE r = REG.CURSOR_Y
    <3>1. q = [s EXCEPT !.cursor = <<n.reg[REG.CURSOR_X], v>>]
        BY <1>2, <2>7, <2>15, RegisterNumbers DEF SetRegister
    <3>2. /\ q \in MachineType /\ q.reg = g /\ q.stack_ptr = n.stack_ptr
          /\ q.program_ptr = n.program_ptr /\ q.halted = n.halted
          /\ q.tick_speed = n.tick_speed /\ q.brightness = n.brightness
          /\ q.fg = n.fg /\ q.bg = n.bg
        BY <2>4, <2>8, <3>1 DEF MachineType
    <3> HIDE DEF q
    <3> QED BY <2>1, <2>5, <2>6, <2>9, <2>15, <3>2, Registers, RegisterNumbers DEF Good, Mirrored, q
  <2>16. CASE r = REG.STACK_SEGMENT
    <3>1. q = IF v >= STACK_SIZE THEN Halt(s) ELSE s
        BY <1>2, <2>7, <2>16, RegisterNumbers DEF SetRegister
    <3>2. /\ q \in MachineType /\ q.reg = g /\ q.stack_ptr = n.stack_ptr
          /\ q.program_ptr = n.program_ptr /\ q.halted = (n.halted \/ v >= STACK_SIZE)
          /\ q.tick_speed = n.tick_speed /\ q.brightness = n.brightness
          /\ q.fg = n.fg /\ q.bg = n.bg
        BY <2>8, <3>1 DEF Halt, MachineType
    <3>3. v \in Int /\ STACK_SIZE \in Int
        BY StackAssumption, WordAssumption DEF Word
    <3>4. ~(v >= STACK_SIZE) => g[REG.STACK_SEGMENT] < STACK_SIZE
        BY <2>5, <2>16, <3>3
    <3>5. ~q.halted => ~n.halted /\ g[REG.STACK_SEGMENT] < STACK_SIZE
        BY <3>2, <3>4, Zenon
    <3> HIDE DEF q
    <3> QED BY <2>1, <2>6, <2>9, <2>16, <3>2, <3>5, Registers, RegisterNumbers DEF Good, Mirrored, q
  <2>17. CASE r \notin {REG.URGENCY, REG.BRIGHTNESS, REG.FOREGROUND, REG.BACKGROUND, REG.CURSOR_X,
                        REG.CURSOR_Y, REG.STACK_SEGMENT}
    <3>1. q = s
        BY <1>2, <2>7, <2>17 DEF SetRegister
    <3> HIDE DEF q
    <3> QED BY <2>1, <2>6, <2>8, <2>9, <2>17, <3>1, Registers DEF Good, Mirrored, q
  <2> QED BY <2>10, <2>11, <2>12, <2>13, <2>14, <2>15, <2>16, <2>17
<1> QED BY <1>1, <1>2

\* set_cursor writes the panel's cursor and both registers.
LEMMA SetCursorGood ==
    ASSUME NEW n, Good(n), NEW x \in Word, NEW y \in Word
    PROVE  Good(SetCursor(n, x, y))
<1> DEFINE c == [n EXCEPT !.cursor = <<x, y>>]
<1>1. n \in MachineType /\ n.stack_ptr >= 0
    BY DEF Good
<1>2. <<x, y>> \in Word \X Word
    OBVIOUS
<1>3. /\ c \in MachineType
      /\ c.stack_ptr = n.stack_ptr /\ c.program_ptr = n.program_ptr
      /\ c.reg = n.reg /\ c.halted = n.halted /\ c.tick_speed = n.tick_speed
      /\ c.brightness = n.brightness /\ c.fg = n.fg /\ c.bg = n.bg
    BY <1>1, <1>2 DEF MachineType
<1>4. ~n.halted => n.reg[REG.STACK_SEGMENT] < STACK_SIZE
    BY DEF Good
<1> HIDE DEF c
<1>5. Good(c)
    BY <1>1, <1>3, <1>4, SameGood
<1>6. REG.CURSOR_X \in Int /\ REG.CURSOR_Y \in Int
    BY RegisterNumbers
<1>7. Good(SetRegister(c, REG.CURSOR_X, x))
    BY <1>5, <1>6, SetRegisterGood
<1>8. Good(SetRegister(SetRegister(c, REG.CURSOR_X, x), REG.CURSOR_Y, y))
    BY <1>6, <1>7, SetRegisterGood
<1> QED BY <1>8 DEF SetCursor, c

\* What jump_sub saves are words.
LEMMA SavedWords ==
    ASSUME TypeOK, NEW n, Good(n)
    PROVE  n.program_ptr \in Word /\ n.reg[REG.STACK_SEGMENT] \in Word
<1>1. n.program_ptr \in Pointer /\ n.reg \in [0 .. HEAP_SIZE - 1 -> Word]
    BY Fields DEF Good
<1>2. Pointer \subseteq Word
    BY Words, WordAssumption DEF Pointer, Word
<1> QED BY <1>1, <1>2, Registers

\* The segment return_sub returns from.
LEMMA SegmentInside ==
    ASSUME NEW n, Good(n), ~n.halted
    PROVE  LET base == n.reg[REG.STACK_SEGMENT]
           IN  /\ base \in 0 .. STACK_SIZE - 1
               /\ base \in Nat /\ base - 1 \in Int /\ base - 2 \in -2 .. STACK_SIZE
<1> DEFINE base == n.reg[REG.STACK_SEGMENT]
<1>1. n.reg \in [0 .. HEAP_SIZE - 1 -> Word]
    BY Fields
<1>2. base \in Word
    BY <1>1, Registers
<1>3. base < STACK_SIZE
    BY DEF Good
<1> HIDE DEF base
<1>4. base \in 0 .. STACK_SIZE - 1
    BY <1>2, <1>3, StackAssumption, WordAssumption DEF Word
<1>5. base \in Nat /\ base - 1 \in Int /\ base - 2 \in -2 .. STACK_SIZE
    BY <1>4, StackAssumption
<1> QED BY <1>4, <1>5 DEF base

\* jump_sub saves its two words, moves the segment, and jumps, or halts on the way.
LEMMA JumpSubGood ==
    ASSUME TypeOK, NEW n, Good(n), NEW p \in Int
    PROVE  Good(JumpSub(n, p))
<1>1. n.program_ptr \in Word /\ n.reg[REG.STACK_SEGMENT] \in Word
    BY SavedWords
<1> DEFINE saved == Push(Push(n, n.program_ptr), n.reg[REG.STACK_SEGMENT])
<1>2. Good(saved)
    BY <1>1, PushGood
<1> HIDE DEF saved
<1>3. saved.stack_ptr \in Word /\ REG.STACK_SEGMENT \in Int
    BY <1>2, Fields, RegisterNumbers, StackAssumption, WordAssumption DEF Word
<1>4. Good(SetRegister(saved, REG.STACK_SEGMENT, saved.stack_ptr))
    BY <1>2, <1>3, SetRegisterGood
<1>5. Good(Jump(SetRegister(saved, REG.STACK_SEGMENT, saved.stack_ptr), p))
    BY <1>4, JumpGood
<1> QED BY <1>5 DEF JumpSub, saved

\* return_sub leaves the stack pointer outside the stack only while it halts.
LEMMA ReturnSettled ==
    ASSUME TypeOK, NEW n, Good(n), ~n.halted
    PROVE  Settled(ReturnSub(n))
<1> DEFINE base == n.reg[REG.STACK_SEGMENT]
           address == Signed(StackRead(n, base - 2))
           read == AfterRead(AfterRead(n, base - 2), base - 1)
           low == [read EXCEPT !.stack_ptr = base - 2]
           seg == StackRead(n, base - 1)
<1>1. base \in 0 .. STACK_SIZE - 1
    BY SegmentInside
<1>2. base - 2 \in Int /\ base - 1 \in Int /\ base - 2 \in -2 .. STACK_SIZE
    BY SegmentInside
<1> HIDE DEF base
<1>3. address \in Int /\ seg \in Word
    BY <1>2, ReadGood, SignedType
<1>4. Good(read)
    BY <1>2, ReadGood
<1>5. base < 2 => read.halted
  <2>1. base < 2 => ~InStack(base - 2)
      BY <1>1 DEF InStack
  <2>2. ~InStack(base - 2) => AfterRead(n, base - 2).halted
      BY HaltGood DEF AfterRead
  <2>3. ASSUME NEW k, Good(k), k.halted PROVE AfterRead(k, base - 1).halted
      BY <2>3, HaltGood DEF AfterRead
  <2>4. Good(AfterRead(n, base - 2))
      BY <1>2, ReadGood
  <2> QED BY <2>1, <2>2, <2>3, <2>4
<1> HIDE DEF address, read, seg
<1>6. /\ low \in MachineType /\ low.stack_ptr = base - 2
      /\ low.program_ptr = read.program_ptr /\ low.reg = read.reg /\ low.halted = read.halted
      /\ low.tick_speed = read.tick_speed /\ low.brightness = read.brightness
      /\ low.fg = read.fg /\ low.bg = read.bg
  <2>1. read \in MachineType
      BY <1>4, Fields
  <2> QED BY <1>2, <2>1 DEF MachineType
<1> DEFINE back == Jump(low, address)
<1>7. ReturnSub(n) = SetRegister(back, REG.STACK_SEGMENT, seg)
    BY DEF ReturnSub, base, address, read, seg
<1> HIDE DEF low
<1>8. REG.STACK_SEGMENT \in Int
    BY RegisterNumbers
<1>9. CASE base >= 2
  <2>1. ~read.halted => read.reg[REG.STACK_SEGMENT] < STACK_SIZE
      BY <1>4 DEF Good
  <2>2. Good(low)
      BY <1>1, <1>4, <1>6, <1>9, <2>1, SameGood
  <2>3. Good(back)
      BY <1>3, <2>2, JumpGood
  <2>4. Good(SetRegister(back, REG.STACK_SEGMENT, seg))
      BY <1>3, <1>8, <2>3, SetRegisterGood
  <2> QED BY <1>7, <2>4 DEF Good, Settled
<1>10. CASE ~(base >= 2)
  <2>1. low.halted
      BY <1>1, <1>5, <1>6, <1>10
  <2>2. /\ back \in MachineType /\ back.halted /\ back.reg = low.reg
        /\ back.tick_speed = low.tick_speed /\ back.brightness = low.brightness
        /\ back.fg = low.fg /\ back.bg = low.bg
    <3>1. CASE address > max_ptr \/ address < 0
        BY <1>6, <3>1 DEF Jump, Halt, MachineType
    <3>2. CASE ~(address > max_ptr \/ address < 0)
      <4>1. address \in Nat
          BY <1>3, <3>2
      <4> QED BY <1>6, <2>1, <3>2, <4>1 DEF Jump, MachineType
    <3> QED BY <3>1, <3>2
  <2> HIDE DEF back
  <2> DEFINE g == [back.reg EXCEPT ![REG.STACK_SEGMENT] = seg]
             s == [back EXCEPT !.reg = g]
             q == SetRegister(back, REG.STACK_SEGMENT, seg)
  <2>3. back.reg \in [0 .. HEAP_SIZE - 1 -> Word]
      BY <2>2 DEF MachineType
  <2>4. /\ g \in [0 .. HEAP_SIZE - 1 -> Word]
        /\ g[REG.URGENCY] = back.reg[REG.URGENCY]
        /\ g[REG.BRIGHTNESS] = back.reg[REG.BRIGHTNESS]
        /\ g[REG.FOREGROUND] = back.reg[REG.FOREGROUND]
        /\ g[REG.BACKGROUND] = back.reg[REG.BACKGROUND]
      BY <1>3, <2>3, Registers, RegisterNumbers
  <2>5. IsRegister(REG.STACK_SEGMENT)
      BY RegisterNumbers, HeapAssumption DEF IsRegister
  <2>6. s = [back EXCEPT !.reg[REG.STACK_SEGMENT] = seg]
      BY <2>2 DEF MachineType
  <2> HIDE DEF g
  <2>7. q = IF seg >= STACK_SIZE THEN Halt(s) ELSE s
      BY <2>5, <2>6, RegisterNumbers DEF SetRegister
  <2>8. /\ q \in MachineType /\ q.halted /\ q.reg = g
        /\ q.tick_speed = back.tick_speed /\ q.brightness = back.brightness
        /\ q.fg = back.fg /\ q.bg = back.bg
      BY <2>2, <2>4, <2>7 DEF Halt, MachineType
  <2> HIDE DEF q, s
  <2>9. Mirrored(read)
      BY <1>4 DEF Good
  <2>10. Mirrored(q)
      BY <1>6, <2>2, <2>4, <2>8, <2>9 DEF Mirrored
  <2> QED BY <1>7, <2>8, <2>10 DEF Settled, q
<1> QED BY <1>1, <1>9, <1>10

-----------------------------------------------------------------------------
(* One instruction *)

\* What holds inside an instruction is enough between two.
LEMMA GoodSettled == ASSUME NEW n, Good(n) PROVE Settled(n)
BY DEF Good, Settled

\* The machine in the loop of tick_exec.
LEMMA Ticking ==
    ASSUME IInv, phase = "tick"
    PROVE  Good(m) /\ ~m.halted
BY DEF IInv, Settled, Good

\* What an instruction starts from: the machine past its opcode and past its
\* operands.
LEMMA Operands ==
    ASSUME IInv, phase = "tick", Fetched(m) # OP.HALT
    PROVE  /\ Good(Op0) /\ ~Op0.halted /\ Op0.reg = m.reg
           /\ Good(Stepped(Op0)) /\ Fetched(Op0) \in Word
           /\ Good(Op1) /\ A \in Word /\ Signed(A) \in Int
           /\ Good(Op2) /\ B \in Word
<1>1. Good(m) /\ ~m.halted /\ TypeOK
    BY Ticking DEF IInv
<1>2. m \in MachineType /\ m.program_ptr \in Nat /\ m.stack_ptr >= 0
    BY <1>1, Fields DEF Good, MachineType
<1>3. m.program_ptr < Len(body) /\ Len(body) \in Nat
    BY <1>1, <1>2, Words DEF Fetched
<1>4. ~m.halted => m.reg[REG.STACK_SEGMENT] < STACK_SIZE
    BY <1>1 DEF Good
<1>5. Op0 = [m EXCEPT !.program_ptr = m.program_ptr + 1]
    BY <1>1, <1>2 DEF Op0, Stepped
<1>6. /\ Op0 \in MachineType /\ Op0.program_ptr = m.program_ptr + 1 /\ Op0.reg = m.reg
      /\ Op0.stack_ptr = m.stack_ptr /\ Op0.halted = m.halted
      /\ Op0.tick_speed = m.tick_speed /\ Op0.brightness = m.brightness
      /\ Op0.fg = m.fg /\ Op0.bg = m.bg
    BY <1>2, <1>5 DEF MachineType
<1>7. m.program_ptr + 1 \in Pointer /\ m.program_ptr + 2 \in Pointer
    BY <1>2, <1>3 DEF Pointer
<1>8. Mirrored(Op0)
    BY <1>1, <1>6 DEF Good, Mirrored
<1>9. Good(Op0) /\ ~Op0.halted
    BY <1>1, <1>2, <1>4, <1>6, <1>7, <1>8 DEF Good
<1> DEFINE past == Stepped(Op0)
<1>10. /\ past \in MachineType /\ past.program_ptr = m.program_ptr + 2 /\ past.reg = m.reg
       /\ past.stack_ptr = m.stack_ptr /\ past.halted = m.halted
       /\ past.tick_speed = m.tick_speed /\ past.brightness = m.brightness
       /\ past.fg = m.fg /\ past.bg = m.bg
    BY <1>2, <1>6, <1>9 DEF Stepped, MachineType
<1> HIDE DEF past
<1>11. Mirrored(past)
    BY <1>1, <1>10 DEF Good, Mirrored
<1>12. Good(past)
    BY <1>1, <1>2, <1>4, <1>7, <1>10, <1>11 DEF Good
<1>13. Fetched(Op0) \in Word
    BY <1>1, <1>2, <1>6, <1>9, Words DEF Fetched
<1>14. Good(Op1) /\ A \in Word
    BY <1>9, PopGood DEF Op1, A
<1>15. Good(Op2) /\ B \in Word
    BY <1>14, PopGood DEF Op2, B
<1>16. Signed(A) \in Int
    BY <1>14, SignedType
<1> QED BY <1>6, <1>9, <1>12, <1>13, <1>14, <1>15, <1>16 DEF past

\* A sub's number leads to a position of the program.
LEMMA GetSubType == ASSUME TypeOK, NEW s PROVE GetSub(s) \in Pointer /\ GetSub(s) \in Int
<1>1. Len(body) \in Nat
    BY ProgramAssumption DEF TypeOK
<1>2. GetSub(s) \in Pointer
    BY <1>1 DEF GetSub, TypeOK, Pointer
<1> QED BY <1>1, <1>2 DEF Pointer

\* Whatever a turn of tick_exec does, if it leaves the machine settled it keeps
\* the invariant.
LEMMA TurnInv ==
    ASSUME IInv, phase = "tick", NEW n, Settled(n), Turn(n)
    PROVE  IInv'
<1>1. /\ m' = n /\ body' = body /\ start' = start /\ call_index' = call_index
      /\ scan' = scan /\ max_ptr' = max_ptr
    BY DEF Turn
<1>2. tick_start \in Clock /\ now \in Clock /\ 0 \in Clock
    BY ClockAssumption DEF IInv, TypeOK, Clock
<1>3. tick_start' \in Clock /\ now' \in Clock /\ phase' \in {"idle", "tick"}
      /\ (phase' = "tick" => ~n.halted)
  <2>1. PICK d \in Durations :
            IF n.ticked \/ n.halted \/ Overrun((now + d) % (ULONG_MAX + 1)) THEN LeaveTick("idle")
            ELSE phase' = "tick" /\ now' = (now + d) % (ULONG_MAX + 1) /\ UNCHANGED tick_start
      BY DEF Turn
  <2>2. (now + d) % (ULONG_MAX + 1) \in Clock
      BY <1>2, ClockAssumption DEF Clock
  <2> QED BY <1>2, <2>1, <2>2 DEF LeaveTick
<1>4. n \in MachineType
    BY DEF Settled
<1>5. TypeOK'
    BY <1>1, <1>3, <1>4 DEF IInv, TypeOK, Pointer, Clock
<1>6. IndexSound'
    BY <1>1 DEF IInv, IndexSound, Code
<1>7. Settled(m)'
    BY <1>1 DEF Settled, Mirrored, Pointer
<1> QED BY <1>1, <1>3, <1>5, <1>6, <1>7 DEF IInv

-----------------------------------------------------------------------------
(* The steps outside tick_exec *)

\* A new machine has its types.
LEMMA FreshType == ASSUME NEW g \in Word PROVE Fresh(g) \in MachineType
<1>1. 50000 % WordMod \in Word /\ 0 \in Word /\ White \in Word
    BY WordAssumption, WrapType DEF Word, White
<1>2. Color(White) \in Nat /\ 0 \in -2 .. STACK_SIZE
    BY <1>1, SettingTypes, StackAssumption
<1> HIDE DEF White
<1> QED BY <1>1, <1>2 DEF Fresh, MachineType

\* The initial states satisfy the invariant.
LEMMA InitInv == Init => IInv
<1> SUFFICES ASSUME Init PROVE IInv
    OBVIOUS
<1>1. PICK g \in Garbage : m = Fresh(g)
    BY DEF Init
<1>2. m \in MachineType
    BY <1>1, FreshType, InputAssumption
<1>3. Len(body) \in Nat
    BY ProgramAssumption DEF Init
<1>4. DOMAIN call_index = {}
    BY DEF Init
<1>5. call_index = [s \in DOMAIN call_index |-> call_index[s]]
    BY DEF Init
<1>6. TypeOK
    BY <1>2, <1>3, <1>4, <1>5, ClockAssumption DEF Init, TypeOK, Pointer, Clock
<1> QED BY <1>4, <1>6 DEF Init, IInv, IndexSound

\* The start of begin() keeps the invariant.
LEMMA BeginInv == ASSUME IInv, Begin PROVE IInv'
<1>1. m \in MachineType /\ Len(body) \in Nat /\ 0 \in Pointer
    BY ProgramAssumption DEF IInv, TypeOK, Pointer
<1>2. m' \in MachineType
    BY <1>1 DEF Begin, MachineType
<1>3. DOMAIN call_index' = {} /\ call_index' = [s \in DOMAIN call_index' |-> call_index'[s]]
    BY DEF Begin
<1>4. TypeOK'
    BY <1>1, <1>2, <1>3 DEF Begin, IInv, TypeOK, Pointer, Clock
<1> QED BY <1>3, <1>4 DEF Begin, IInv, IndexSound

\* A turn of scan_subs stays in the program and enters the right position.
LEMMA ScanInv == ASSUME IInv, ScanStep PROVE IInv'
<1> DEFINE entered == [s \in DOMAIN call_index \cup {Code(scan + 1)} |->
                          IF s = Code(scan + 1) THEN scan ELSE call_index[s]]
<1>1. TypeOK /\ IndexSound /\ Code(scan) # OP.HALT
    BY DEF IInv, ScanStep
<1>2. scan \in Pointer /\ Len(body) \in Nat
    BY <1>1, ProgramAssumption DEF TypeOK
<1>3. scan \in Nat /\ scan + 1 \in Nat
    BY <1>2 DEF Pointer
<1>4. scan < Len(body) /\ Code(scan + 1) \in Word
    BY <1>1, <1>3, Words
<1>5. scan' \in Pointer
    BY <1>2, <1>3, <1>4 DEF ScanStep, Pointer
<1>6. CASE Code(scan) = OP.SUB
  <2>1. call_index' = entered /\ DOMAIN entered = DOMAIN call_index \cup {Code(scan + 1)}
      BY <1>6 DEF ScanStep
  <2>2. DOMAIN entered \subseteq Word
      BY <1>1, <1>4, <2>1 DEF TypeOK
  <2>3. \A s \in DOMAIN entered : entered[s] \in Pointer
      BY <1>1, <1>2 DEF TypeOK
  <2>4. \A s \in DOMAIN entered : Code(entered[s]) = OP.SUB /\ Code(entered[s] + 1) = s
      BY <1>1, <1>6 DEF IndexSound
  <2>5. entered = [s \in DOMAIN entered |-> entered[s]]
      OBVIOUS
  <2>6. TypeOK'
      BY <1>1, <1>5, <2>1, <2>2, <2>3, <2>5 DEF ScanStep, TypeOK, Pointer
  <2>7. IndexSound'
      BY <2>1, <2>4 DEF ScanStep, IndexSound, Code
  <2> QED BY <2>6, <2>7 DEF ScanStep, IInv
<1>7. CASE Code(scan) # OP.SUB
  <2>1. call_index' = call_index
      BY <1>7 DEF ScanStep
  <2>2. TypeOK'
      BY <1>1, <1>5, <2>1 DEF ScanStep, TypeOK, Pointer
  <2>3. IndexSound'
      BY <1>1, <2>1 DEF ScanStep, IndexSound, Code
  <2> QED BY <2>2, <2>3 DEF ScanStep, IInv
<1> QED BY <1>6, <1>7

\* A push onto a stack with room changes the stack, its pointer and REG_MARK.
LEMMA PushFields ==
    ASSUME NEW n \in MachineType, NEW v \in Word, n.stack_ptr \in 0 .. STACK_SIZE - 1
    PROVE  /\ Push(n, v) \in MachineType
           /\ Push(n, v).stack_ptr = n.stack_ptr + 1
           /\ Push(n, v).reg = [n.reg EXCEPT ![REG.MARK] = Wrap(n.reg[REG.MARK] + 1)]
           /\ Push(n, v).program_ptr = n.program_ptr /\ Push(n, v).halted = n.halted
           /\ Push(n, v).tick_speed = n.tick_speed /\ Push(n, v).brightness = n.brightness
           /\ Push(n, v).fg = n.fg /\ Push(n, v).bg = n.bg
           /\ Push(n, v).cursor = n.cursor
           /\ Push(n, v).stack = [n.stack EXCEPT ![n.stack_ptr] = v]
<1> DEFINE r == [n.reg EXCEPT ![REG.MARK] = Wrap(n.reg[REG.MARK] + 1)]
           s == [n.stack EXCEPT ![n.stack_ptr] = v]
<1>1. n.reg \in [0 .. HEAP_SIZE - 1 -> Word] /\ n.stack \in [0 .. STACK_SIZE - 1 -> Word]
    BY DEF MachineType
<1>2. n.reg[REG.MARK] + 1 \in Int
  <2>1. n.reg[REG.MARK] \in Word
      BY <1>1, Registers
  <2> QED BY <2>1, WordAssumption DEF Word
<1>3. r \in [0 .. HEAP_SIZE - 1 -> Word] /\ s \in [0 .. STACK_SIZE - 1 -> Word]
    BY <1>1, <1>2, WrapType
<1>4. n.stack_ptr + 1 \in -2 .. STACK_SIZE /\ ~(n.stack_ptr >= STACK_SIZE)
    BY StackAssumption
<1>5. Push(n, v) = [n EXCEPT !.stack = s, !.stack_ptr = n.stack_ptr + 1, !.reg = r]
    BY <1>4 DEF Push, MachineType
<1> HIDE DEF r, s
<1>6. /\ Push(n, v) \in MachineType
      /\ Push(n, v).stack_ptr = n.stack_ptr + 1
      /\ Push(n, v).reg = r
      /\ Push(n, v).program_ptr = n.program_ptr /\ Push(n, v).halted = n.halted
      /\ Push(n, v).tick_speed = n.tick_speed /\ Push(n, v).brightness = n.brightness
      /\ Push(n, v).fg = n.fg /\ Push(n, v).bg = n.bg
      /\ Push(n, v).cursor = n.cursor /\ Push(n, v).stack = s
    BY <1>3, <1>4, <1>5 DEF MachineType
<1> QED BY <1>6 DEF r, s

\* begin() makes a settled machine of whatever memory it finds, with one frame on
\* its stack, and leaves the cursor and its registers as they are.
LEMMA BegunMachine ==
    ASSUME TypeOK, NEW top \in Pointer
    PROVE  LET b == Begun(m, top)
           IN  /\ Settled(b)
               /\ b.halted = m.halted /\ b.program_ptr = GetSub(start)
               /\ b.stack_ptr = 2 /\ b.reg[REG.STACK_SEGMENT] = 2
               /\ b.stack[0] = Wrap(top - 1) /\ b.stack[1] = 0
               /\ b.cursor = m.cursor
               /\ b.reg[REG.CURSOR_X] = m.reg[REG.CURSOR_X]
               /\ b.reg[REG.CURSOR_Y] = m.reg[REG.CURSOR_Y]
<1> DEFINE regs == [m.reg EXCEPT
               ![REG.TICK_MODE] = MODE.NONE, ![REG.URGENCY] = 10, ![REG.BRIGHTNESS] = 30,
               ![REG.FOREGROUND] = White, ![REG.BACKGROUND] = 0, ![REG.MASKGROUND] = 0]
           ready == [m EXCEPT
               !.program_ptr = GetSub(start), !.stack_ptr = 0, !.reg = regs,
               !.tick_speed = Hertz(10), !.brightness = 30, !.fg = Color(White), !.bg = 0]
           framed == Push(Push(ready, Wrap(top - 1)), 0)
           last == [framed.reg EXCEPT ![REG.STACK_SEGMENT] = framed.stack_ptr,
                                      ![REG.MARK] = framed.stack_ptr]
           q == [framed EXCEPT !.reg = last]
<1>1. m \in MachineType /\ GetSub(start) \in Pointer /\ GetSub(start) \in Nat
  <2>1. GetSub(start) \in Pointer /\ GetSub(start) \in Int
      BY GetSubType
  <2> QED BY <2>1 DEF TypeOK, Pointer
<1>2. /\ 0 \in Word /\ 2 \in Word /\ 10 \in Word /\ 30 \in Word /\ White \in Word
      /\ MODE.NONE \in Word
    BY WordAssumption, WrapType DEF Word, White, MODE
<1>3. Hertz(10) \in Word /\ Color(White) \in Nat /\ Color(0) = 0 /\ Capped(30) = 30
    BY <1>2, SettingTypes DEF Color, Capped, MAX_BRIGHTNESS
<1>4. m.reg \in [0 .. HEAP_SIZE - 1 -> Word]
    BY <1>1 DEF MachineType
<1>5. /\ regs \in [0 .. HEAP_SIZE - 1 -> Word]
      /\ regs[REG.URGENCY] = 10 /\ regs[REG.BRIGHTNESS] = 30
      /\ regs[REG.FOREGROUND] = White /\ regs[REG.BACKGROUND] = 0
      /\ regs[REG.CURSOR_X] = m.reg[REG.CURSOR_X]
      /\ regs[REG.CURSOR_Y] = m.reg[REG.CURSOR_Y]
  <2>1. regs \in [0 .. HEAP_SIZE - 1 -> Word]
      BY <1>2, <1>4
  <2>2. DOMAIN m.reg = 0 .. HEAP_SIZE - 1
      BY <1>4
  <2>3. /\ 1 \in DOMAIN m.reg /\ 2 \in DOMAIN m.reg /\ 3 \in DOMAIN m.reg /\ 4 \in DOMAIN m.reg
        /\ 8 \in DOMAIN m.reg /\ 9 \in DOMAIN m.reg
      BY <2>2, HeapAssumption
  <2>4. regs[REG.URGENCY] = 10 /\ regs[REG.BRIGHTNESS] = 30
      BY <2>3, RegisterNumbers
  <2>5. regs[REG.FOREGROUND] = White /\ regs[REG.BACKGROUND] = 0
      BY <2>3, RegisterNumbers
  <2>6. regs[REG.CURSOR_X] = m.reg[REG.CURSOR_X]
      BY <2>3, RegisterNumbers
  <2>7. regs[REG.CURSOR_Y] = m.reg[REG.CURSOR_Y]
      BY <2>3, RegisterNumbers
  <2> QED BY <2>1, <2>4, <2>5, <2>6, <2>7
<1> HIDE DEF regs
<1>6. 0 \in -2 .. STACK_SIZE /\ 0 \in 0 .. STACK_SIZE - 1 /\ 1 \in 0 .. STACK_SIZE - 1
    BY StackAssumption
<1>7. /\ ready \in MachineType
      /\ ready.stack_ptr = 0 /\ ready.reg = regs /\ ready.program_ptr = GetSub(start)
      /\ ready.tick_speed = Hertz(10) /\ ready.brightness = 30
      /\ ready.fg = Color(White) /\ ready.bg = 0
      /\ ready.halted = m.halted /\ ready.cursor = m.cursor /\ ready.stack = m.stack
    BY <1>1, <1>3, <1>5, <1>6 DEF MachineType
<1> HIDE DEF ready
<1>8. Wrap(top - 1) \in Word
  <2>1. Len(body) \in Nat
      BY ProgramAssumption DEF TypeOK
  <2>2. top - 1 \in Int
      BY <2>1 DEF Pointer
  <2> QED BY <2>2, WrapType
<1> DEFINE p == Push(ready, Wrap(top - 1))
<1>9. /\ p \in MachineType /\ p.stack_ptr = 1
      /\ p.reg = [regs EXCEPT ![REG.MARK] = Wrap(regs[REG.MARK] + 1)]
      /\ p.program_ptr = GetSub(start)
      /\ p.tick_speed = Hertz(10) /\ p.brightness = 30 /\ p.fg = Color(White) /\ p.bg = 0
      /\ p.halted = m.halted /\ p.cursor = m.cursor
      /\ p.stack = [m.stack EXCEPT ![0] = Wrap(top - 1)]
    BY <1>6, <1>7, <1>8, PushFields
<1> HIDE DEF p
<1>10. /\ framed \in MachineType /\ framed.stack_ptr = 2
       /\ framed.reg = [p.reg EXCEPT ![REG.MARK] = Wrap(p.reg[REG.MARK] + 1)]
       /\ framed.program_ptr = GetSub(start)
       /\ framed.tick_speed = Hertz(10) /\ framed.brightness = 30
       /\ framed.fg = Color(White) /\ framed.bg = 0
       /\ framed.halted = m.halted /\ framed.cursor = m.cursor
       /\ framed.stack = [p.stack EXCEPT ![1] = 0]
  <2>1. framed = Push(p, 0)
      BY DEF p
  <2>2. p.stack_ptr \in 0 .. STACK_SIZE - 1 /\ p.stack_ptr + 1 = 2 /\ 0 \in Word
      BY <1>2, <1>6, <1>9
  <2> HIDE DEF framed
  <2>3. framed.stack = [p.stack EXCEPT ![p.stack_ptr] = 0]
      BY <1>9, <2>1, <2>2, PushFields
  <2>4. framed.stack = [p.stack EXCEPT ![1] = 0]
      BY <1>9, <2>3
  <2>5. framed.halted = m.halted /\ framed.cursor = m.cursor
      BY <1>9, <2>1, <2>2, PushFields
  <2>6. /\ framed \in MachineType /\ framed.stack_ptr = 2
        /\ framed.reg = [p.reg EXCEPT ![REG.MARK] = Wrap(p.reg[REG.MARK] + 1)]
        /\ framed.program_ptr = GetSub(start)
        /\ framed.tick_speed = Hertz(10) /\ framed.brightness = 30
        /\ framed.fg = Color(White) /\ framed.bg = 0
      BY <1>9, <2>1, <2>2, PushFields
  <2> QED BY <2>4, <2>5, <2>6
<1> HIDE DEF framed
<1>11. framed.reg \in [0 .. HEAP_SIZE - 1 -> Word]
    BY <1>10 DEF MachineType
<1>12. /\ last \in [0 .. HEAP_SIZE - 1 -> Word]
       /\ last[REG.URGENCY] = 10 /\ last[REG.BRIGHTNESS] = 30
       /\ last[REG.FOREGROUND] = White /\ last[REG.BACKGROUND] = 0
       /\ last[REG.STACK_SEGMENT] = 2
       /\ last[REG.CURSOR_X] = m.reg[REG.CURSOR_X]
       /\ last[REG.CURSOR_Y] = m.reg[REG.CURSOR_Y]
    BY <1>2, <1>5, <1>9, <1>10, <1>11, Registers, RegisterNumbers
<1> HIDE DEF last
<1>13. /\ q \in MachineType /\ q.reg = last /\ q.stack_ptr = 2 /\ q.program_ptr = GetSub(start)
       /\ q.tick_speed = Hertz(10) /\ q.brightness = 30 /\ q.fg = Color(White) /\ q.bg = 0
       /\ q.halted = m.halted /\ q.cursor = m.cursor /\ q.stack = framed.stack
    BY <1>10, <1>12 DEF MachineType
<1>14. Begun(m, top) = q
    BY <1>1, <1>4 DEF Begun, q, last, framed, ready, regs, MachineType
<1> HIDE DEF q
<1>15. Mirrored(q)
    BY <1>3, <1>12, <1>13 DEF Mirrored
<1>16. 2 >= 0 /\ 2 < STACK_SIZE
    BY StackAssumption
<1>17. framed.stack[0] = Wrap(top - 1) /\ framed.stack[1] = 0
  <2>1. m.stack \in [0 .. STACK_SIZE - 1 -> Word]
      BY <1>1 DEF MachineType
  <2>2. DOMAIN m.stack = 0 .. STACK_SIZE - 1
      BY <2>1
  <2>3. DOMAIN p.stack = 0 .. STACK_SIZE - 1 /\ p.stack[0] = Wrap(top - 1)
      BY <1>6, <1>9, <2>2
  <2>4. framed.stack = [p.stack EXCEPT ![1] = 0]
      BY <1>10
  <2>5. ASSUME NEW f, 0 \in DOMAIN f, 1 \in DOMAIN f
        PROVE  LET g == [f EXCEPT ![1] = 0] IN g[0] = f[0] /\ g[1] = 0
      BY <2>5
  <2>6. framed.stack[0] = p.stack[0] /\ framed.stack[1] = 0
      BY <1>6, <2>3, <2>4, <2>5
  <2> QED BY <2>3, <2>6
<1>18. Settled(q)
    BY <1>1, <1>12, <1>13, <1>15, <1>16 DEF Settled
<1> QED BY <1>12, <1>13, <1>14, <1>17, <1>18

\* The rest of begin() keeps the invariant.
LEMMA FinishInv == ASSUME IInv, FinishBegin PROVE IInv'
<1>1. TypeOK /\ scan \in Pointer
    BY DEF IInv, TypeOK
<1>2. Settled(Begun(m, scan))
    BY <1>1, BegunMachine
<1>3. m' \in MachineType
    BY <1>2 DEF FinishBegin, Settled
<1>4. TypeOK'
    BY <1>1, <1>3 DEF FinishBegin, TypeOK, Pointer
<1>5. Settled(m)'
    BY <1>2 DEF FinishBegin, Settled, Mirrored, Pointer
<1> QED BY <1>4, <1>5 DEF FinishBegin, IInv, IndexSound, Code

-----------------------------------------------------------------------------
(* The instructions and the tick modes *)

\* The numbers of the instructions that are not OP_HALT.
LEMMA NotHalt ==
    /\ OP.HALT \notin {OP.SUB, OP.RETURN, OP.GOTO, OP.GOSUB, OP.TICK, OP.CMP, OP.CMPSUB, OP.NOOP,
                       OP.FILL, OP.RAND, OP.WIDTH, OP.HEIGHT, OP.SET, OP.GET, OP.MARK, OP.PIXEL,
                       OP.FILL_ROWS, OP.FILL_COLUMNS, OP.MASK_ROWS, OP.MASK_COLUMNS,
                       OP.FILL_BITS, OP.MASK_BITS, OP.PUSH, OP.POP, OP.DUP, OP.SWAP, OP.READ,
                       OP.READARG, OP.WRITE, OP.ALLOC, OP.PUTCHAR, OP.SET_CURSOR}
    /\ OP.HALT \notin Binary /\ OP.HALT \notin Unary /\ OP.HALT \notin Divide
    /\ OP.HALT \notin DOMAIN Setting
    /\ OP.HALT \in KnownOps
<1>1. /\ OP.HALT \notin {OP.SUB, OP.RETURN, OP.GOTO, OP.GOSUB, OP.TICK, OP.CMP, OP.CMPSUB, OP.NOOP,
                       OP.FILL, OP.RAND, OP.WIDTH, OP.HEIGHT, OP.SET, OP.GET, OP.MARK, OP.PIXEL,
                       OP.FILL_ROWS, OP.FILL_COLUMNS, OP.MASK_ROWS, OP.MASK_COLUMNS,
                       OP.FILL_BITS, OP.MASK_BITS, OP.PUSH, OP.POP, OP.DUP, OP.SWAP, OP.READ,
                       OP.READARG, OP.WRITE, OP.ALLOC, OP.PUTCHAR, OP.SET_CURSOR}
      /\ OP.HALT \notin Binary /\ OP.HALT \notin Unary /\ OP.HALT \notin Divide
    BY DEF OP, Binary, Unary, Divide
<1>2. OP.HALT \notin DOMAIN Setting
    BY DEF OP, Setting
<1>3. OP.HALT \in KnownOps
    BY DEF OP, KnownOps
<1> QED BY <1>1, <1>2, <1>3

\* The addresses OP_READ, OP_WRITE and OP_READARG compute are integers.
LEMMA Addresses ==
    ASSUME IInv, phase = "tick", Fetched(m) # OP.HALT
    PROVE  /\ Signed(Wrap(m.reg[REG.STACK_SEGMENT] + A)) \in Int
           /\ Signed(Wrap(m.reg[REG.STACK_SEGMENT] - A - 2)) \in Int
<1>1. m.reg \in [0 .. HEAP_SIZE - 1 -> Word]
    BY Ticking, Fields
<1>2. m.reg[REG.STACK_SEGMENT] \in Word /\ A \in Word
    BY <1>1, Registers, Operands
<1>3. m.reg[REG.STACK_SEGMENT] + A \in Int /\ m.reg[REG.STACK_SEGMENT] - A - 2 \in Int
    BY <1>2, WordAssumption DEF Word
<1> QED BY <1>3, WrapType, SignedType

\* The registers the setting instructions set exist, and are not the segment.
LEMMA SettingNumbers ==
    \A op \in DOMAIN Setting : Setting[op] \in Int /\ Setting[op] # REG.STACK_SEGMENT
<1>1. TAKE op \in DOMAIN Setting
<1>2. op \in {OP.TICK_MODE, OP.URGENCY, OP.BRIGHTNESS, OP.FOREGROUND, OP.BACKGROUND, OP.MASKGROUND}
    BY DEF Setting
<1> QED BY <1>2, RegisterNumbers DEF Setting

\* The instructions that run, jump and call.
LEMMA ControlInv ==
    ASSUME IInv, OpSub \/ OpReturn \/ OpGoto \/ OpGosub \/ OpTick \/ OpCmp \/ OpCmpSub \/ OpNothing
    PROVE  IInv'
<1>1. phase = "tick" /\ Fetched(m) # OP.HALT
    BY NotHalt DEF OpSub, OpReturn, OpGoto, OpGosub, OpTick, OpCmp, OpCmpSub, OpNothing, Executing
<1>2. /\ Good(Op0) /\ ~Op0.halted /\ Good(Stepped(Op0))
      /\ Good(Op1) /\ A \in Word /\ Good(Op2) /\ B \in Word
    BY <1>1, Operands
<1>3. TypeOK /\ GetSub(A) \in Int
    BY GetSubType DEF IInv
<1>4. CASE OpSub
    BY <1>1, <1>2, <1>4, GoodSettled, TurnInv DEF OpSub
<1>5. CASE OpReturn
    BY <1>1, <1>2, <1>3, <1>5, ReturnSettled, TurnInv DEF OpReturn
<1>6. CASE OpGoto
    BY <1>1, <1>2, <1>3, <1>6, JumpGood, GoodSettled, TurnInv DEF OpGoto
<1>7. CASE OpGosub
    BY <1>1, <1>2, <1>3, <1>7, JumpSubGood, GoodSettled, TurnInv DEF OpGosub
<1>8. CASE OpTick
    BY <1>1, <1>2, <1>8, NextTickGood, GoodSettled, TurnInv DEF OpTick
<1>9. CASE OpCmp
  <2>1. Settled(IF B # 0 THEN Jump(Op2, GetSub(A)) ELSE Op2)
      BY <1>2, <1>3, JumpGood, GoodSettled
  <2> QED BY <1>1, <1>9, <2>1, TurnInv DEF OpCmp
<1>10. CASE OpCmpSub
  <2>1. Settled(IF B # 0 THEN JumpSub(Op2, GetSub(A)) ELSE Op2)
      BY <1>2, <1>3, JumpSubGood, GoodSettled
  <2> QED BY <1>1, <1>10, <2>1, TurnInv DEF OpCmpSub
<1>11. CASE OpNothing
    BY <1>1, <1>2, <1>11, GoodSettled, TurnInv DEF OpNothing
<1> QED BY <1>4, <1>5, <1>6, <1>7, <1>8, <1>9, <1>10, <1>11

\* The instructions that compute.
LEMMA ArithmeticInv ==
    ASSUME IInv, OpBinary \/ OpUnary \/ OpRand \/ OpWidth \/ OpHeight
    PROVE  IInv'
<1>1. phase = "tick" /\ Fetched(m) # OP.HALT
    BY NotHalt DEF OpBinary, OpUnary, OpRand, OpWidth, OpHeight, Executing
<1>2. Good(Op0) /\ Good(Op1) /\ Good(Op2)
    BY <1>1, Operands
<1>3. ASSUME NEW n, Good(n), NEW v \in Word PROVE Settled(Push(n, v))
    BY <1>3, PushGood, GoodSettled
<1>4. CASE OpBinary
  <2>1. PICK r \in Results(Fetched(m), B, A) : Turn(Push(Op2, r))
      BY <1>4 DEF OpBinary
  <2>2. r \in Word
      BY DEF Results
  <2> QED BY <1>1, <1>2, <1>3, <2>1, <2>2, TurnInv
<1>5. CASE OpUnary
  <2>1. PICK r \in Results(Fetched(m), 0, A) : Turn(Push(Op1, r))
      BY <1>5 DEF OpUnary
  <2>2. r \in Word
      BY DEF Results
  <2> QED BY <1>1, <1>2, <1>3, <2>1, <2>2, TurnInv
<1>6. CASE OpRand
  <2>1. PICK r \in RandomWords : Turn(Push(Op0, r))
      BY <1>6 DEF OpRand
  <2> QED BY <1>1, <1>2, <1>3, <2>1, InputAssumption, TurnInv
<1>7. CASE OpWidth
    BY <1>1, <1>2, <1>3, <1>7, PanelAssumption, TurnInv DEF OpWidth
<1>8. CASE OpHeight
    BY <1>1, <1>2, <1>3, <1>8, PanelAssumption, TurnInv DEF OpHeight
<1> QED BY <1>4, <1>5, <1>6, <1>7, <1>8

\* The instructions on registers, the panel's settings and its cursor.
LEMMA SettingInv ==
    ASSUME IInv, OpSet \/ OpGet \/ OpSetting \/ OpMark \/ OpPutChar \/ OpSetCursor
    PROVE  IInv'
<1>1. phase = "tick" /\ Fetched(m) # OP.HALT
    BY NotHalt DEF OpSet, OpGet, OpSetting, OpMark, OpPutChar, OpSetCursor, Executing
<1>2. /\ Good(Op0) /\ Good(Op1) /\ A \in Word /\ Signed(A) \in Int /\ Good(Op2) /\ B \in Word
    BY <1>1, Operands
<1>3. CASE OpSet
    BY <1>1, <1>2, <1>3, SetRegisterGood, GoodSettled, TurnInv DEF OpSet
<1>4. CASE OpGet
  <2>1. Good(AfterGet(Op1, Signed(A))) /\ Register(Op1, Signed(A)) \in Word
      BY <1>2, GetGood
  <2>2. Settled(Push(AfterGet(Op1, Signed(A)), Register(Op1, Signed(A))))
      BY <2>1, PushGood, GoodSettled
  <2> QED BY <1>1, <1>4, <2>2, TurnInv DEF OpGet
<1>5. CASE OpSetting
  <2>1. Fetched(m) \in DOMAIN Setting
      BY <1>5 DEF OpSetting, Executing
  <2>2. Settled(SetRegister(Op1, Setting[Fetched(m)], A))
      BY <1>2, <2>1, SettingNumbers, SetRegisterGood, GoodSettled
  <2> QED BY <1>1, <1>5, <2>2, TurnInv DEF OpSetting
<1>6. CASE OpMark
  <2>1. 0 \in Word /\ REG.MARK \in Int
      BY WordAssumption, RegisterNumbers DEF Word
  <2>2. Settled(SetRegister(Op0, REG.MARK, 0))
      BY <1>2, <2>1, SetRegisterGood, GoodSettled
  <2> QED BY <1>1, <1>6, <2>2, TurnInv DEF OpMark
<1>7. CASE OpPutChar
  <2>1. PICK c \in CursorPoints : Turn(SetCursor(Op1, c[1], c[2]))
      BY <1>7 DEF OpPutChar
  <2>2. c[1] \in Word /\ c[2] \in Word
      BY CursorAssumption
  <2>3. Settled(SetCursor(Op1, c[1], c[2]))
      BY <1>2, <2>2, SetCursorGood, GoodSettled
  <2> QED BY <1>1, <2>1, <2>3, TurnInv
<1>8. CASE OpSetCursor
    BY <1>1, <1>2, <1>8, SetCursorGood, GoodSettled, TurnInv DEF OpSetCursor
<1> QED BY <1>3, <1>4, <1>5, <1>6, <1>7, <1>8

\* The instructions on the stack, and those that paint.
LEMMA StackInv ==
    ASSUME IInv, \/ OpPaint1 \/ OpPaint2 \/ OpPaintH \/ OpPush \/ OpPop \/ OpDup \/ OpSwap
                 \/ OpRead \/ OpReadArg \/ OpWrite \/ OpAlloc
    PROVE  IInv'
<1>1. phase = "tick" /\ Fetched(m) # OP.HALT
    BY NotHalt DEF OpPaint1, OpPaint2, OpPaintH, OpPush, OpPop, OpDup, OpSwap, OpRead, OpReadArg,
                   OpWrite, OpAlloc, Executing
<1>2. /\ Good(Op0) /\ Good(Stepped(Op0)) /\ Fetched(Op0) \in Word
      /\ Good(Op1) /\ A \in Word /\ Signed(A) \in Int /\ Good(Op2) /\ B \in Word
    BY <1>1, Operands
<1>3. H \in Nat
    BY PanelAssumption, WordAssumption DEF Word
<1>4. ASSUME NEW n, Good(n), NEW v \in Word PROVE Good(Push(n, v)) /\ Settled(Push(n, v))
    BY <1>4, PushGood, GoodSettled
<1>5. /\ Signed(Wrap(m.reg[REG.STACK_SEGMENT] + A)) \in Int
      /\ Signed(Wrap(m.reg[REG.STACK_SEGMENT] - A - 2)) \in Int
    BY <1>1, Addresses
<1>6. CASE OpPaint1
    BY <1>1, <1>2, <1>6, GoodSettled, TurnInv DEF OpPaint1
<1>7. CASE OpPaint2
    BY <1>1, <1>2, <1>7, GoodSettled, TurnInv DEF OpPaint2
<1>8. CASE OpPaintH
    BY <1>1, <1>2, <1>3, <1>8, PopManyGood, GoodSettled, TurnInv DEF OpPaintH
<1>9. CASE OpPush
    BY <1>1, <1>2, <1>4, <1>9, TurnInv DEF OpPush
<1>10. CASE OpPop
    BY <1>1, <1>2, <1>10, GoodSettled, TurnInv DEF OpPop
<1>11. CASE OpDup
    BY <1>1, <1>2, <1>4, <1>11, TurnInv DEF OpDup
<1>12. CASE OpSwap
    BY <1>1, <1>2, <1>4, <1>12, TurnInv DEF OpSwap
<1>13. CASE OpRead
  <2> DEFINE p == Signed(Wrap(m.reg[REG.STACK_SEGMENT] + A))
  <2>1. Turn(Push(AfterRead(Op1, p), StackRead(Op1, p)))
      BY <1>13 DEF OpRead
  <2>2. Good(AfterRead(Op1, p)) /\ StackRead(Op1, p) \in Word
      BY <1>2, <1>5, ReadGood
  <2> QED BY <1>1, <1>4, <2>1, <2>2, TurnInv
<1>14. CASE OpReadArg
  <2> DEFINE p == Signed(Wrap(m.reg[REG.STACK_SEGMENT] - A - 2))
  <2>1. Turn(Push(AfterRead(Op1, p), StackRead(Op1, p)))
      BY <1>14 DEF OpReadArg
  <2>2. Good(AfterRead(Op1, p)) /\ StackRead(Op1, p) \in Word
      BY <1>2, <1>5, ReadGood
  <2> QED BY <1>1, <1>4, <2>1, <2>2, TurnInv
<1>15. CASE OpWrite
    BY <1>1, <1>2, <1>5, <1>15, WriteGood, GoodSettled, TurnInv DEF OpWrite
<1>16. CASE OpAlloc
    BY <1>1, <1>2, <1>16, PushManyGood, GoodSettled, TurnInv DEF OpAlloc
<1> QED BY <1>6, <1>7, <1>8, <1>9, <1>10, <1>11, <1>12, <1>13, <1>14, <1>15, <1>16

\* Halting: OP_HALT itself, and an opcode the table does not hold.
LEMMA HaltInv == ASSUME IInv, OpHalt \/ OpInvalid PROVE IInv'
<1>1. phase = "tick" /\ Good(m) /\ ~m.halted /\ TypeOK
    BY Ticking DEF OpHalt, OpInvalid, Executing, IInv
<1>2. m \in MachineType /\ m.program_ptr \in Nat
    BY <1>1, Fields DEF MachineType
<1> DEFINE o == [m EXCEPT !.program_ptr = m.program_ptr + 1]
<1>3. /\ Halt(Op0) \in MachineType /\ Halt(Op0).halted /\ Halt(Op0).reg = m.reg
      /\ Halt(Op0).tick_speed = m.tick_speed /\ Halt(Op0).brightness = m.brightness
      /\ Halt(Op0).fg = m.fg /\ Halt(Op0).bg = m.bg
  <2>1. Op0 = o
      BY <1>1, <1>2 DEF Op0, Stepped
  <2>2. /\ o \in MachineType /\ o.reg = m.reg
        /\ o.tick_speed = m.tick_speed /\ o.brightness = m.brightness
        /\ o.fg = m.fg /\ o.bg = m.bg
      BY <1>2 DEF MachineType
  <2> HIDE DEF o
  <2>3. /\ Halt(o) \in MachineType /\ Halt(o).halted /\ Halt(o).reg = o.reg
        /\ Halt(o).tick_speed = o.tick_speed /\ Halt(o).brightness = o.brightness
        /\ Halt(o).fg = o.fg /\ Halt(o).bg = o.bg
      BY <2>2 DEF Halt, MachineType
  <2> QED BY <2>1, <2>2, <2>3
<1>4. Settled(Halt(Op0))
    BY <1>1, <1>3 DEF Good, Settled, Mirrored
<1> QED BY <1>1, <1>4, TurnInv DEF OpHalt, OpInvalid

\* The frames of a tick mode, its end, and an illegal one.
LEMMA ModeInv ==
    ASSUME IInv, ModeBrightness \/ ModeMask \/ ModeMaskBits \/ ModeOver \/ ModeInvalid
    PROVE  IInv'
<1>1. phase = "tick"
    BY DEF ModeBrightness, ModeMask, ModeMaskBits, ModeOver, ModeInvalid, InMode
<1>2. Good(m) /\ Good(Pop(m)) /\ Popped(m) \in Word
    BY <1>1, Ticking, PopGood
<1>3. ASSUME NEW n, Good(n) PROVE Settled(NextTick(n))
    BY <1>3, NextTickGood, GoodSettled
<1>4. REG.BRIGHTNESS \in Int /\ REG.TICK_MODE \in Int /\ MODE.NONE \in Word
    BY RegisterNumbers, WordAssumption DEF MODE, Word
<1>5. CASE ModeBrightness
  <2>1. Good(SetRegister(Pop(m), REG.BRIGHTNESS, Popped(m)))
      BY <1>2, <1>4, SetRegisterGood
  <2> QED BY <1>1, <1>3, <1>5, <2>1, TurnInv DEF ModeBrightness
<1>6. CASE ModeMask
    BY <1>1, <1>2, <1>3, <1>6, TurnInv DEF ModeMask
<1>7. CASE ModeMaskBits
  <2>1. H \in Nat
      BY PanelAssumption, WordAssumption DEF Word
  <2>2. Good(PopMany(m, H))
      BY <1>2, <2>1, PopManyGood
  <2> QED BY <1>1, <1>3, <1>7, <2>2, TurnInv DEF ModeMaskBits
<1>8. CASE ModeOver
  <2>1. Settled(SetRegister(m, REG.TICK_MODE, MODE.NONE))
      BY <1>2, <1>4, SetRegisterGood, GoodSettled
  <2> QED BY <1>1, <1>8, <2>1, TurnInv DEF ModeOver
<1>9. CASE ModeInvalid
    BY <1>1, <1>2, <1>9, HaltGood, GoodSettled, TurnInv DEF ModeInvalid
<1> QED BY <1>5, <1>6, <1>7, <1>8, <1>9

\* Halting between two ticks keeps the invariant.
LEMMA ClearProgramInv == ASSUME IInv, ClearProgram PROVE IInv'
<1>1. m \in MachineType /\ Mirrored(m)
    BY DEF ClearProgram, IInv, Settled
<1>2. /\ m' \in MachineType /\ m'.halted /\ m'.reg = m.reg
      /\ m'.tick_speed = m.tick_speed /\ m'.brightness = m.brightness
      /\ m'.fg = m.fg /\ m'.bg = m.bg
    BY <1>1 DEF ClearProgram, Halt, MachineType
<1>3. TypeOK'
    BY <1>2 DEF ClearProgram, IInv, TypeOK, Pointer, Clock
<1>4. Settled(m)'
    BY <1>1, <1>2 DEF Settled, Mirrored
<1> QED BY <1>3, <1>4 DEF ClearProgram, IInv, IndexSound, Code

\* Entering tick_exec keeps the invariant.
LEMMA TickExecInv == ASSUME IInv, TickExec PROVE IInv'
<1>1. m \in MachineType /\ Settled(m) /\ ~m.halted
    BY DEF TickExec, IInv, Settled
<1>2. /\ m' \in MachineType /\ m'.halted = m.halted /\ m'.reg = m.reg
      /\ m'.stack_ptr = m.stack_ptr /\ m'.program_ptr = m.program_ptr
      /\ m'.tick_speed = m.tick_speed /\ m'.brightness = m.brightness
      /\ m'.fg = m.fg /\ m'.bg = m.bg
    BY <1>1 DEF TickExec, MachineType
<1>3. tick_start' \in Clock /\ now' \in Clock
    BY DEF TickExec
<1>4. TypeOK'
    BY <1>2, <1>3 DEF TickExec, IInv, TypeOK, Pointer, Clock
<1>5. Settled(m)'
    BY <1>1, <1>2 DEF TickExec, Settled, Mirrored, Pointer
<1> QED BY <1>1, <1>2, <1>3, <1>4, <1>5 DEF TickExec, IInv, IndexSound, Code

\* A trap keeps the invariant.
LEMMA TrapInv == ASSUME IInv, Trap PROVE IInv'
<1>1. phase = "tick" /\ Settled(m)
    BY DEF Trap, Executing, IInv
<1>2. TypeOK'
    BY ClockAssumption DEF Trap, LeaveTick, IInv, TypeOK, Pointer, Clock
<1>3. Settled(m)'
    BY <1>1 DEF Trap, Settled, Mirrored, Pointer
<1> QED BY <1>2, <1>3 DEF Trap, LeaveTick, IInv, IndexSound, Code

\* Starting over keeps the invariant.
LEMMA RebootInv == ASSUME IInv, Reboot PROVE IInv'
<1>1. m' \in MachineType
    BY FreshType, InputAssumption DEF Reboot
<1>2. Len(body) \in Nat
    BY ProgramAssumption DEF IInv, TypeOK
<1>3. DOMAIN call_index' = {} /\ call_index' = [s \in DOMAIN call_index' |-> call_index'[s]]
    BY DEF Reboot
<1>4. TypeOK'
    BY <1>1, <1>2, <1>3 DEF Reboot, IInv, TypeOK, Pointer, Clock
<1> QED BY <1>3, <1>4 DEF Reboot, IInv, IndexSound

\* A step that changes nothing keeps the invariant.
LEMMA StutterInv == ASSUME IInv, UNCHANGED vars PROVE IInv'
<1>1. TypeOK'
    BY DEF vars, IInv, TypeOK, Pointer, Clock
<1>2. phase' \in {"idle", "tick", "trapped"} => Settled(m)'
    BY DEF vars, IInv, Settled, Mirrored, Pointer
<1> QED BY <1>1, <1>2 DEF vars, IInv, IndexSound, Code

-----------------------------------------------------------------------------
(* The invariant, and what follows from it *)

\* The invariant is inductive: every action of Next keeps it.
LEMMA NextInv == ASSUME IInv, [Next]_vars PROVE IInv'
<1>1. CASE Begin \/ ScanStep \/ FinishBegin
    BY <1>1, BeginInv, ScanInv, FinishInv
<1>2. CASE ClearProgram \/ TickExec \/ Reboot
    BY <1>2, ClearProgramInv, TickExecInv, RebootInv
<1>3. CASE StepExec
    BY <1>3, ControlInv, ArithmeticInv, SettingInv, StackInv, HaltInv, ModeInv, TrapInv
       DEF StepExec
<1>4. CASE UNCHANGED vars
    BY <1>4, StutterInv
<1> QED BY <1>1, <1>2, <1>3, <1>4 DEF Next

\* The invariant holds in every reachable state.
LEMMA Invariance == Spec => []IInv
BY InitInv, NextInv, PTL DEF Spec

\* Every field of the machine keeps its type, whatever the program.
THEOREM VMTypeCorrect == Spec => []TypeOK
<1>1. IInv => TypeOK
    BY DEF IInv
<1> QED BY Invariance, <1>1, PTL

\* No program makes step() read past its second terminator: tick_exec never
\* leaves the array replace_program was given.
THEOREM VMNoOverread == Spec => []NoOverread
<1>1. IInv => NoOverread
    BY DEF IInv, Settled, NoOverread, Live, Pointer
<1> QED BY Invariance, <1>1, PTL

\* No program moves a running machine's stack pointer or segment off the stack.
THEOREM VMStackBounds == Spec => []StackBounds
<1>1. IInv => StackBounds
    BY DEF IInv, Settled, StackBounds, Live
<1> QED BY Invariance, <1>1, PTL

\* The panel's brightness and colours and the timer's speed are always those of
\* the registers.
THEOREM VMSettingsMirrored == Spec => []SettingsMirrored
<1>1. IInv => SettingsMirrored
    BY DEF IInv, Settled, SettingsMirrored
<1> QED BY Invariance, <1>1, PTL

\* A sub number always leads to the OP_SUB that carries it.
THEOREM VMIndexSound == Spec => []IndexSound
<1>1. IInv => IndexSound
    BY DEF IInv
<1> QED BY Invariance, <1>1, PTL

-----------------------------------------------------------------------------
(* The cursor *)

\* What an operation may do to the cursor of n and to its two registers: leave
\* all three alone, or leave them equal.
CursorKept(n, q) ==
    \/ q.cursor = <<q.reg[REG.CURSOR_X], q.reg[REG.CURSOR_Y]>>
    \/ /\ q.cursor = n.cursor
       /\ q.reg[REG.CURSOR_X] = n.reg[REG.CURSOR_X]
       /\ q.reg[REG.CURSOR_Y] = n.reg[REG.CURSOR_Y]

\* Two operations in a row.
LEMMA CursorChain ==
    ASSUME NEW n, NEW q, NEW r, CursorKept(n, q), CursorKept(q, r)
    PROVE  CursorKept(n, r)
BY DEF CursorKept

\* halt() moves no cursor.
LEMMA HaltCursor == ASSUME NEW n \in MachineType PROVE CursorKept(n, Halt(n))
BY DEF Halt, CursorKept, MachineType

\* Nor do the stack's operations: REG_MARK is the only register they count in.
LEMMA StackCursor ==
    ASSUME NEW n \in MachineType
    PROVE  /\ CursorKept(n, Pop(n))
           /\ \A v : CursorKept(n, Push(n, v))
           /\ \A k : CursorKept(n, PopMany(n, k))
           /\ \A v, k : CursorKept(n, PushMany(n, v, k))
<1>1. n.reg \in [0 .. HEAP_SIZE - 1 -> Word]
    BY DEF MachineType
<1>2. \A w : LET r == [n.reg EXCEPT ![REG.MARK] = w]
             IN  r[REG.CURSOR_X] = n.reg[REG.CURSOR_X] /\ r[REG.CURSOR_Y] = n.reg[REG.CURSOR_Y]
    BY <1>1, Registers, RegisterNumbers
<1>3. CursorKept(n, Pop(n))
    BY <1>2, HaltCursor DEF Pop, CursorKept, MachineType
<1>4. \A v : CursorKept(n, Push(n, v))
    BY <1>2, HaltCursor DEF Push, CursorKept, MachineType
<1>5. \A k : CursorKept(n, PopMany(n, k))
    BY <1>2 DEF PopMany, CursorKept, MachineType
<1>6. ASSUME NEW v, NEW k PROVE CursorKept(n, PushMany(n, v, k))
  <2> DEFINE room == STACK_SIZE - n.stack_ptr
             done == IF k <= 0 THEN 0 ELSE IF k <= room THEN k ELSE room
             s == [i \in DOMAIN n.stack |-> IF i >= n.stack_ptr /\ i < n.stack_ptr + done
                                            THEN v ELSE n.stack[i]]
             g == [n.reg EXCEPT ![REG.MARK] = Wrap(n.reg[REG.MARK] + done)]
             q == [n EXCEPT !.stack = s, !.stack_ptr = n.stack_ptr + done, !.reg = g,
                            !.halted = n.halted \/ k > done]
  <2>1. PushMany(n, v, k) = q
      BY DEF PushMany, MachineType
  <2> HIDE DEF s, done
  <2>2. g[REG.CURSOR_X] = n.reg[REG.CURSOR_X] /\ g[REG.CURSOR_Y] = n.reg[REG.CURSOR_Y]
      BY <1>2
  <2> HIDE DEF g
  <2>3. q.cursor = n.cursor /\ q.reg = g
      BY DEF MachineType
  <2> QED BY <2>1, <2>2, <2>3 DEF CursorKept
<1> QED BY <1>3, <1>4, <1>5, <1>6

\* Nor do jumping, reading, writing the stack and ticking.
LEMMA MoveCursor ==
    ASSUME NEW n \in MachineType
    PROVE  /\ \A p : CursorKept(n, Jump(n, p))
           /\ \A p : CursorKept(n, AfterRead(n, p))
           /\ \A p, v : CursorKept(n, StackWrite(n, p, v))
           /\ \A r : CursorKept(n, AfterGet(n, r))
           /\ CursorKept(n, NextTick(n))
           /\ CursorKept(n, Stepped(n))
<1>1. \A p : CursorKept(n, Jump(n, p))
    BY HaltCursor DEF Jump, CursorKept, MachineType
<1>2. /\ \A p : CursorKept(n, AfterRead(n, p))
      /\ \A r : CursorKept(n, AfterGet(n, r))
    BY HaltCursor DEF AfterRead, AfterGet, CursorKept, MachineType
<1>3. \A p, v : CursorKept(n, StackWrite(n, p, v))
    BY HaltCursor DEF StackWrite, CursorKept, MachineType
<1>4. CursorKept(n, NextTick(n)) /\ CursorKept(n, Stepped(n))
    BY DEF NextTick, Stepped, CursorKept, MachineType
<1> QED BY <1>1, <1>2, <1>3, <1>4

\* set_register moves the panel's cursor when it moves a register of it.
LEMMA SetRegisterCursor ==
    ASSUME NEW n \in MachineType, NEW r \in Int, NEW v
    PROVE  CursorKept(n, SetRegister(n, r, v))
<1>1. CASE ~IsRegister(r)
    BY <1>1, HaltCursor DEF SetRegister
<1>2. CASE IsRegister(r)
  <2> DEFINE g == [n.reg EXCEPT ![r] = v]
             s == [n EXCEPT !.reg[r] = v]
             q == SetRegister(n, r, v)
  <2>1. n.reg \in [0 .. HEAP_SIZE - 1 -> Word] /\ r \in 0 .. HEAP_SIZE - 1
      BY <1>2, HeapAssumption DEF IsRegister, MachineType
  <2>2. g[r] = v /\ \A x \in 0 .. HEAP_SIZE - 1 : x # r => g[x] = n.reg[x]
      BY <2>1
  <2>3. s.reg = g /\ s.cursor = n.cursor /\ s = [n EXCEPT !.reg = g]
      BY DEF MachineType
  <2> HIDE DEF g
  <2> HIDE DEF s
  <2>4. CASE r = REG.CURSOR_X
    <3>1. q = [s EXCEPT !.cursor = <<v, n.reg[REG.CURSOR_Y]>>]
        BY <1>2, <2>4, RegisterNumbers DEF SetRegister, s
    <3>2. q.cursor = <<v, n.reg[REG.CURSOR_Y]>> /\ q.reg = g
        BY <2>3, <3>1 DEF MachineType
    <3> HIDE DEF q
    <3> QED BY <2>2, <2>4, <3>2, Registers, RegisterNumbers DEF CursorKept, q
  <2>5. CASE r = REG.CURSOR_Y
    <3>1. q = [s EXCEPT !.cursor = <<n.reg[REG.CURSOR_X], v>>]
        BY <1>2, <2>5, RegisterNumbers DEF SetRegister, s
    <3>2. q.cursor = <<n.reg[REG.CURSOR_X], v>> /\ q.reg = g
        BY <2>3, <3>1 DEF MachineType
    <3> HIDE DEF q
    <3> QED BY <2>2, <2>5, <3>2, Registers, RegisterNumbers DEF CursorKept, q
  <2>6. CASE r \notin {REG.CURSOR_X, REG.CURSOR_Y}
    <3> DEFINE outcomes == {s, Halt(s), [s EXCEPT !.tick_speed = Hertz(v)],
                            [s EXCEPT !.brightness = Capped(v)], [s EXCEPT !.fg = Color(v)],
                            [s EXCEPT !.bg = Color(v)]}
    <3>1. \A e \in outcomes : e.reg = g /\ e.cursor = n.cursor
        BY <2>3 DEF Halt, MachineType
    <3>2. q \in outcomes
        BY <1>2, <2>6 DEF SetRegister, s
    <3>3. q.reg = g /\ q.cursor = n.cursor
        BY <3>1, <3>2
    <3> HIDE DEF q
    <3> QED BY <2>2, <2>6, <3>3, Registers DEF CursorKept, q
  <2> QED BY <2>4, <2>5, <2>6
<1> QED BY <1>1, <1>2

\* set_cursor leaves the panel's cursor and the registers equal.
LEMMA SetCursorCursor ==
    ASSUME NEW n, Good(n), NEW x \in Word, NEW y \in Word
    PROVE  CursorKept(n, SetCursor(n, x, y))
<1> DEFINE c == [n EXCEPT !.cursor = <<x, y>>]
           s == SetRegister(c, REG.CURSOR_X, x)
           q == SetRegister(s, REG.CURSOR_Y, y)
<1>1. c \in MachineType /\ c.reg = n.reg
    BY DEF Good, MachineType
<1> HIDE DEF c
<1>2. IsRegister(REG.CURSOR_X) /\ IsRegister(REG.CURSOR_Y)
    BY HeapAssumption, RegisterNumbers DEF IsRegister
<1>3. /\ s.reg = [c.reg EXCEPT ![REG.CURSOR_X] = x]
      /\ s.cursor = <<x, c.reg[REG.CURSOR_Y]>>
      /\ s \in MachineType
  <2> DEFINE g == [c.reg EXCEPT ![REG.CURSOR_X] = x]
             t == [c EXCEPT !.reg = g]
  <2>1. s = [t EXCEPT !.cursor = <<x, c.reg[REG.CURSOR_Y]>>]
      BY <1>1, <1>2, RegisterNumbers DEF SetRegister, MachineType
  <2>2. g \in [0 .. HEAP_SIZE - 1 -> Word] /\ c.reg[REG.CURSOR_Y] \in Word
      BY <1>1, Registers DEF MachineType
  <2> HIDE DEF g
  <2>3. t \in MachineType /\ t.reg = g
      BY <1>1, <2>2 DEF MachineType
  <2> HIDE DEF t, s
  <2>4. s \in MachineType /\ s.reg = g /\ s.cursor = <<x, c.reg[REG.CURSOR_Y]>>
      BY <2>1, <2>2, <2>3 DEF MachineType
  <2> QED BY <2>4 DEF g
<1> HIDE DEF s
<1>4. /\ q.reg = [s.reg EXCEPT ![REG.CURSOR_Y] = y]
      /\ q.cursor = <<s.reg[REG.CURSOR_X], y>>
  <2> DEFINE g == [s.reg EXCEPT ![REG.CURSOR_Y] = y]
             t == [s EXCEPT !.reg = g]
  <2>1. q = [t EXCEPT !.cursor = <<s.reg[REG.CURSOR_X], y>>]
      BY <1>2, <1>3, RegisterNumbers DEF SetRegister, MachineType
  <2> HIDE DEF g
  <2> QED BY <1>3, <2>1 DEF MachineType, g
<1> HIDE DEF q
<1>5. q.reg[REG.CURSOR_X] = x /\ q.reg[REG.CURSOR_Y] = y /\ s.reg[REG.CURSOR_X] = x
  <2>1. c.reg \in [0 .. HEAP_SIZE - 1 -> Word] /\ s.reg \in [0 .. HEAP_SIZE - 1 -> Word]
      BY <1>1, <1>3 DEF MachineType
  <2>2. REG.CURSOR_X # REG.CURSOR_Y
      BY RegisterNumbers
  <2>3. s.reg[REG.CURSOR_X] = x
      BY <1>3, <2>1, Registers
  <2> QED BY <1>4, <2>1, <2>2, <2>3, Registers
<1>6. SetCursor(n, x, y) = q
    BY DEF SetCursor, c, s, q
<1> QED BY <1>4, <1>5, <1>6 DEF CursorKept

\* jump_sub moves no cursor.
LEMMA JumpSubCursor ==
    ASSUME TypeOK, NEW n, Good(n), NEW p \in Int
    PROVE  CursorKept(n, JumpSub(n, p))
<1> DEFINE first == Push(n, n.program_ptr)
           saved == Push(first, n.reg[REG.STACK_SEGMENT])
           moved == SetRegister(saved, REG.STACK_SEGMENT, saved.stack_ptr)
<1>1. n.program_ptr \in Word /\ n.reg[REG.STACK_SEGMENT] \in Word
    BY SavedWords
<1>2. Good(first) /\ Good(saved)
    BY <1>1, PushGood
<1>3. CursorKept(n, first) /\ CursorKept(first, saved)
    BY <1>2, StackCursor DEF Good
<1> HIDE DEF first, saved
<1>4. saved.stack_ptr \in Word /\ REG.STACK_SEGMENT \in Int
    BY <1>2, Fields, RegisterNumbers, StackAssumption, WordAssumption DEF Word
<1>5. Good(moved) /\ CursorKept(saved, moved)
    BY <1>2, <1>4, SetRegisterGood, SetRegisterCursor DEF Good
<1> HIDE DEF moved
<1>6. CursorKept(moved, Jump(moved, p))
    BY <1>5, MoveCursor DEF Good
<1>7. JumpSub(n, p) = Jump(moved, p)
    BY DEF JumpSub, first, saved, moved
<1> QED BY <1>3, <1>5, <1>6, <1>7, CursorChain

\* return_sub moves no cursor.
LEMMA ReturnCursor ==
    ASSUME NEW n, Good(n), ~n.halted
    PROVE  CursorKept(n, ReturnSub(n))
<1> DEFINE base == n.reg[REG.STACK_SEGMENT]
           address == Signed(StackRead(n, base - 2))
           one == AfterRead(n, base - 2)
           read == AfterRead(one, base - 1)
           low == [read EXCEPT !.stack_ptr = base - 2]
           back == Jump(low, address)
           seg == StackRead(n, base - 1)
<1>1. base \in Nat /\ base - 1 \in Int /\ base - 2 \in -2 .. STACK_SIZE
    BY SegmentInside
<1> HIDE DEF base
<1>2. address \in Int
    BY <1>1, ReadGood, SignedType
<1> HIDE DEF address, seg
<1>3. one \in MachineType /\ read \in MachineType
    BY <1>1, ReadGood DEF Good
<1>4. CursorKept(n, one) /\ CursorKept(one, read)
    BY <1>3, MoveCursor DEF Good
<1> HIDE DEF one, read
<1>5. low \in MachineType /\ CursorKept(read, low)
    BY <1>1, <1>3 DEF MachineType, CursorKept
<1> HIDE DEF low
<1>6. back \in MachineType
  <2>1. CASE address > max_ptr \/ address < 0
      BY <1>5, <2>1 DEF Jump, Halt, MachineType
  <2>2. CASE ~(address > max_ptr \/ address < 0)
    <3>1. address \in Nat
        BY <1>2, <2>2
    <3> QED BY <1>5, <2>2, <3>1 DEF Jump, MachineType
  <2> QED BY <2>1, <2>2
<1>7. CursorKept(low, back)
    BY <1>5, MoveCursor
<1> HIDE DEF back
<1>8. CursorKept(back, SetRegister(back, REG.STACK_SEGMENT, seg))
    BY <1>6, RegisterNumbers, SetRegisterCursor
<1>9. ReturnSub(n) = SetRegister(back, REG.STACK_SEGMENT, seg)
    BY DEF ReturnSub, base, address, one, read, low, back, seg
<1> QED BY <1>4, <1>5, <1>7, <1>8, <1>9, CursorChain

\* Nor does fetching an instruction and taking its operands.
LEMMA OperandsCursor ==
    ASSUME IInv, phase = "tick", Fetched(m) # OP.HALT
    PROVE  /\ CursorKept(m, Op0) /\ CursorKept(m, Stepped(Op0))
           /\ CursorKept(m, Op1) /\ CursorKept(m, Op2)
<1>1. m \in MachineType /\ Op0 \in MachineType /\ Op1 \in MachineType
    BY Ticking, Operands DEF Good
<1>2. CursorKept(m, Op0) /\ CursorKept(Op0, Stepped(Op0))
    BY <1>1, MoveCursor DEF Op0
<1>3. CursorKept(Op0, Op1) /\ CursorKept(Op1, Op2)
    BY <1>1, StackCursor DEF Op1, Op2
<1> QED BY <1>2, <1>3, CursorChain

\* The instructions that run, jump and call.
LEMMA ControlCursor ==
    ASSUME IInv, OpSub \/ OpReturn \/ OpGoto \/ OpGosub \/ OpTick \/ OpCmp \/ OpCmpSub \/ OpNothing
    PROVE  CursorKept(m, m')
<1>1. phase = "tick" /\ Fetched(m) # OP.HALT
    BY NotHalt DEF OpSub, OpReturn, OpGoto, OpGosub, OpTick, OpCmp, OpCmpSub, OpNothing, Executing
<1>2. /\ Good(Op0) /\ ~Op0.halted /\ Good(Op1) /\ Good(Op2)
      /\ Op0 \in MachineType /\ Op1 \in MachineType /\ Op2 \in MachineType
    BY <1>1, Operands DEF Good
<1>3. TypeOK /\ GetSub(A) \in Int
    BY GetSubType DEF IInv
<1>4. /\ CursorKept(m, Op0) /\ CursorKept(m, Stepped(Op0))
      /\ CursorKept(m, Op1) /\ CursorKept(m, Op2)
    BY <1>1, OperandsCursor
<1>5. CASE OpSub
    BY <1>4, <1>5 DEF OpSub, Turn
<1>6. CASE OpReturn
    BY <1>2, <1>4, <1>6, ReturnCursor, CursorChain DEF OpReturn, Turn
<1>7. CASE OpGoto
    BY <1>2, <1>4, <1>7, MoveCursor, CursorChain DEF OpGoto, Turn
<1>8. CASE OpGosub
    BY <1>2, <1>3, <1>4, <1>8, JumpSubCursor, CursorChain DEF OpGosub, Turn
<1>9. CASE OpTick
    BY <1>2, <1>4, <1>9, MoveCursor, CursorChain DEF OpTick, Turn
<1>10. CASE OpCmp
  <2>1. CursorKept(m, Jump(Op2, GetSub(A)))
      BY <1>2, <1>4, MoveCursor, CursorChain
  <2> QED BY <1>4, <1>10, <2>1 DEF OpCmp, Turn
<1>11. CASE OpCmpSub
  <2>1. CursorKept(m, JumpSub(Op2, GetSub(A)))
      BY <1>2, <1>3, <1>4, JumpSubCursor, CursorChain
  <2> QED BY <1>4, <1>11, <2>1 DEF OpCmpSub, Turn
<1>12. CASE OpNothing
    BY <1>4, <1>12 DEF OpNothing, Turn
<1> QED BY <1>5, <1>6, <1>7, <1>8, <1>9, <1>10, <1>11, <1>12

\* The instructions that compute.
LEMMA ArithmeticCursor ==
    ASSUME IInv, OpBinary \/ OpUnary \/ OpRand \/ OpWidth \/ OpHeight
    PROVE  CursorKept(m, m')
<1>1. phase = "tick" /\ Fetched(m) # OP.HALT
    BY NotHalt DEF OpBinary, OpUnary, OpRand, OpWidth, OpHeight, Executing
<1>2. Op0 \in MachineType /\ Op1 \in MachineType /\ Op2 \in MachineType
    BY <1>1, Operands DEF Good
<1>3. \A v : /\ CursorKept(m, Push(Op0, v))
             /\ CursorKept(m, Push(Op1, v))
             /\ CursorKept(m, Push(Op2, v))
    BY <1>1, <1>2, OperandsCursor, StackCursor, CursorChain
<1> QED BY <1>3 DEF OpBinary, OpUnary, OpRand, OpWidth, OpHeight, Turn

\* The instructions on registers, the panel's settings and its cursor.
LEMMA SettingCursor ==
    ASSUME IInv, OpSet \/ OpGet \/ OpSetting \/ OpMark \/ OpPutChar \/ OpSetCursor
    PROVE  CursorKept(m, m')
<1>1. phase = "tick" /\ Fetched(m) # OP.HALT
    BY NotHalt DEF OpSet, OpGet, OpSetting, OpMark, OpPutChar, OpSetCursor, Executing
<1>2. /\ Good(Op1) /\ A \in Word /\ Signed(A) \in Int /\ Good(Op2) /\ B \in Word
      /\ Op0 \in MachineType /\ Op1 \in MachineType /\ Op2 \in MachineType
    BY <1>1, Operands DEF Good
<1>3. CursorKept(m, Op0) /\ CursorKept(m, Op1) /\ CursorKept(m, Op2)
    BY <1>1, OperandsCursor
<1>4. CASE OpSet
    BY <1>2, <1>3, <1>4, SetRegisterCursor, CursorChain DEF OpSet, Turn
<1>5. CASE OpGet
  <2> DEFINE got == AfterGet(Op1, Signed(A))
  <2>1. CursorKept(m, got) /\ got \in MachineType
      BY <1>2, <1>3, MoveCursor, CursorChain, GetGood DEF Good
  <2> HIDE DEF got
  <2>2. \A v : CursorKept(m, Push(got, v))
      BY <2>1, StackCursor, CursorChain
  <2> QED BY <1>5, <2>2 DEF OpGet, Turn, got
<1>6. CASE OpSetting
  <2>1. Fetched(m) \in DOMAIN Setting
      BY <1>6 DEF OpSetting, Executing
  <2>2. Setting[Fetched(m)] \in Int
      BY <2>1, SettingNumbers
  <2>3. CursorKept(m, SetRegister(Op1, Setting[Fetched(m)], A))
      BY <1>2, <1>3, <2>2, SetRegisterCursor, CursorChain
  <2> QED BY <1>6, <2>3 DEF OpSetting, Turn
<1>7. CASE OpMark
  <2>1. CursorKept(m, SetRegister(Op0, REG.MARK, 0))
      BY <1>2, <1>3, RegisterNumbers, SetRegisterCursor, CursorChain
  <2> QED BY <1>7, <2>1 DEF OpMark, Turn
<1>8. CASE OpPutChar
  <2>1. \A c \in CursorPoints : CursorKept(m, SetCursor(Op1, c[1], c[2]))
    <3>1. TAKE c \in CursorPoints
    <3>2. c[1] \in Word /\ c[2] \in Word
        BY CursorAssumption
    <3> QED BY <1>2, <1>3, <3>2, SetCursorCursor, CursorChain
  <2> QED BY <1>8, <2>1 DEF OpPutChar, Turn
<1>9. CASE OpSetCursor
    BY <1>2, <1>3, <1>9, SetCursorCursor, CursorChain DEF OpSetCursor, Turn
<1> QED BY <1>4, <1>5, <1>6, <1>7, <1>8, <1>9

\* The instructions on the stack, and those that paint.
LEMMA StackStepCursor ==
    ASSUME IInv, \/ OpPaint1 \/ OpPaint2 \/ OpPaintH \/ OpPush \/ OpPop \/ OpDup \/ OpSwap
                 \/ OpRead \/ OpReadArg \/ OpWrite \/ OpAlloc
    PROVE  CursorKept(m, m')
<1>1. phase = "tick" /\ Fetched(m) # OP.HALT
    BY NotHalt DEF OpPaint1, OpPaint2, OpPaintH, OpPush, OpPop, OpDup, OpSwap, OpRead, OpReadArg,
                   OpWrite, OpAlloc, Executing
<1>2. /\ Good(Op1) /\ A \in Word /\ Good(Op2) /\ B \in Word
      /\ Op0 \in MachineType /\ Op1 \in MachineType /\ Op2 \in MachineType
      /\ Stepped(Op0) \in MachineType
    BY <1>1, Operands DEF Good
<1>3. /\ CursorKept(m, Op0) /\ CursorKept(m, Stepped(Op0))
      /\ CursorKept(m, Op1) /\ CursorKept(m, Op2)
    BY <1>1, OperandsCursor
<1>4. CASE OpPaint1 \/ OpPaint2 \/ OpPop
    BY <1>3, <1>4 DEF OpPaint1, OpPaint2, OpPop, Turn
<1>5. CASE OpPaintH
    BY <1>2, <1>3, <1>5, StackCursor, CursorChain DEF OpPaintH, Turn
<1>6. CASE OpPush
    BY <1>2, <1>3, <1>6, StackCursor, CursorChain DEF OpPush, Turn
<1>7. CASE OpDup
  <2>1. CursorKept(m, Push(Op1, A)) /\ Push(Op1, A) \in MachineType
      BY <1>2, <1>3, PushGood, StackCursor, CursorChain DEF Good
  <2> QED BY <1>7, <2>1, StackCursor, CursorChain DEF OpDup, Turn
<1>8. CASE OpSwap
  <2>1. CursorKept(m, Push(Op2, A)) /\ Push(Op2, A) \in MachineType
      BY <1>2, <1>3, PushGood, StackCursor, CursorChain DEF Good
  <2> QED BY <1>8, <2>1, StackCursor, CursorChain DEF OpSwap, Turn
<1>9. ASSUME NEW p \in Int PROVE \A v : CursorKept(m, Push(AfterRead(Op1, p), v))
  <2>1. CursorKept(m, AfterRead(Op1, p)) /\ AfterRead(Op1, p) \in MachineType
      BY <1>2, <1>3, ReadGood, MoveCursor, CursorChain DEF Good
  <2> QED BY <2>1, StackCursor, CursorChain
<1>10. CASE OpRead \/ OpReadArg
    BY <1>1, <1>9, <1>10, Addresses DEF OpRead, OpReadArg, Turn
<1>11. CASE OpWrite
    BY <1>2, <1>3, <1>11, MoveCursor, CursorChain DEF OpWrite, Turn
<1>12. CASE OpAlloc
    BY <1>2, <1>3, <1>12, StackCursor, CursorChain DEF OpAlloc, Turn
<1> QED BY <1>4, <1>5, <1>6, <1>7, <1>8, <1>10, <1>11, <1>12

\* Halting, and the frames of a tick mode.
LEMMA ModeCursor ==
    ASSUME IInv, OpHalt \/ OpInvalid \/ ModeBrightness \/ ModeMask \/ ModeMaskBits \/ ModeOver \/ ModeInvalid
    PROVE  CursorKept(m, m')
<1>1. phase = "tick"
    BY DEF OpHalt, OpInvalid, Executing, ModeBrightness, ModeMask, ModeMaskBits, ModeOver,
           ModeInvalid, InMode
<1>2. /\ m \in MachineType /\ Good(m) /\ Good(Pop(m)) /\ Pop(m) \in MachineType
      /\ Popped(m) \in Word /\ H \in Nat
    BY <1>1, Ticking, PopGood, PanelAssumption, WordAssumption DEF Good, Word
<1>3. CursorKept(m, Pop(m)) /\ CursorKept(m, PopMany(m, H))
    BY <1>2, StackCursor
<1>4. CASE OpHalt \/ OpInvalid
  <2>1. Op0 \in MachineType /\ CursorKept(m, Op0)
    <3>1. CursorKept(m, Op0)
        BY <1>2, MoveCursor DEF Op0
    <3>2. m.program_ptr + 1 \in Nat
        BY <1>2 DEF MachineType
    <3>3. [m EXCEPT !.program_ptr = m.program_ptr + 1] \in MachineType
        BY <1>2, <3>2 DEF MachineType
    <3> QED BY <1>2, <3>1, <3>3 DEF Op0, Stepped
  <2>2. CursorKept(m, Halt(Op0))
      BY <2>1, HaltCursor, CursorChain
  <2> QED BY <1>4, <2>2 DEF OpHalt, OpInvalid, Turn
<1>5. CASE ModeBrightness
  <2> DEFINE q == SetRegister(Pop(m), REG.BRIGHTNESS, Popped(m))
  <2>1. q \in MachineType
      BY <1>2, RegisterNumbers, SetRegisterGood DEF Good
  <2>2. CursorKept(m, q)
      BY <1>2, <1>3, RegisterNumbers, SetRegisterCursor, CursorChain
  <2> HIDE DEF q
  <2>3. CursorKept(m, NextTick(q))
      BY <2>1, <2>2, MoveCursor, CursorChain
  <2> QED BY <1>5, <2>3 DEF ModeBrightness, Turn, q
<1>6. CASE ModeMask
    BY <1>2, <1>3, <1>6, MoveCursor, CursorChain DEF ModeMask, Turn
<1>7. CASE ModeMaskBits
  <2>1. PopMany(m, H) \in MachineType
      BY <1>2, PopManyGood DEF Good
  <2> QED BY <1>3, <1>7, <2>1, MoveCursor, CursorChain DEF ModeMaskBits, Turn
<1>8. CASE ModeOver
    BY <1>2, <1>8, RegisterNumbers, SetRegisterCursor DEF ModeOver, Turn
<1>9. CASE ModeInvalid
    BY <1>2, <1>9, HaltCursor DEF ModeInvalid, Turn
<1> QED BY <1>4, <1>5, <1>6, <1>7, <1>8, <1>9

\* begin() resets neither the cursor nor its registers.
LEMMA FinishCursor == ASSUME IInv, FinishBegin PROVE CursorKept(m, m')
<1>1. TypeOK /\ scan \in Pointer
    BY DEF IInv, TypeOK
<1> QED BY <1>1, BegunMachine DEF FinishBegin, CursorKept

\* Nothing outside tick_exec moves the cursor, but for a board that starts over.
LEMMA OutsideCursor ==
    ASSUME IInv, Begin \/ ScanStep \/ FinishBegin \/ ClearProgram \/ TickExec \/ Trap \/ UNCHANGED vars
    PROVE  CursorKept(m, m')
<1>1. m \in MachineType
    BY DEF IInv, TypeOK
<1>2. CASE Begin
    BY <1>1, <1>2 DEF Begin, CursorKept, MachineType
<1>3. CASE ScanStep \/ Trap \/ UNCHANGED vars
    BY <1>3 DEF ScanStep, Trap, vars, CursorKept
<1>4. CASE FinishBegin
    BY <1>4, FinishCursor
<1>5. CASE ClearProgram
    BY <1>1, <1>5, HaltCursor DEF ClearProgram
<1>6. CASE TickExec
    BY <1>1, <1>6 DEF TickExec, CursorKept, MachineType
<1> QED BY <1>2, <1>3, <1>4, <1>5, <1>6

\* Whatever moves the cursor leaves the panel's and the registers' equal; only a
\* board that starts over is exempt.
THEOREM VMCursorMirrored == Spec => CursorMirrored
<1>1. IInv /\ [Next]_vars => CursorKept(m, m') \/ phase' = "new"
  <2> SUFFICES ASSUME IInv, [Next]_vars PROVE CursorKept(m, m') \/ phase' = "new"
      OBVIOUS
  <2>1. CASE Begin \/ ScanStep \/ FinishBegin \/ ClearProgram \/ TickExec \/ UNCHANGED vars
      BY <2>1, OutsideCursor
  <2>2. CASE Reboot
      BY <2>2 DEF Reboot
  <2>3. CASE StepExec
      BY <2>3, ControlCursor, ArithmeticCursor, SettingCursor, StackStepCursor, ModeCursor,
         OutsideCursor DEF StepExec
  <2> QED BY <2>1, <2>2, <2>3 DEF Next
<1>2. IInv /\ [Next]_vars =>
        [ \/ phase' = "new"
          \/ m'.cursor = <<m'.reg[REG.CURSOR_X], m'.reg[REG.CURSOR_Y]>>
          \/ /\ m'.cursor = m.cursor
             /\ m'.reg[REG.CURSOR_X] = m.reg[REG.CURSOR_X]
             /\ m'.reg[REG.CURSOR_Y] = m.reg[REG.CURSOR_Y] ]_vars
    BY <1>1 DEF CursorKept
<1> QED BY Invariance, <1>2, PTL DEF Spec, CursorMirrored

-----------------------------------------------------------------------------
(* The tick modes *)

\* A frame that takes words has taken them, or halts the machine.
LEMMA FrameTaken ==
    ASSUME NEW n, Good(n), NEW v \in Word
    PROVE  /\ LET q == NextTick(SetRegister(Pop(n), REG.BRIGHTNESS, v))
              IN ~q.halted => q.stack_ptr < n.stack_ptr
           /\ ~NextTick(Pop(n)).halted => NextTick(Pop(n)).stack_ptr < n.stack_ptr
           /\ ~NextTick(PopMany(n, H)).halted => NextTick(PopMany(n, H)).stack_ptr < n.stack_ptr
<1>1. /\ n \in MachineType /\ n.stack_ptr \in Int /\ n.stack_ptr >= 0 /\ H \in Nat /\ H > 0
    BY PanelAssumption, WordAssumption, StackAssumption DEF Good, MachineType, Word
<1>2. \A q \in MachineType : /\ NextTick(q).halted = q.halted
                              /\ NextTick(q).stack_ptr = q.stack_ptr
    BY DEF NextTick, MachineType
<1>3. Pop(n) \in MachineType /\ Good(Pop(n))
    BY PopGood DEF Good
<1>4. ~Pop(n).halted => Pop(n).stack_ptr < n.stack_ptr
    BY <1>1 DEF Pop, Halt, MachineType
<1>5. LET q == SetRegister(Pop(n), REG.BRIGHTNESS, v)
      IN  /\ q \in MachineType
          /\ q.halted = Pop(n).halted /\ q.stack_ptr = Pop(n).stack_ptr
  <2> DEFINE p == Pop(n)
             g == [p.reg EXCEPT ![REG.BRIGHTNESS] = v]
  <2>1. p \in MachineType /\ IsRegister(REG.BRIGHTNESS)
      BY <1>3, HeapAssumption DEF IsRegister, REG
  <2>2. SetRegister(p, REG.BRIGHTNESS, v) = [[p EXCEPT !.reg = g] EXCEPT !.brightness = Capped(v)]
    <3> HIDE DEF p
    <3> QED BY <2>1, RegisterNumbers DEF SetRegister, MachineType
  <2>3. SetRegister(p, REG.BRIGHTNESS, v) \in MachineType
    <3>1. Good(SetRegister(p, REG.BRIGHTNESS, v))
        BY <1>3, RegisterNumbers, SetRegisterGood
    <3> QED BY <3>1 DEF Good
  <2> HIDE DEF p, g
  <2>4. /\ SetRegister(p, REG.BRIGHTNESS, v).halted = p.halted
        /\ SetRegister(p, REG.BRIGHTNESS, v).stack_ptr = p.stack_ptr
      BY <2>1, <2>2 DEF MachineType
  <2> QED BY <2>3, <2>4 DEF p
<1>6. /\ PopMany(n, H) \in MachineType
      /\ ~PopMany(n, H).halted => PopMany(n, H).stack_ptr < n.stack_ptr
  <2> DEFINE done == IF H <= n.stack_ptr THEN H ELSE IF n.stack_ptr > 0 THEN n.stack_ptr ELSE 0
             g == [n.reg EXCEPT ![REG.MARK] = Wrap(n.reg[REG.MARK] - done)]
             q == [n EXCEPT !.stack_ptr = n.stack_ptr - done, !.reg = g,
                            !.halted = n.halted \/ H > done]
  <2>1. PopMany(n, H) \in MachineType
      BY <1>1, PopManyGood DEF Good
  <2>2. PopMany(n, H) = q
      BY <1>1 DEF PopMany, MachineType
  <2>3. ~(H > done) => n.stack_ptr - done < n.stack_ptr
      BY <1>1
  <2> HIDE DEF done, g
  <2>4. q.stack_ptr = n.stack_ptr - done /\ q.halted = (n.halted \/ H > done)
      BY <1>1 DEF MachineType
  <2> HIDE DEF q
  <2> QED BY <2>1, <2>2, <2>3, <2>4
<1> QED BY <1>2, <1>3, <1>4, <1>5, <1>6

\* The stack pointer of the next state is a number too.
LEMMA NextMachineType == ASSUME IInv, Next PROVE m'.stack_ptr \in Int
<1>1. IInv'
    BY NextInv
<1> QED BY <1>1, StackAssumption DEF IInv, TypeOK, MachineType

\* One step, of a machine in a tick mode.
LEMMA ModeStep ==
    ASSUME IInv, Next, InTickMode, InTickMode'
    PROVE  /\ m'.stack_ptr <= m.stack_ptr
           /\ phase = "tick" => m'.stack_ptr < m.stack_ptr
<1>1. m \in MachineType /\ m.stack_ptr \in Int
    BY StackAssumption DEF IInv, TypeOK, MachineType
<1>2. CASE phase = "idle"
  <2>1. Begin \/ ClearProgram \/ TickExec
      BY <1>2 DEF Next, ScanStep, FinishBegin, Reboot, StepExec, Trap, Executing, InMode,
           OpSub, OpReturn, OpGoto, OpGosub, OpTick, OpCmp, OpCmpSub, OpHalt, OpNothing,
           OpBinary, OpUnary, OpRand, OpWidth, OpHeight, OpSet, OpGet, OpSetting, OpMark,
           OpPaint1, OpPaint2, OpPaintH, OpPush, OpPop, OpDup, OpSwap, OpRead, OpReadArg,
           OpWrite, OpAlloc, OpPutChar, OpSetCursor, OpInvalid,
           ModeBrightness, ModeMask, ModeMaskBits, ModeOver, ModeInvalid
  <2>2. ~Begin
      BY <1>2 DEF Begin, InTickMode
  <2>3. CASE ClearProgram
      BY <1>1, <2>3 DEF ClearProgram, Halt, InTickMode, MachineType
  <2>4. CASE TickExec
      BY <1>1, <1>2, <2>4 DEF TickExec, MachineType
  <2> QED BY <2>1, <2>2, <2>3, <2>4
<1>3. CASE phase = "tick"
  <2>1. ModeBrightness \/ ModeMask \/ ModeMaskBits \/ ModeOver \/ ModeInvalid
      BY <1>3 DEF Next, Begin, ScanStep, FinishBegin, ClearProgram, TickExec, Reboot, StepExec,
           InTickMode, Trap, Executing,
           OpSub, OpReturn, OpGoto, OpGosub, OpTick, OpCmp, OpCmpSub, OpHalt, OpNothing,
           OpBinary, OpUnary, OpRand, OpWidth, OpHeight, OpSet, OpGet, OpSetting, OpMark,
           OpPaint1, OpPaint2, OpPaintH, OpPush, OpPop, OpDup, OpSwap, OpRead, OpReadArg,
           OpWrite, OpAlloc, OpPutChar, OpSetCursor, OpInvalid
  <2>2. Good(m) /\ Popped(m) \in Word
      BY <1>3, Ticking, PopGood
  <2>3. ~m'.halted /\ m'.reg[REG.TICK_MODE] # MODE.NONE
      BY DEF InTickMode
  <2>4. CASE ModeBrightness
      BY <1>1, <2>2, <2>3, <2>4, FrameTaken, NextMachineType DEF ModeBrightness, Turn
  <2>5. CASE ModeMask
      BY <1>1, <2>2, <2>3, <2>5, FrameTaken, NextMachineType DEF ModeMask, Turn
  <2>6. CASE ModeMaskBits
      BY <1>1, <2>2, <2>3, <2>6, FrameTaken, NextMachineType DEF ModeMaskBits, Turn
  <2>7. ~ModeOver
    <3>1. SetRegister(m, REG.TICK_MODE, MODE.NONE).reg[REG.TICK_MODE] = MODE.NONE
        BY <1>1, HeapAssumption DEF SetRegister, IsRegister, REG, MachineType
    <3> QED BY <2>3, <3>1 DEF ModeOver, Turn
  <2>8. ~ModeInvalid
      BY <1>1, <2>3 DEF ModeInvalid, Turn, Halt, MachineType
  <2> QED BY <2>1, <2>4, <2>5, <2>6, <2>7, <2>8
<1> QED BY <1>2, <1>3 DEF InTickMode

\* A tick mode takes more off the stack with each frame, for every program, panel and
\* stack, so it ends within as many frames as the stack had words.
THEOREM VMModeConsumes == Spec => ModeConsumes
<1>1. IInv /\ [Next]_vars =>
          [ InTickMode /\ InTickMode' =>
                /\ m'.stack_ptr <= m.stack_ptr
                /\ phase = "tick" => m'.stack_ptr < m.stack_ptr ]_vars
    BY ModeStep
<1> QED BY <1>1, Invariance, PTL DEF Spec, ModeConsumes

-----------------------------------------------------------------------------
(* What a return takes from the stack *)

\* set_register on the segment: what it changes when it does not halt.
LEMMA SetSegment ==
    ASSUME NEW n \in MachineType, NEW v \in Word
    PROVE  LET q == SetRegister(n, REG.STACK_SEGMENT, v)
           IN  /\ q.stack = n.stack /\ q.stack_ptr = n.stack_ptr
               /\ q.program_ptr = n.program_ptr /\ q.reg[REG.STACK_SEGMENT] = v
               /\ ~q.halted => ~n.halted /\ v < STACK_SIZE
               /\ q \in MachineType
<1> DEFINE g == [n.reg EXCEPT ![REG.STACK_SEGMENT] = v]
           s == [n EXCEPT !.reg = g]
           q == SetRegister(n, REG.STACK_SEGMENT, v)
<1>1. g \in [0 .. HEAP_SIZE - 1 -> Word] /\ g[REG.STACK_SEGMENT] = v
    BY Registers DEF MachineType
<1>2. q = IF v >= STACK_SIZE THEN Halt(s) ELSE s
    BY RegisterNumbers, HeapAssumption DEF SetRegister, IsRegister, MachineType
<1> HIDE DEF g
<1>3. /\ s.stack = n.stack /\ s.stack_ptr = n.stack_ptr /\ s.program_ptr = n.program_ptr
      /\ s.reg = g /\ s.halted = n.halted /\ s \in MachineType
    BY <1>1 DEF MachineType
<1> HIDE DEF s
<1>4. /\ Halt(s).stack = s.stack /\ Halt(s).stack_ptr = s.stack_ptr
      /\ Halt(s).program_ptr = s.program_ptr /\ Halt(s).reg = s.reg /\ Halt(s).halted
      /\ Halt(s) \in MachineType
    BY <1>3 DEF Halt, MachineType
<1>5. v \in Int /\ STACK_SIZE \in Int
    BY StackAssumption, WordAssumption DEF Word
<1>6. CASE v >= STACK_SIZE
    BY <1>1, <1>2, <1>3, <1>4, <1>6
<1>7. CASE v < STACK_SIZE
  <2>1. q = s
      BY <1>2, <1>5, <1>7
  <2> HIDE DEF q
  <2> QED BY <1>1, <1>3, <1>7, <2>1 DEF q
<1> QED BY <1>5, <1>6, <1>7

\* jump() only moves the program pointer.
LEMMA JumpFields ==
    ASSUME NEW n \in MachineType, NEW p \in Int
    PROVE  LET q == Jump(n, p)
           IN  /\ q.stack = n.stack /\ q.stack_ptr = n.stack_ptr /\ q.reg = n.reg
               /\ ~q.halted => ~n.halted /\ p >= 0 /\ q.program_ptr = p
               /\ q \in MachineType
<1>1. CASE p > max_ptr \/ p < 0
    BY <1>1 DEF Jump, Halt, MachineType
<1>2. CASE ~(p > max_ptr \/ p < 0)
  <2>1. p \in Nat
      BY <1>2
  <2> QED BY <1>2, <2>1 DEF Jump, MachineType
<1> QED BY <1>1, <1>2

\* return_sub that does not halt goes where the two words below the segment say.
LEMMA ReturnFrame ==
    ASSUME NEW n, Good(n), ~n.halted, ~ReturnSub(n).halted
    PROVE  LET q == ReturnSub(n)
               base == n.reg[REG.STACK_SEGMENT]
           IN  /\ base \in 2 .. STACK_SIZE - 1
               /\ q.program_ptr = n.stack[base - 2]
               /\ q.reg[REG.STACK_SEGMENT] = n.stack[base - 1]
               /\ q.stack_ptr = base - 2
               /\ q.stack = n.stack
<1> DEFINE base == n.reg[REG.STACK_SEGMENT]
           address == Signed(StackRead(n, base - 2))
           one == AfterRead(n, base - 2)
           read == AfterRead(one, base - 1)
           low == [read EXCEPT !.stack_ptr = base - 2]
           back == Jump(low, address)
           seg == StackRead(n, base - 1)
           q == SetRegister(back, REG.STACK_SEGMENT, seg)
<1>1. /\ base \in 0 .. STACK_SIZE - 1
      /\ base \in Nat /\ base - 1 \in Int /\ base - 2 \in -2 .. STACK_SIZE
    BY SegmentInside
<1> HIDE DEF base
<1>2. address \in Int /\ seg \in Word /\ StackRead(n, base - 2) \in Word
    BY <1>1, ReadGood, SignedType
<1>3. one \in MachineType /\ read \in MachineType /\ n \in MachineType
    BY <1>1, ReadGood DEF Good
<1>4. ReturnSub(n) = q
    BY DEF ReturnSub, base
<1> HIDE DEF address, seg
<1>5. /\ low \in MachineType /\ low.stack_ptr = base - 2 /\ low.stack = read.stack
      /\ low.halted = read.halted /\ low.reg = read.reg
  <2> HIDE DEF read
  <2> QED BY <1>1, <1>3 DEF MachineType
<1> HIDE DEF low
<1>6. /\ back.stack = low.stack /\ back.stack_ptr = low.stack_ptr
      /\ ~back.halted => ~low.halted /\ address >= 0 /\ back.program_ptr = address
      /\ back \in MachineType
    BY <1>2, <1>5, JumpFields
<1> HIDE DEF back
<1>7. /\ q.stack = back.stack /\ q.stack_ptr = back.stack_ptr /\ q.program_ptr = back.program_ptr
      /\ q.reg[REG.STACK_SEGMENT] = seg /\ ~back.halted
    BY <1>2, <1>4, <1>6, SetSegment
<1> HIDE DEF q
<1>8. ~read.halted
    BY <1>5, <1>6, <1>7
<1>9. InStack(base - 1) /\ read = one
    BY <1>3, <1>8 DEF AfterRead, Halt, MachineType
<1>10. InStack(base - 2) /\ one = n
    BY <1>3, <1>8, <1>9 DEF AfterRead, Halt, MachineType
<1>11. base \in 2 .. STACK_SIZE - 1
    BY <1>1, <1>10 DEF InStack
<1>12. StackRead(n, base - 2) = n.stack[base - 2] /\ seg = n.stack[base - 1]
    BY <1>9, <1>10 DEF StackRead, seg
<1>13. address = StackRead(n, base - 2)
    BY <1>2, <1>6, <1>7, WordAssumption DEF address, Signed, Word
<1> QED BY <1>4, <1>5, <1>6, <1>7, <1>9, <1>10, <1>11, <1>12, <1>13 DEF base

\* return_sub sets no register but the segment.
LEMMA ReturnMode ==
    ASSUME NEW n, Good(n), ~n.halted, ~ReturnSub(n).halted
    PROVE  ReturnSub(n).reg[REG.TICK_MODE] = n.reg[REG.TICK_MODE]
<1> DEFINE base == n.reg[REG.STACK_SEGMENT]
           address == Signed(StackRead(n, base - 2))
           one == AfterRead(n, base - 2)
           read == AfterRead(one, base - 1)
           low == [read EXCEPT !.stack_ptr = base - 2]
           back == Jump(low, address)
           seg == StackRead(n, base - 1)
           g == [back.reg EXCEPT ![REG.STACK_SEGMENT] = seg]
           s == [back EXCEPT !.reg = g]
<1>1. base \in Nat /\ base - 1 \in Int /\ base - 2 \in -2 .. STACK_SIZE
    BY SegmentInside
<1> HIDE DEF base
<1>2. address \in Int /\ seg \in Word
    BY <1>1, ReadGood, SignedType
<1>3. /\ n \in MachineType
      /\ one \in MachineType /\ one.reg = n.reg
      /\ read \in MachineType /\ read.reg = n.reg
    BY <1>1, ReadGood DEF Good, AfterRead, Halt, MachineType
<1> HIDE DEF address, seg, read
<1>4. low \in MachineType /\ low.reg = n.reg
    BY <1>1, <1>3 DEF MachineType
<1> HIDE DEF low
<1>5. back \in MachineType /\ back.reg = n.reg
    BY <1>2, <1>4, JumpFields
<1> HIDE DEF back
<1>6. ReturnSub(n) = IF seg >= STACK_SIZE THEN Halt(s) ELSE s
    BY <1>5, RegisterNumbers, HeapAssumption
       DEF ReturnSub, SetRegister, IsRegister, MachineType, back, low, read, address, seg, base
<1>7. g[REG.TICK_MODE] = n.reg[REG.TICK_MODE]
    BY <1>5, Registers, RegisterNumbers DEF MachineType
<1> HIDE DEF g
<1>8. s.reg = g /\ Halt(s).reg = g
    BY <1>5 DEF Halt, MachineType
<1> HIDE DEF s
<1> QED BY <1>6, <1>7, <1>8

-----------------------------------------------------------------------------
(* The end of a program: OP_RETURN in its main sub *)

\* A halted machine stays halted, whatever is done to it.
LEMMA HaltedStays ==
    ASSUME NEW n \in MachineType, n.halted
    PROVE  /\ Pop(n).halted
           /\ \A v : Push(n, v).halted
           /\ \A v, k : PushMany(n, v, k).halted
           /\ \A p : Jump(n, p).halted
           /\ \A p : AfterRead(n, p).halted
           /\ \A r : AfterGet(n, r).halted
           /\ \A p, v : StackWrite(n, p, v).halted
           /\ \A r, v : SetRegister(n, r, v).halted
<1>1. Halt(n).halted
    BY DEF Halt, MachineType
<1>2. Pop(n).halted
    BY <1>1 DEF Pop, MachineType
<1>3. \A v : Push(n, v).halted
    BY <1>1 DEF Push, MachineType
<1>4. \A v, k : PushMany(n, v, k).halted
    BY DEF PushMany, MachineType
<1>5. /\ \A p : Jump(n, p).halted
      /\ \A p : AfterRead(n, p).halted
      /\ \A r : AfterGet(n, r).halted
    BY <1>1 DEF Jump, AfterRead, AfterGet, MachineType
<1>6. \A p, v : StackWrite(n, p, v).halted
    BY <1>1 DEF StackWrite, MachineType
<1>7. \A r, v : SetRegister(n, r, v).halted
  <2>1. TAKE r, v
  <2> DEFINE s == [n EXCEPT !.reg[r] = v]
             q == SetRegister(n, r, v)
  <2>2. q \in {Halt(n), s, Halt(s), [s EXCEPT !.tick_speed = Hertz(v)],
               [s EXCEPT !.brightness = Capped(v)], [s EXCEPT !.fg = Color(v)],
               [s EXCEPT !.bg = Color(v)],
               [s EXCEPT !.cursor = <<v, n.reg[REG.CURSOR_Y]>>],
               [s EXCEPT !.cursor = <<n.reg[REG.CURSOR_X], v>>]}
      BY DEF SetRegister
  <2> HIDE DEF q
  <2>3. QED
      BY <1>1, <2>2 DEF q, Halt, MachineType
<1> QED BY <1>2, <1>3, <1>4, <1>5, <1>6, <1>7

\* So a program whose stack is empty gets no operand, and no further.
LEMMA OperandMissing ==
    ASSUME IInv, phase = "tick", Fetched(m) # OP.HALT, m.stack_ptr = 0
    PROVE  /\ Op0 \in MachineType /\ Op0.stack_ptr = 0
           /\ Op0.program_ptr = m.program_ptr + 1 /\ Op0.reg = m.reg
           /\ Op1 \in MachineType /\ Op1.halted
           /\ Op2 \in MachineType /\ Op2.halted
<1>1. Good(Op0) /\ Good(Op1) /\ Good(Op2) /\ m \in MachineType /\ ~m.halted
    BY Operands, Ticking DEF Good
<1>2. /\ Op0.stack_ptr = 0 /\ Op0.program_ptr = m.program_ptr + 1 /\ Op0.reg = m.reg
      /\ Op0 \in MachineType /\ Op1 \in MachineType /\ Op2 \in MachineType
    BY <1>1 DEF Op0, Stepped, Good, MachineType
<1>3. Op1.halted
    BY <1>2 DEF Op1, Pop, Halt, MachineType
<1> QED BY <1>2, <1>3, HaltedStays DEF Op2

\* A machine that has halted, or that goes on behind the program's last word.
Done(n) ==
    \/ n.halted
    \/ /\ n.program_ptr >= Len(body)
       /\ n.program_ptr > m.program_ptr
       /\ n.reg[REG.TICK_MODE] = MODE.NONE

\* What each of the instructions below is shown to do.
DoneTurn == Over' \/ (Ending' /\ m'.program_ptr > m.program_ptr)

LEMMA TurnDone ==
    ASSUME NEW n, Turn(n), Done(n)
    PROVE  DoneTurn
<1>1. m' = n /\ body' = body /\ phase' \in {"idle", "tick"}
    BY DEF Turn, LeaveTick
<1>2. CASE n.halted
    BY <1>1, <1>2 DEF DoneTurn, Over
<1>3. CASE ~n.halted
    BY <1>1, <1>3 DEF Done, DoneTurn, Ending
<1> QED BY <1>2, <1>3

\* The machine at its last word, with nothing on the stack.
AtLast ==
    /\ phase = "tick"
    /\ m.program_ptr = Len(body) - 1
    /\ m.stack_ptr = 0
    /\ m.reg[REG.STACK_SEGMENT] = 0
    /\ m.reg[REG.TICK_MODE] = MODE.NONE
    /\ Fetched(m) # OP.HALT

\* Instructions without operands go on behind the last word.
LEMMA LastPassed ==
    ASSUME IInv, AtLast
    PROVE  /\ Done(Op0) /\ Done(NextTick(Op0))
           /\ Done(Stepped(Op0))
           /\ \A v : Done(Push(Op0, v)) /\ Done(Push(Stepped(Op0), v))
           /\ \A v : Done(SetRegister(Op0, REG.MARK, v))
<1>1. /\ Op0 \in MachineType /\ Op0.program_ptr = Len(body)
      /\ Len(body) \in Nat /\ Len(body) > m.program_ptr
      /\ Op0.reg[REG.TICK_MODE] = MODE.NONE
  <2>1. Op0 \in MachineType /\ Op0.program_ptr = m.program_ptr + 1 /\ Op0.reg = m.reg
      BY OperandMissing DEF AtLast
  <2>2. Len(body) \in Nat
      BY ProgramAssumption DEF IInv, TypeOK
  <2> QED BY <2>1, <2>2 DEF AtLast
<1>2. /\ Stepped(Op0) \in MachineType
      /\ Stepped(Op0).program_ptr >= Len(body)
      /\ Stepped(Op0).reg = Op0.reg
    BY <1>1 DEF Stepped, MachineType
<1>3. ASSUME NEW n \in MachineType, n.program_ptr >= Len(body), n.reg[REG.TICK_MODE] = MODE.NONE
      PROVE  Done(n)
  <2>1. n.program_ptr \in Nat /\ m.program_ptr \in Int
      BY <1>1 DEF MachineType, AtLast
  <2> QED BY <1>1, <1>3, <2>1 DEF Done
<1>4. ASSUME NEW n \in MachineType, n.program_ptr >= Len(body), n.reg[REG.TICK_MODE] = MODE.NONE,
             NEW v
      PROVE  Done(Push(n, v))
  <2> DEFINE g == [n.reg EXCEPT ![REG.MARK] = Wrap(n.reg[REG.MARK] + 1)]
             q == [n EXCEPT !.stack[n.stack_ptr] = v, !.stack_ptr = n.stack_ptr + 1, !.reg = g]
  <2>1. Push(n, v) = Halt(n) \/ Push(n, v) = q
      BY DEF Push, MachineType
  <2>2. g[REG.TICK_MODE] = MODE.NONE
      BY <1>4, Registers, RegisterNumbers DEF MachineType
  <2> HIDE DEF g
  <2>3. q.reg = g /\ q.program_ptr = n.program_ptr
      BY DEF MachineType
  <2>4. n.program_ptr > m.program_ptr
    <3>1. n.program_ptr \in Nat /\ m.program_ptr \in Int
        BY <1>1 DEF MachineType, AtLast
    <3> QED BY <1>1, <1>4, <3>1
  <2> HIDE DEF q
  <2>5. Done(q)
      BY <1>4, <2>2, <2>3, <2>4 DEF Done
  <2>6. Done(Halt(n))
      BY DEF Done, Halt, MachineType
  <2> QED BY <2>1, <2>5, <2>6
<1>5. \A v : Done(SetRegister(Op0, REG.MARK, v))
  <2>1. TAKE v
  <2> DEFINE g == [Op0.reg EXCEPT ![REG.MARK] = v]
             q == [Op0 EXCEPT !.reg = g]
  <2>2. SetRegister(Op0, REG.MARK, v) = q
      BY <1>1, HeapAssumption DEF SetRegister, IsRegister, REG, MachineType
  <2>3. g[REG.TICK_MODE] = MODE.NONE
      BY <1>1, Registers, RegisterNumbers DEF MachineType
  <2> HIDE DEF g
  <2>4. q.reg = g /\ q.program_ptr = Len(body)
      BY <1>1 DEF MachineType
  <2> HIDE DEF q
  <2> QED BY <1>1, <2>2, <2>3, <2>4 DEF Done
<1>6. /\ NextTick(Op0) \in MachineType /\ NextTick(Op0).program_ptr = Op0.program_ptr
      /\ NextTick(Op0).reg = Op0.reg
    BY <1>1 DEF NextTick, MachineType
<1>7. Done(Op0) /\ Done(NextTick(Op0)) /\ Done(Stepped(Op0))
    BY <1>1, <1>2, <1>3, <1>6
<1>8. \A v : Done(Push(Op0, v)) /\ Done(Push(Stepped(Op0), v))
    BY <1>1, <1>2, <1>4
<1> QED BY <1>5, <1>7, <1>8

\* The instructions that run, jump, call and return, at the last word.
LEMMA ControlLast ==
    ASSUME IInv, AtLast,
           OpSub \/ OpReturn \/ OpGoto \/ OpGosub \/ OpTick \/ OpCmp \/ OpCmpSub \/ OpNothing
    PROVE  DoneTurn
<1>1. /\ Op0 \in MachineType /\ Op0.reg = m.reg
      /\ Op1 \in MachineType /\ Op1.halted
      /\ Op2 \in MachineType /\ Op2.halted
    BY OperandMissing DEF AtLast
<1>2. ASSUME NEW n, n.halted PROVE Done(n)
    BY <1>2 DEF Done
<1>3. Done(Op0) /\ Done(Stepped(Op0)) /\ Done(NextTick(Op0))
    BY LastPassed
<1>4. CASE OpSub
    BY <1>3, <1>4, TurnDone DEF OpSub
<1>5. CASE OpTick \/ OpNothing
    BY <1>3, <1>5, TurnDone DEF OpTick, OpNothing
<1>6. CASE OpGoto
    BY <1>1, <1>2, <1>6, HaltedStays, TurnDone DEF OpGoto
<1>7. CASE OpCmp
  <2>1. Jump(Op2, GetSub(A)).halted
      BY <1>1, HaltedStays
  <2>2. Done(IF B # 0 THEN Jump(Op2, GetSub(A)) ELSE Op2)
      BY <1>1, <1>2, <2>1
  <2> QED BY <1>7, <2>2, TurnDone DEF OpCmp
<1>8. ASSUME NEW n \in MachineType, n.halted, Good(n), NEW p \in Int PROVE JumpSub(n, p).halted
  <2>1. TypeOK
      BY DEF IInv
  <2>2. Good(n) /\ n.halted
      BY <1>8
  <2> DEFINE first == Push(n, n.program_ptr)
             saved == Push(first, n.reg[REG.STACK_SEGMENT])
             moved == SetRegister(saved, REG.STACK_SEGMENT, saved.stack_ptr)
  <2>3. Good(first) /\ Good(saved)
      BY <2>1, <2>2, SavedWords, PushGood
  <2>4. first \in MachineType /\ first.halted
      BY <2>2, <2>3, HaltedStays DEF Good
  <2>5. saved \in MachineType /\ saved.halted
    <3> HIDE DEF first
    <3> QED BY <2>3, <2>4, HaltedStays DEF Good
  <2>6. moved \in MachineType /\ moved.halted
    <3> HIDE DEF saved
    <3>1. saved.stack_ptr \in Word
        BY <2>3, Fields, StackAssumption, WordAssumption DEF Word
    <3> QED BY <2>5, <3>1, SetSegment, HaltedStays
  <2>7. JumpSub(n, p) = Jump(moved, p)
      BY DEF JumpSub
  <2> HIDE DEF moved
  <2> QED BY <2>6, <2>7, HaltedStays
<1>9. Good(Op1) /\ Good(Op2) /\ GetSub(A) \in Int /\ phase = "tick" /\ Fetched(m) # OP.HALT
    BY Operands, GetSubType DEF AtLast, IInv
<1>10. CASE OpGosub
    BY <1>1, <1>2, <1>8, <1>9, <1>10, TurnDone DEF OpGosub
<1>11. CASE OpCmpSub
  <2>1. JumpSub(Op2, GetSub(A)).halted
      BY <1>1, <1>8, <1>9
  <2>2. Done(IF B # 0 THEN JumpSub(Op2, GetSub(A)) ELSE Op2)
      BY <1>1, <1>2, <2>1
  <2> QED BY <1>11, <2>2, TurnDone DEF OpCmpSub
<1>12. CASE OpReturn
  <2>1. Good(Op0) /\ ~Op0.halted /\ Op0.reg[REG.STACK_SEGMENT] = 0
      BY <1>1, <1>9, Operands DEF AtLast
  <2>2. ReturnSub(Op0).halted
    <3>1. SUFFICES ASSUME ~ReturnSub(Op0).halted PROVE FALSE
        OBVIOUS
    <3>2. Op0.reg[REG.STACK_SEGMENT] \in 2 .. STACK_SIZE - 1
        BY <2>1, <3>1, ReturnFrame
    <3> QED BY <2>1, <3>2, StackAssumption
  <2> QED BY <1>2, <1>12, <2>2, TurnDone DEF OpReturn
<1> QED BY <1>4, <1>5, <1>6, <1>7, <1>10, <1>11, <1>12

\* Those that compute and set registers.
LEMMA ValuesLast ==
    ASSUME IInv, AtLast,
           OpBinary \/ OpUnary \/ OpRand \/ OpWidth \/ OpHeight \/ OpSet \/ OpGet \/ OpSetting \/ OpMark
    PROVE  DoneTurn
<1>1. Op1 \in MachineType /\ Op1.halted /\ Op2 \in MachineType /\ Op2.halted
    BY OperandMissing DEF AtLast
<1>2. ASSUME NEW n, n.halted PROVE Done(n)
    BY <1>2 DEF Done
<1>3. CASE OpBinary \/ OpUnary
  <2>1. /\ \A r : Done(Push(Op2, r))
        /\ \A r : Done(Push(Op1, r))
      BY <1>1, <1>2, HaltedStays
  <2> QED BY <1>3, <2>1, TurnDone DEF OpBinary, OpUnary
<1>4. CASE OpRand \/ OpWidth \/ OpHeight
    BY <1>4, LastPassed, TurnDone DEF OpRand, OpWidth, OpHeight
<1>5. CASE OpSet
    BY <1>1, <1>2, <1>5, HaltedStays, TurnDone DEF OpSet
<1>6. CASE OpGet
  <2>1. Good(Op1) /\ Signed(A) \in Int
      BY Operands DEF AtLast
  <2>2. AfterGet(Op1, Signed(A)) \in MachineType /\ AfterGet(Op1, Signed(A)).halted
      BY <1>1, <2>1, GetGood, HaltedStays DEF Good
  <2>3. Push(AfterGet(Op1, Signed(A)), Register(Op1, Signed(A))).halted
      BY <2>2, HaltedStays
  <2> QED BY <1>2, <1>6, <2>3, TurnDone DEF OpGet
<1>7. CASE OpSetting
    BY <1>1, <1>2, <1>7, HaltedStays, TurnDone DEF OpSetting
<1>8. CASE OpMark
    BY <1>8, LastPassed, TurnDone DEF OpMark
<1> QED BY <1>3, <1>4, <1>5, <1>6, <1>7, <1>8

\* Those that paint, and those that work on the stack.
LEMMA StackLast ==
    ASSUME IInv, AtLast,
           OpPaint1 \/ OpPaint2 \/ OpPaintH \/ OpPush \/ OpPop \/ OpDup \/ OpSwap \/ OpRead
           \/ OpReadArg \/ OpWrite \/ OpAlloc \/ OpPutChar \/ OpSetCursor
    PROVE  DoneTurn
<1>1. /\ Op0 \in MachineType /\ Op0.stack_ptr = 0
      /\ Op1 \in MachineType /\ Op1.halted /\ Op2 \in MachineType /\ Op2.halted
    BY OperandMissing DEF AtLast
<1>2. ASSUME NEW n, n.halted PROVE Done(n)
    BY <1>2 DEF Done
<1>3. /\ phase = "tick" /\ Fetched(m) # OP.HALT
      /\ Good(Op1) /\ Good(Op2) /\ A \in Word /\ B \in Word
    BY Operands DEF AtLast
<1>4. CASE OpPaint1 \/ OpPaint2 \/ OpPop
    BY <1>1, <1>2, <1>4, TurnDone DEF OpPaint1, OpPaint2, OpPop
<1>5. CASE OpPaintH
  <2>1. H \in Nat /\ H > 0
      BY PanelAssumption, WordAssumption DEF Word
  <2>2. PopMany(Op0, H).halted
      BY <1>1, <2>1 DEF PopMany, MachineType
  <2> QED BY <1>2, <1>5, <2>2, TurnDone DEF OpPaintH
<1>6. CASE OpPush
    BY <1>6, LastPassed, TurnDone DEF OpPush
<1>7. ASSUME NEW n, Good(n), n.halted, NEW v \in Word, NEW w
      PROVE  Push(Push(n, v), w).halted
  <2>1. Push(n, v) \in MachineType /\ Push(n, v).halted
      BY <1>7, PushGood, HaltedStays DEF Good
  <2> QED BY <2>1, HaltedStays
<1>8. CASE OpDup \/ OpSwap
    BY <1>1, <1>2, <1>3, <1>7, <1>8, TurnDone DEF OpDup, OpSwap
<1>9. ASSUME NEW p \in Int, NEW v PROVE Push(AfterRead(Op1, p), v).halted
  <2>1. AfterRead(Op1, p) \in MachineType /\ AfterRead(Op1, p).halted
      BY <1>1, <1>3, <1>9, ReadGood, HaltedStays DEF Good
  <2> QED BY <2>1, HaltedStays
<1>10. CASE OpRead \/ OpReadArg
    BY <1>2, <1>3, <1>9, <1>10, Addresses, TurnDone DEF OpRead, OpReadArg
<1>11. CASE OpWrite \/ OpAlloc
    BY <1>1, <1>2, <1>11, HaltedStays, TurnDone DEF OpWrite, OpAlloc
<1>12. ASSUME NEW n, Good(n), n.halted, NEW x \in Word, NEW y \in Word
       PROVE  SetCursor(n, x, y).halted
  <2> DEFINE c == [n EXCEPT !.cursor = <<x, y>>]
             s == SetRegister(c, REG.CURSOR_X, x)
  <2>1. Good(n) /\ n \in MachineType /\ n.stack_ptr >= 0 /\ <<x, y>> \in Word \X Word /\ x \in Word
      BY <1>12 DEF Good
  <2>2. /\ c \in MachineType /\ c.halted
        /\ c.stack_ptr = n.stack_ptr /\ c.program_ptr = n.program_ptr
        /\ c.reg = n.reg /\ c.tick_speed = n.tick_speed
        /\ c.brightness = n.brightness /\ c.fg = n.fg /\ c.bg = n.bg
      BY <1>12, <2>1 DEF MachineType
  <2> HIDE DEF c
  <2>3. s \in MachineType /\ s.halted
    <3>1. Good(c)
        BY <1>12, <2>1, <2>2, SameGood
    <3>2. Good(s)
        BY <2>1, <3>1, RegisterNumbers, SetRegisterGood
    <3> QED BY <2>2, <3>2, HaltedStays DEF Good
  <2> HIDE DEF s
  <2>4. SetRegister(s, REG.CURSOR_Y, y).halted
      BY <2>3, HaltedStays
  <2> QED BY <2>4 DEF SetCursor, s, c
<1>13. CASE OpPutChar
  <2>1. PICK d \in CursorPoints : Turn(SetCursor(Op1, d[1], d[2]))
      BY <1>13 DEF OpPutChar
  <2>2. d[1] \in Word /\ d[2] \in Word
      BY CursorAssumption
  <2> QED BY <1>1, <1>2, <1>3, <1>12, <2>1, <2>2, TurnDone
<1>14. CASE OpSetCursor
    BY <1>1, <1>2, <1>3, <1>12, <1>14, TurnDone DEF OpSetCursor
<1> QED BY <1>4, <1>5, <1>6, <1>8, <1>10, <1>11, <1>13, <1>14

\* One instruction of a machine that is ending.
LEMMA EndingExec ==
    ASSUME IInv, Ending, phase = "tick", StepExec
    PROVE  DoneTurn
<1>1. /\ m \in MachineType /\ ~m.halted /\ Len(body) \in Nat
      /\ m.reg[REG.TICK_MODE] = MODE.NONE
    BY ProgramAssumption DEF IInv, TypeOK, Ending
<1>2. ~(ModeBrightness \/ ModeMask \/ ModeMaskBits \/ ModeOver \/ ModeInvalid)
    BY <1>1 DEF ModeBrightness, ModeMask, ModeMaskBits, ModeOver, ModeInvalid, InMode, MODE
<1>3. ASSUME OpHalt \/ OpInvalid PROVE DoneTurn
  <2>1. Halt(Op0).halted
      BY <1>1 DEF Halt, Op0, Stepped, MachineType
  <2>2. Done(Halt(Op0))
      BY <2>1 DEF Done
  <2> QED BY <1>3, <2>2, TurnDone DEF OpHalt, OpInvalid
<1>4. ASSUME Trap PROVE DoneTurn
    BY <1>4 DEF Trap, LeaveTick, DoneTurn, Over
<1>5. CASE Fetched(m) = OP.HALT
  <2>1. OpHalt
      BY <1>2, <1>5, NotHalt DEF StepExec, Trap, Executing,
           OpSub, OpReturn, OpGoto, OpGosub, OpTick, OpCmp, OpCmpSub, OpNothing,
           OpBinary, OpUnary, OpRand, OpWidth, OpHeight, OpSet, OpGet, OpSetting, OpMark,
           OpPaint1, OpPaint2, OpPaintH, OpPush, OpPop, OpDup, OpSwap, OpRead, OpReadArg,
           OpWrite, OpAlloc, OpPutChar, OpSetCursor, OpInvalid
  <2> QED BY <1>3, <2>1
<1>6. CASE Fetched(m) # OP.HALT
  <2>1. m.program_ptr < Len(body)
    <3>1. m.program_ptr \in Nat
        BY <1>1 DEF MachineType
    <3> QED BY <1>1, <1>6, <3>1 DEF Fetched, Code
  <2>2. AtLast
    <3>1. m.program_ptr \in Nat
        BY <1>1 DEF MachineType
    <3> QED BY <1>1, <1>6, <2>1, <3>1 DEF Ending, AtLast
  <2> QED BY <1>2, <1>3, <1>4, <2>2, ControlLast, ValuesLast, StackLast DEF StepExec
<1> QED BY <1>5, <1>6

\* OP_RETURN in main lands at the last word or behind it, with an empty stack.
LEMMA MainReturned ==
    ASSUME IInv, ReturnsFromMain, max_ptr >= Len(body), Next
    PROVE  (Over \/ Ending)'
<1>1. phase = "tick" /\ Fetched(m) = OP.RETURN /\ m.reg[REG.TICK_MODE] = MODE.NONE
    BY DEF ReturnsFromMain, Executing
<1>2. OpReturn
  <2>1. OP.RETURN # OP.HALT /\ OP.RETURN \in KnownOps
      BY DEF OP, KnownOps
  <2>2. OP.RETURN \notin {OP.SUB, OP.GOTO, OP.GOSUB, OP.TICK, OP.CMP, OP.CMPSUB, OP.NOOP, OP.HALT,
                       OP.FILL, OP.RAND, OP.WIDTH, OP.HEIGHT, OP.SET, OP.GET, OP.MARK, OP.PIXEL,
                       OP.FILL_ROWS, OP.FILL_COLUMNS, OP.MASK_ROWS, OP.MASK_COLUMNS,
                       OP.FILL_BITS, OP.MASK_BITS, OP.PUSH, OP.POP, OP.DUP, OP.SWAP, OP.READ,
                       OP.READARG, OP.WRITE, OP.ALLOC, OP.PUTCHAR, OP.SET_CURSOR}
        /\ OP.RETURN \notin Binary /\ OP.RETURN \notin Unary /\ OP.RETURN \notin Divide
      BY DEF OP, Binary, Unary, Divide
  <2>3. OP.RETURN \notin DOMAIN Setting
      BY DEF OP, Setting
  <2>4. StepExec
      BY <1>1 DEF Next, Begin, ScanStep, FinishBegin, ClearProgram, TickExec, Reboot
  <2>5. ~(ModeBrightness \/ ModeMask \/ ModeMaskBits \/ ModeOver \/ ModeInvalid)
      BY <1>1 DEF ModeBrightness, ModeMask, ModeMaskBits, ModeOver, ModeInvalid, InMode, MODE
  <2> QED BY <1>1, <2>1, <2>2, <2>3, <2>4, <2>5 DEF StepExec, Trap, Executing,
           OpSub, OpGoto, OpGosub, OpTick, OpCmp, OpCmpSub, OpHalt, OpNothing,
           OpBinary, OpUnary, OpRand, OpWidth, OpHeight, OpSet, OpGet, OpSetting, OpMark,
           OpPaint1, OpPaint2, OpPaintH, OpPush, OpPop, OpDup, OpSwap, OpRead, OpReadArg,
           OpWrite, OpAlloc, OpPutChar, OpSetCursor, OpInvalid
<1>3. /\ Good(Op0) /\ ~Op0.halted /\ Op0.reg = m.reg /\ Op0.stack = m.stack
      /\ Op0.program_ptr = m.program_ptr + 1
  <2>1. OP.RETURN # OP.HALT
      BY DEF OP
  <2>2. Good(Op0) /\ ~Op0.halted /\ Op0.reg = m.reg
      BY <1>1, <2>1, Operands
  <2>3. m \in MachineType
      BY DEF IInv, TypeOK
  <2> QED BY <2>2, <2>3 DEF Op0, Stepped, MachineType
<1> DEFINE q == ReturnSub(Op0)
<1>4. m' = q /\ body' = body /\ phase' \in {"idle", "tick"}
    BY <1>2 DEF OpReturn, Turn, LeaveTick
<1>5. CASE q.halted
    BY <1>4, <1>5 DEF Over
<1>6. CASE ~q.halted
  <2>1. /\ q.program_ptr = Wrap(max_ptr - 1)
        /\ q.reg[REG.STACK_SEGMENT] = 0
        /\ q.stack_ptr = 0
      BY <1>3, <1>6, ReturnFrame DEF ReturnsFromMain
  <2>2. max_ptr \in Nat /\ Len(body) \in Nat /\ Len(body) > 0 /\ max_ptr < WordMod
    <3>1. max_ptr \in Pointer /\ Len(body) \in Nat /\ Len(body) + 2 < WordMod
        BY ProgramAssumption DEF IInv, TypeOK
    <3>2. m.program_ptr \in Nat /\ m.program_ptr < Len(body)
      <4>1. m \in MachineType
          BY DEF IInv, TypeOK
      <4>2. OP.RETURN # OP.HALT
          BY DEF OP
      <4>3. m.program_ptr \in Nat
          BY <4>1 DEF MachineType
      <4> QED BY <1>1, <3>1, <4>2, <4>3 DEF Fetched, Code
    <3> QED BY <3>1, <3>2, WordAssumption DEF Pointer
  <2>3. q.program_ptr = max_ptr - 1
    <3>1. (max_ptr - 1) % WordMod = max_ptr - 1
        BY <2>2, WordAssumption
    <3> QED BY <2>1, <3>1 DEF Wrap
  <2>4. q.reg[REG.TICK_MODE] = MODE.NONE
      BY <1>1, <1>3, <1>6, ReturnMode
  <2>5. q.program_ptr >= Len(body) \/ q.program_ptr = Len(body) - 1
      BY <2>2, <2>3
  <2> HIDE DEF q
  <2> QED BY <1>4, <1>6, <2>1, <2>4, <2>5 DEF Ending
<1> QED BY <1>5, <1>6

\* Nothing but an instruction takes a machine that is ending anywhere else.
LEMMA EndingStep ==
    ASSUME IInv, Ending, Next
    PROVE  /\ (Over \/ Ending)'
           /\ phase = "tick" => Over' \/ m'.program_ptr > m.program_ptr
<1>1. m \in MachineType
    BY DEF IInv, TypeOK
<1>2. CASE StepExec
  <2>1. phase = "tick"
      BY <1>2 DEF StepExec, Trap, Executing, InMode,
           OpSub, OpReturn, OpGoto, OpGosub, OpTick, OpCmp, OpCmpSub, OpHalt, OpNothing,
           OpBinary, OpUnary, OpRand, OpWidth, OpHeight, OpSet, OpGet, OpSetting, OpMark,
           OpPaint1, OpPaint2, OpPaintH, OpPush, OpPop, OpDup, OpSwap, OpRead, OpReadArg,
           OpWrite, OpAlloc, OpPutChar, OpSetCursor, OpInvalid,
           ModeBrightness, ModeMask, ModeMaskBits, ModeOver, ModeInvalid
  <2> QED BY <1>2, <2>1, EndingExec DEF DoneTurn
<1>3. CASE ClearProgram
    BY <1>1, <1>3 DEF ClearProgram, Halt, Over, MachineType
<1>4. CASE TickExec
  <2>1. /\ m'.halted = m.halted /\ m'.program_ptr = m.program_ptr /\ m'.reg = m.reg
        /\ m'.stack_ptr = m.stack_ptr
      BY <1>1, <1>4 DEF TickExec, MachineType
  <2>2. body' = body /\ phase' = "tick" /\ phase = "idle"
      BY <1>4 DEF TickExec
  <2> QED BY <2>1, <2>2 DEF Ending
<1>5. ~Begin /\ ~ScanStep /\ ~FinishBegin /\ ~Reboot
    BY DEF Begin, ScanStep, FinishBegin, Reboot, Ending
<1> QED BY <1>2, <1>3, <1>4, <1>5 DEF Next

\* A program that nothing but its terminator ends is over at most three instructions
\* after OP_RETURN in its main sub, whatever its last word is.
THEOREM VMMainReturnEnds == Spec => MainReturnEnds
<1>1. IInv /\ [Next]_vars =>
          [ /\ (ReturnsFromMain /\ max_ptr >= Len(body)) \/ Ending => (Over \/ Ending)'
            /\ phase = "tick" /\ Ending => Over' \/ m'.program_ptr > m.program_ptr ]_vars
    BY MainReturned, EndingStep
<1> QED BY <1>1, Invariance, PTL DEF Spec, MainReturnEnds
=============================================================================
