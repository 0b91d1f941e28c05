--------------------------- MODULE TickArrayProofs ---------------------------
(* The array behind the firmware's ticker lists implements TickerList, for    *)
(* every set of tickers, every starting capacity, every stretch and every     *)
(* length of the list.                                                        *)
EXTENDS TickArray, SequenceTheorems, TLAPS

-----------------------------------------------------------------------------
(* The loops stay inside the array *)

\* The constructor leaves an empty list (Firmware.h:95-96).
LEMMA InitInv == Init => IInv
<1> SUFFICES ASSUME Init PROVE IInv
  OBVIOUS
<1>1. pc = "idle" /\ i = 0 /\ Size = Capacity /\ Count = 0 /\ ticker_capacity = Capacity
  BY DEF Init, Size, Count
<1>2. tickers \in [0 .. Size - 1 -> Slot]
  BY <1>1, CapacityAssumption DEF Init, NewArray, Slot
<1>3. new_tickers \in IF pc = "stretch" THEN [0 .. ticker_capacity - 1 -> Slot] ELSE {<<>>}
  BY <1>1 DEF Init
<1>4. Size \in Nat /\ ticker_count = 0 /\ 0 \in 0 .. Size
  BY <1>1, CapacityAssumption DEF Init
<1>5. arg \in Slot /\ searching \in BOOLEAN
  BY DEF Init, Slot
<1>6. TypeOK
  BY <1>1, <1>2, <1>3, <1>4, <1>5, CapacityAssumption DEF TypeOK
<1>7. LoopInv
  BY <1>1, CapacityAssumption DEF LoopInv
<1>8. QED
  BY <1>6, <1>7 DEF IInv

\* add() on an array with room (Firmware.h:110).
LEMMA AddInv == ASSUME IInv, NEW t \in Tickers, Add(t) PROVE IInv'
  BY UninitAssumption, CapacityAssumption
  DEF IInv, TypeOK, LoopInv, Slot, Size, Count, Add, Store, Full

\* stretch() starts on a larger array with nothing copied yet (Firmware.h:83-85).
LEMMA AddFullInv == ASSUME IInv, NEW t \in Tickers, AddFull(t) PROVE IInv'
  BY UninitAssumption, CapacityAssumption
  DEF IInv, TypeOK, LoopInv, Slot, NewArray, Size, Count, AddFull, Full

\* One turn of the copying loop (Firmware.h:87-88).
LEMMA StretchCopyInv == ASSUME IInv, StretchCopy PROVE IInv'
  BY CapacityAssumption
  DEF IInv, TypeOK, LoopInv, Slot, Size, Count, StretchCopy

\* The copy replaces the array and the new entry goes behind it (Firmware.h:90-91, 110).
LEMMA StretchDoneInv == ASSUME IInv, StretchDone PROVE IInv'
<1>1. /\ pc = "stretch" /\ pc' = "idle"
      /\ i = ticker_count /\ i' = 0
      /\ ticker_capacity' = ticker_capacity
      /\ ticker_count' = ticker_count + 1
      /\ tickers' = [new_tickers EXCEPT ![ticker_count] = arg]
      /\ ticker_capacity \in Nat
      /\ ticker_count \in 0 .. ticker_capacity - By
      /\ new_tickers \in [0 .. ticker_capacity - 1 -> Slot]
      /\ arg \in Tickers
      /\ \A k \in 0 .. ticker_count - 1 : tickers[k] \in Tickers /\ new_tickers[k] = tickers[k]
  BY DEF IInv, TypeOK, LoopInv, Size, Count, StretchDone, Store
<1>2. ticker_count' \in 0 .. ticker_capacity
  BY <1>1, CapacityAssumption
<1>3. tickers' \in [0 .. ticker_capacity - 1 -> Slot]
  BY <1>1, CapacityAssumption DEF Slot
<1>4. \A k \in 0 .. ticker_count : tickers'[k] \in Tickers
  BY <1>1, CapacityAssumption
<1>5. TypeOK'
  BY <1>1, <1>2, <1>3 DEF IInv, TypeOK, Size, Slot, StretchDone
<1>6. LoopInv'
  BY <1>1, <1>2, <1>4 DEF LoopInv, Size, Count
<1>7. QED
  BY <1>5, <1>6 DEF IInv

\* remove() starts at the first entry (Firmware.h:114-115).
LEMMA RemoveInv == ASSUME IInv, NEW t \in Tickers, Remove(t) PROVE IInv'
  BY DEF IInv, TypeOK, LoopInv, Slot, Size, Count, Remove

\* One turn of remove()'s loop: one entry fewer, one turn more (Firmware.h:116-124).
LEMMA RemoveStepInv == ASSUME IInv, RemoveStep PROVE IInv'
  BY DEF IInv, TypeOK, LoopInv, Slot, Size, Count, RemoveStep

\* remove() returns (Firmware.h:115).
LEMMA RemoveDoneInv == ASSUME IInv, RemoveDone PROVE IInv'
<1>1. TypeOK'
  BY DEF IInv, TypeOK, Slot, Size, RemoveDone
<1>2. ticker_count \in Nat /\ i \in Nat /\ Count = ticker_count + i /\ Count <= Size
      /\ Count' = ticker_count /\ Size' = Size /\ Size \in Nat
      /\ pc' = "idle" /\ tickers' = tickers
  BY DEF IInv, TypeOK, LoopInv, Size, Count, RemoveDone
<1>3. \A k \in 0 .. Count - 1 : tickers[k] \in Tickers
  BY DEF IInv, LoopInv
<1>4. LoopInv'
  BY <1>2, <1>3 DEF LoopInv
<1>5. QED
  BY <1>1, <1>4 DEF IInv

\* A pass changes nothing but its own position (Firmware.h:100-104).
LEMMA RunInv ==
    ASSUME IInv, Run \/ (\E t \in Slot : RunPoll(t)) \/ RunDone
    PROVE  IInv'
<1>1. CASE Run
  BY <1>1 DEF IInv, TypeOK, LoopInv, Slot, Size, Count, Run
<1>2. CASE \E t \in Slot : RunPoll(t)
  BY <1>2 DEF IInv, TypeOK, LoopInv, Slot, Size, Count, RunPoll
<1>3. CASE RunDone
  BY <1>3 DEF IInv, TypeOK, LoopInv, Slot, Size, Count, RunDone
<1>4. QED
  BY <1>1, <1>2, <1>3

\* The inductive invariant holds at every step of every call.
THEOREM TickArrayInvariant == Spec => []IInv
<1>1. IInv /\ [Next]_vars => IInv'
  <2> SUFFICES ASSUME IInv, [Next]_vars PROVE IInv'
    OBVIOUS
  <2>1. CASE UNCHANGED vars
    BY <2>1 DEF IInv, TypeOK, LoopInv, Slot, Size, Count, vars
  <2>2. CASE Next
    BY <2>2, AddInv, AddFullInv, StretchCopyInv, StretchDoneInv, RemoveInv,
       RemoveStepInv, RemoveDoneInv, RunInv DEF Next
  <2>3. QED
    BY <2>1, <2>2
<1>2. QED
  BY InitInv, <1>1, PTL DEF Spec

\* ticker_count never exceeds the capacity, in or between calls, so no store of add()
\* falls outside the array (Firmware.h:106-111).
THEOREM TickArrayTypeCorrect == Spec => []TypeOK
<1>1. IInv => TypeOK
  BY DEF IInv
<1>2. QED
  BY <1>1, TickArrayInvariant, PTL

\* No entry a pass polls is a slot nobody wrote, and no loop runs past the array
\* (Firmware.h:83-126).
THEOREM TickArrayLoops == Spec => []LoopInv
<1>1. IInv => LoopInv
  BY DEF IInv
<1>2. QED
  BY <1>1, TickArrayInvariant, PTL

-----------------------------------------------------------------------------
(* The array is the list *)

\* The list read off the array: its length, its entries, and a way to recognise it.
LEMMA LiveLemma ==
    ASSUME IInv
    PROVE  /\ Count \in Nat
           /\ Live \in Seq(Tickers)
           /\ Len(Live) = Count
           /\ DOMAIN Live = 1 .. Count
           /\ \A k \in 1 .. Count : Live[k] = tickers[k - 1]
<1>1. Count \in Nat
  BY DEF IInv, TypeOK, LoopInv, Count
<1>2. \A k \in 1 .. Count : tickers[k - 1] \in Tickers
  BY <1>1 DEF IInv, LoopInv
<1>3. QED
  BY <1>1, <1>2 DEF Live

\* A list is what it was when neither its length nor its entries have changed.
LEMMA SameLive ==
    ASSUME Count' = Count, \A k \in 1 .. Count : tickers'[k - 1] = tickers[k - 1]
    PROVE  Live' = Live
  BY DEF Live

\* One more entry at the end is what Append gives.
LEMMA AppendLive ==
    ASSUME IInv, NEW t \in Tickers,
           Count' = Count + 1,
           \A k \in 1 .. Count : tickers'[k - 1] = tickers[k - 1],
           tickers'[Count] = t
    PROVE  Live' = Append(Live, t)
<1>1. /\ Count \in Nat /\ Live \in Seq(Tickers) /\ Len(Live) = Count
      /\ \A k \in 1 .. Count : Live[k] = tickers[k - 1]
  BY LiveLemma
<1>2. Live' = [k \in 1 .. Count + 1 |-> tickers'[k - 1]]
  BY DEF Live
<1>3. \A k \in 1 .. Count + 1 :
         tickers'[k - 1] = IF k \in 1 .. Count THEN Live[k] ELSE t
  BY <1>1
<1>4. /\ Append(Live, t) \in Seq(Tickers)
      /\ Len(Append(Live, t)) = Count + 1
      /\ \A k \in 1 .. Count : Append(Live, t)[k] = Live[k]
      /\ Append(Live, t)[Count + 1] = t
  BY <1>1, AppendProperties
<1>5. Live' \in Seq(Tickers) /\ Len(Live') = Count + 1
      /\ \A k \in 1 .. Count + 1 : Live'[k] = IF k \in 1 .. Count THEN Live[k] ELSE t
  <2>0. \A k \in 1 .. Count : Live[k] \in Tickers
    BY <1>1
  <2>1. \A k \in 1 .. Count + 1 : tickers'[k - 1] \in Tickers
    BY <2>0, <1>3
  <2> DEFINE n == Count + 1
             f == [k \in 1 .. n |-> tickers'[k - 1]]
  <2>2. n \in Nat /\ Live' = f /\ \A k \in 1 .. n : tickers'[k - 1] \in Tickers
    BY <1>1, <1>2, <2>1
  <2> HIDE DEF n
  <2>3. f \in Seq(Tickers) /\ Len(f) = n /\ \A k \in 1 .. n : f[k] = tickers'[k - 1]
    BY <2>2
  <2> HIDE DEF f
  <2>4. QED
    BY <1>3, <2>2, <2>3 DEF n
<1>6. QED
  BY <1>1, <1>4, <1>5, SeqEqual

\* Every step of a call is a step of the list, or no step of it.
LEMMA StepImplements == IInv /\ IInv' /\ [Next]_vars => [Abs!Next]_<<Live, IF pc = "run" THEN i + 1 ELSE 0>>
<1> SUFFICES ASSUME IInv, IInv', [Next]_vars
             PROVE  [Abs!Next]_<<Live, IF pc = "run" THEN i + 1 ELSE 0>>
  OBVIOUS
<1> DEFINE turn == IF pc = "run" THEN i + 1 ELSE 0
<1>0. Count \in Nat /\ ticker_count \in Nat /\ i \in Nat
  BY LiveLemma DEF IInv, TypeOK
<1>1. CASE UNCHANGED vars
  <2>1. Count' = Count /\ tickers' = tickers
    BY <1>1 DEF vars, Count
  <2>2. Live' = Live
    BY <2>1, SameLive
  <2>3. QED
    BY <1>1, <2>2 DEF vars
<1>2. ASSUME NEW t \in Tickers, Add(t)
      PROVE  Abs!Add(t)
  <2>1. /\ Count' = Count + 1
        /\ \A k \in 1 .. Count : tickers'[k - 1] = tickers[k - 1]
        /\ tickers'[Count] = t
    BY <1>0, <1>2 DEF Add, Store, Full, Count, IInv, TypeOK, Size
  <2>2. QED
    BY <1>2, <2>1, AppendLive DEF Abs!Add, Add
<1>3. ASSUME NEW t \in Tickers, AddFull(t)
      PROVE  UNCHANGED <<Live, turn>>
  BY <1>3, SameLive DEF AddFull, Count
<1>4. CASE StretchCopy
  BY <1>4, SameLive DEF StretchCopy, Count
<1>5. CASE StretchDone
  <2>1. /\ arg \in Tickers /\ Count = ticker_count /\ Count' = Count + 1
        /\ i = ticker_count
        /\ new_tickers \in [0 .. ticker_capacity - 1 -> Slot]
        /\ ticker_count \in 0 .. ticker_capacity - By
        /\ ticker_capacity \in Nat
        /\ \A k \in 0 .. i - 1 : new_tickers[k] = tickers[k]
        /\ tickers' = [new_tickers EXCEPT ![ticker_count] = arg]
    BY <1>5 DEF StretchDone, Store, Count, IInv, TypeOK, LoopInv, Size
  <2>2. \A k \in 1 .. Count : tickers'[k - 1] = tickers[k - 1]
    BY <2>1, <1>0
  <2>3. tickers'[Count] = arg
    BY <2>1, <1>0, CapacityAssumption
  <2>4. Live' = Append(Live, arg)
    BY <2>1, <2>2, <2>3, AppendLive
  <2>5. Abs!Add(arg)
    BY <1>5, <2>4 DEF Abs!Add, StretchDone
  <2>6. QED
    BY <2>1, <2>5 DEF Abs!Next
<1>6. ASSUME NEW t \in Tickers, Remove(t)
      PROVE  UNCHANGED <<Live, turn>>
  BY <1>6, <1>0, SameLive DEF Remove, Count
<1>7. CASE RemoveStep
  BY <1>7, <1>0, SameLive DEF RemoveStep, Count
<1>8. CASE RemoveDone
  <2>1. /\ Count = ticker_count + i /\ Count' = ticker_count
        /\ i \in {ticker_count, ticker_count + 1}
        /\ arg \in Tickers /\ tickers' = tickers
        /\ pc # "run" /\ pc' # "run"
    BY <1>8, <1>0 DEF RemoveDone, Count, IInv, LoopInv
  <2>2. Count \div 2 = ticker_count
    BY <2>1, <1>0
  <2>3. Len(Live) = Count /\ \A k \in 1 .. Count : Live[k] = tickers[k - 1]
    BY LiveLemma
  <2>4. Live' = [k \in 1 .. ticker_count |-> tickers[k - 1]]
    BY <2>1 DEF Live
  <2>5. Abs!FirstHalf(Live) = [k \in 1 .. ticker_count |-> Live[k]]
    BY <2>2, <2>3 DEF Abs!FirstHalf
  <2>6. Live' = Abs!FirstHalf(Live)
    BY <2>1, <2>3, <2>4, <2>5, <1>0
  <2>7. Abs!Remove(arg)
    BY <2>1, <2>6 DEF Abs!Remove
  <2>8. QED
    BY <2>1, <2>7 DEF Abs!Next
<1>9. CASE Run
  <2>1. Live' = Live
    BY <1>9, SameLive DEF Run, Count
  <2>2. QED
    BY <1>9, <2>1 DEF Run, Abs!StartRun, Abs!Next
<1>10. ASSUME NEW t \in Slot, RunPoll(t)
       PROVE  t \in Tickers /\ Abs!Poll(t)
  <2>1. Live' = Live
    BY <1>10, SameLive DEF RunPoll, Count
  <2>2. /\ Count = ticker_count /\ i + 1 \in 1 .. Count
        /\ t = tickers[(i + 1) - 1]
    BY <1>10, <1>0 DEF RunPoll, Count
  <2>3. Len(Live) = Count /\ Live \in Seq(Tickers) /\ t = Live[i + 1]
    BY <2>2, LiveLemma
  <2>4. QED
    BY <1>10, <2>1, <2>2, <2>3 DEF RunPoll, Abs!Poll
<1>11. CASE RunDone
  <2>1. Live' = Live
    BY <1>11, SameLive DEF RunDone, Count
  <2>2. Len(Live) = ticker_count
    BY <1>11, LiveLemma DEF RunDone, Count
  <2>3. i + 1 > ticker_count
    BY <1>11, <1>0 DEF RunDone
  <2>4. QED
    BY <1>11, <2>1, <2>2, <2>3 DEF RunDone, Abs!EndRun, Abs!Next
<1>12. QED
  BY <1>1, <1>2, <1>3, <1>4, <1>5, <1>6, <1>7, <1>8, <1>9, <1>10, <1>11
  DEF Next, Abs!Next

\* The ticker array implements the list of TickerList (Firmware.h:77-127).
THEOREM TickArrayImplements == Spec => Implements
<1>1. Init => Abs!Init
  BY DEF Init, Abs!Init, Live, Count
<1>2. QED
  BY <1>1, StepImplements, TickArrayInvariant, PTL DEF Spec, Implements, Abs!Spec
=============================================================================
