------------------------------- MODULE CallStack -------------------------------
(***************************************************************************)
(* What OP_GOSUB and OP_RETURN promise a program that keeps to its own     *)
(* segment of the stack: calls nest.  A call remembers the instruction     *)
(* after it and the caller's segment, the callee's segment lies above the  *)
(* caller's, and a return goes back to both.  Nothing else moves the       *)
(* segment or touches what is remembered.                                  *)
(*                                                                         *)
(* A program that reaches below its segment is "loose": nothing is         *)
(* promised until the machine begins again.                                *)
(***************************************************************************)
EXTENDS Integers, Sequences

VARIABLES
    mode,   \* "off", "runs" or "loose"
    at,     \* position of the next instruction
    seg,    \* bottom of the running sub's segment
    calls   \* the unfinished calls, the main sub's first

vars == <<mode, at, seg, calls>>

Nothing == at = 0 /\ seg = 0 /\ calls = <<>>

Init == mode = "off" /\ Nothing

\* A program starts in its main sub, whose caller has the segment 0.
Start ==
    /\ mode = "off"
    /\ mode' = "runs"
    /\ at' \in Nat
    /\ seg' \in Nat
    /\ Len(calls') = 1 /\ calls'[1].segment = 0

Move ==
    /\ mode = "runs"
    /\ at' \in Nat
    /\ UNCHANGED <<mode, seg, calls>>

Call ==
    /\ mode = "runs"
    /\ at' \in Nat
    /\ seg' \in Nat /\ seg' > seg
    /\ calls' = Append(calls, [return |-> at + 1, segment |-> seg])
    /\ UNCHANGED mode

Return ==
    /\ mode = "runs"
    /\ calls # <<>>
    /\ at' = calls[Len(calls)].return
    /\ seg' = calls[Len(calls)].segment
    /\ calls' = SubSeq(calls, 1, Len(calls) - 1)
    /\ UNCHANGED mode

Loosen == mode = "runs" /\ mode' = "loose" /\ Nothing'

\* It halts, traps or is taken off.
Stop == mode # "off" /\ mode' = "off" /\ Nothing'

Next == Start \/ Move \/ Call \/ Return \/ Loosen \/ Stop

Spec == Init /\ [][Next]_vars
=============================================================================
