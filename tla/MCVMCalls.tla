------------------------------ MODULE MCVMCalls ------------------------------
(* The machine with its record of calls, over the programs of MCVM and over   *)
(* programs that call with words of their own on the stack.                   *)
EXTENDS MCVM, VMCalls

\* sub 1 passes a word to sub 2, which calls sub 3, which reads and rewrites its
\* own segment; every one returns.
Nested == <<OP.SUB, 1, OP.MARK>> \o P(9) \o P(2) \o <<OP.GOSUB, OP.POP, OP.TICK>> \o P(1) \o <<OP.GOTO>>
          \o <<OP.SUB, 2>> \o P(3) \o <<OP.GOSUB, OP.RETURN>>
          \o <<OP.SUB, 3, OP.MARK>> \o P(0) \o <<OP.POP, OP.RETURN>>
\* sub 2 takes its own frame off the stack and makes another one.
Forged == <<OP.SUB, 1, OP.MARK>> \o P(2) \o <<OP.GOSUB, OP.TICK, OP.SUB, 2, OP.POP, OP.POP>>
          \o P(0) \o P(0) \o <<OP.RETURN>>

CallPrograms == SafetyPrograms \cup {Nested, Forged}
=============================================================================
