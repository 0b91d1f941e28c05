----------------------------- MODULE ProgramQueue -----------------------------
(***************************************************************************)
(* What the nametag service promises about programs and queues while its   *)
(* requests leave each other alone: a program is stored, appended to a     *)
(* queue, or a queue's programs are replaced, each in one step.  Once two  *)
(* requests have crossed on the one connection nothing is promised.        *)
(***************************************************************************)
EXTENDS Naturals

CONSTANTS Names, Stored, Lists

VARIABLES
    programs,   \* the programs that can be queued
    known,      \* the queues that there are
    queue,      \* the programs of each, in their places
    crossed

Nothing == [n \in Names |-> {}]

Init ==
    /\ programs = 1 .. Stored
    /\ known = {}
    /\ queue = Nothing
    /\ crossed = FALSE

Save ==
    /\ \E p \in programs' \ programs : programs' = programs \cup {p}
    /\ UNCHANGED <<known, queue, crossed>>

\* At the end of the queue, which comes into being with its first program.
Enqueue(n, p) ==
    /\ p \in programs
    /\ known' = known \cup {n}
    /\ \E e \in queue'[n] :
         /\ e.program = p
         /\ \A f \in queue[n] : f.place < e.place
         /\ queue' = [queue EXCEPT ![n] = @ \cup {e}]
    /\ UNCHANGED <<programs, crossed>>

\* By those programs of a list that there are, in its order, whatever else is in the list.
\* A queue that is not there is not made.
Replace(n, ps) ==
    LET There == {i \in DOMAIN ps : ps[i] \in programs}
    IN
    /\ n \in known
    /\ There # {}
    /\ \E at \in [There -> queue'[n]] :
         /\ \A i \in There : at[i].program = ps[i]
         /\ \A i, j \in There : i < j => at[i].place < at[j].place
         /\ queue' = [queue EXCEPT ![n] = {at[i] : i \in There}]
    /\ UNCHANGED <<programs, known, crossed>>

Cross ==
    /\ crossed' = TRUE
    /\ programs' = {} /\ known' = {} /\ queue' = Nothing

Next ==
    \/ /\ ~crossed
       /\ \/ Save
          \/ \E n \in Names :
                (\E ps \in Lists : Replace(n, ps)) \/ (\E p \in programs : Enqueue(n, p))
    \/ Cross

Spec == Init /\ [][Next]_<<programs, known, queue, crossed>>
=============================================================================
