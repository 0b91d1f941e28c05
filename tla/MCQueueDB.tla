------------------------------ MODULE MCQueueDB ------------------------------
(* Two clients, a queue whose name fits its column and one whose name does not *)
(* and is cut to the former; a stored program, one that may be stored, and     *)
(* lists to set that name both, one with an id among them that cannot be one.  *)
EXTENDS QueueDB, TLC

CONSTANTS c1, c2, short, long
MCColumn == [n \in {short, long} |-> short]
MCLists == {<<2, 1>>, <<2, 0, 1>>}
Symmetry == Permutations({c1, c2})
=============================================================================
