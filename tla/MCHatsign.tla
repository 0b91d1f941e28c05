------------------------------ MODULE MCHatsign ------------------------------
(* Two programs, a list of two, replies of up to three entries: the list fills *)
(* up, overflows, holds a program twice, and fetches fail at every point.      *)
(* Three blocks of memory, of which one may leak.                              *)
EXTENDS Hatsign

CONSTANTS b1, b2, b3
=============================================================================
