------------------------------ MODULE ZoneFile ------------------------------
(***************************************************************************)
(* The time zone of the toddler clock's service (service/tclock): a JSON   *)
(* file of one offset, which a PUT fetches and stores again, and which     *)
(* every GET of the time reads.  Nothing locks it, and it is truncated     *)
(* when it is opened and then written, as the alarm's is.  The clock does  *)
(* not look at the offset; whether the file can be read is all it notices. *)
(* A body without a whole number of seconds changes nothing.               *)
(***************************************************************************)
EXTENDS Naturals

VARIABLES
    zone,       \* "whole", also while there is no file; "empty"; "torn"
    fetched,    \* the stores that have read the file,
    opened      \* and those that have opened it to write

zoneVars == <<zone, fetched, opened>>

\* JSON that does not parse is an error, for the fetch of a PUT and for GET /time.
ZoneReadable == zone = "whole"

ZoneInit == zone = "whole" /\ fetched = 0 /\ opened = 0

ZonePut ==
    /\ ZoneReadable
    /\ fetched' = fetched + 1
    /\ UNCHANGED <<zone, opened>>

\* spurt opens the file,
ZoneOpen ==
    /\ fetched > 0
    /\ fetched' = fetched - 1
    /\ opened' = opened + 1
    /\ zone' = "empty"

\* and writes from its start: what another has written since stays where it is longer.
ZoneWrite ==
    /\ opened > 0
    /\ opened' = opened - 1
    /\ zone' \in IF zone = "empty" THEN {"whole"} ELSE {"whole", "torn"}
    /\ UNCHANGED fetched

\* The service stops and is started again.
ZoneDie ==
    /\ fetched' = 0
    /\ opened' = 0
    /\ UNCHANGED zone

ZoneNext == ZonePut \/ ZoneOpen \/ ZoneWrite

ZoneTypeOK ==
    /\ zone \in {"whole", "empty", "torn"}
    /\ fetched \in Nat /\ opened \in Nat
=============================================================================
