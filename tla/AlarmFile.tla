------------------------------ MODULE AlarmFile ------------------------------
(***************************************************************************)
(* The alarm of the toddler clock, as its service keeps it: one JSON file, *)
(* which a PUT fetches, merges its body into and stores again              *)
(* (service/tclock/lib/TClock).  Requests run at the same time and nothing *)
(* locks the file, which is truncated when it is opened and then written.  *)
(* Both times are whole values here; the colours go the same way.          *)
(***************************************************************************)
EXTENDS Naturals

CONSTANTS
    Users,      \* requests that may be under way at once
    Fields,     \* the parts of an alarm
    Values,
    Default,    \* the alarm while there is no file
    Bodies,     \* what a PUT brings: some fields of an alarm
    Length,     \* of the JSON of an alarm
    Absent,     \* no file
    Garbage     \* an empty one, or one alarm over the end of another

Alarms == [Fields -> Values]
PartialAlarms == UNION {[F -> Values] : F \in SUBSET Fields}

ASSUME DefaultAssumption == Default \in Alarms
ASSUME BodiesAssumption  == Bodies \subseteq PartialAlarms
ASSUME LengthAssumption  == Length \in [Alarms -> Nat \ {0}]
ASSUME TextAssumption    == Absent # Garbage /\ Absent \notin Alarms /\ Garbage \notin Alarms

VARIABLES
    text,       \* what the file holds
    size,
    stage,      \* of each request: how far its store got,
    next,       \* and what it will write
    body,       \* history: what the store under way was sent, while there is but one,
    expected,   \* and the stores applied in turn, unless
    spoilt      \* one was begun during another, or cut off between opening and writing

fileVars == <<text, size, stage, next, body, expected, spoilt>>

Readable == text # Garbage

\* A GET, or the fetch of a PUT.  JSON that does not parse is an error.
Content == IF text = Absent THEN Default ELSE text

\* enmesh
Merged(a, b) == [f \in Fields |-> IF f \in DOMAIN b THEN b[f] ELSE a[f]]

FileInit ==
    /\ text = Absent /\ size = 0
    /\ stage = [u \in Users |-> "idle"]
    /\ body = Default
    /\ next = [u \in Users |-> Default]
    /\ expected = Default
    /\ spoilt = FALSE

UnderWay == {u \in Users : stage[u] # "idle"}

\* The count of the stores: it begins again with what the file holds when one starts alone.
Count(b) ==
    /\ body' = IF UnderWay # {} THEN Default ELSE b
    /\ spoilt' = (UnderWay # {})
    /\ expected' = IF UnderWay # {} THEN Default ELSE IF spoilt THEN Content ELSE expected

\* (wrong: the body is merged into a new alarm)
PutAfresh(u, b) ==
    /\ stage[u] = "idle"
    /\ Readable
    /\ stage' = [stage EXCEPT ![u] = "merged"]
    /\ next' = [next EXCEPT ![u] = Merged(Default, b)]
    /\ Count(b)
    /\ UNCHANGED <<text, size>>

\* (wrong: a file that cannot be read counts as none)
PutAnyway(u, b) ==
    /\ stage[u] = "idle"
    /\ stage' = [stage EXCEPT ![u] = "merged"]
    /\ next' = [next EXCEPT ![u] = Merged(IF Readable THEN Content ELSE Default, b)]
    /\ UNCHANGED <<text, size, body, expected, spoilt>>

Put(u, b) ==
    /\ stage[u] = "idle"
    /\ Readable
    /\ stage' = [stage EXCEPT ![u] = "merged"]
    /\ next' = [next EXCEPT ![u] = Merged(Content, b)]
    /\ Count(b)
    /\ UNCHANGED <<text, size>>

\* spurt opens the file,
Open(u) ==
    /\ stage[u] = "merged"
    /\ stage' = [stage EXCEPT ![u] = "opened"]
    /\ text' = Garbage
    /\ size' = 0
    /\ UNCHANGED <<next, body, expected, spoilt>>

\* and writes from its start: what another has written beyond that stays.
Write(u) ==
    /\ stage[u] = "opened"
    /\ text' = IF Length[next[u]] >= size THEN next[u] ELSE Garbage
    /\ size' = IF Length[next[u]] >= size THEN Length[next[u]] ELSE size
    /\ expected' = IF spoilt THEN expected ELSE Merged(expected, body)
    /\ stage' = [stage EXCEPT ![u] = "idle"]
    /\ body' = Default
    /\ next' = [next EXCEPT ![u] = Default]
    /\ UNCHANGED spoilt

\* The service stops and is started again; what was under way is not.
Die ==
    /\ spoilt' = (spoilt \/ \E u \in Users : stage[u] = "opened")
    /\ expected' = IF spoilt' THEN Default ELSE expected
    /\ stage' = [u \in Users |-> "idle"]
    /\ body' = Default
    /\ next' = [u \in Users |-> Default]
    /\ UNCHANGED <<text, size>>

FileNext == \E u \in Users : (\E b \in Bodies : Put(u, b)) \/ Open(u) \/ Write(u)

-----------------------------------------------------------------------------
FileTypeOK ==
    /\ text \in Alarms \cup {Absent, Garbage}
    /\ size \in Nat
    /\ stage \in [Users -> {"idle", "merged", "opened"}]
    /\ next \in [Users -> Alarms]
    /\ body \in PartialAlarms
    /\ expected \in Alarms
    /\ spoilt \in BOOLEAN

\* While stores come one after the other and none is cut off between opening the file and
\* writing it, the file can be read and holds every store applied to the alarm in its turn,
\* counted from its beginning or from the first store after the last mishap.  Two at once
\* lose one of them, or leave a file that cannot be read.
StoresAddUp ==
    (~spoilt /\ \A u \in Users : stage[u] # "opened")
        => Readable /\ Content = expected
=============================================================================
