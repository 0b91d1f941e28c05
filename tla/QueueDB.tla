------------------------------- MODULE QueueDB -------------------------------
(***************************************************************************)
(* The nametag service's programs and queues (service/nametag/lib/DB.pm6,  *)
(* Routes.pm6).  Requests run at the same time, statement by statement, on *)
(* the one database connection of the one DB object: what one of them does *)
(* to the transaction it does to all.                                      *)
(*                                                                         *)
(* The database is the environment, as this code uses it: BEGIN commits an *)
(* open transaction, without one each statement is committed at once,      *)
(* ROLLBACK undoes what was done since BEGIN by whomever, and a lost       *)
(* connection is a rollback.  A statement is one step, prepared and        *)
(* executed; a request's last step stands for its answer too.              *)
(***************************************************************************)
EXTENDS Integers, Sequences

CONSTANTS
    Clients,
    Names,
    Column,     \* what a VARCHAR(20) keeps of each name
    Stored,     \* the number of programs stored at the start
    Asked,      \* what requests name as a program's id, 0 for what cannot be one,
    Lists,      \* and the lists of them that a PUT sends
    MaxWrites   \* bound on the requests that write

ASSUME ColumnAssumption ==
    Column \in [Names -> Names] /\ \A n \in Names : Column[Column[n]] = Column[n]
ASSUME StoredAssumption == Stored \in Nat /\ MaxWrites \in Nat
ASSUME AskedAssumption  == Asked \subseteq Nat /\ Lists \subseteq Seq(Asked)

VARIABLES
    db,         \* the tables, as statements on the connection see them,
    durable,    \* and as they are committed
    open,       \* is there a transaction
    alive,      \* is the connection there
    nextProgram, nextQueue, nextRow,    \* AUTO_INCREMENT of the three tables
    writes,     \* requests that write, so far
    pc, req,    \* of each request: its next statement, what it asks for,
    tried,      \* did its transaction fail before,
    held,       \* the id a statement gave it,
    todo,       \* the places in its list of the programs it has yet to insert
    mine,       \* history: the rows it inserted
    owed, shelved,  \* history: the rows, and programs, that were answered for,
    replaced,   \* the rows a set-queue deleted,
    hit,        \* the requests during which a transaction was undone,
    undone,     \* was one ever, during somebody else's request,
    crossed     \* did a transaction ever begin in another's

tables == <<db, durable, open, alive>>
counters == <<nextProgram, nextQueue, nextRow, writes>>
locals == <<req, tried, held, todo, mine>>
promises == <<owed, shelved, replaced>>
history == <<hit, undone, crossed>>
vars == <<tables, counters, pc, locals, promises, history>>

AutoID == Asked \ {0}

Queues == [id : Nat, name : Names]
Rows == [id : Nat, queue : Nat, program : Nat]
Tables == [programs : SUBSET Nat, queues : SUBSET Queues, rows : SUBSET Rows]

IdsOf(d, n) == {q.id : q \in {q \in d.queues : q.name = n}}
RowIds(d) == {r.id : r \in d.rows}

NoRequest == [kind |-> "next"]

\* list-queue, in the order of the ids: the inner joins leave out a row whose program or
\* queue is gone.
Listed(d, n) == {r \in d.rows : r.program \in d.programs /\ r.queue \in IdsOf(d, n)}

Init ==
    /\ db = [programs |-> 1 .. Stored, queues |-> {}, rows |-> {}]
    /\ durable = db
    /\ open = FALSE /\ alive = TRUE
    /\ nextProgram = Stored + 1 /\ nextQueue = 1 /\ nextRow = 1 /\ writes = 0
    /\ pc = [c \in Clients |-> "idle"]
    /\ req = [c \in Clients |-> NoRequest]
    /\ tried = [c \in Clients |-> FALSE]
    /\ held = [c \in Clients |-> 0]
    /\ todo = [c \in Clients |-> {}]
    /\ mine = [c \in Clients |-> {}]
    /\ owed = {} /\ shelved = {} /\ replaced = {}
    /\ hit = {} /\ undone = FALSE /\ crossed = FALSE

\* A request ends, with its answer, and its variables are gone.
End(c) ==
    /\ pc' = [pc EXCEPT ![c] = "idle"]
    /\ req' = [req EXCEPT ![c] = NoRequest]
    /\ tried' = [tried EXCEPT ![c] = FALSE]
    /\ held' = [held EXCEPT ![c] = 0]
    /\ todo' = [todo EXCEPT ![c] = {}]
    /\ mine' = [mine EXCEPT ![c] = {}]

Busy(c) == pc[c] # "idle"
InTxn(c) == pc[c] \notin {"idle", "begin"}

-----------------------------------------------------------------------------
(* Requests *)

Request(c, r) ==
    /\ ~Busy(c)
    /\ pc' = [pc EXCEPT ![c] = "begin"]
    /\ req' = [req EXCEPT ![c] = r]
    /\ hit' = hit \ {c}
    /\ UNCHANGED <<tables, nextProgram, nextQueue, nextRow, tried, held, todo, mine,
                   promises, undone, crossed>>

\* The requests that store something.  The route of a POST takes an AutoID only.  That of a
\* PUT looks through its list for what is none and answers it with bad-request, which does
\* not return: the status is 400, and set-queue is called with the whole list all the same.
Write(c) ==
    /\ writes < MaxWrites
    /\ writes' = writes + 1
    /\ \/ Request(c, [kind |-> "save"])
       \/ \E n \in Names, p \in AutoID : Request(c, [kind |-> "load", name |-> n, program |-> p])
       \/ \E n \in Names, ps \in Lists : Request(c, [kind |-> "set", name |-> n, ids |-> ps])

NextProgram(c) == Request(c, NoRequest) /\ UNCHANGED writes

-----------------------------------------------------------------------------
(* Transactions *)

First(kind) ==
    CASE kind = "save"    -> "save"
      [] kind = "load"    -> "load"
      [] kind = "enqueue" -> "create"
      [] kind = "set"     -> "check"
      [] OTHER            -> "take"

\* The connection is tried, and made again, before the first attempt only.
Begin(c) ==
    /\ pc[c] = "begin"
    /\ alive \/ ~tried[c]
    /\ alive' = TRUE
    /\ open' = TRUE
    /\ durable' = db
    /\ pc' = [pc EXCEPT ![c] = First(req[c].kind)]
    /\ mine' = [mine EXCEPT ![c] = {}]
    /\ crossed' = (crossed \/ \E d \in Clients \ {c} : InTxn(d))
    /\ UNCHANGED <<db, counters, req, tried, held, todo, promises, hit, undone>>

\* A statement that leaves the tables as new.
Execute(c, stmt, new, then) ==
    /\ pc[c] = stmt
    /\ alive
    /\ db' = new
    /\ durable' = IF open THEN durable ELSE new
    /\ pc' = [pc EXCEPT ![c] = then]
    /\ UNCHANGED <<open, alive, writes, tried, owed, shelved, history>>

\* (wrong: KEEP does not commit)
CommitWorkSkipped ==
    /\ alive
    /\ UNCHANGED <<tables, counters, replaced, history>>

\* What others have done since BEGIN is committed too.
CommitWork ==
    /\ alive
    /\ durable' = db
    /\ open' = FALSE
    /\ UNCHANGED <<db, alive, counters, replaced, history>>

Commit(c) ==
    /\ pc[c] = "commit"
    /\ CommitWork
    /\ End(c)
    /\ owed' = IF c \in hit THEN owed ELSE owed \cup mine[c]
    /\ shelved' = IF req[c].kind = "save" /\ c \notin hit THEN shelved \cup {held[c]} ELSE shelved

\* The first of the two transactions of a POST to a queue.
CommitLoad(c) ==
    /\ pc[c] = "loaded"
    /\ CommitWork
    /\ pc' = [pc EXCEPT ![c] = "begin"]
    /\ req' = [req EXCEPT ![c].kind = "enqueue"]
    /\ tried' = [tried EXCEPT ![c] = FALSE]
    /\ UNCHANGED <<held, todo, mine, owed, shelved>>

\* What was done since BEGIN is gone, and with it what the requests in others did.
Undo(others) ==
    /\ db' = durable
    /\ open' = FALSE
    /\ replaced' = replaced \ RowIds(durable)
    /\ hit' = IF open THEN hit \cup others ELSE hit
    /\ undone' = (undone \/ (open /\ others # {}))
    /\ UNCHANGED <<durable, counters, owed, shelved, crossed>>

\* (wrong: UNDO does not roll back)
RollbackSkipped(c) ==
    /\ pc[c] = "rollback"
    /\ alive
    /\ End(c)
    /\ UNCHANGED <<tables, counters, promises, history>>

\* A transaction that fails is begun again, once.
Rollback(c) ==
    /\ pc[c] = "rollback"
    /\ alive
    /\ Undo({d \in Clients \ {c} : Busy(d)})
    /\ IF tried[c]
       THEN End(c)
       ELSE /\ pc' = [pc EXCEPT ![c] = "begin"]
            /\ tried' = [tried EXCEPT ![c] = TRUE]
            /\ UNCHANGED <<req, held, todo, mine>>
    /\ UNCHANGED alive

\* The database goes away.  A statement prepared on that connection fails on the next.
LoseConnection ==
    /\ alive
    /\ alive' = FALSE
    /\ Undo({d \in Clients : Busy(d)})
    /\ pc' = [c \in Clients |-> IF pc[c] = "more" THEN "rollback" ELSE pc[c]]
    /\ UNCHANGED locals

\* On a lost connection every statement fails, also those that should undo or retry.
StatementFails(c) ==
    /\ ~alive
    /\ IF pc[c] \in {"commit", "loaded", "rollback"} \/ (pc[c] = "begin" /\ tried[c])
       THEN End(c)
       ELSE /\ InTxn(c)
            /\ pc' = [pc EXCEPT ![c] = "rollback"]
            /\ UNCHANGED locals
    /\ UNCHANGED <<tables, counters, promises, history>>

-----------------------------------------------------------------------------
(* Statements *)

Save(c) ==
    /\ Execute(c, "save", [db EXCEPT !.programs = @ \cup {nextProgram}], "commit")
    /\ held' = [held EXCEPT ![c] = nextProgram]
    /\ nextProgram' = nextProgram + 1
    /\ UNCHANGED <<nextQueue, nextRow, req, todo, mine, replaced>>

\* (wrong: what load-program found is not looked at)
LoadUnchecked(c) ==
    /\ Execute(c, "load", db, "loaded")
    /\ UNCHANGED <<nextProgram, nextQueue, nextRow, req, held, todo, mine, replaced>>

\* A program that is not there is a bad request.
Load(c) ==
    /\ Execute(c, "load", db, IF req[c].program \in db.programs THEN "loaded" ELSE "commit")
    /\ UNCHANGED <<nextProgram, nextQueue, nextRow, req, held, todo, mine, replaced>>

\* INSERT IGNORE
Create(c) ==
    LET name == Column[req[c].name]
        new  == IdsOf(db, name) = {}
    IN  /\ Execute(c, "create",
               IF new THEN [db EXCEPT !.queues = @ \cup {[id |-> nextQueue, name |-> name]}] ELSE db,
               "look")
        /\ nextQueue' = IF new THEN nextQueue + 1 ELSE nextQueue
        /\ UNCHANGED <<nextProgram, nextRow, req, held, todo, mine, replaced>>

\* 0 is NULL: the name asked for is not the name in the column, or the row is gone.
Look(c) ==
    LET ids == IdsOf(db, req[c].name)
    IN  /\ Execute(c, "look", db, "insert")
        /\ \E q \in IF ids = {} THEN {0} ELSE ids : held' = [held EXCEPT ![c] = q]
        /\ UNCHANGED <<nextProgram, nextQueue, nextRow, req, todo, mine, replaced>>

AddRow(c, q, p) ==
    [db EXCEPT !.rows = @ \cup {[id |-> nextRow, queue |-> q, program |-> p]}]

\* queue_id is NOT NULL.
Insert(c) ==
    IF held[c] = 0
    THEN /\ Execute(c, "insert", db, "rollback")
         /\ UNCHANGED <<nextProgram, nextQueue, nextRow, req, held, todo, mine, replaced>>
    ELSE /\ Execute(c, "insert", AddRow(c, held[c], req[c].program), "commit")
         /\ nextRow' = nextRow + 1
         /\ mine' = [mine EXCEPT ![c] = {nextRow}]
         /\ UNCHANGED <<nextProgram, nextQueue, req, held, todo, replaced>>

\* A SELECT for each program of the list, taken together: programs go only by an undo.  It
\* finds none for what is no AutoID, and the others of the list are set.
Check(c) ==
    LET found == {i \in DOMAIN req[c].ids : req[c].ids[i] \in db.programs}
    IN  /\ Execute(c, "check", db, IF found = {} THEN "commit" ELSE "clear")
        /\ todo' = [todo EXCEPT ![c] = found]
        /\ UNCHANGED <<nextProgram, nextQueue, nextRow, req, held, mine, replaced>>

Clear(c) ==
    LET new == [db EXCEPT !.rows = {r \in @ : r.queue \notin IdsOf(db, req[c].name)}]
    IN  /\ Execute(c, "clear", new, "fill")
        /\ replaced' = replaced \cup (RowIds(db) \ RowIds(new))
        /\ UNCHANGED <<nextProgram, nextQueue, nextRow, req, held, todo, mine>>

\* INSERT ... SELECT inserts nothing when there is no such queue.
Fill(c, stmt) ==
    \E i \in todo[c] :
        /\ \A j \in todo[c] : i <= j
        /\ todo' = [todo EXCEPT ![c] = @ \ {i}]
        /\ LET ids == IdsOf(db, req[c].name)
               rest == IF todo[c] = {i} THEN "commit" ELSE "more"
           IN  IF ids = {}
               THEN Execute(c, stmt, db, rest) /\ UNCHANGED <<nextRow, mine>>
               ELSE /\ \E q \in ids : Execute(c, stmt, AddRow(c, q, req[c].ids[i]), rest)
                    /\ nextRow' = nextRow + 1
                    /\ mine' = [mine EXCEPT ![c] = @ \cup {nextRow}]
        /\ UNCHANGED <<nextProgram, nextQueue, req, held, replaced>>

\* dequeue-program orders by a column that queue_v2 does not have.
Take(c) ==
    /\ Execute(c, "take", db, "rollback")
    /\ UNCHANGED <<nextProgram, nextQueue, nextRow, req, held, todo, mine, replaced>>

-----------------------------------------------------------------------------
Next ==
    \/ \E c \in Clients :
          \/ Write(c) \/ NextProgram(c)
          \/ Begin(c) \/ Commit(c) \/ CommitLoad(c) \/ Rollback(c) \/ StatementFails(c)
          \/ Save(c) \/ Load(c) \/ Create(c) \/ Look(c) \/ Insert(c)
          \/ Check(c) \/ Clear(c) \/ Fill(c, "fill") \/ Fill(c, "more") \/ Take(c)
    \/ LoseConnection

Spec == Init /\ [][Next]_vars

-----------------------------------------------------------------------------
(* Properties *)

Statements == {"idle", "begin", "commit", "loaded", "rollback", "save", "load", "create",
               "look", "insert", "check", "clear", "fill", "more", "take"}

Requests == [kind : {"save", "next"}]
       \cup [kind : {"load", "enqueue"}, name : Names, program : Asked]
       \cup [kind : {"set"}, name : Names, ids : Lists]

\* Ids are given once, and a name is in one row.
Sound(d) ==
    /\ d \in Tables
    /\ \A p \in d.programs : p < nextProgram
    /\ \A q \in d.queues : q.id \in 1 .. nextQueue - 1
    /\ \A q, r \in d.queues : (q.id = r.id \/ q.name = r.name) => q = r
    /\ \A r \in d.rows : r.id < nextRow
    /\ \A r, s \in d.rows : r.id = s.id => r = s

\* The tables are sound as they are seen and as they are committed, which differ only while
\* a transaction is open.
TypeOK ==
    /\ Sound(db) /\ Sound(durable)
    /\ ~open => db = durable
    /\ open \in BOOLEAN /\ alive \in BOOLEAN
    /\ nextProgram \in Nat /\ nextQueue \in Nat \ {0} /\ nextRow \in Nat
    /\ writes \in 0 .. MaxWrites
    /\ pc \in [Clients -> Statements]
    /\ req \in [Clients -> Requests]
    /\ tried \in [Clients -> BOOLEAN]
    /\ held \in [Clients -> Nat]
    /\ todo \in [Clients -> SUBSET Nat]
    /\ mine \in [Clients -> SUBSET Nat]
    /\ owed \subseteq Nat /\ shelved \subseteq Nat /\ replaced \subseteq Nat
    /\ hit \subseteq Clients /\ undone \in BOOLEAN /\ crossed \in BOOLEAN

ListedIds(d) == {r.id : r \in UNION {Listed(d, n) : n \in Names}}

\* A program or a queue entry that the service has answered for stays: committed, and listed
\* to every client, until a set-queue deletes it.  Requests that cross commit each other's
\* half-done work; the exception is a request during which a ROLLBACK of another, or a lost
\* connection, undid a transaction: it is answered as a success and nothing is there.
AckedKept ==
    /\ shelved \subseteq db.programs \cap durable.programs
    /\ owed \ replaced \subseteq ListedIds(db) \cap ListedIds(durable)

\* enqueue-program uses in one statement what it looked up in another, and nothing in the
\* schema ties the tables together: entries whose queue or program is gone, which no
\* request lists and none deletes, are left only by the undoing of another's transaction.
NoOrphans ==
    ~undone => \A d \in {db, durable} : \A r \in d.rows :
                  /\ r.program \in d.programs
                  /\ \E q \in d.queues : q.id = r.queue

Queued(n) == {[place |-> r.id, program |-> r.program] : r \in Listed(durable, n)}

Abstract == INSTANCE ProgramQueue WITH
    programs <- IF crossed THEN {} ELSE durable.programs,
    known    <- IF crossed THEN {} ELSE {q.name : q \in durable.queues},
    queue    <- [n \in Names |-> IF crossed THEN {} ELSE Queued(n)]

\* Unless transactions cross, the committed tables change only as those of ProgramQueue do: by
\* one request's whole effect in one step, through retries, lost connections and names too
\* long for the table; what fails half way leaves nothing.  It says nothing of the answer:
\* a PUT that is answered 400 for one bad id replaces the queue by the others.
Implements == Abstract!Spec
=============================================================================
