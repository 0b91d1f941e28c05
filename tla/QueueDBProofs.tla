---------------------------- MODULE QueueDBProofs ----------------------------
(* What the nametag service keeps of its promises for any number of clients, *)
(* names, programs and requests, and, from "What a transaction has done to   *)
(* the tables" on, that QueueDB implements ProgramQueue: until two           *)
(* transactions cross, the statements of a request take effect in one step   *)
(* or not at all.                                                            *)
EXTENDS QueueDB, TLAPS

-----------------------------------------------------------------------------
(* Types *)

SoundWith(d, np, nq, nr) ==
    /\ d \in Tables
    /\ \A p \in d.programs : p < np
    /\ \A q \in d.queues : q.id \in 1 .. nq - 1
    /\ \A q, r \in d.queues : (q.id = r.id \/ q.name = r.name) => q = r
    /\ \A r \in d.rows : r.id < nr
    /\ \A r, s \in d.rows : r.id = s.id => r = s

TablesOK ==
    /\ SoundWith(db, nextProgram, nextQueue, nextRow)
    /\ SoundWith(durable, nextProgram, nextQueue, nextRow)
    /\ ~open => db = durable
    /\ open \in BOOLEAN /\ alive \in BOOLEAN
    /\ nextProgram \in Nat /\ nextQueue \in Nat \ {0} /\ nextRow \in Nat
    /\ writes \in 0 .. MaxWrites

LocalsOK ==
    /\ pc \in [Clients -> Statements]
    /\ req \in [Clients -> Requests]
    /\ tried \in [Clients -> BOOLEAN]
    /\ held \in [Clients -> Nat]
    /\ todo \in [Clients -> SUBSET Nat]
    /\ mine \in [Clients -> SUBSET Nat]

HistoryOK ==
    /\ owed \subseteq Nat /\ shelved \subseteq Nat /\ replaced \subseteq Nat
    /\ hit \subseteq Clients /\ undone \in BOOLEAN /\ crossed \in BOOLEAN

LEMMA TypeParts == TypeOK <=> TablesOK /\ LocalsOK /\ HistoryOK
  BY DEF TypeOK, TablesOK, LocalsOK, HistoryOK, Sound, SoundWith

\* What a request is about while it is at a statement, and that no id is given twice.
Asking(c) ==
    /\ pc[c] \in {"create", "look", "insert"} => req[c].kind = "enqueue"
    /\ pc[c] \in {"load", "loaded"} => req[c].kind = "load"
    /\ pc[c] \in {"check", "clear", "fill", "more"} => req[c].kind = "set"
    /\ pc[c] \in {"clear", "fill", "more"} => todo[c] \subseteq DOMAIN req[c].ids

Fits ==
    /\ \A c \in Clients : Asking(c)
    /\ \A i \in owed \cup replaced : i < nextRow
    /\ \A c \in Clients : \A i \in mine[c] : i < nextRow

Typed == TablesOK /\ LocalsOK /\ HistoryOK /\ Fits

\* Counters only grow.
LEMMA SoundLater ==
    ASSUME NEW d, NEW np \in Nat, NEW nq \in Nat, NEW nr \in Nat,
           NEW np2 \in Nat, NEW nq2 \in Nat, NEW nr2 \in Nat,
           np <= np2, nq <= nq2, nr <= nr2, SoundWith(d, np, nq, nr)
    PROVE  SoundWith(d, np2, nq2, nr2)
<1>1. \A p \in d.programs : p \in Nat  BY DEF SoundWith, Tables
<1>2. \A r \in d.rows : r.id \in Nat  BY DEF SoundWith, Tables, Rows
<1> QED  BY <1>1, <1>2 DEF SoundWith

LEMMA SoundProgram ==
    ASSUME NEW d, NEW np \in Nat, NEW nq \in Nat, NEW nr \in Nat, SoundWith(d, np, nq, nr)
    PROVE  SoundWith([d EXCEPT !.programs = @ \cup {np}], np + 1, nq, nr)
<1>1. d = [programs |-> d.programs, queues |-> d.queues, rows |-> d.rows]
      /\ d.programs \subseteq Nat
  BY DEF SoundWith, Tables
<1>2. [d EXCEPT !.programs = @ \cup {np}]
        = [programs |-> d.programs \cup {np}, queues |-> d.queues, rows |-> d.rows]
  BY <1>1
<1> QED  BY <1>1, <1>2 DEF SoundWith, Tables

LEMMA SoundQueue ==
    ASSUME NEW d, NEW np \in Nat, NEW nq \in Nat \ {0}, NEW nr \in Nat,
           SoundWith(d, np, nq, nr), NEW n \in Names, IdsOf(d, n) = {}
    PROVE  SoundWith([d EXCEPT !.queues = @ \cup {[id |-> nq, name |-> n]}], np, nq + 1, nr)
<1>1. d = [programs |-> d.programs, queues |-> d.queues, rows |-> d.rows]
      /\ d.queues \subseteq Queues
  BY DEF SoundWith, Tables
<1>2. [d EXCEPT !.queues = @ \cup {[id |-> nq, name |-> n]}]
        = [programs |-> d.programs, queues |-> d.queues \cup {[id |-> nq, name |-> n]},
           rows |-> d.rows]
  BY <1>1
<1>3. \A q \in d.queues : q.name # n /\ q.id \in 1 .. nq - 1
  BY DEF IdsOf, SoundWith
<1>4. \A q \in d.queues \cup {[id |-> nq, name |-> n]} : q \in Queues /\ q.id \in 1 .. nq
  BY <1>1, <1>3 DEF Queues
<1>5. \A q, r \in d.queues \cup {[id |-> nq, name |-> n]} :
        (q.id = r.id \/ q.name = r.name) => q = r
  BY <1>3 DEF SoundWith
<1> QED  BY <1>1, <1>2, <1>4, <1>5 DEF SoundWith, Tables

LEMMA SoundRow ==
    ASSUME NEW d, NEW np \in Nat, NEW nq \in Nat, NEW nr \in Nat,
           SoundWith(d, np, nq, nr), NEW q \in Nat, NEW p \in Nat
    PROVE  SoundWith([d EXCEPT !.rows = @ \cup {[id |-> nr, queue |-> q, program |-> p]}],
                     np, nq, nr + 1)
<1> DEFINE row == [id |-> nr, queue |-> q, program |-> p]
<1>1. d = [programs |-> d.programs, queues |-> d.queues, rows |-> d.rows]
      /\ d.rows \subseteq Rows
  BY DEF SoundWith, Tables
<1>2. [d EXCEPT !.rows = @ \cup {row}]
        = [programs |-> d.programs, queues |-> d.queues, rows |-> d.rows \cup {row}]
  BY <1>1
<1>3. \A r \in d.rows \cup {row} : r \in Rows /\ r.id < nr + 1
  BY <1>1 DEF SoundWith, Rows
<1>4. \A r, s \in d.rows \cup {row} : r.id = s.id => r = s
  BY <1>1 DEF SoundWith, Rows
<1> QED  BY <1>1, <1>2, <1>3, <1>4 DEF SoundWith, Tables

LEMMA SoundFewer ==
    ASSUME NEW d, NEW np, NEW nq, NEW nr, SoundWith(d, np, nq, nr), NEW Q
    PROVE  SoundWith([d EXCEPT !.rows = {r \in @ : r.queue \notin Q}], np, nq, nr)
<1>1. d = [programs |-> d.programs, queues |-> d.queues, rows |-> d.rows]
      /\ d.rows \subseteq Rows
  BY DEF SoundWith, Tables
<1>2. \A K : [d EXCEPT !.rows = K]
                 = [programs |-> d.programs, queues |-> d.queues, rows |-> K]
  BY <1>1
<1>3. [d EXCEPT !.rows = {r \in @ : r.queue \notin Q}]
        = [programs |-> d.programs, queues |-> d.queues, rows |-> {r \in d.rows : r.queue \notin Q}]
  BY <1>2
<1> QED  BY <1>1, <1>3 DEF SoundWith, Tables

-----------------------------------------------------------------------------
(* The tables *)

LEMMA ExecuteTables ==
    ASSUME TablesOK, NEW c, NEW stmt, NEW new, NEW then,
           Execute(c, stmt, new, then),
           nextProgram' \in Nat, nextQueue' \in Nat \ {0}, nextRow' \in Nat,
           nextProgram <= nextProgram', nextQueue <= nextQueue', nextRow <= nextRow',
           SoundWith(new, nextProgram', nextQueue', nextRow')
    PROVE  TablesOK'
<1>1. SoundWith(durable, nextProgram', nextQueue', nextRow')
  BY SoundLater DEF TablesOK
<1>2. db' = new /\ durable' = IF open THEN durable ELSE new  BY DEF Execute
<1> QED  BY <1>1, <1>2 DEF TablesOK, Execute

LEMMA RequestKinds ==
    ASSUME NEW r \in Requests
    PROVE  /\ r.kind \in {"load", "enqueue"} => r.name \in Names /\ r.program \in Asked
           /\ r.kind = "set" => r.name \in Names /\ r.ids \in Seq(Asked)
  BY AskedAssumption DEF Requests

LEMMA EntryType ==
    ASSUME NEW ps \in Seq(Asked), NEW i \in DOMAIN ps  PROVE ps[i] \in Nat
<1>1. i \in 1 .. Len(ps)  OBVIOUS
<1>2. ps[i] \in Asked  BY <1>1
<1> QED  BY <1>2, AskedAssumption

LEMMA IdsType ==
    ASSUME NEW d \in Tables, NEW n  PROVE IdsOf(d, n) \subseteq Nat
  BY DEF IdsOf, Tables, Queues

LEMMA FillTables ==
    ASSUME Typed, NEW c \in Clients, NEW stmt \in {"fill", "more"}, Fill(c, stmt)
    PROVE  TablesOK'
<1> USE DEF Typed
<1>1. PICK i \in todo[c] :
        LET ids == IdsOf(db, req[c].name)
            rest == IF todo[c] = {i} THEN "commit" ELSE "more"
        IN  IF ids = {}
            THEN Execute(c, stmt, db, rest) /\ UNCHANGED <<nextRow, mine>>
            ELSE /\ \E q \in ids : Execute(c, stmt, AddRow(c, q, req[c].ids[i]), rest)
                 /\ nextRow' = nextRow + 1
  BY DEF Fill
<1>2. nextProgram' = nextProgram /\ nextQueue' = nextQueue  BY DEF Fill
<1>3. pc[c] = stmt  BY <1>1 DEF Execute
<1>4. req[c].kind = "set" /\ todo[c] \subseteq DOMAIN req[c].ids
  BY <1>3 DEF Fits, Asking
<1>5. req[c].ids \in Seq(Asked)  BY <1>4, RequestKinds DEF LocalsOK
<1>6. req[c].ids[i] \in Nat  BY <1>4, <1>5, EntryType
<1>7. IdsOf(db, req[c].name) \subseteq Nat  BY IdsType DEF TablesOK, SoundWith
<1>8. CASE IdsOf(db, req[c].name) = {}
  BY <1>1, <1>2, <1>8, ExecuteTables DEF TablesOK
<1>9. CASE IdsOf(db, req[c].name) # {}
  <2>1. PICK q \in IdsOf(db, req[c].name) :
          Execute(c, stmt, AddRow(c, q, req[c].ids[i]), IF todo[c] = {i} THEN "commit" ELSE "more")
    BY <1>1, <1>9
  <2>2. SoundWith(AddRow(c, q, req[c].ids[i]), nextProgram, nextQueue, nextRow + 1)
    BY <1>6, <1>7, SoundRow DEF AddRow, TablesOK
  <2>3. nextRow' = nextRow + 1  BY <1>1, <1>9
  <2> QED  BY <1>2, <2>1, <2>2, <2>3, ExecuteTables DEF TablesOK
<1> QED  BY <1>8, <1>9

LEMMA StatementTables ==
    ASSUME Typed, NEW c \in Clients,
           Save(c) \/ Load(c) \/ Create(c) \/ Look(c) \/ Insert(c) \/ Check(c) \/ Clear(c)
              \/ Fill(c, "fill") \/ Fill(c, "more") \/ Take(c)
    PROVE  TablesOK'
<1> USE DEF Typed
<1>1. ASSUME Save(c)  PROVE TablesOK'
  <2>1. SoundWith([db EXCEPT !.programs = @ \cup {nextProgram}], nextProgram + 1, nextQueue, nextRow)
    BY SoundProgram DEF TablesOK
  <2> QED  BY <1>1, <2>1, ExecuteTables DEF Save, TablesOK
<1>2. ASSUME Load(c) \/ Look(c) \/ Check(c) \/ Take(c)  PROVE TablesOK'
  BY <1>2, ExecuteTables DEF Load, Look, Check, Take, TablesOK
<1>3. ASSUME Create(c)  PROVE TablesOK'
  <2> DEFINE n == Column[req[c].name]
  <2>1. pc[c] = "create"  BY <1>3 DEF Create, Execute
  <2>2. req[c].kind = "enqueue"  BY <2>1 DEF Fits, Asking
  <2>3. n \in Names  BY <2>2, RequestKinds, ColumnAssumption DEF LocalsOK
  <2>4. CASE IdsOf(db, n) = {}
    <3>1. SoundWith([db EXCEPT !.queues = @ \cup {[id |-> nextQueue, name |-> n]}],
                    nextProgram, nextQueue + 1, nextRow)
      BY <2>3, <2>4, SoundQueue DEF TablesOK
    <3> QED  BY <1>3, <2>4, <3>1, ExecuteTables DEF Create, TablesOK
  <2>5. CASE IdsOf(db, n) # {}
    BY <1>3, <2>5, ExecuteTables DEF Create, TablesOK
  <2> QED  BY <2>4, <2>5
<1>4. ASSUME Insert(c)  PROVE TablesOK'
  <2>1. CASE held[c] = 0  BY <1>4, <2>1, ExecuteTables DEF Insert, TablesOK
  <2>2. CASE held[c] # 0
    <3>1. pc[c] = "insert"  BY <1>4, <2>2 DEF Insert, Execute
    <3>2. req[c].program \in Nat
      BY <3>1, RequestKinds, AskedAssumption DEF Fits, Asking, LocalsOK
    <3>3. SoundWith(AddRow(c, held[c], req[c].program), nextProgram, nextQueue, nextRow + 1)
      BY <3>2, SoundRow DEF AddRow, TablesOK, LocalsOK
    <3> QED  BY <1>4, <2>2, <3>3, ExecuteTables DEF Insert, TablesOK
  <2> QED  BY <2>1, <2>2
<1>5. ASSUME Clear(c)  PROVE TablesOK'
  <2>1. SoundWith([db EXCEPT !.rows = {r \in @ : r.queue \notin IdsOf(db, req[c].name)}],
                  nextProgram, nextQueue, nextRow)
    BY SoundFewer DEF TablesOK
  <2> QED  BY <1>5, <2>1, ExecuteTables DEF Clear, TablesOK
<1> QED  BY <1>1, <1>2, <1>3, <1>4, <1>5, FillTables

LEMMA NextTables == Typed /\ [Next]_vars => TablesOK'
<1> SUFFICES ASSUME Typed, [Next]_vars PROVE TablesOK'  OBVIOUS
<1> USE DEF Typed
<1>1. ASSUME NEW c \in Clients, Write(c) \/ NextProgram(c)  PROVE TablesOK'
  BY <1>1, StoredAssumption DEF Write, NextProgram, Request, tables, TablesOK
<1>2. ASSUME NEW c \in Clients, Begin(c) \/ Commit(c) \/ CommitLoad(c)  PROVE TablesOK'
  BY <1>2 DEF Begin, Commit, CommitLoad, CommitWork, counters, TablesOK
<1>3. ASSUME NEW c \in Clients, Rollback(c)  PROVE TablesOK'
  BY <1>3 DEF Rollback, Undo, counters, TablesOK
<1>4. ASSUME NEW c \in Clients, StatementFails(c)  PROVE TablesOK'
  BY <1>4 DEF StatementFails, tables, counters, TablesOK
<1>5. ASSUME LoseConnection  PROVE TablesOK'
  BY <1>5 DEF LoseConnection, Undo, counters, TablesOK
<1>6. ASSUME UNCHANGED vars  PROVE TablesOK'
  BY <1>6 DEF vars, tables, counters, TablesOK
<1> QED  BY <1>1, <1>2, <1>3, <1>4, <1>5, <1>6, StatementTables DEF Next

-----------------------------------------------------------------------------
(* The requests *)

LEMMA NoRequestType == NoRequest \in Requests
  BY DEF NoRequest, Requests

LEMMA EndLocals == ASSUME LocalsOK, NEW c, End(c)  PROVE LocalsOK'
<1>1. "idle" \in Statements /\ NoRequest \in Requests  BY NoRequestType DEF Statements
<1> QED  BY <1>1 DEF LocalsOK, End

LEMMA RequestLocals ==
    ASSUME LocalsOK, NEW c, NEW r \in Requests, Request(c, r)  PROVE LocalsOK'
<1>1. "begin" \in Statements  BY DEF Statements
<1> QED  BY <1>1 DEF LocalsOK, Request

LEMMA WrittenRequests ==
    ASSUME NEW c, Write(c) \/ NextProgram(c)
    PROVE  \E r \in Requests : r.kind # "enqueue" /\ Request(c, r)
<1>1. CASE NextProgram(c)
  BY <1>1, NoRequestType DEF NextProgram, NoRequest
<1>2. ASSUME Request(c, [kind |-> "save"])
      PROVE  \E r \in Requests : r.kind # "enqueue" /\ Request(c, r)
  <2>1. [kind |-> "save"] \in Requests  BY DEF Requests
  <2> QED  BY <1>2, <2>1
<1>3. ASSUME NEW n \in Names, NEW p \in Asked,
             Request(c, [kind |-> "load", name |-> n, program |-> p])
      PROVE  \E r \in Requests : r.kind # "enqueue" /\ Request(c, r)
  <2>1. [kind |-> "load", name |-> n, program |-> p] \in Requests  BY DEF Requests
  <2> QED  BY <1>3, <2>1
<1>4. ASSUME NEW n \in Names, NEW ps \in Lists,
             Request(c, [kind |-> "set", name |-> n, ids |-> ps])
      PROVE  \E r \in Requests : r.kind # "enqueue" /\ Request(c, r)
  <2>1. [kind |-> "set", name |-> n, ids |-> ps] \in Requests  BY DEF Requests
  <2> QED  BY <1>4, <2>1
<1> QED  BY <1>1, <1>2, <1>3, <1>4 DEF Write, AutoID

LEMMA LoadBecomesEnqueue ==
    ASSUME NEW r \in Requests, r.kind = "load"
    PROVE  [r EXCEPT !.kind = "enqueue"] \in Requests
<1>1. r \in [kind : {"load", "enqueue"}, name : Names, program : Asked]  BY DEF Requests
<1> QED  BY <1>1 DEF Requests

LEMMA FirstType == \A k : First(k) \in Statements
  BY DEF First, Statements

LEMMA StatementLocals ==
    ASSUME Typed, NEW c \in Clients,
           Save(c) \/ Load(c) \/ Create(c) \/ Look(c) \/ Insert(c) \/ Check(c) \/ Clear(c)
              \/ Fill(c, "fill") \/ Fill(c, "more") \/ Take(c)
    PROVE  LocalsOK'
<1> USE DEF Typed
<1>0. {"commit", "loaded", "look", "insert", "rollback", "clear", "fill", "more"}
         \subseteq Statements
  BY DEF Statements
<1>1. CASE Save(c)  BY <1>0, <1>1 DEF Save, Execute, LocalsOK, TablesOK
<1>2. CASE Load(c) \/ Create(c) \/ Take(c)
  BY <1>0, <1>2 DEF Load, Create, Take, Execute, LocalsOK
<1>3. CASE Look(c)
  <2>1. \A q \in IF IdsOf(db, req[c].name) = {} THEN {0} ELSE IdsOf(db, req[c].name) : q \in Nat
    BY IdsType DEF TablesOK, SoundWith
  <2> QED  BY <1>0, <1>3, <2>1 DEF Look, Execute, LocalsOK
<1>4. CASE Insert(c)  BY <1>0, <1>4 DEF Insert, Execute, LocalsOK, TablesOK
<1>5. CASE Check(c)
  <2>1. pc[c] = "check"  BY <1>5 DEF Check, Execute
  <2>2. req[c].ids \in Seq(Asked)  BY <2>1, RequestKinds DEF Fits, Asking, LocalsOK
  <2>3. {i \in DOMAIN req[c].ids : req[c].ids[i] \in db.programs} \subseteq Nat  BY <2>2
  <2>4. todo' = [todo EXCEPT ![c] = {i \in DOMAIN req[c].ids : req[c].ids[i] \in db.programs}]
    BY <1>5 DEF Check
  <2>5. todo' \in [Clients -> SUBSET Nat]  BY <2>3, <2>4 DEF LocalsOK
  <2>6. pc' \in [Clients -> Statements]  BY <1>0, <1>5 DEF Check, Execute, LocalsOK
  <2> QED  BY <1>5, <2>5, <2>6 DEF Check, Execute, LocalsOK
<1>6. CASE Clear(c)  BY <1>0, <1>6 DEF Clear, Execute, LocalsOK
<1>7. ASSUME NEW stmt, Fill(c, stmt)  PROVE LocalsOK'
  <2>1. PICK i \in todo[c] :
          /\ todo' = [todo EXCEPT ![c] = @ \ {i}]
          /\ \E new : Execute(c, stmt, new, IF todo[c] = {i} THEN "commit" ELSE "more")
          /\ mine' = mine \/ mine' = [mine EXCEPT ![c] = @ \cup {nextRow}]
    BY <1>7 DEF Fill
  <2> QED  BY <1>0, <1>7, <2>1 DEF Fill, Execute, LocalsOK, TablesOK
<1> QED  BY <1>1, <1>2, <1>3, <1>4, <1>5, <1>6, <1>7

LEMMA NextLocals == Typed /\ [Next]_vars => LocalsOK'
<1> SUFFICES ASSUME Typed, [Next]_vars PROVE LocalsOK'  OBVIOUS
<1> USE DEF Typed
<1>0. {"begin", "rollback"} \subseteq Statements  BY DEF Statements
<1>1. ASSUME NEW c \in Clients, Write(c) \/ NextProgram(c)  PROVE LocalsOK'
  BY <1>1, WrittenRequests, RequestLocals
<1>2. ASSUME NEW c \in Clients, Begin(c)  PROVE LocalsOK'
  BY <1>2, FirstType DEF Begin, LocalsOK
<1>3. ASSUME NEW c \in Clients, Commit(c)  PROVE LocalsOK'
  BY <1>3, EndLocals DEF Commit
<1>4. ASSUME NEW c \in Clients, CommitLoad(c)  PROVE LocalsOK'
  <2>1. req[c] \in Requests /\ req[c].kind = "load"
    BY <1>4 DEF CommitLoad, LocalsOK, Fits, Asking
  <2>2. [req[c] EXCEPT !.kind = "enqueue"] \in Requests  BY <2>1, LoadBecomesEnqueue
  <2>3. req' = [req EXCEPT ![c] = [req[c] EXCEPT !.kind = "enqueue"]]
    BY <1>4 DEF CommitLoad, LocalsOK
  <2> QED  BY <1>0, <1>4, <2>2, <2>3 DEF CommitLoad, LocalsOK
<1>5. ASSUME NEW c \in Clients, Rollback(c)  PROVE LocalsOK'
  <2>1. CASE End(c)  BY <2>1, EndLocals
  <2>2. CASE ~End(c)  BY <1>0, <1>5, <2>2 DEF Rollback, LocalsOK
  <2> QED  BY <2>1, <2>2
<1>6. ASSUME NEW c \in Clients, StatementFails(c)  PROVE LocalsOK'
  <2>1. CASE End(c)  BY <2>1, EndLocals
  <2>2. CASE ~End(c)  BY <1>0, <1>6, <2>2 DEF StatementFails, locals, LocalsOK
  <2> QED  BY <2>1, <2>2
<1>7. ASSUME LoseConnection  PROVE LocalsOK'
  BY <1>0, <1>7 DEF LoseConnection, locals, LocalsOK
<1>8. ASSUME UNCHANGED vars  PROVE LocalsOK'
  BY <1>8 DEF vars, locals, LocalsOK
<1> QED  BY <1>1, <1>2, <1>3, <1>4, <1>5, <1>6, <1>7, <1>8, StatementLocals DEF Next

-----------------------------------------------------------------------------
(* The history, and what the requests are about *)

LEMMA RowIdsType ==
    ASSUME NEW d, NEW np, NEW nq, NEW nr, SoundWith(d, np, nq, nr)
    PROVE  RowIds(d) \subseteq Nat /\ \A i \in RowIds(d) : i < nr
  BY DEF SoundWith, Tables, Rows, RowIds

LEMMA NextHistory == Typed /\ [Next]_vars => HistoryOK'
<1> SUFFICES ASSUME Typed, [Next]_vars PROVE HistoryOK'  OBVIOUS
<1> USE DEF Typed
<1>1. ASSUME NEW c \in Clients, Write(c) \/ NextProgram(c)  PROVE HistoryOK'
  BY <1>1, WrittenRequests DEF Request, promises, HistoryOK
<1>2. ASSUME NEW c \in Clients, Begin(c)  PROVE HistoryOK'
  <2>1. crossed' \in BOOLEAN  BY <1>2 DEF Begin
  <2> QED  BY <1>2, <2>1 DEF Begin, promises, HistoryOK
<1>3. ASSUME NEW c \in Clients, Commit(c)  PROVE HistoryOK'
  BY <1>3 DEF Commit, CommitWork, history, HistoryOK, LocalsOK
<1>4. ASSUME NEW c \in Clients, CommitLoad(c)  PROVE HistoryOK'
  BY <1>4 DEF CommitLoad, CommitWork, history, HistoryOK
<1>5. ASSUME NEW D \in SUBSET Clients, Undo(D)  PROVE HistoryOK'
  <2>1. undone' \in BOOLEAN  BY <1>5 DEF Undo
  <2>2. hit' \subseteq Clients
    <3>1. CASE open  BY <1>5, <3>1 DEF Undo, HistoryOK
    <3>2. CASE ~open  BY <1>5, <3>2 DEF Undo, HistoryOK
    <3> QED  BY <3>1, <3>2
  <2> QED  BY <1>5, <2>1, <2>2 DEF Undo, HistoryOK
<1>6. ASSUME NEW c \in Clients, StatementFails(c)  PROVE HistoryOK'
  BY <1>6 DEF StatementFails, promises, history, HistoryOK
<1>7. ASSUME NEW c \in Clients, Clear(c)  PROVE HistoryOK'
  BY <1>7, RowIdsType DEF Clear, Execute, history, HistoryOK, TablesOK
<1>8. ASSUME NEW c \in Clients,
             Save(c) \/ Load(c) \/ Create(c) \/ Look(c) \/ Insert(c) \/ Check(c) \/ Take(c)
      PROVE HistoryOK'
  BY <1>8 DEF Save, Load, Create, Look, Insert, Check, Take, Execute, history, HistoryOK
<1>9. ASSUME NEW c \in Clients, NEW stmt, Fill(c, stmt)  PROVE HistoryOK'
  <2>1. \E new, then : Execute(c, stmt, new, then)  BY <1>9 DEF Fill
  <2> QED  BY <1>9, <2>1 DEF Fill, Execute, history, HistoryOK
<1>10. ASSUME UNCHANGED vars  PROVE HistoryOK'
  BY <1>10 DEF vars, promises, history, HistoryOK
<1> QED
  BY <1>1, <1>2, <1>3, <1>4, <1>5, <1>6, <1>7, <1>8, <1>9, <1>10
  DEF Next, Rollback, LoseConnection

LEMMA NextFits == Typed /\ [Next]_vars => Fits'
<1> SUFFICES ASSUME Typed, [Next]_vars PROVE Fits'  OBVIOUS
<1> USE DEF Typed
<1>1. ASSUME NEW c \in Clients, Write(c) \/ NextProgram(c)  PROVE Fits'
  BY <1>1, WrittenRequests DEF Request, promises, Fits, Asking, LocalsOK
<1>2. ASSUME NEW c \in Clients, Begin(c)  PROVE Fits'
  <2>1. \A k : /\ First(k) \in {"create", "look", "insert"} => k = "enqueue"
               /\ First(k) \in {"load", "loaded"} => k = "load"
               /\ First(k) \in {"check", "clear", "fill", "more"} => k = "set"
               /\ First(k) \notin {"clear", "fill", "more"}
    BY DEF First
  <2>2. /\ pc' = [pc EXCEPT ![c] = First(req[c].kind)] /\ mine' = [mine EXCEPT ![c] = {}]
        /\ UNCHANGED <<req, todo, owed, replaced, nextRow>>
    BY <1>2 DEF Begin, counters, promises
  <2> QED  BY <2>1, <2>2 DEF Fits, Asking, LocalsOK
<1>3. ASSUME NEW c \in Clients, Commit(c)  PROVE Fits'
  BY <1>3 DEF Commit, CommitWork, End, counters, Fits, Asking, LocalsOK
<1>4. ASSUME NEW c \in Clients, CommitLoad(c)  PROVE Fits'
  BY <1>4 DEF CommitLoad, CommitWork, counters, Fits, Asking, LocalsOK
<1>5. ASSUME NEW c \in Clients, Rollback(c)  PROVE Fits'
  <2>1. /\ UNCHANGED <<nextRow, owed>> /\ replaced' \subseteq replaced
        /\ \/ End(c)
           \/ pc' = [pc EXCEPT ![c] = "begin"] /\ UNCHANGED <<req, todo, mine>>
    BY <1>5 DEF Rollback, Undo, counters
  <2> QED  BY <2>1 DEF End, Fits, Asking, LocalsOK
<1>6. ASSUME NEW c \in Clients, StatementFails(c)  PROVE Fits'
  <2>1. /\ UNCHANGED <<nextRow, owed, replaced>>
        /\ \/ End(c)
           \/ pc' = [pc EXCEPT ![c] = "rollback"] /\ UNCHANGED <<req, todo, mine>>
    BY <1>6 DEF StatementFails, counters, promises, locals
  <2> QED  BY <2>1 DEF End, Fits, Asking, LocalsOK
<1>7. ASSUME LoseConnection  PROVE Fits'
  <2>1. /\ UNCHANGED <<nextRow, owed, req, todo, mine>> /\ replaced' \subseteq replaced
        /\ pc' = [c \in Clients |-> IF pc[c] = "more" THEN "rollback" ELSE pc[c]]
    BY <1>7 DEF LoseConnection, Undo, counters, locals
  <2> QED  BY <2>1 DEF Fits, Asking, LocalsOK
<1>8. ASSUME NEW c \in Clients, Clear(c)  PROVE Fits'
  <2>1. \A i \in RowIds(db) : i < nextRow  BY RowIdsType DEF TablesOK
  <2>2. pc[c] = "clear" /\ pc' = [pc EXCEPT ![c] = "fill"]  BY <1>8 DEF Clear, Execute
  <2> QED  BY <1>8, <2>1, <2>2 DEF Clear, Execute, Fits, Asking, LocalsOK
<1>9. ASSUME NEW c \in Clients, Save(c) \/ Load(c) \/ Create(c) \/ Look(c) \/ Take(c)
      PROVE Fits'
  BY <1>9 DEF Save, Load, Create, Look, Take, Execute, Fits, Asking, LocalsOK
<1>10. ASSUME NEW c \in Clients, Insert(c)  PROVE Fits'
  <2>1. /\ pc' \in {[pc EXCEPT ![c] = "commit"], [pc EXCEPT ![c] = "rollback"]}
        /\ UNCHANGED <<req, todo, owed, replaced>>
        /\ \/ UNCHANGED <<nextRow, mine>>
           \/ nextRow' = nextRow + 1 /\ mine' = [mine EXCEPT ![c] = {nextRow}]
    BY <1>10 DEF Insert, Execute
  <2>2. \A d \in Clients : Asking(d)'  BY <2>1 DEF Fits, Asking, LocalsOK
  <2>3. /\ owed \subseteq Nat /\ replaced \subseteq Nat /\ nextRow \in Nat
        /\ \A d \in Clients : mine[d] \subseteq Nat
    BY DEF HistoryOK, LocalsOK, TablesOK
  <2>4. \A j \in owed' \cup replaced' : j < nextRow'  BY <2>1, <2>3 DEF Fits
  <2>5. ASSUME NEW d \in Clients, NEW j \in mine'[d]  PROVE j < nextRow'
    <3>1. mine' = mine => j < nextRow /\ j \in Nat  BY <2>3, <2>5 DEF Fits
    <3>2. mine' = [mine EXCEPT ![c] = {nextRow}] => j = nextRow \/ (j < nextRow /\ j \in Nat)
      BY <2>3, <2>5 DEF Fits, LocalsOK
    <3> QED  BY <2>1, <2>3, <3>1, <3>2
  <2> QED  BY <2>2, <2>4, <2>5 DEF Fits
<1>11. ASSUME NEW c \in Clients, Check(c)  PROVE Fits'
  <2>1. /\ todo' = [todo EXCEPT ![c] = {i \in DOMAIN req[c].ids : req[c].ids[i] \in db.programs}]
        /\ pc[c] = "check" /\ pc' \in {[pc EXCEPT ![c] = "commit"], [pc EXCEPT ![c] = "clear"]}
        /\ UNCHANGED <<nextRow, owed, replaced, req, mine>>
    BY <1>11 DEF Check, Execute
  <2>2. todo'[c] \subseteq DOMAIN req[c].ids /\ \A d \in Clients \ {c} : todo'[d] = todo[d]
    BY <2>1 DEF LocalsOK
  <2> QED  BY <2>1, <2>2 DEF Fits, Asking, LocalsOK
<1>12. ASSUME NEW c \in Clients, NEW stmt \in {"fill", "more"}, Fill(c, stmt)  PROVE Fits'
  <2>1. PICK i \in todo[c] :
          /\ todo' = [todo EXCEPT ![c] = @ \ {i}]
          /\ \E new : Execute(c, stmt, new, IF todo[c] = {i} THEN "commit" ELSE "more")
          /\ \/ UNCHANGED <<nextRow, mine>>
             \/ nextRow' = nextRow + 1 /\ mine' = [mine EXCEPT ![c] = @ \cup {nextRow}]
    BY <1>12 DEF Fill
  <2>2. /\ pc[c] = stmt
        /\ pc' \in {[pc EXCEPT ![c] = "commit"], [pc EXCEPT ![c] = "more"]}
        /\ UNCHANGED <<req, owed, replaced>>
    BY <1>12, <2>1 DEF Fill, Execute
  <2>3. \A d \in Clients : Asking(d)'  BY <2>1, <2>2 DEF Fits, Asking, LocalsOK
  <2>4. owed \subseteq Nat /\ replaced \subseteq Nat /\ \A d \in Clients : mine[d] \subseteq Nat
    BY DEF HistoryOK, LocalsOK
  <2>5. nextRow \in Nat  BY DEF TablesOK
  <2>6. \A j \in owed' \cup replaced' : j < nextRow'  BY <2>1, <2>2, <2>4, <2>5 DEF Fits
  <2>7. ASSUME NEW d \in Clients, NEW j \in mine'[d]  PROVE j < nextRow'
    <3>1. j \in Nat \/ j = nextRow  BY <2>1, <2>4, <2>7 DEF LocalsOK
    <3>2. mine' = mine => j < nextRow  BY <2>7 DEF Fits
    <3>3. mine' = [mine EXCEPT ![c] = @ \cup {nextRow}] => j < nextRow \/ j = nextRow
      BY <2>7 DEF Fits, LocalsOK
    <3> QED  BY <2>1, <2>5, <3>1, <3>2, <3>3
  <2> QED  BY <2>3, <2>6, <2>7 DEF Fits
<1>13. ASSUME UNCHANGED vars  PROVE Fits'
  BY <1>13 DEF vars, counters, locals, promises, Fits, Asking
<1> QED
  BY <1>1, <1>2, <1>3, <1>4, <1>5, <1>6, <1>7, <1>8, <1>9, <1>10, <1>11, <1>12, <1>13 DEF Next

LEMMA InitTyped == Init => Typed
<1> SUFFICES ASSUME Init PROVE Typed  OBVIOUS
<1> USE DEF Init
<1>1. TablesOK
  <2>1. \A p \in 1 .. Stored : p \in Nat /\ p < Stored + 1  BY StoredAssumption
  <2>2. SoundWith(db, Stored + 1, 1, 1)  BY <2>1 DEF SoundWith, Tables
  <2>3. open \in BOOLEAN /\ alive \in BOOLEAN  OBVIOUS
  <2> QED  BY <2>2, <2>3, StoredAssumption DEF TablesOK
<1>2. LocalsOK
  <2>1. "idle" \in Statements  BY DEF Statements
  <2>2. tried \in [Clients -> BOOLEAN]  OBVIOUS
  <2> QED  BY <2>1, <2>2, NoRequestType DEF LocalsOK
<1>3. HistoryOK
  <2>1. undone \in BOOLEAN /\ crossed \in BOOLEAN  OBVIOUS
  <2> QED  BY <2>1 DEF HistoryOK
<1>4. Fits  BY DEF Fits, Asking
<1> QED  BY <1>1, <1>2, <1>3, <1>4 DEF Typed

LEMMA QueueTyped == Spec => []Typed
<1>1. Typed /\ [Next]_vars => Typed'
  BY NextTables, NextLocals, NextHistory, NextFits DEF Typed
<1> QED  BY <1>1, InitTyped, PTL DEF Spec

\* The tables are sound, as they are seen and as they are committed, and differ only while a
\* transaction is open, whatever transactions run into each other.
THEOREM QueueTypeCorrect == Spec => []TypeOK
<1>1. Typed => TypeOK  BY TypeParts DEF Typed
<1> QED  BY <1>1, QueueTyped, PTL

-----------------------------------------------------------------------------
(* Promises kept *)

ProperIn(d, r) == r.program \in d.programs /\ \E q \in d.queues : q.id = r.queue

\* The rows of these ids, but for those that are gone, are there and proper.
Kept(ids, d, gone) ==
    /\ \A i \in ids \ gone : \E r \in d.rows : r.id = i
    /\ \A r \in d.rows : r.id \in ids => ProperIn(d, r)

Settled ==
    /\ Kept(owed, db, replaced) /\ Kept(owed, durable, replaced)
    /\ shelved \subseteq db.programs \cap durable.programs

Untouched ==
    ~undone => /\ hit = {}
               /\ \A r \in db.rows : ProperIn(db, r)
               /\ \A r \in durable.rows : ProperIn(durable, r)

\* What a request that nobody has undone may rely on at its next statement.
Faithful(c) ==
    /\ pc[c] = "loaded" => req[c].program \in db.programs
    /\ req[c].kind = "enqueue" => req[c].program \in db.programs \cap durable.programs
    /\ pc[c] = "insert" /\ held[c] # 0 => \E q \in db.queues : q.id = held[c]
    /\ pc[c] \in {"clear", "fill", "more"} => \A i \in todo[c] : req[c].ids[i] \in db.programs
    /\ pc[c] = "commit" /\ req[c].kind = "save" => held[c] \in db.programs
    /\ InTxn(c) => Kept(mine[c], db, replaced)

Keeping == Settled /\ Untouched /\ \A c \in Clients \ hit : Faithful(c)

\* Tables that grow, but for rows that go the proper way, keep what they kept.
LEMMA KeptGrows ==
    ASSUME NEW ids, NEW d, NEW e, NEW gone, NEW gone2, Kept(ids, d, gone),
           d.programs \subseteq e.programs, d.queues \subseteq e.queues, gone \subseteq gone2,
           \A r \in d.rows : r \in e.rows \/ r.id \in gone2,
           \A r \in e.rows \ d.rows : r.id \notin ids \/ ProperIn(e, r)
    PROVE  Kept(ids, e, gone2)
<1>1. \A r \in d.rows : ProperIn(d, r) => ProperIn(e, r)  BY DEF ProperIn
<1> QED  BY <1>1 DEF Kept

LEMMA KeptBoth ==
    ASSUME NEW a, NEW b, NEW d, NEW gone, Kept(a, d, gone), Kept(b, d, gone)
    PROVE  Kept(a \cup b, d, gone)
  BY DEF Kept

LEMMA KeptThere ==
    ASSUME NEW ids, NEW d, NEW gone, Kept(ids, d, gone)
    PROVE  Kept(ids, d, gone \ RowIds(d))
  BY DEF Kept, RowIds

\* What a statement of c does to the tables, and leaves to the others.
Grows(c) ==
    /\ db.programs \subseteq db'.programs /\ db.queues \subseteq db'.queues
    /\ replaced \subseteq replaced'
    /\ \A r \in db.rows : r \in db'.rows \/ r.id \in replaced'
    /\ \A r \in db'.rows \ db.rows : r.id = nextRow /\ (c \notin hit => ProperIn(db', r))
    /\ durable' = durable \/ (durable = db /\ durable' = db')
    /\ UNCHANGED <<owed, shelved, hit, undone>>
    /\ \A d \in Clients \ {c} :
          /\ pc'[d] = pc[d] /\ req'[d] = req[d] /\ held'[d] = held[d]
          /\ todo'[d] = todo[d] /\ mine'[d] = mine[d]

LEMMA GrowsKeeps ==
    ASSUME Typed, Keeping, NEW c \in Clients, Grows(c), c \in hit \/ Faithful(c)'
    PROVE  Keeping'
<1>1. /\ nextRow \notin owed
      /\ \A d \in Clients : nextRow \notin mine[d]
      /\ nextRow \in Nat
  BY DEF Typed, Fits, TablesOK
<1>2. Kept(owed', db', replaced')
  BY <1>1, KeptGrows DEF Keeping, Settled, Grows
<1>3. Kept(owed, durable, replaced')
  BY KeptGrows DEF Keeping, Settled, Grows
<1>4. Settled'
  BY <1>2, <1>3 DEF Keeping, Settled, Grows
<1>5. Untouched'
  <2> SUFFICES ASSUME ~undone
               PROVE  /\ hit = {}
                      /\ \A r \in db'.rows : ProperIn(db', r)
                      /\ \A r \in durable'.rows : ProperIn(durable', r)
    BY DEF Untouched, Grows
  <2>1. hit = {} /\ (\A r \in db.rows : ProperIn(db, r))
        /\ \A r \in durable.rows : ProperIn(durable, r)
    BY DEF Keeping, Untouched
  <2>2. \A r \in db'.rows : ProperIn(db', r)
    BY <2>1 DEF Grows, ProperIn
  <2> QED  BY <2>1, <2>2 DEF Grows
<1>6. ASSUME NEW d \in Clients \ {c}, d \notin hit  PROVE Faithful(d)'
  <2>1. Faithful(d)  BY <1>6 DEF Keeping
  <2>2. /\ pc'[d] = pc[d] /\ req'[d] = req[d] /\ held'[d] = held[d]
        /\ todo'[d] = todo[d] /\ mine'[d] = mine[d]
        /\ db.programs \subseteq db'.programs /\ db.queues \subseteq db'.queues
        /\ durable' = durable \/ (durable = db /\ durable' = db')
    BY DEF Grows
  <2>3. InTxn(d) => Kept(mine[d], db', replaced')
    BY <1>1, <2>1, KeptGrows DEF Faithful, Grows
  <2> QED  BY <2>1, <2>2, <2>3 DEF Faithful, InTxn
<1> QED  BY <1>4, <1>5, <1>6 DEF Keeping, Grows

LEMMA TableFields ==
    ASSUME NEW d \in Tables, NEW X
    PROVE  /\ [d EXCEPT !.programs = X].programs = X
           /\ [d EXCEPT !.programs = X].queues = d.queues
           /\ [d EXCEPT !.programs = X].rows = d.rows
           /\ [d EXCEPT !.queues = X].programs = d.programs
           /\ [d EXCEPT !.queues = X].queues = X
           /\ [d EXCEPT !.queues = X].rows = d.rows
           /\ [d EXCEPT !.rows = X].programs = d.programs
           /\ [d EXCEPT !.rows = X].queues = d.queues
           /\ [d EXCEPT !.rows = X].rows = X
  BY DEF Tables

\* The rows are as they were.
LEMMA GrowsInPlace ==
    ASSUME Typed, NEW c \in Clients, NEW stmt, NEW new, NEW then, Execute(c, stmt, new, then),
           db.programs \subseteq new.programs, db.queues \subseteq new.queues, new.rows = db.rows,
           replaced' = replaced,
           \A d \in Clients \ {c} : /\ req'[d] = req[d] /\ held'[d] = held[d]
                                    /\ todo'[d] = todo[d] /\ mine'[d] = mine[d]
    PROVE  Grows(c)
  BY DEF Typed, TablesOK, LocalsOK, Execute, Grows, history

LEMMA GrowsByRow ==
    ASSUME Typed, NEW c \in Clients, NEW stmt, NEW q, NEW p, NEW then,
           Execute(c, stmt, AddRow(c, q, p), then),
           c \notin hit => p \in db.programs /\ \E k \in db.queues : k.id = q,
           replaced' = replaced,
           \A d \in Clients \ {c} : /\ req'[d] = req[d] /\ held'[d] = held[d]
                                    /\ todo'[d] = todo[d] /\ mine'[d] = mine[d]
    PROVE  Grows(c)
<1> DEFINE row == [id |-> nextRow, queue |-> q, program |-> p]
<1>1. db' = AddRow(c, q, p) /\ db \in Tables  BY DEF Execute, Typed, TablesOK, SoundWith
<1>2. /\ db'.programs = db.programs /\ db'.queues = db.queues
      /\ db'.rows = db.rows \cup {row}
  BY <1>1, TableFields DEF AddRow
<1>3. c \notin hit => ProperIn(db', row)  BY <1>2 DEF ProperIn
<1>4. durable' = durable \/ (durable = db /\ durable' = db')
  BY DEF Execute, Typed, TablesOK
<1> HIDE DEF row
<1>5. \A r \in db'.rows \ db.rows : r = row  BY <1>2
<1>6. row.id = nextRow  BY DEF row
<1> QED  BY <1>2, <1>3, <1>4, <1>5, <1>6 DEF Execute, Grows, history, Typed, LocalsOK

LEMMA SaveKeeps == ASSUME Typed, Keeping, NEW c \in Clients, Save(c)  PROVE Keeping'
<1>1. /\ db'.programs = db.programs \cup {nextProgram}
      /\ db'.queues = db.queues /\ db'.rows = db.rows
  BY TableFields DEF Save, Execute, Typed, TablesOK, SoundWith
<1>2. Grows(c)  BY <1>1, GrowsInPlace DEF Save, Typed, LocalsOK, Execute
<1>3. ASSUME c \notin hit  PROVE Faithful(c)'
  <2>1. Faithful(c) /\ InTxn(c)  BY <1>3 DEF Keeping, InTxn, Save, Execute
  <2>2. Kept(mine[c], db', replaced')
    BY <1>1, <1>2, <2>1, KeptGrows DEF Faithful, Grows, Save
  <2>3. /\ pc'[c] = "commit" /\ held'[c] = nextProgram /\ req' = req /\ mine' = mine
        /\ durable' = durable \/ durable' = db'
    BY DEF Save, Execute, Typed, LocalsOK
  <2> QED  BY <1>1, <2>1, <2>2, <2>3 DEF Faithful
<1> QED  BY <1>2, <1>3, GrowsKeeps

LEMMA LoadKeeps == ASSUME Typed, Keeping, NEW c \in Clients, Load(c) \/ Take(c)  PROVE Keeping'
<1>1. db' = db /\ req' = req /\ mine' = mine /\ durable' = durable /\ replaced' = replaced
  BY DEF Load, Take, Execute, Typed, TablesOK
<1>2. Grows(c)  BY GrowsInPlace DEF Load, Take
<1>3. ASSUME c \notin hit  PROVE Faithful(c)'
  <2>1. Faithful(c) /\ InTxn(c)  BY <1>3 DEF Keeping, InTxn, Load, Take, Execute
  <2>2. /\ pc[c] = "load" => req[c].kind = "load"
        /\ \/ pc'[c] = "rollback"
           \/ pc[c] = "load" /\ pc'[c] = IF req[c].program \in db.programs THEN "loaded" ELSE "commit"
    BY DEF Load, Take, Execute, Typed, LocalsOK, Fits, Asking
  <2> QED  BY <1>1, <2>1, <2>2 DEF Faithful
<1> QED  BY <1>2, <1>3, GrowsKeeps

LEMMA CreateKeeps == ASSUME Typed, Keeping, NEW c \in Clients, Create(c)  PROVE Keeping'
<1>1. db'.programs = db.programs /\ db.queues \subseteq db'.queues /\ db'.rows = db.rows
  <2> DEFINE Q == db.queues \cup {[id |-> nextQueue, name |-> Column[req[c].name]]}
  <2>1. db \in Tables  BY DEF Typed, TablesOK, SoundWith
  <2>2. db' = db \/ db' = [db EXCEPT !.queues = Q]  BY DEF Create, Execute
  <2>3. db.queues \subseteq Q  OBVIOUS
  <2>4. \A X : /\ [db EXCEPT !.queues = X].programs = db.programs
               /\ [db EXCEPT !.queues = X].queues = X
               /\ [db EXCEPT !.queues = X].rows = db.rows
    BY <2>1, TableFields
  <2> HIDE DEF Q
  <2> QED  BY <2>2, <2>3, <2>4
<1>2. Grows(c)
  <2>1. \E stmt, then : Execute(c, stmt, db', then)  BY DEF Create, Execute
  <2> QED  BY <1>1, <2>1, GrowsInPlace DEF Create
<1>3. ASSUME c \notin hit  PROVE Faithful(c)'
  <2>1. Faithful(c) /\ InTxn(c)  BY <1>3 DEF Keeping, InTxn, Create, Execute
  <2>2. Kept(mine[c], db', replaced')
    BY <1>1, <1>2, <2>1, KeptGrows DEF Faithful, Grows, Create
  <2>3. /\ pc'[c] = "look" /\ req' = req /\ mine' = mine
        /\ durable' = durable \/ durable' = db'
    BY DEF Create, Execute, Typed, LocalsOK
  <2> QED  BY <1>1, <2>1, <2>2, <2>3 DEF Faithful
<1> QED  BY <1>2, <1>3, GrowsKeeps

LEMMA LookKeeps == ASSUME Typed, Keeping, NEW c \in Clients, Look(c)  PROVE Keeping'
<1>1. /\ db' = db /\ req' = req /\ mine' = mine /\ durable' = durable /\ replaced' = replaced
      /\ pc[c] = "look" /\ pc'[c] = "insert"
  BY DEF Look, Execute, Typed, TablesOK, LocalsOK
<1>2. Grows(c)  BY GrowsInPlace DEF Look, Typed, LocalsOK
<1>3. ASSUME c \notin hit  PROVE Faithful(c)'
  <2>1. Faithful(c) /\ InTxn(c)  BY <1>1, <1>3 DEF Keeping, InTxn
  <2>2. held'[c] = 0 \/ held'[c] \in IdsOf(db, req[c].name)  BY DEF Look, Typed, LocalsOK
  <2> QED  BY <1>1, <2>1, <2>2 DEF Faithful, IdsOf
<1> QED  BY <1>2, <1>3, GrowsKeeps

LEMMA InsertKeeps == ASSUME Typed, Keeping, NEW c \in Clients, Insert(c)  PROVE Keeping'
<1>1. pc[c] = "insert" /\ req[c].kind = "enqueue"
  BY DEF Insert, Execute, Typed, Fits, Asking
<1>2. c \notin hit => Faithful(c) /\ InTxn(c)  BY <1>1 DEF Keeping, InTxn
<1>3. CASE held[c] = 0
  <2>1. /\ db' = db /\ req' = req /\ mine' = mine /\ durable' = durable /\ replaced' = replaced
        /\ pc'[c] = "rollback"
    BY <1>3 DEF Insert, Execute, Typed, TablesOK, LocalsOK
  <2>2. Grows(c)  BY <1>3, GrowsInPlace DEF Insert
  <2>3. c \notin hit => Faithful(c)'  BY <1>1, <1>2, <2>1 DEF Faithful
  <2> QED  BY <2>2, <2>3, GrowsKeeps
<1>4. CASE held[c] # 0
  <2>1. Execute(c, "insert", AddRow(c, held[c], req[c].program), "commit")
    BY <1>4 DEF Insert
  <2>2. c \notin hit => req[c].program \in db.programs /\ \E k \in db.queues : k.id = held[c]
    BY <1>1, <1>2, <1>4 DEF Faithful
  <2>3. Grows(c)  BY <1>4, <2>1, <2>2, GrowsByRow DEF Insert, Typed, LocalsOK
  <2>4. ASSUME c \notin hit  PROVE Faithful(c)'
    <3> DEFINE row == [id |-> nextRow, queue |-> held[c], program |-> req[c].program]
    <3>1. /\ db'.programs = db.programs /\ db'.queues = db.queues
          /\ db'.rows = db.rows \cup {row}
      BY <2>1, TableFields DEF AddRow, Execute, Typed, TablesOK, SoundWith
    <3>2. row.id = nextRow /\ ProperIn(db', row)  BY <2>2, <2>4, <3>1 DEF ProperIn
    <3>3. \A r \in db.rows : r.id # nextRow
      BY DEF Typed, TablesOK, SoundWith, Tables, Rows
    <3>4. Kept({nextRow}, db', replaced')
      <4> HIDE DEF row
      <4> QED  BY <3>1, <3>2, <3>3 DEF Kept
    <3>5. /\ pc'[c] = "commit" /\ req' = req /\ mine'[c] = {nextRow}
          /\ durable' = durable \/ durable' = db'
      BY <1>4, <2>1 DEF Insert, Execute, Typed, LocalsOK
    <3> QED  BY <1>1, <1>2, <2>4, <3>1, <3>4, <3>5 DEF Faithful
  <2> QED  BY <2>3, <2>4, GrowsKeeps
<1> QED  BY <1>3, <1>4

LEMMA CheckKeeps == ASSUME Typed, Keeping, NEW c \in Clients, Check(c)  PROVE Keeping'
<1> DEFINE found == {i \in DOMAIN req[c].ids : req[c].ids[i] \in db.programs}
<1>1. /\ db' = db /\ req' = req /\ mine' = mine /\ durable' = durable /\ replaced' = replaced
      /\ pc[c] = "check" /\ req[c].kind = "set" /\ pc'[c] \in {"commit", "clear"}
      /\ todo'[c] = found
  BY DEF Check, Execute, Typed, TablesOK, LocalsOK, Fits, Asking
<1>2. Grows(c)  BY GrowsInPlace DEF Check, Typed, LocalsOK
<1>3. ASSUME c \notin hit  PROVE Faithful(c)'
  <2>1. Faithful(c) /\ InTxn(c)  BY <1>1, <1>3 DEF Keeping, InTxn
  <2> QED  BY <1>1, <2>1 DEF Faithful
<1> QED  BY <1>2, <1>3, GrowsKeeps

LEMMA ClearKeeps == ASSUME Typed, Keeping, NEW c \in Clients, Clear(c)  PROVE Keeping'
<1> DEFINE rest == {r \in db.rows : r.queue \notin IdsOf(db, req[c].name)}
           new == [db EXCEPT !.rows = {r \in @ : r.queue \notin IdsOf(db, req[c].name)}]
<1>1. new.programs = db.programs /\ new.queues = db.queues /\ new.rows = rest
  <2>1. \A X : /\ [db EXCEPT !.rows = X].programs = db.programs
               /\ [db EXCEPT !.rows = X].queues = db.queues
               /\ [db EXCEPT !.rows = X].rows = X
    BY TableFields DEF Typed, TablesOK, SoundWith
  <2> QED  BY <2>1
<1>2. Execute(c, "clear", new, "fill") /\ replaced' = replaced \cup (RowIds(db) \ RowIds(new))
  BY DEF Clear
<1> HIDE DEF new
<1>3. \A r \in db.rows : r \in new.rows \/ r.id \in RowIds(db) \ RowIds(new)
  BY <1>1 DEF RowIds, Typed, TablesOK, SoundWith
<1>4. Grows(c)
  <2>1. db' = new /\ (durable' = durable \/ (durable = db /\ durable' = db'))
    BY <1>2 DEF Execute, Typed, TablesOK
  <2> QED  BY <1>1, <1>2, <1>3, <2>1 DEF Clear, Execute, Grows, history, Typed, LocalsOK
<1>5. ASSUME c \notin hit  PROVE Faithful(c)'
  <2>1. /\ pc[c] = "clear" /\ pc'[c] = "fill" /\ req[c].kind = "set" /\ db' = new
        /\ req' = req /\ mine' = mine /\ todo' = todo
    BY <1>2 DEF Clear, Execute, Typed, LocalsOK, Fits, Asking
  <2>2. Faithful(c) /\ InTxn(c)  BY <1>5, <2>1 DEF Keeping, InTxn
  <2>3. Kept(mine[c], db', replaced')
    BY <1>1, <1>4, <2>1, <2>2, KeptGrows DEF Faithful, Grows
  <2> QED  BY <1>1, <2>1, <2>2, <2>3 DEF Faithful
<1> QED  BY <1>4, <1>5, GrowsKeeps

LEMMA FillKeeps ==
    ASSUME Typed, Keeping, NEW c \in Clients, NEW stmt \in {"fill", "more"}, Fill(c, stmt)
    PROVE  Keeping'
<1>1. PICK i \in todo[c] :
        /\ todo' = [todo EXCEPT ![c] = @ \ {i}]
        /\ LET ids == IdsOf(db, req[c].name)
               then == IF todo[c] = {i} THEN "commit" ELSE "more"
           IN  IF ids = {}
               THEN Execute(c, stmt, db, then) /\ UNCHANGED <<nextRow, mine>>
               ELSE /\ \E q \in ids : Execute(c, stmt, AddRow(c, q, req[c].ids[i]), then)
                    /\ mine' = [mine EXCEPT ![c] = @ \cup {nextRow}]
  BY DEF Fill
<1>2. /\ pc[c] = stmt /\ req[c].kind = "set" /\ req' = req /\ held' = held
      /\ replaced' = replaced /\ pc'[c] \in {"commit", "more"}
      /\ todo'[c] \subseteq todo[c]
      /\ i \in DOMAIN req[c].ids
  BY <1>1 DEF Fill, Execute, Typed, LocalsOK, Fits, Asking
<1>3. c \notin hit => Faithful(c) /\ InTxn(c)  BY <1>2 DEF Keeping, InTxn
<1>4. CASE IdsOf(db, req[c].name) = {}
  <2>1. \E then : Execute(c, stmt, db, then)  BY <1>1, <1>4
  <2>2. db' = db /\ mine' = mine /\ durable' = durable
    BY <1>1, <1>4 DEF Execute, Typed, TablesOK
  <2>3. Grows(c)  BY <1>1, <1>2, <2>1, <2>2, GrowsInPlace DEF Typed, LocalsOK
  <2>4. c \notin hit => Faithful(c)'  BY <1>2, <1>3, <2>2 DEF Faithful
  <2> QED  BY <2>3, <2>4, GrowsKeeps
<1>5. CASE IdsOf(db, req[c].name) # {}
  <2>1. PICK q \in IdsOf(db, req[c].name) :
          \E then : Execute(c, stmt, AddRow(c, q, req[c].ids[i]), then)
    BY <1>1, <1>5
  <2>2. mine' = [mine EXCEPT ![c] = @ \cup {nextRow}]  BY <1>1, <1>5
  <2>3. c \notin hit => req[c].ids[i] \in db.programs /\ \E k \in db.queues : k.id = q
    BY <1>2, <1>3, <2>1 DEF Faithful, IdsOf
  <2>4. Grows(c)
    BY <1>1, <1>2, <2>1, <2>2, <2>3, GrowsByRow DEF Typed, LocalsOK
  <2>5. ASSUME c \notin hit  PROVE Faithful(c)'
    <3> DEFINE row == [id |-> nextRow, queue |-> q, program |-> req[c].ids[i]]
    <3>1. /\ db'.programs = db.programs /\ db'.queues = db.queues
          /\ db'.rows = db.rows \cup {row}
      BY <2>1, TableFields DEF AddRow, Execute, Typed, TablesOK, SoundWith
    <3>2. row.id = nextRow /\ ProperIn(db', row)  BY <2>3, <2>5, <3>1 DEF ProperIn
    <3>3. \A r \in db.rows : r.id # nextRow
      BY DEF Typed, TablesOK, SoundWith, Tables, Rows
    <3> HIDE DEF row
    <3>4. Kept({nextRow}, db', replaced')  BY <3>1, <3>2, <3>3 DEF Kept
    <3>5. nextRow \notin mine[c]  BY DEF Typed, Fits, TablesOK
    <3>6. Kept(mine[c], db', replaced')
      BY <1>3, <2>4, <2>5, <3>5, KeptGrows DEF Faithful, Grows
    <3>7. mine'[c] = mine[c] \cup {nextRow}  BY <2>2 DEF Typed, LocalsOK
    <3>8. Kept(mine'[c], db', replaced')  BY <3>4, <3>6, <3>7, KeptBoth
    <3> QED  BY <1>2, <1>3, <2>5, <3>1, <3>8 DEF Faithful
  <2> QED  BY <2>4, <2>5, GrowsKeeps
<1> QED  BY <1>4, <1>5

\* Transactions.
LEMMA RequestKeeps ==
    ASSUME Typed, Keeping, NEW c \in Clients, Write(c) \/ NextProgram(c)  PROVE Keeping'
<1>1. PICK r \in Requests : r.kind # "enqueue" /\ Request(c, r)  BY WrittenRequests
<1>2. /\ UNCHANGED <<db, durable, owed, shelved, replaced, undone>> /\ hit' = hit \ {c}
      /\ pc'[c] = "begin" /\ req'[c].kind # "enqueue"
      /\ \A d \in Clients \ {c} : /\ pc'[d] = pc[d] /\ req'[d] = req[d] /\ held'[d] = held[d]
                                  /\ todo'[d] = todo[d] /\ mine'[d] = mine[d]
  BY <1>1 DEF Request, tables, promises, Typed, LocalsOK
<1>3. Faithful(c)'  BY <1>2 DEF Faithful, InTxn
<1>4. \A d \in Clients \ {c} : d \notin hit => Faithful(d)'
  BY <1>2 DEF Keeping, Faithful, InTxn
<1>5. Settled' /\ Untouched'  BY <1>2 DEF Keeping, Settled, Untouched
<1> QED  BY <1>2, <1>3, <1>4, <1>5 DEF Keeping

LEMMA BeginKeeps == ASSUME Typed, Keeping, NEW c \in Clients, Begin(c)  PROVE Keeping'
<1>1. /\ UNCHANGED <<db, owed, shelved, replaced, hit, undone, req, held, todo>> /\ durable' = db
      /\ pc'[c] = First(req[c].kind) /\ mine'[c] = {}
      /\ \A d \in Clients \ {c} : pc'[d] = pc[d] /\ mine'[d] = mine[d]
  BY DEF Begin, counters, promises, Typed, LocalsOK
<1>2. /\ First(req[c].kind) \notin {"loaded", "insert", "clear", "fill", "more", "commit"}
  BY DEF First
<1>3. Kept({}, db, replaced)  BY DEF Kept
<1>4. c \notin hit => Faithful(c)'  BY <1>1, <1>2, <1>3 DEF Keeping, Faithful
<1>5. \A d \in Clients \ {c} : d \notin hit => Faithful(d)'
  BY <1>1 DEF Keeping, Faithful, InTxn
<1>6. Settled' /\ Untouched'  BY <1>1 DEF Keeping, Settled, Untouched
<1> QED  BY <1>1, <1>4, <1>5, <1>6 DEF Keeping

LEMMA EndFaithful == ASSUME LocalsOK, NEW c \in Clients, End(c)  PROVE Faithful(c)'
<1>1. pc'[c] = "idle" /\ req'[c] = NoRequest  BY DEF End, LocalsOK
<1> QED  BY <1>1 DEF Faithful, InTxn, NoRequest

LEMMA CommitKeeps == ASSUME Typed, Keeping, NEW c \in Clients, Commit(c)  PROVE Keeping'
<1>1. /\ UNCHANGED <<db, replaced, hit, undone>> /\ durable' = db
      /\ pc[c] = "commit"
      /\ owed' = IF c \in hit THEN owed ELSE owed \cup mine[c]
      /\ shelved' = IF req[c].kind = "save" /\ c \notin hit THEN shelved \cup {held[c]} ELSE shelved
      /\ End(c)
  BY DEF Commit, CommitWork, history
<1>2. c \notin hit => Kept(mine[c], db, replaced) /\ (req[c].kind = "save" => held[c] \in db.programs)
  BY <1>1 DEF Keeping, Faithful, InTxn
<1>3. Kept(owed', db, replaced)  BY <1>1, <1>2, KeptBoth DEF Keeping, Settled
<1>4. Settled'  BY <1>1, <1>2, <1>3 DEF Keeping, Settled
<1>5. Untouched'  BY <1>1 DEF Keeping, Untouched
<1>6. Faithful(c)'  BY <1>1, EndFaithful DEF Typed
<1>7. \A d \in Clients \ {c} : /\ pc'[d] = pc[d] /\ req'[d] = req[d] /\ held'[d] = held[d]
                             /\ todo'[d] = todo[d] /\ mine'[d] = mine[d]
  BY <1>1 DEF End, Typed, LocalsOK
<1>8. \A d \in Clients \ {c} : d \notin hit => Faithful(d)'
  BY <1>1, <1>7 DEF Keeping, Faithful, InTxn
<1> QED  BY <1>1, <1>4, <1>5, <1>6, <1>8 DEF Keeping

LEMMA CommitLoadKeeps == ASSUME Typed, Keeping, NEW c \in Clients, CommitLoad(c)  PROVE Keeping'
<1>1. /\ UNCHANGED <<db, replaced, hit, undone, owed, shelved, held, todo, mine>> /\ durable' = db
      /\ pc[c] = "loaded" /\ pc'[c] = "begin" /\ req'[c].program = req[c].program
      /\ \A d \in Clients \ {c} : pc'[d] = pc[d] /\ req'[d] = req[d]
  <2>1. req[c] \in Requests /\ req[c].kind = "load"
    BY DEF CommitLoad, Typed, LocalsOK, Fits, Asking
  <2>2. [req[c] EXCEPT !.kind = "enqueue"].program = req[c].program
    BY <2>1 DEF Requests
  <2> QED  BY <2>2 DEF CommitLoad, CommitWork, history, Typed, LocalsOK
<1>2. Settled' /\ Untouched'  BY <1>1 DEF Keeping, Settled, Untouched
<1>3. c \notin hit => Faithful(c)'  BY <1>1 DEF Keeping, Faithful, InTxn
<1>4. \A d \in Clients \ {c} : d \notin hit => Faithful(d)'
  BY <1>1 DEF Keeping, Faithful, InTxn
<1> QED  BY <1>1, <1>2, <1>3, <1>4 DEF Keeping

\* What an undo leaves is what was committed, and those whom it hits are told apart.
LEMMA UndoSettles ==
    ASSUME Typed, Keeping, NEW D \in SUBSET Clients, Undo(D)
    PROVE  Settled' /\ Untouched'
<1>1. /\ db' = durable /\ durable' = durable /\ replaced' = replaced \ RowIds(durable)
      /\ UNCHANGED <<owed, shelved>>
      /\ hit' = (IF open THEN hit \cup D ELSE hit)
      /\ undone' = (undone \/ (open /\ D # {}))
  BY DEF Undo
<1>2. Kept(owed, durable, replaced')  BY <1>1, KeptThere DEF Keeping, Settled
<1>3. Settled'  BY <1>1, <1>2 DEF Keeping, Settled
<1>4. Untouched'  BY <1>1 DEF Keeping, Untouched
<1> QED  BY <1>3, <1>4

\* Outside of a transaction nothing is undone.
LEMMA UndoNothing ==
    ASSUME Typed, Keeping, NEW D \in SUBSET Clients, Undo(D), ~open,
           NEW d \in Clients \ hit,
           req'[d] = req[d], held'[d] = held[d], todo'[d] = todo[d], mine'[d] = mine[d],
           pc'[d] = pc[d] \/ (pc[d] # "begin" /\ pc[d] # "idle" /\ pc'[d] = "rollback")
    PROVE  Faithful(d)'
<1>1. db' = db /\ durable' = db /\ replaced' = replaced \ RowIds(db) /\ durable = db
  BY DEF Undo, Typed, TablesOK
<1>2. Faithful(d)  BY DEF Keeping
<1>3. InTxn(d) => Kept(mine[d], db', replaced')
  BY <1>1, <1>2, KeptThere DEF Faithful
<1> QED  BY <1>1, <1>2, <1>3 DEF Faithful, InTxn

LEMMA RollbackKeeps == ASSUME Typed, Keeping, NEW c \in Clients, Rollback(c)  PROVE Keeping'
<1> DEFINE D == {d \in Clients \ {c} : Busy(d)}
<1>1. Undo(D)  BY DEF Rollback
<1>2. Settled' /\ Untouched'  BY <1>1, UndoSettles
<1>3. /\ pc[c] = "rollback"
      /\ \/ End(c)
         \/ pc' = [pc EXCEPT ![c] = "begin"] /\ UNCHANGED <<req, held, todo, mine>>
  BY DEF Rollback
<1>4. \A d \in Clients \ {c} : /\ pc'[d] = pc[d] /\ req'[d] = req[d] /\ held'[d] = held[d]
                             /\ todo'[d] = todo[d] /\ mine'[d] = mine[d]
  BY <1>3 DEF End, Typed, LocalsOK
<1>5. ASSUME c \notin hit  PROVE Faithful(c)'
  <2>1. CASE End(c)  BY <2>1, EndFaithful DEF Typed
  <2>2. CASE ~End(c)
    <3>1. pc'[c] = "begin" /\ req' = req /\ db' = durable /\ durable' = durable
      BY <1>1, <1>3, <2>2 DEF Undo, Typed, LocalsOK
    <3> QED  BY <1>5, <3>1 DEF Keeping, Faithful, InTxn
  <2> QED  BY <2>1, <2>2
<1>6. ASSUME NEW d \in Clients \ {c}, d \notin hit'  PROVE Faithful(d)'
  <2>1. CASE open
    <3>1. ~Busy(d)  BY <1>1, <1>6, <2>1 DEF Undo
    <3>2. pc[d] = "idle"  BY <3>1 DEF Busy
    <3>3. d \notin hit  BY <1>1, <1>6 DEF Undo
    <3>4. req[d].kind = "enqueue" => req[d].program \in durable.programs
      BY <3>3 DEF Keeping, Faithful
    <3>5. db' = durable /\ durable' = durable  BY <1>1 DEF Undo
    <3> QED  BY <1>4, <3>2, <3>4, <3>5 DEF Faithful, InTxn
  <2>2. CASE ~open
    <3>1. d \notin hit  BY <1>1, <1>6 DEF Undo
    <3> QED  BY <1>1, <1>4, <2>2, <3>1, UndoNothing
  <2> QED  BY <2>1, <2>2
<1>7. c \notin hit' => c \notin hit  BY <1>1 DEF Undo
<1> QED  BY <1>2, <1>5, <1>6, <1>7 DEF Keeping

LEMMA LoseKeeps == ASSUME Typed, Keeping, LoseConnection  PROVE Keeping'
<1> DEFINE D == {d \in Clients : Busy(d)}
<1>1. Undo(D)  BY DEF LoseConnection
<1>2. Settled' /\ Untouched'  BY <1>1, UndoSettles
<1>3. \A d \in Clients : /\ pc'[d] = IF pc[d] = "more" THEN "rollback" ELSE pc[d]
                         /\ req'[d] = req[d] /\ held'[d] = held[d]
                         /\ todo'[d] = todo[d] /\ mine'[d] = mine[d]
  BY DEF LoseConnection, locals
<1>4. ASSUME NEW d \in Clients, d \notin hit'  PROVE Faithful(d)'
  <2>0. d \notin hit  BY <1>1, <1>4 DEF Undo
  <2>1. CASE open
    <3>1. ~Busy(d)  BY <1>1, <1>4, <2>1 DEF Undo
    <3>2. pc[d] = "idle"  BY <3>1 DEF Busy
    <3>3. req[d].kind = "enqueue" => req[d].program \in durable.programs
      BY <2>0 DEF Keeping, Faithful
    <3>4. db' = durable /\ durable' = durable  BY <1>1 DEF Undo
    <3> QED  BY <1>3, <3>2, <3>3, <3>4 DEF Faithful, InTxn
  <2>2. CASE ~open
    BY <1>1, <1>3, <2>0, <2>2, UndoNothing
  <2> QED  BY <2>1, <2>2
<1> QED  BY <1>2, <1>4 DEF Keeping

LEMMA FailsKeeps == ASSUME Typed, Keeping, NEW c \in Clients, StatementFails(c)  PROVE Keeping'
<1>1. /\ UNCHANGED <<db, durable, owed, shelved, replaced, hit, undone>>
      /\ \/ End(c)
         \/ InTxn(c) /\ pc' = [pc EXCEPT ![c] = "rollback"] /\ UNCHANGED <<req, held, todo, mine>>
  BY DEF StatementFails, tables, promises, history, locals
<1>2. Settled' /\ Untouched'  BY <1>1 DEF Keeping, Settled, Untouched
<1>3. \A d \in Clients \ {c} : /\ pc'[d] = pc[d] /\ req'[d] = req[d] /\ held'[d] = held[d]
                             /\ todo'[d] = todo[d] /\ mine'[d] = mine[d]
  BY <1>1 DEF End, Typed, LocalsOK
<1>4. \A d \in Clients \ {c} : d \notin hit => Faithful(d)'
  BY <1>1, <1>3 DEF Keeping, Faithful, InTxn
<1>5. ASSUME c \notin hit  PROVE Faithful(c)'
  <2>1. CASE End(c)  BY <2>1, EndFaithful DEF Typed
  <2>2. CASE ~End(c)
    <3>1. pc'[c] = "rollback" /\ InTxn(c)  BY <1>1, <2>2 DEF Typed, LocalsOK
    <3> QED  BY <1>1, <1>5, <2>2, <3>1 DEF Keeping, Faithful
  <2> QED  BY <2>1, <2>2
<1> QED  BY <1>1, <1>2, <1>4, <1>5 DEF Keeping

LEMMA InitKeeping == Init => Keeping
<1> SUFFICES ASSUME Init PROVE Keeping  OBVIOUS
<1> USE DEF Init
<1>1. Settled  BY DEF Settled, Kept
<1>2. Untouched  BY DEF Untouched
<1>3. \A c \in Clients : Faithful(c)  BY DEF Faithful, InTxn, NoRequest
<1> QED  BY <1>1, <1>2, <1>3 DEF Keeping

LEMMA NextKeeping == Typed /\ Keeping /\ [Next]_vars => Keeping'
<1> SUFFICES ASSUME Typed, Keeping, [Next]_vars PROVE Keeping'  OBVIOUS
<1>1. CASE UNCHANGED vars
  BY <1>1 DEF vars, tables, counters, locals, promises, history,
     Keeping, Settled, Untouched, Faithful, InTxn
<1> QED
  BY <1>1, RequestKeeps, BeginKeeps, CommitKeeps, CommitLoadKeeps, RollbackKeeps, FailsKeeps,
     LoseKeeps, SaveKeeps, LoadKeeps, CreateKeeps, LookKeeps, InsertKeeps, CheckKeeps,
     ClearKeeps, FillKeeps
  DEF Next

LEMMA QueueKeeping == Spec => []Keeping
  BY InitKeeping, NextKeeping, QueueTyped, PTL DEF Spec

LEMMA ProperIsListed ==
    ASSUME NEW d \in Tables, NEW r \in d.rows, ProperIn(d, r)
    PROVE  r.id \in ListedIds(d)
<1>1. PICK q \in d.queues : q.id = r.queue  BY DEF ProperIn
<1>2. q.name \in Names  BY DEF Tables, Queues
<1>3. r \in Listed(d, q.name)  BY <1>1 DEF Listed, IdsOf, ProperIn
<1> QED  BY <1>2, <1>3 DEF ListedIds

\* What the service has answered for is there and listed until a set-queue replaces it, for
\* every number of clients and requests, unless a transaction was undone during the request.
THEOREM QueueAckedKept == Spec => []AckedKept
<1>1. Typed /\ Keeping => AckedKept
  <2> SUFFICES ASSUME Typed, Keeping, NEW i \in owed \ replaced
               PROVE  i \in ListedIds(db) \cap ListedIds(durable)
    BY DEF Keeping, Settled, AckedKept
  <2>1. db \in Tables /\ durable \in Tables  BY DEF Typed, TablesOK, SoundWith
  <2>2. PICK r \in db.rows : r.id = i  BY DEF Keeping, Settled, Kept
  <2>3. PICK s \in durable.rows : s.id = i  BY DEF Keeping, Settled, Kept
  <2>4. ProperIn(db, r) /\ ProperIn(durable, s)  BY <2>2, <2>3 DEF Keeping, Settled, Kept
  <2> QED  BY <2>1, <2>2, <2>3, <2>4, ProperIsListed
<1> QED  BY <1>1, QueueTyped, QueueKeeping, PTL

\* Only the undoing of a transaction during another's leaves entries that nothing lists.
THEOREM QueueNoOrphans == Spec => []NoOrphans
<1>1. Keeping => NoOrphans  BY DEF Keeping, Untouched, ProperIn, NoOrphans
<1> QED  BY <1>1, QueueKeeping, PTL

-----------------------------------------------------------------------------
(* What a transaction has done to the tables: d before it, e so far. *)

There(d, ps) == {i \in DOMAIN ps : ps[i] \in d.programs}

SaveDone(d, e, p) ==
    /\ e.programs = d.programs \cup {p}
    /\ p \notin d.programs
    /\ e.queues = d.queues /\ e.rows = d.rows

\* INSERT IGNORE makes a queue under the name that fits its column.
CreateDone(d, e, n) ==
    /\ e.programs = d.programs /\ e.rows = d.rows
    /\ d.queues \subseteq e.queues
    /\ \A q \in e.queues \ d.queues : q.name = Column[n]

EnqueueDone(d, e, n, p) ==
    /\ e.programs = d.programs
    /\ d.queues \subseteq e.queues
    /\ \A q \in e.queues \ d.queues : q.name = n
    /\ Column[n] = n
    /\ \E row \in e.rows :
         /\ row.program = p /\ row.queue \in IdsOf(e, n)
         /\ \A r \in d.rows : r.id < row.id
         /\ e.rows = d.rows \cup {row}

InOrder(at, I, ps, Q) ==
    /\ \A i \in I : at[i].program = ps[i] /\ at[i].queue \in Q
    /\ \A i, j \in I : i < j => at[i].id < at[j].id

\* The programs that are left are yet to be inserted; those before them are there, in order.
SetDone(d, e, n, ps, left) ==
    LET Q == IdsOf(d, n)
        I == There(d, ps) \ left
    IN  /\ e.programs = d.programs /\ e.queues = d.queues
        /\ There(d, ps) # {} /\ left \subseteq There(d, ps)
        /\ \A i \in I, j \in left : i < j
        /\ {r \in e.rows : r.queue \notin Q} = {r \in d.rows : r.queue \notin Q}
        /\ Q # {} => \E at \in [I -> e.rows] :
                        /\ InOrder(at, I, ps, Q)
                        /\ {r \in e.rows : r.queue \in Q} = {at[i] : i \in I}

\* How far the transaction of c has come, at each of its statements.
Stage(c) ==
    /\ pc[c] \in {"save", "load", "loaded", "check", "create", "take"} => db = durable
    /\ pc[c] = "save" => req[c].kind = "save"
    /\ pc[c] = "loaded" => req[c].program \in durable.programs
    /\ pc[c] = "clear" => /\ db = durable
                          /\ todo[c] = There(durable, req[c].ids) /\ todo[c] # {}
    /\ pc[c] \in {"look", "insert"} => CreateDone(durable, db, req[c].name)
    /\ pc[c] = "insert" /\ held[c] # 0 => held[c] \in IdsOf(db, req[c].name)
    /\ pc[c] \in {"fill", "more"} => SetDone(durable, db, req[c].name, req[c].ids, todo[c])
    /\ pc[c] = "commit" =>
         \/ db = durable
         \/ req[c].kind = "save" /\ SaveDone(durable, db, held[c])
         \/ req[c].kind = "enqueue" /\ EnqueueDone(durable, db, req[c].name, req[c].program)
         \/ req[c].kind = "set" /\ SetDone(durable, db, req[c].name, req[c].ids, {})

\* What is committed is whole: names as the column keeps them, rows with their program and
\* queue, and the program that a request is about to enqueue.
Whole ==
    /\ \A q \in durable.queues : Column[q.name] = q.name
    /\ \A r \in durable.rows : ProperIn(durable, r)
    /\ \A c \in Clients : req[c].kind = "enqueue" => req[c].program \in durable.programs

Single ==
    /\ \A c, d \in Clients : InTxn(c) /\ InTxn(d) => c = d
    /\ (\A c \in Clients : ~InTxn(c)) => ~open

Alone ==
    /\ Single
    /\ Whole
    /\ \A c \in Clients : InTxn(c) /\ alive => open /\ Stage(c)

Uncrossed == (~alive => ~open) /\ (~crossed => Alone)

-----------------------------------------------------------------------------
(* Statements *)

LEMMA TypedTables ==
    ASSUME Typed
    PROVE  /\ db \in Tables /\ durable \in Tables
           /\ SoundWith(db, nextProgram, nextQueue, nextRow)
           /\ SoundWith(durable, nextProgram, nextQueue, nextRow)
  BY DEF Typed, TablesOK, SoundWith

\* A statement of the one transaction there is.
LEMMA StatementAlone ==
    ASSUME Typed, Alone, alive, NEW c \in Clients, InTxn(c),
           NEW then, then \notin {"idle", "begin"}, pc' = [pc EXCEPT ![c] = then],
           req' = req, UNCHANGED <<durable, open, alive>>, Stage(c)'
    PROVE  Alone'
<1>1. \A d \in Clients \ {c} : ~InTxn(d) /\ pc'[d] = pc[d]
  BY DEF Alone, Single, Typed, LocalsOK
<1>2. pc'[c] = then  BY DEF Typed, LocalsOK
<1>3. open  BY DEF Alone
<1>4. \A d \in Clients : InTxn(d)' <=> d = c  BY <1>1, <1>2 DEF InTxn
<1>5. Single'  BY <1>3, <1>4 DEF Single
<1>6. Whole'  BY DEF Alone, Whole
<1> QED  BY <1>3, <1>4, <1>5, <1>6 DEF Alone

LEMMA ExecuteAlone ==
    ASSUME Typed, Alone, NEW c \in Clients, NEW stmt, stmt \notin {"idle", "begin"}, NEW new,
           NEW then, then \notin {"idle", "begin"}, Execute(c, stmt, new, then),
           req' = req, Stage(c)'
    PROVE  Alone' /\ durable' = durable
<1>1. InTxn(c) /\ alive  BY DEF InTxn, Execute
<1>2. open  BY <1>1 DEF Alone
<1>3. UNCHANGED <<durable, open, alive>> /\ pc' = [pc EXCEPT ![c] = then]
  BY <1>2 DEF Execute
<1> QED  BY <1>1, <1>3, StatementAlone

\* What a statement finds.
LEMMA Staged ==
    ASSUME Typed, Alone, NEW c \in Clients, NEW stmt, stmt \notin {"idle", "begin"}, NEW new, NEW then,
           Execute(c, stmt, new, then)
    PROVE  /\ Stage(c) /\ open /\ pc[c] = stmt
           /\ db' = new /\ durable' = durable /\ pc'[c] = then
<1>1. InTxn(c) /\ alive  BY DEF InTxn, Execute
<1>2. open /\ Stage(c)  BY <1>1 DEF Alone
<1> QED  BY <1>2 DEF Execute, Typed, LocalsOK

LEMMA SaveAlone == ASSUME Typed, Alone, NEW c \in Clients, Save(c)  PROVE Alone' /\ durable' = durable
<1> DEFINE new == [db EXCEPT !.programs = @ \cup {nextProgram}]
<1>1. Execute(c, "save", new, "commit")  BY DEF Save
<1>2. /\ Stage(c) /\ pc[c] = "save" /\ db' = new /\ durable' = durable /\ pc'[c] = "commit"
  BY <1>1, Staged
<1>3. req[c].kind = "save" /\ db = durable  BY <1>2 DEF Stage
<1>4. req' = req /\ held'[c] = nextProgram  BY DEF Save, Typed, LocalsOK
<1>5. /\ db'.programs = db.programs \cup {nextProgram}
      /\ db'.queues = db.queues /\ db'.rows = db.rows
  BY <1>2, TypedTables, TableFields
<1>6. nextProgram \notin durable.programs
  BY TypedTables DEF SoundWith, Typed, TablesOK
<1>7. SaveDone(durable, db', nextProgram)  BY <1>3, <1>5, <1>6 DEF SaveDone
<1>8. Stage(c)'  BY <1>2, <1>3, <1>4, <1>7 DEF Stage
<1> QED  BY <1>1, <1>4, <1>8, ExecuteAlone

LEMMA LoadAlone ==
    ASSUME Typed, Alone, NEW c \in Clients, Load(c) \/ Take(c)  PROVE Alone' /\ durable' = durable
<1>1. CASE Load(c)
  <2> DEFINE then == IF req[c].program \in db.programs THEN "loaded" ELSE "commit"
  <2>1. Execute(c, "load", db, then) /\ req' = req  BY <1>1 DEF Load
  <2>2. Stage(c) /\ pc[c] = "load" /\ db' = db /\ durable' = durable /\ pc'[c] = then
    BY <2>1, Staged
  <2>3. Stage(c)'  BY <2>1, <2>2 DEF Stage
  <2>4. then \notin {"idle", "begin"}  OBVIOUS
  <2> QED  BY <2>1, <2>3, <2>4, ExecuteAlone
<1>2. CASE Take(c)
  <2>1. Execute(c, "take", db, "rollback") /\ req' = req  BY <1>2 DEF Take
  <2>2. pc'[c] = "rollback"  BY <2>1, Staged
  <2>3. Stage(c)'  BY <2>2 DEF Stage
  <2> QED  BY <2>1, <2>3, ExecuteAlone
<1> QED  BY <1>1, <1>2

LEMMA CreateAlone ==
    ASSUME Typed, Alone, NEW c \in Clients, Create(c)  PROVE Alone' /\ durable' = durable
<1> DEFINE n == Column[req[c].name]
           Q == db.queues \cup {[id |-> nextQueue, name |-> n]}
           new == IF IdsOf(db, n) = {} THEN [db EXCEPT !.queues = Q] ELSE db
<1>1. Execute(c, "create", new, "look") /\ req' = req  BY DEF Create
<1>2. Stage(c) /\ pc[c] = "create" /\ db' = new /\ durable' = durable /\ pc'[c] = "look"
  BY <1>1, Staged
<1>3. db = durable  BY <1>2 DEF Stage
<1>4. /\ new.programs = db.programs /\ new.rows = db.rows
      /\ new.queues = db.queues \/ new.queues = Q
  BY TypedTables, TableFields
<1>5. CreateDone(durable, new, req[c].name)
  BY <1>3, <1>4 DEF CreateDone
<1>6. Stage(c)'  BY <1>1, <1>2, <1>5 DEF Stage
<1> QED  BY <1>1, <1>6, ExecuteAlone

LEMMA LookAlone ==
    ASSUME Typed, Alone, NEW c \in Clients, Look(c)  PROVE Alone' /\ durable' = durable
<1>1. Execute(c, "look", db, "insert") /\ req' = req  BY DEF Look
<1>2. Stage(c) /\ pc[c] = "look" /\ db' = db /\ durable' = durable /\ pc'[c] = "insert"
  BY <1>1, Staged
<1>3. held'[c] # 0 => held'[c] \in IdsOf(db, req[c].name)  BY DEF Look, Typed, LocalsOK
<1>4. Stage(c)'  BY <1>1, <1>2, <1>3 DEF Stage
<1> QED  BY <1>1, <1>4, ExecuteAlone

LEMMA InsertAlone ==
    ASSUME Typed, Alone, NEW c \in Clients, Insert(c)  PROVE Alone' /\ durable' = durable
<1>0. req' = req  BY DEF Insert
<1>1. CASE held[c] = 0
  <2>1. Execute(c, "insert", db, "rollback")  BY <1>1 DEF Insert
  <2>2. pc'[c] = "rollback"  BY <2>1, Staged
  <2>3. Stage(c)'  BY <2>2 DEF Stage
  <2> QED  BY <1>0, <2>1, <2>3, ExecuteAlone
<1>2. CASE held[c] # 0
  <2> DEFINE n == req[c].name
             p == req[c].program
             row == [id |-> nextRow, queue |-> held[c], program |-> p]
  <2>1. Execute(c, "insert", AddRow(c, held[c], p), "commit")  BY <1>2 DEF Insert
  <2>2. /\ Stage(c) /\ pc[c] = "insert" /\ db' = AddRow(c, held[c], p)
        /\ durable' = durable /\ pc'[c] = "commit"
    BY <2>1, Staged
  <2>3. CreateDone(durable, db, n) /\ held[c] \in IdsOf(db, n)  BY <1>2, <2>2 DEF Stage
  <2>4. req[c].kind = "enqueue"  BY <2>2 DEF Typed, Fits, Asking
  <2>5. db'.programs = db.programs /\ db'.queues = db.queues /\ db'.rows = db.rows \cup {row}
    BY <2>2, TypedTables, TableFields DEF AddRow
  <2>6. Column[n] = n
    <3>1. PICK q \in db.queues : q.name = n  BY <2>3 DEF IdsOf
    <3>2. q \in durable.queues \/ q.name = Column[n]  BY <2>3, <3>1 DEF CreateDone
    <3> QED  BY <3>1, <3>2 DEF Alone, Whole
  <2>7. IdsOf(db', n) = IdsOf(db, n)  BY <2>5 DEF IdsOf
  <2>8. \A r \in durable.rows : r.id < row.id  BY TypedTables DEF SoundWith
  <2>9. row.program = p /\ row.queue = held[c]  OBVIOUS
  <2> HIDE DEF row
  <2>10. EnqueueDone(durable, db', n, p)
    BY <2>3, <2>5, <2>6, <2>7, <2>8, <2>9 DEF CreateDone, EnqueueDone
  <2>11. Stage(c)'  BY <1>0, <2>2, <2>4, <2>10 DEF Stage
  <2> QED  BY <1>0, <2>1, <2>11, ExecuteAlone
<1> QED  BY <1>1, <1>2

LEMMA CheckAlone ==
    ASSUME Typed, Alone, NEW c \in Clients, Check(c)  PROVE Alone' /\ durable' = durable
<1> DEFINE found == {i \in DOMAIN req[c].ids : req[c].ids[i] \in db.programs}
           then == IF found = {} THEN "commit" ELSE "clear"
<1>1. Execute(c, "check", db, then) /\ req' = req /\ todo'[c] = found
  BY DEF Check, Typed, LocalsOK
<1>2. Stage(c) /\ pc[c] = "check" /\ db' = db /\ durable' = durable /\ pc'[c] = then
  BY <1>1, Staged
<1>3. db = durable  BY <1>2 DEF Stage
<1>4. found = There(durable, req[c].ids)  BY <1>3 DEF There
<1> HIDE DEF found
<1>5. Stage(c)'  BY <1>1, <1>2, <1>3, <1>4 DEF Stage
<1>6. then \notin {"idle", "begin"}  OBVIOUS
<1> QED  BY <1>1, <1>5, <1>6, ExecuteAlone

LEMMA ClearAlone ==
    ASSUME Typed, Alone, NEW c \in Clients, Clear(c)  PROVE Alone' /\ durable' = durable
<1> DEFINE n == req[c].name
           ps == req[c].ids
           rest == {r \in db.rows : r.queue \notin IdsOf(db, n)}
           new == [db EXCEPT !.rows = {r \in @ : r.queue \notin IdsOf(db, n)}]
<1>1. Execute(c, "clear", new, "fill") /\ req' = req /\ todo' = todo  BY DEF Clear
<1>2. Stage(c) /\ pc[c] = "clear" /\ db' = new /\ durable' = durable /\ pc'[c] = "fill"
  BY <1>1, Staged
<1>3. db = durable /\ todo[c] = There(durable, ps) /\ todo[c] # {}  BY <1>2 DEF Stage
<1>4. new.programs = db.programs /\ new.queues = db.queues /\ new.rows = rest
  BY TypedTables, TableFields
<1> HIDE DEF new
<1>5. There(durable, ps) \ todo[c] = {}  BY <1>3
<1>6. \E at \in [{} -> rest] : TRUE
  <2>1. [x \in {} |-> 0] \in [{} -> rest]  OBVIOUS
  <2> QED  BY <2>1
<1>7. /\ {r \in rest : r.queue \in IdsOf(durable, n)} = {}
      /\ {r \in rest : r.queue \notin IdsOf(durable, n)}
           = {r \in durable.rows : r.queue \notin IdsOf(durable, n)}
  BY <1>3
<1>8. SetDone(durable, new, n, ps, todo[c])
  <2>1. \A at : {at[i] : i \in {}} = {}  OBVIOUS
  <2>2. \A at : InOrder(at, {}, ps, IdsOf(durable, n))  BY DEF InOrder
  <2> QED  BY <1>3, <1>4, <1>5, <1>6, <1>7, <2>1, <2>2 DEF SetDone
<1>9. Stage(c)'  BY <1>1, <1>2, <1>8 DEF Stage
<1> QED  BY <1>1, <1>9, ExecuteAlone

LEMMA ThereType ==
    ASSUME NEW d, NEW ps \in Seq(Asked)  PROVE There(d, ps) \subseteq Nat
  BY DEF There

\* A program inserted behind those that are there.
LEMMA SetDoneRow ==
    ASSUME NEW d, NEW e, NEW f, NEW n, NEW ps \in Seq(Asked), NEW left, NEW i \in left,
           SetDone(d, e, n, ps, left), \A j \in left : i <= j,
           NEW row, row.queue \in IdsOf(d, n), row.program = ps[i], row.id \in Nat,
           \A r \in e.rows : r.id \in Nat /\ r.id < row.id,
           f.programs = e.programs, f.queues = e.queues, f.rows = e.rows \cup {row}
    PROVE  SetDone(d, f, n, ps, left \ {i})
<1> DEFINE Q == IdsOf(d, n)
           T == There(d, ps)
           I == T \ left
           J == T \ (left \ {i})
<1>1. /\ e.programs = d.programs /\ e.queues = d.queues /\ T # {} /\ left \subseteq T
      /\ \A k \in I, j \in left : k < j
      /\ {r \in e.rows : r.queue \notin Q} = {r \in d.rows : r.queue \notin Q}
      /\ \E at \in [I -> e.rows] :
            InOrder(at, I, ps, Q) /\ {r \in e.rows : r.queue \in Q} = {at[k] : k \in I}
  BY DEF SetDone
<1>2. T \subseteq Nat  BY ThereType
<1>3. PICK at \in [I -> e.rows] :
        InOrder(at, I, ps, Q) /\ {r \in e.rows : r.queue \in Q} = {at[k] : k \in I}
  BY <1>1
<1> DEFINE bt == [k \in J |-> IF k = i THEN row ELSE at[k]]
<1>4. J = I \cup {i} /\ i \notin I  BY <1>1
<1> HIDE DEF Q, T, I, J
<1>5. bt \in [J -> f.rows]  BY <1>3, <1>4
<1>6. bt[i] = row /\ \A k \in I : bt[k] = at[k]  BY <1>4
<1>7. \A k \in I : k < i /\ k \in Nat /\ i \in Nat  BY <1>1, <1>2 DEF I
<1>8. InOrder(bt, J, ps, Q)
  <2>1. \A k \in J : bt[k].program = ps[k] /\ bt[k].queue \in Q
    BY <1>3, <1>4, <1>6 DEF InOrder, Q
  <2>2. ASSUME NEW k \in J, NEW j \in J, k < j  PROVE bt[k].id < bt[j].id
    <3>1. CASE k \in I /\ j \in I  BY <1>3, <1>6, <2>2, <3>1 DEF InOrder
    <3>2. CASE k \in I /\ j = i
      <4>1. at[k] \in e.rows  BY <1>3, <3>2
      <4> QED  BY <1>6, <3>2, <4>1
    <3>3. k # i
      <4> SUFFICES ASSUME k = i  PROVE FALSE  OBVIOUS
      <4>1. j \in I \/ j = i  BY <1>4
      <4>2. i \in Nat  BY <1>1, <1>2
      <4> QED  BY <1>7, <2>2, <4>1, <4>2
    <3> QED  BY <1>4, <3>1, <3>2, <3>3
  <2> HIDE DEF bt
  <2> QED  BY <2>1, <2>2 DEF InOrder
<1>9. {r \in f.rows : r.queue \in Q} = {bt[k] : k \in J}
  <2>1. {r \in f.rows : r.queue \in Q} = {r \in e.rows : r.queue \in Q} \cup {row}  BY DEF Q
  <2> HIDE DEF bt
  <2>2. {bt[k] : k \in J} = {at[k] : k \in I} \cup {row}  BY <1>4, <1>6
  <2> QED  BY <1>3, <2>1, <2>2
<1>10. {r \in f.rows : r.queue \notin Q} = {r \in d.rows : r.queue \notin Q}
  <2>1. {r \in f.rows : r.queue \notin Q} = {r \in e.rows : r.queue \notin Q}  BY DEF Q
  <2> QED  BY <1>1, <2>1
<1>11. \A k \in J, j \in left \ {i} : k < j
  <2> SUFFICES ASSUME NEW k \in J, NEW j \in left \ {i}  PROVE k < j  OBVIOUS
  <2>1. k \in I \/ k = i  BY <1>4
  <2>2. i <= j /\ i # j /\ i \in Nat /\ j \in Nat  BY <1>1, <1>2
  <2> QED  BY <1>1, <2>1, <2>2
<1> HIDE DEF bt
<1>12. f.programs = d.programs /\ f.queues = d.queues /\ left \ {i} \subseteq T  BY <1>1
<1> QED  BY <1>1, <1>5, <1>8, <1>9, <1>10, <1>11, <1>12 DEF SetDone, Q, T, J

\* Where there is no queue, nothing is inserted.
LEMMA SetDoneNothing ==
    ASSUME NEW d, NEW e, NEW n, NEW ps \in Seq(Asked), NEW left, NEW i \in left,
           SetDone(d, e, n, ps, left), \A j \in left : i <= j, IdsOf(d, n) = {}
    PROVE  SetDone(d, e, n, ps, left \ {i})
<1> DEFINE T == There(d, ps)
<1>1. T \subseteq Nat  BY ThereType
<1>2. /\ e.programs = d.programs /\ e.queues = d.queues /\ T # {} /\ left \subseteq T
      /\ \A k \in T \ left, j \in left : k < j
      /\ {r \in e.rows : r.queue \notin {}} = {r \in d.rows : r.queue \notin {}}
  BY DEF SetDone
<1> HIDE DEF T
<1>3. \A k \in T \ (left \ {i}), j \in left \ {i} : k < j
  <2> SUFFICES ASSUME NEW k \in T \ (left \ {i}), NEW j \in left \ {i}  PROVE k < j  OBVIOUS
  <2>1. j \in left /\ (k \in T \ left \/ k = i)  OBVIOUS
  <2>2. i <= j /\ i # j /\ i \in Nat /\ j \in Nat  BY <1>1, <1>2
  <2>3. k \in T \ left => k < j  BY <1>2, <2>1
  <2>4. k = i => k < j  BY <2>2
  <2> QED  BY <2>1, <2>3, <2>4
<1>4. left \ {i} \subseteq T  BY <1>2
<1> QED  BY <1>2, <1>3, <1>4 DEF SetDone, T

LEMMA FillAlone ==
    ASSUME Typed, Alone, NEW c \in Clients, NEW stmt \in {"fill", "more"}, Fill(c, stmt)
    PROVE  Alone' /\ durable' = durable
<1> DEFINE n == req[c].name
           ps == req[c].ids
           ids == IdsOf(db, n)
<1>1. PICK i \in todo[c] :
        /\ \A j \in todo[c] : i <= j
        /\ todo' = [todo EXCEPT ![c] = @ \ {i}]
        /\ LET rest == IF todo[c] = {i} THEN "commit" ELSE "more"
           IN  IF ids = {}
               THEN Execute(c, stmt, db, rest)
               ELSE \E q \in ids : Execute(c, stmt, AddRow(c, q, ps[i]), rest)
  BY DEF Fill
<1> DEFINE then == IF todo[c] = {i} THEN "commit" ELSE "more"
<1>2. PICK new : /\ Execute(c, stmt, new, then)
                 /\ \/ ids = {} /\ new = db
                    \/ \E q \in ids : new = AddRow(c, q, ps[i])
  BY <1>1
<1>3. stmt \notin {"idle", "begin"} /\ then \notin {"idle", "begin"}  OBVIOUS
<1>4. /\ Stage(c) /\ pc[c] = stmt /\ db' = new /\ durable' = durable /\ pc'[c] = then
  BY <1>2, <1>3, Staged
<1>5. req' = req /\ todo'[c] = todo[c] \ {i}  BY <1>1 DEF Fill, Typed, LocalsOK
<1>6. req[c].kind = "set"  BY <1>4 DEF Typed, Fits, Asking
<1>7. ps \in Seq(Asked)  BY <1>6, RequestKinds DEF Typed, LocalsOK
<1>8. SetDone(durable, db, n, ps, todo[c])  BY <1>4 DEF Stage
<1>9. IdsOf(durable, n) = ids  BY <1>8 DEF SetDone, IdsOf
<1>10. SetDone(durable, db', n, ps, todo'[c])
  <2>1. CASE ids = {} /\ new = db
    BY <1>1, <1>4, <1>5, <1>7, <1>8, <1>9, <2>1, SetDoneNothing
  <2>2. ASSUME NEW q \in ids, new = AddRow(c, q, ps[i])
        PROVE  SetDone(durable, db', n, ps, todo'[c])
    <3> DEFINE row == [id |-> nextRow, queue |-> q, program |-> ps[i]]
    <3>1. /\ db'.programs = db.programs /\ db'.queues = db.queues
          /\ db'.rows = db.rows \cup {row}
      BY <1>4, <2>2, TypedTables, TableFields DEF AddRow
    <3>2. row.queue \in IdsOf(durable, n) /\ row.program = ps[i] /\ row.id \in Nat
      BY <1>9 DEF Typed, TablesOK
    <3>3. \A r \in db.rows : r.id \in Nat /\ r.id < row.id
      BY TypedTables DEF SoundWith, Tables, Rows
    <3>4. i \in todo[c] /\ \A j \in todo[c] : i <= j  BY <1>1
    <3> HIDE DEF row, n, ps, ids, then
    <3>5. SetDone(durable, db', n, ps, todo[c] \ {i})
      BY <1>7, <1>8, <3>1, <3>2, <3>3, <3>4, SetDoneRow
    <3> QED  BY <1>5, <3>5
  <2> QED  BY <1>2, <2>1, <2>2
<1>11. todo[c] = {i} => todo'[c] = {}  BY <1>5
<1>12. Stage(c)'
  <2>1. pc'[c] = "more" => SetDone(durable', db', req'[c].name, req'[c].ids, todo'[c])
    BY <1>4, <1>5, <1>10
  <2>2. pc'[c] = "commit" => req'[c].kind = "set" /\ SetDone(durable', db', req'[c].name, req'[c].ids, {})
    BY <1>4, <1>5, <1>6, <1>10, <1>11
  <2> QED  BY <1>4, <2>1, <2>2 DEF Stage
<1> QED  BY <1>2, <1>3, <1>5, <1>12, ExecuteAlone

LEMMA StatementsAlone ==
    ASSUME Typed, Alone, NEW c \in Clients,
           Save(c) \/ Load(c) \/ Create(c) \/ Look(c) \/ Insert(c) \/ Check(c) \/ Clear(c)
              \/ Fill(c, "fill") \/ Fill(c, "more") \/ Take(c)
    PROVE  /\ Alone' /\ durable' = durable
           /\ alive /\ UNCHANGED <<alive, open, crossed>>
<1>1. Alone' /\ durable' = durable
  BY SaveAlone, LoadAlone, CreateAlone, LookAlone, InsertAlone, CheckAlone, ClearAlone, FillAlone
<1>2. \E stmt, new, then : Execute(c, stmt, new, then)
  BY DEF Save, Load, Create, Look, Insert, Check, Clear, Fill, Take
<1> QED  BY <1>1, <1>2 DEF Execute, history

-----------------------------------------------------------------------------
(* Transactions *)

\* What is about to be committed is whole.
LEMMA CommitWhole ==
    ASSUME Typed, Alone, NEW c \in Clients, pc[c] = "commit", alive
    PROVE  /\ durable.programs \subseteq db.programs
           /\ \A q \in db.queues : Column[q.name] = q.name
           /\ \A r \in db.rows : ProperIn(db, r)
<1> DEFINE n == req[c].name
           ps == req[c].ids
           Goal == /\ durable.programs \subseteq db.programs
                   /\ \A q \in db.queues : Column[q.name] = q.name
                   /\ \A r \in db.rows : ProperIn(db, r)
<1>1. Stage(c) /\ Whole  BY DEF Alone, InTxn
<1>2. /\ \A q \in durable.queues : Column[q.name] = q.name
      /\ \A r \in durable.rows : ProperIn(durable, r)
  BY <1>1 DEF Whole
<1>3. CASE db = durable  BY <1>2, <1>3
<1>4. CASE SaveDone(durable, db, held[c])  BY <1>2, <1>4 DEF SaveDone, ProperIn
<1>5. ASSUME req[c].kind = "enqueue", EnqueueDone(durable, db, n, req[c].program)
      PROVE  Goal
  <2>1. req[c].program \in durable.programs  BY <1>1, <1>5 DEF Whole
  <2>2. \A q \in db.queues : Column[q.name] = q.name  BY <1>2, <1>5 DEF EnqueueDone
  <2>3. PICK row \in db.rows : /\ row.program = req[c].program
                               /\ row.queue \in IdsOf(db, n)
                               /\ db.rows = durable.rows \cup {row}
    BY <1>5 DEF EnqueueDone
  <2>4. db.programs = durable.programs /\ durable.queues \subseteq db.queues
    BY <1>5 DEF EnqueueDone
  <2>5. ProperIn(db, row)  BY <2>1, <2>3, <2>4 DEF ProperIn, IdsOf
  <2>6. \A r \in durable.rows : ProperIn(db, r)  BY <1>2, <2>4 DEF ProperIn
  <2> QED  BY <2>2, <2>3, <2>4, <2>5, <2>6
<1>6. ASSUME SetDone(durable, db, n, ps, {})
      PROVE  Goal
  <2> DEFINE Q == IdsOf(durable, n)
             T == There(durable, ps)
  <2>1. db.programs = durable.programs /\ db.queues = durable.queues  BY <1>6 DEF SetDone
  <2>2. ASSUME NEW r \in db.rows, r.queue \notin Q  PROVE ProperIn(db, r)
    <3>1. r \in durable.rows  BY <1>6, <2>2 DEF SetDone
    <3> QED  BY <1>2, <2>1, <3>1 DEF ProperIn
  <2>3. ASSUME NEW r \in db.rows, r.queue \in Q  PROVE ProperIn(db, r)
    <3>1. PICK at : InOrder(at, T, ps, Q) /\ r \in {at[i] : i \in T}
      BY <1>6, <2>3 DEF SetDone
    <3>2. PICK i \in T : r = at[i]  BY <3>1
    <3>3. r.program = ps[i] /\ ps[i] \in durable.programs
      BY <3>1, <3>2 DEF InOrder, There
    <3>4. \E q \in durable.queues : q.id = r.queue  BY <2>3 DEF IdsOf
    <3> QED  BY <2>1, <3>3, <3>4 DEF ProperIn
  <2> QED  BY <1>2, <2>1, <2>2, <2>3
<1> QED  BY <1>1, <1>3, <1>4, <1>5, <1>6 DEF Stage

LEMMA WholeNow ==
    ASSUME Typed, Whole, UNCHANGED <<durable>>, NEW c \in Clients,
           \A d \in Clients \ {c} : req'[d] = req[d],
           req'[c].kind = "enqueue" => req' = req
    PROVE  Whole'
  BY DEF Whole

LEMMA RequestAlone ==
    ASSUME Typed, Alone, NEW c \in Clients, Write(c) \/ NextProgram(c)
    PROVE  Alone' /\ UNCHANGED <<durable, open, alive, crossed>>
<1>1. PICK r \in Requests : r.kind # "enqueue" /\ Request(c, r)  BY WrittenRequests
<1>2. /\ pc' = [pc EXCEPT ![c] = "begin"] /\ req' = [req EXCEPT ![c] = r]
      /\ ~InTxn(c)
      /\ UNCHANGED <<db, durable, open, alive, held, todo, crossed>>
  BY <1>1 DEF Request, Busy, InTxn, tables
<1>3. ~InTxn(c)' /\ \A d \in Clients \ {c} : pc'[d] = pc[d] /\ req'[d] = req[d]
  BY <1>2 DEF InTxn, Typed, LocalsOK
<1>4. \A d \in Clients : InTxn(d)' <=> InTxn(d)  BY <1>2, <1>3 DEF InTxn
<1>5. Single'  BY <1>2, <1>4 DEF Alone, Single
<1>6. Whole'  BY <1>1, <1>2, WholeNow DEF Alone, Typed, LocalsOK
<1>7. ASSUME NEW d \in Clients, InTxn(d)', alive'  PROVE open' /\ Stage(d)'
  <2>1. InTxn(d) /\ alive /\ d # c  BY <1>2, <1>3, <1>7 DEF InTxn
  <2>2. open /\ Stage(d)  BY <2>1 DEF Alone
  <2> QED  BY <1>2, <1>3, <2>1, <2>2 DEF Stage
<1> QED  BY <1>2, <1>5, <1>6, <1>7 DEF Alone

LEMMA BeginAlone ==
    ASSUME Typed, Alone, NEW c \in Clients, Begin(c), ~crossed'
    PROVE  Alone' /\ alive' /\ durable' = durable
<1>1. /\ pc[c] = "begin" /\ pc' = [pc EXCEPT ![c] = First(req[c].kind)]
      /\ alive' = TRUE /\ open' = TRUE /\ durable' = db /\ db' = db /\ req' = req
  BY DEF Begin
<1>2. \A d \in Clients : ~InTxn(d)
  <2>1. \A d \in Clients \ {c} : ~InTxn(d)  BY DEF Begin
  <2> QED  BY <1>1, <2>1 DEF InTxn
<1>3. db = durable  BY <1>2 DEF Alone, Single, Typed, TablesOK
<1>4. First(req[c].kind) \in {"save", "load", "create", "check", "take"}
      /\ (First(req[c].kind) = "save" => req[c].kind = "save")
  BY DEF First
<1>5. pc'[c] = First(req[c].kind) /\ \A d \in Clients \ {c} : pc'[d] = pc[d]
  BY <1>1 DEF Typed, LocalsOK
<1>6. \A d \in Clients : InTxn(d)' <=> d = c  BY <1>2, <1>4, <1>5 DEF InTxn
<1>7. Stage(c)'  BY <1>1, <1>3, <1>4, <1>5 DEF Stage
<1>8. Whole'  BY <1>1, <1>3 DEF Alone, Whole
<1> QED  BY <1>1, <1>3, <1>6, <1>7, <1>8 DEF Alone, Single

\* Once its transaction is over nobody is in one.
LEMMA Over ==
    ASSUME Typed, Alone, NEW c \in Clients, InTxn(c), ~InTxn(c)',
           \A d \in Clients \ {c} : pc'[d] = pc[d], open' = FALSE, Whole'
    PROVE  Alone'
<1>1. \A d \in Clients : ~InTxn(d)'  BY DEF Alone, Single, InTxn
<1> QED  BY <1>1 DEF Alone, Single

LEMMA CommitAlone ==
    ASSUME Typed, Alone, NEW c \in Clients, Commit(c)
    PROVE  Alone' /\ alive /\ UNCHANGED <<alive, crossed>>
<1>1. /\ pc[c] = "commit" /\ alive /\ durable' = db /\ open' = FALSE
      /\ UNCHANGED <<db, alive, crossed>>
      /\ pc' = [pc EXCEPT ![c] = "idle"] /\ req' = [req EXCEPT ![c] = NoRequest]
  BY DEF Commit, CommitWork, End, history
<1>2. /\ InTxn(c) /\ ~InTxn(c)' /\ req'[c].kind # "enqueue"
      /\ \A d \in Clients \ {c} : pc'[d] = pc[d] /\ req'[d] = req[d]
  BY <1>1 DEF InTxn, NoRequest, Typed, LocalsOK
<1>3. Whole'
  BY <1>1, <1>2, CommitWhole DEF Alone, Whole, ProperIn
<1> QED  BY <1>1, <1>2, <1>3, Over

LEMMA CommitLoadAlone ==
    ASSUME Typed, Alone, NEW c \in Clients, CommitLoad(c)
    PROVE  Alone' /\ alive /\ durable' = durable /\ UNCHANGED <<alive, crossed>>
<1>1. /\ pc[c] = "loaded" /\ alive /\ durable' = db /\ open' = FALSE
      /\ UNCHANGED <<db, alive, crossed>>
      /\ pc' = [pc EXCEPT ![c] = "begin"] /\ req' = [req EXCEPT ![c].kind = "enqueue"]
  BY DEF CommitLoad, CommitWork, history
<1>2. InTxn(c) /\ Stage(c)  BY <1>1 DEF Alone, InTxn
<1>3. db = durable /\ req[c].program \in durable.programs  BY <1>1, <1>2 DEF Stage
<1>4. /\ ~InTxn(c)'
      /\ \A d \in Clients \ {c} : pc'[d] = pc[d] /\ req'[d] = req[d]
  BY <1>1 DEF InTxn, Typed, LocalsOK
<1>5. req'[c].program = req[c].program
  <2>1. req[c] \in Requests /\ req[c].kind = "load"  BY <1>1 DEF Typed, Fits, Asking, LocalsOK
  <2>2. req[c] \in [kind : {"load", "enqueue"}, name : Names, program : Asked]
    BY <2>1 DEF Requests
  <2>3. req'[c] = [req[c] EXCEPT !.kind = "enqueue"]  BY <1>1 DEF Typed, LocalsOK
  <2> QED  BY <2>2, <2>3
<1>6. Whole'  BY <1>1, <1>3, <1>4, <1>5 DEF Alone, Whole
<1> QED  BY <1>1, <1>2, <1>3, <1>4, <1>6, Over

LEMMA RollbackAlone ==
    ASSUME Typed, Alone, NEW c \in Clients, Rollback(c)
    PROVE  Alone' /\ alive /\ UNCHANGED <<durable, alive, crossed>>
<1>1. /\ pc[c] = "rollback" /\ alive /\ open' = FALSE /\ UNCHANGED <<durable, alive, crossed>>
      /\ \/ /\ pc' = [pc EXCEPT ![c] = "idle"]
            /\ req' = [req EXCEPT ![c] = NoRequest]
         \/ pc' = [pc EXCEPT ![c] = "begin"] /\ req' = req
  BY DEF Rollback, Undo, End
<1>2. /\ InTxn(c) /\ ~InTxn(c)'
      /\ \A d \in Clients \ {c} : pc'[d] = pc[d]
  BY <1>1 DEF InTxn, Typed, LocalsOK
<1>3. Whole'
  BY <1>1, WholeNow DEF Alone, Whole, NoRequest, Typed, LocalsOK
<1> QED  BY <1>1, <1>2, <1>3, Over

LEMMA LoseConnectionAlone ==
    ASSUME Typed, Alone, LoseConnection
    PROVE  Alone' /\ ~open' /\ UNCHANGED <<durable, crossed>>
<1>1. /\ alive' = FALSE /\ open' = FALSE /\ UNCHANGED <<durable, crossed, req>>
      /\ pc' = [c \in Clients |-> IF pc[c] = "more" THEN "rollback" ELSE pc[c]]
  BY DEF LoseConnection, Undo, locals
<1>2. \A d \in Clients : InTxn(d)' => InTxn(d)  BY <1>1 DEF InTxn
<1>3. Whole'  BY <1>1 DEF Alone, Whole
<1> QED  BY <1>1, <1>2, <1>3 DEF Alone, Single

LEMMA FailsAlone ==
    ASSUME Typed, Alone, ~alive => ~open, NEW c \in Clients, StatementFails(c)
    PROVE  Alone' /\ ~alive /\ UNCHANGED <<durable, alive, open, crossed>>
<1>1. /\ ~alive /\ UNCHANGED <<durable, alive, open, crossed>>
      /\ \/ pc' = [pc EXCEPT ![c] = "idle"] /\ req' = [req EXCEPT ![c] = NoRequest]
         \/ InTxn(c) /\ pc' = [pc EXCEPT ![c] = "rollback"] /\ req' = req
  BY DEF StatementFails, End, tables, locals, history
<1>2. \A d \in Clients : InTxn(d)' => InTxn(d)  BY <1>1 DEF InTxn, Typed, LocalsOK
<1>3. Whole'
  BY <1>1, WholeNow DEF Alone, Whole, NoRequest, Typed, LocalsOK
<1> QED  BY <1>1, <1>2, <1>3 DEF Alone, Single

\* Every step but a commit leaves what is committed, or lets two transactions cross.
LEMMA NextUncrossed ==
    ASSUME Typed, Uncrossed, [Next]_vars
    PROVE  /\ Uncrossed'
           /\ crossed => crossed'
           /\ ~crossed' => durable' = durable \/ \E c \in Clients : Commit(c)
<1> DEFINE Here == /\ ~crossed' => Alone' /\ (durable' = durable \/ \E c \in Clients : Commit(c))
                   /\ crossed => crossed'
                   /\ ~alive' => ~open'
<1>1. ASSUME crossed' = crossed, alive' = alive, open' = open \/ ~open',
             ~crossed => Alone' /\ (durable' = durable \/ \E c \in Clients : Commit(c))
      PROVE  Here
  BY <1>1 DEF Uncrossed
<1>2. ASSUME NEW c \in Clients, Write(c) \/ NextProgram(c)  PROVE Here
  <2>1. UNCHANGED <<open, alive, crossed>>
    BY <1>2 DEF Write, NextProgram, Request, tables
  <2> QED  BY <1>1, <1>2, <2>1, RequestAlone DEF Uncrossed
<1>3. ASSUME NEW c \in Clients, Begin(c)  PROVE Here
  <2>1. alive' /\ (crossed => crossed')  BY <1>3 DEF Begin
  <2> QED  BY <1>3, <2>1, BeginAlone DEF Uncrossed
<1>4. ASSUME NEW c \in Clients, Commit(c)  PROVE Here
  <2>1. UNCHANGED <<alive, crossed>> /\ ~open'
    BY <1>4 DEF Commit, CommitWork, history
  <2> QED  BY <1>1, <1>4, <2>1, CommitAlone DEF Uncrossed
<1>5. ASSUME NEW c \in Clients, CommitLoad(c)  PROVE Here
  <2>1. UNCHANGED <<alive, crossed>> /\ ~open'
    BY <1>5 DEF CommitLoad, CommitWork, history
  <2> QED  BY <1>1, <1>5, <2>1, CommitLoadAlone DEF Uncrossed
<1>6. ASSUME NEW c \in Clients, Rollback(c)  PROVE Here
  <2>1. UNCHANGED <<alive, crossed>> /\ ~open'  BY <1>6 DEF Rollback, Undo
  <2> QED  BY <1>1, <1>6, <2>1, RollbackAlone DEF Uncrossed
<1>7. ASSUME NEW c \in Clients, StatementFails(c)  PROVE Here
  <2>1. UNCHANGED <<alive, open, crossed>>  BY <1>7 DEF StatementFails, tables, history
  <2> QED  BY <1>1, <1>7, <2>1, FailsAlone DEF Uncrossed
<1>8. ASSUME NEW c \in Clients,
             Save(c) \/ Load(c) \/ Create(c) \/ Look(c) \/ Insert(c) \/ Check(c) \/ Clear(c)
                \/ Fill(c, "fill") \/ Fill(c, "more") \/ Take(c)
      PROVE  Here
  <2>1. \E stmt, new, then : Execute(c, stmt, new, then)
    BY <1>8 DEF Save, Load, Create, Look, Insert, Check, Clear, Fill, Take
  <2>2. UNCHANGED <<alive, open, crossed>>  BY <2>1 DEF Execute, history
  <2> QED  BY <1>1, <1>8, <2>2, StatementsAlone DEF Uncrossed
<1>9. ASSUME LoseConnection  PROVE Here
  <2>1. ~open' /\ crossed' = crossed  BY <1>9 DEF LoseConnection, Undo
  <2> QED  BY <1>9, <2>1, LoseConnectionAlone DEF Uncrossed
<1>10. ASSUME UNCHANGED vars  PROVE Here
  <2>1. /\ UNCHANGED <<db, durable, open, alive, crossed>>
        /\ UNCHANGED <<pc, req, held, todo>>
    BY <1>10 DEF vars, tables, locals, history
  <2>2. Alone => Alone'
    BY <2>1 DEF Alone, Single, Whole, Stage, InTxn, ProperIn
  <2> QED  BY <1>1, <2>1, <2>2 DEF Uncrossed
<1>11. Here
  BY <1>2, <1>3, <1>4, <1>5, <1>6, <1>7, <1>8, <1>9, <1>10 DEF Next
<1> QED  BY <1>11 DEF Uncrossed

LEMMA InitUncrossed == Init => Uncrossed
<1> SUFFICES ASSUME Init PROVE Uncrossed  OBVIOUS
<1>1. \A c \in Clients : ~InTxn(c) /\ req[c].kind # "enqueue"  BY DEF Init, InTxn, NoRequest
<1>2. durable.queues = {} /\ durable.rows = {}  BY DEF Init
<1> QED  BY <1>1, <1>2 DEF Init, Uncrossed, Alone, Single, Whole

\* While no two transactions have crossed the tables differ from what is committed by what
\* the one open transaction has done.
LEMMA QueueUncrossed == Spec => [](Typed /\ Uncrossed)
<1>1. Typed /\ Uncrossed /\ [Next]_vars => Uncrossed'  BY NextUncrossed
<1> QED  BY <1>1, InitUncrossed, QueueTyped, PTL DEF Spec

-----------------------------------------------------------------------------
(* The abstract store *)

Entry(r) == [place |-> r.id, program |-> r.program]

\* A row is in at most one queue, by its id.
LEMMA OneQueue ==
    ASSUME NEW d, NEW np, NEW nq, NEW nr, SoundWith(d, np, nq, nr),
           NEW m, NEW n, NEW k \in IdsOf(d, m) \cap IdsOf(d, n)
    PROVE  m = n
<1>1. PICK q \in d.queues : q.name = m /\ q.id = k  BY DEF IdsOf
<1>2. PICK r \in d.queues : r.name = n /\ r.id = k  BY DEF IdsOf
<1> QED  BY <1>1, <1>2 DEF SoundWith

\* What is committed, as the tables then are, is a step of the store or none.
LEMMA SavedStep ==
    ASSUME Typed, Whole, NEW p, durable' = db, SaveDone(durable, db, p),
           crossed = FALSE, crossed' = FALSE
    PROVE  Abstract!Save
<1>1. /\ db.programs = durable.programs \cup {p} /\ p \notin durable.programs
      /\ db.queues = durable.queues /\ db.rows = durable.rows
  BY DEF SaveDone
<1>2. \A r \in durable.rows : r.program \in durable.programs  BY DEF Whole, ProperIn
<1>3. \A n : Listed(durable, n) = Listed(db, n)  BY <1>1, <1>2 DEF Listed, IdsOf
<1>4. \A n : Queued(n)' = Queued(n)  BY <1>3 DEF Queued
<1>5. [n \in Names |-> IF crossed THEN {} ELSE Queued(n)]'
        = [n \in Names |-> IF crossed THEN {} ELSE Queued(n)]
  BY <1>4
<1>6. (IF crossed THEN {} ELSE {q.name : q \in durable.queues})'
        = IF crossed THEN {} ELSE {q.name : q \in durable.queues}
  BY <1>1
<1>7. (IF crossed THEN {} ELSE durable.programs)'
        = (IF crossed THEN {} ELSE durable.programs) \cup {p}
      /\ p \notin (IF crossed THEN {} ELSE durable.programs)
  BY <1>1
<1> QED  BY <1>5, <1>6, <1>7 DEF Abstract!Save

LEMMA EnqueuedListing ==
    ASSUME NEW d, NEW e, NEW np, NEW nq, NEW nr, SoundWith(e, np, nq, nr), NEW n, NEW p,
           EnqueueDone(d, e, n, p), p \in d.programs, \A r \in d.rows : ProperIn(d, r)
    PROVE  /\ \E row : /\ row.program = p /\ \A r \in Listed(d, n) : r.id < row.id
                       /\ Listed(e, n) = Listed(d, n) \cup {row}
           /\ \A m : m # n => Listed(e, m) = Listed(d, m)
           /\ {q.name : q \in e.queues} = {q.name : q \in d.queues} \cup {n}
<1>1. /\ e.programs = d.programs /\ d.queues \subseteq e.queues
      /\ \A q \in e.queues \ d.queues : q.name = n
  BY DEF EnqueueDone
<1>2. PICK row \in e.rows : /\ row.program = p /\ row.queue \in IdsOf(e, n)
                            /\ \A r \in d.rows : r.id < row.id
                            /\ e.rows = d.rows \cup {row}
  BY DEF EnqueueDone
<1>3. \A m : \A r \in d.rows : r.queue \in IdsOf(e, m) <=> r.queue \in IdsOf(d, m)
  <2> SUFFICES ASSUME NEW m, NEW r \in d.rows
               PROVE  r.queue \in IdsOf(e, m) <=> r.queue \in IdsOf(d, m)
    OBVIOUS
  <2>1. IdsOf(d, m) \subseteq IdsOf(e, m)  BY <1>1 DEF IdsOf
  <2>2. ASSUME r.queue \in IdsOf(e, m)  PROVE r.queue \in IdsOf(d, m)
    <3>1. PICK k \in d.queues : k.id = r.queue  BY DEF ProperIn
    <3>2. PICK q \in e.queues : q.name = m /\ q.id = r.queue  BY <2>2 DEF IdsOf
    <3>3. k = q  BY <1>1, <3>1, <3>2 DEF SoundWith
    <3> QED  BY <3>1, <3>2, <3>3 DEF IdsOf
  <2> QED  BY <2>1, <2>2
<1>4. \A m : row.queue \in IdsOf(e, m) <=> m = n  BY <1>2, OneQueue
<1> DEFINE In(r, m) == r.program \in d.programs /\ r.queue \in IdsOf(e, m)
<1>5. \A m : Listed(e, m) = {r \in d.rows \cup {row} : In(r, m)}
  <2> SUFFICES ASSUME NEW m  PROVE Listed(e, m) = {r \in d.rows \cup {row} : In(r, m)}
    OBVIOUS
  <2>1. Listed(e, m) = {r \in e.rows : In(r, m)}  BY <1>1 DEF Listed
  <2> HIDE DEF In
  <2> QED  BY <1>2, <2>1
<1>6. \A m : Listed(d, m) = {r \in d.rows : In(r, m)}  BY <1>3 DEF Listed
<1>7. \A m : In(row, m) <=> m = n  BY <1>2, <1>4
<1> HIDE DEF In
<1>8. Listed(e, n) = Listed(d, n) \cup {row}
  <2>1. {r \in d.rows \cup {row} : In(r, n)} = {r \in d.rows : In(r, n)} \cup {row}  BY <1>7
  <2> QED  BY <1>5, <1>6, <2>1
<1>9. ASSUME NEW m, m # n  PROVE Listed(e, m) = Listed(d, m)
  <2>1. {r \in d.rows \cup {row} : In(r, m)} = {r \in d.rows : In(r, m)}  BY <1>7, <1>9
  <2> QED  BY <1>5, <1>6, <2>1
<1>10. \A r \in Listed(d, n) : r.id < row.id  BY <1>2 DEF Listed
<1>11. {q.name : q \in e.queues} = {q.name : q \in d.queues} \cup {n}
  <2>1. \E q \in e.queues : q.name = n  BY <1>2 DEF IdsOf
  <2> QED  BY <1>1, <2>1
<1> QED  BY <1>2, <1>8, <1>9, <1>10, <1>11

LEMMA EnqueuedStep ==
    ASSUME Typed, Whole, NEW n \in Names, NEW p \in durable.programs, durable' = db,
           EnqueueDone(durable, db, n, p), crossed = FALSE, crossed' = FALSE
    PROVE  Abstract!Enqueue(n, p)
<1>1. PICK row : /\ row.program = p /\ \A r \in Listed(durable, n) : r.id < row.id
                 /\ Listed(db, n) = Listed(durable, n) \cup {row}
  BY TypedTables, EnqueuedListing DEF Whole
<1>2. /\ \A m : m # n => Listed(db, m) = Listed(durable, m)
      /\ {q.name : q \in db.queues} = {q.name : q \in durable.queues} \cup {n}
      /\ db.programs = durable.programs
  BY TypedTables, EnqueuedListing DEF Whole, EnqueueDone
<1>3. Queued(n)' = Queued(n) \cup {Entry(row)}  BY <1>1 DEF Queued, Entry
<1>4. \A m : m # n => Queued(m)' = Queued(m)  BY <1>2 DEF Queued
<1>5. Entry(row).program = p /\ \A f \in Queued(n) : f.place < Entry(row).place
  BY <1>1 DEF Queued, Entry
<1> DEFINE Q == [m \in Names |-> IF crossed THEN {} ELSE Queued(m)]
<1>6. Q' = [Q EXCEPT ![n] = @ \cup {Entry(row)}]  BY <1>3, <1>4
<1>7. Q[n] = Queued(n) /\ Entry(row) \in Q'[n]  BY <1>3
<1>8. (IF crossed THEN {} ELSE {q.name : q \in durable.queues})'
        = (IF crossed THEN {} ELSE {q.name : q \in durable.queues}) \cup {n}
  BY <1>2
<1>9. /\ (IF crossed THEN {} ELSE durable.programs)' = IF crossed THEN {} ELSE durable.programs
      /\ p \in IF crossed THEN {} ELSE durable.programs
  BY <1>2
<1> QED  BY <1>5, <1>6, <1>7, <1>8, <1>9 DEF Abstract!Enqueue

LEMMA SetListing ==
    ASSUME NEW d, NEW e, NEW np, NEW nq, NEW nr, SoundWith(d, np, nq, nr), NEW n, NEW ps,
           SetDone(d, e, n, ps, {}), IdsOf(d, n) # {}
    PROVE  /\ \E at : /\ InOrder(at, There(d, ps), ps, IdsOf(d, n))
                      /\ Listed(e, n) = {at[i] : i \in There(d, ps)}
           /\ \A m : m # n => Listed(e, m) = Listed(d, m)
<1> DEFINE Q == IdsOf(d, n)
           T == There(d, ps)
<1>1. e.programs = d.programs /\ e.queues = d.queues /\ T \ {} = T
      /\ {r \in e.rows : r.queue \notin Q} = {r \in d.rows : r.queue \notin Q}
  BY DEF SetDone
<1>2. PICK at : InOrder(at, T, ps, Q) /\ {r \in e.rows : r.queue \in Q} = {at[i] : i \in T}
  BY <1>1 DEF SetDone
<1>3. \A m : IdsOf(e, m) = IdsOf(d, m)  BY <1>1 DEF IdsOf
<1>4. \A i \in T : at[i].program \in d.programs  BY <1>2 DEF InOrder, There
<1>5. Listed(e, n) = {at[i] : i \in T}
  <2>1. Listed(e, n) = {r \in {at[i] : i \in T} : r.program \in d.programs}
    BY <1>1, <1>2, <1>3 DEF Listed
  <2> QED  BY <1>4, <2>1
<1>6. ASSUME NEW m, m # n  PROVE Listed(e, m) = Listed(d, m)
  <2>1. \A k \in IdsOf(d, m) : k \notin Q  BY <1>6, OneQueue
  <2> HIDE DEF Q
  <2> QED  BY <1>1, <1>3, <2>1 DEF Listed
<1> QED  BY <1>2, <1>5, <1>6

LEMMA SetStep ==
    ASSUME Typed, Whole, NEW n \in Names, NEW ps \in Lists, durable' = db,
           SetDone(durable, db, n, ps, {}), IdsOf(durable, n) # {},
           crossed = FALSE, crossed' = FALSE
    PROVE  Abstract!Replace(n, ps)
<1> DEFINE T == There(durable, ps)
<1>1. PICK at : /\ InOrder(at, T, ps, IdsOf(durable, n))
                /\ Listed(db, n) = {at[i] : i \in T}
  BY TypedTables, SetListing
<1>2. \A m : m # n => Listed(db, m) = Listed(durable, m)
  BY TypedTables, SetListing
<1>3. /\ db.programs = durable.programs /\ db.queues = durable.queues /\ T # {}
  BY DEF SetDone
<1> DEFINE bt == [i \in T |-> Entry(at[i])]
           Q == [m \in Names |-> IF crossed THEN {} ELSE Queued(m)]
           P == IF crossed THEN {} ELSE durable.programs
<1>4. Queued(n)' = {Entry(r) : r \in Listed(db, n)}  BY DEF Queued, Entry
<1>5. Queued(n)' = {bt[i] : i \in T}  BY <1>1, <1>4
<1>6. \A m : m # n => Queued(m)' = Queued(m)  BY <1>2 DEF Queued
<1>7. Q' = [Q EXCEPT ![n] = {bt[i] : i \in T}]  BY <1>5, <1>6
<1>8. Q'[n] = {bt[i] : i \in T}  BY <1>5
<1>9. bt \in [T -> Q'[n]]  BY <1>8
<1>10. /\ \A i \in T : bt[i].program = ps[i]
       /\ \A i, j \in T : i < j => bt[i].place < bt[j].place
  BY <1>1 DEF InOrder, Entry
<1>11. P' = P /\ T = {i \in DOMAIN ps : ps[i] \in P}  BY <1>3 DEF There
<1>12. /\ (IF crossed THEN {} ELSE {q.name : q \in durable.queues})'
            = IF crossed THEN {} ELSE {q.name : q \in durable.queues}
       /\ n \in IF crossed THEN {} ELSE {q.name : q \in durable.queues}
  BY <1>3 DEF IdsOf
<1> HIDE DEF bt, T
<1> QED  BY <1>3, <1>7, <1>9, <1>10, <1>11, <1>12 DEF Abstract!Replace

LEMMA CommitStep ==
    ASSUME Typed, Uncrossed, NEW c \in Clients, Commit(c), crossed = FALSE, crossed' = FALSE
    PROVE  \/ durable' = durable
           \/ Abstract!Save
           \/ \E n \in Names, p \in durable.programs : Abstract!Enqueue(n, p)
           \/ \E n \in Names, ps \in Lists : Abstract!Replace(n, ps)
<1>1. pc[c] = "commit" /\ alive /\ durable' = db  BY DEF Commit, CommitWork
<1>2. Whole /\ Stage(c)  BY <1>1 DEF Uncrossed, Alone, InTxn
<1>3. req[c] \in Requests  BY DEF Typed, LocalsOK
<1>4. CASE SaveDone(durable, db, held[c])  BY <1>1, <1>2, <1>4, SavedStep
<1>5. CASE /\ req[c].kind = "enqueue"
           /\ EnqueueDone(durable, db, req[c].name, req[c].program)
  <2>1. req[c].name \in Names  BY <1>3, <1>5, RequestKinds
  <2>2. req[c].program \in durable.programs  BY <1>2, <1>5 DEF Whole
  <2> QED  BY <1>1, <1>2, <1>5, <2>1, <2>2, EnqueuedStep
<1>6. CASE req[c].kind = "set" /\ SetDone(durable, db, req[c].name, req[c].ids, {})
  <2>1. req[c].name \in Names /\ req[c].ids \in Lists  BY <1>3, <1>6 DEF Requests
  <2>2. CASE IdsOf(durable, req[c].name) # {}  BY <1>1, <1>2, <1>6, <2>1, <2>2, SetStep
  <2>3. CASE IdsOf(durable, req[c].name) = {}
    <3>1. /\ db.programs = durable.programs /\ db.queues = durable.queues
          /\ {r \in db.rows : r.queue \notin {}} = {r \in durable.rows : r.queue \notin {}}
      BY <1>6, <2>3 DEF SetDone
    <3>2. db.rows = durable.rows  BY <3>1
    <3>3. db = durable  BY <3>1, <3>2, TypedTables DEF Tables
    <3> QED  BY <1>1, <3>3
  <2> QED  BY <2>2, <2>3
<1> QED  BY <1>1, <1>2, <1>4, <1>5, <1>6 DEF Stage

LEMMA StepImplements ==
    ASSUME Typed, Typed', Uncrossed, [Next]_vars
    PROVE  [Abstract!Next]_<<IF crossed THEN {} ELSE durable.programs,
                             IF crossed THEN {} ELSE {q.name : q \in durable.queues},
                             [n \in Names |-> IF crossed THEN {} ELSE Queued(n)],
                             crossed>>
<1> DEFINE P == IF crossed THEN {} ELSE durable.programs
           K == IF crossed THEN {} ELSE {q.name : q \in durable.queues}
           Q == [n \in Names |-> IF crossed THEN {} ELSE Queued(n)]
<1>1. crossed \in BOOLEAN /\ crossed' \in BOOLEAN  BY DEF Typed, HistoryOK
<1>2. crossed => crossed'  BY NextUncrossed
<1>3. CASE crossed
  BY <1>1, <1>2, <1>3
<1>4. CASE ~crossed /\ crossed'
  <2>1. P' = {} /\ K' = {} /\ Q' = [n \in Names |-> {}] /\ crossed' = TRUE
    BY <1>1, <1>4
  <2> QED  BY <2>1 DEF Abstract!Next, Abstract!Cross, Abstract!Nothing
<1>5. CASE ~crossed /\ ~crossed'
  <2>1. crossed = FALSE /\ crossed' = FALSE  BY <1>1, <1>5
  <2>2. CASE durable' = durable
    <3>1. \A n : Queued(n)' = Queued(n)  BY <2>2 DEF Queued
    <3> QED  BY <2>1, <2>2, <3>1
  <2>3. CASE \E c \in Clients : Commit(c)
    <3>1. \/ durable' = durable
          \/ Abstract!Save
          \/ \E n \in Names, p \in durable.programs : Abstract!Enqueue(n, p)
          \/ \E n \in Names, ps \in Lists : Abstract!Replace(n, ps)
      BY <2>1, <2>3, CommitStep
    <3>2. P = durable.programs  BY <2>1
    <3> QED  BY <1>5, <2>2, <3>1, <3>2 DEF Abstract!Next
  <2> QED  BY <1>5, <2>2, <2>3, NextUncrossed
<1> QED  BY <1>3, <1>4, <1>5

\* Until two transactions cross, the committed tables (DB.pm6) change only as ProgramQueue
\* does, by one request's whole effect in one step, for any clients, names, programs and
\* lists, with ids in them that are none, through retries and lost connections.
THEOREM QueueImplements == Spec => Implements
<1>1. Init => Abstract!Init
  <2> SUFFICES ASSUME Init  PROVE Abstract!Init  OBVIOUS
  <2>1. durable = [programs |-> 1 .. Stored, queues |-> {}, rows |-> {}] /\ crossed = FALSE
    BY DEF Init
  <2>2. \A n : Queued(n) = {}  BY <2>1 DEF Queued, Listed
  <2> QED  BY <2>1, <2>2 DEF Abstract!Init, Abstract!Nothing
<1> QED  BY <1>1, StepImplements, QueueUncrossed, PTL DEF Spec, Implements, Abstract!Spec
=============================================================================
