----------------------------- MODULE Migrations -----------------------------
(* Who may change the database schema, and on what evidence: migrate.ts,   *)
(* which every container runs before it serves, the guard it runs first,   *)
(* and the baseline tool that adopts a database built with `drizzle-kit    *)
(* push` (db/adoption.ts, scripts/baseline-migrations.ts).                  *)
(*                                                                         *)
(* Migrations are 1..Newest.  Each has a marker, the first object it       *)
(* creates; schema is the set of migrations whose marker is there.  The    *)
(* journal is the table drizzle.__drizzle_migrations.  A statement outside *)
(* a transaction is a step, and so is a committed transaction: containers, *)
(* tools, the operator and a lost connection come between any two.         *)
EXTENDS Integers, Sequences, FiniteSets, Functions

CONSTANTS
    Newest,       \* the number of migrations of the newest release
    Idempotent,   \* migrations whose statements succeed over their own result
    Container,    \* containers: each runs migrate.js and then serves
    Tool,         \* runs of db:baseline -- --apply
    Build,        \* the release each of them is built from
    NoJournal,    \* the journal's table does not exist
    Nobody,       \* no process
    MaxEdits,     \* bound: how often the operator changes the database
    MaxAborts     \* bound: how many processes die between two statements

Migration == 1 .. Newest
Proc == Container \cup Tool
Row == [when : Migration, genuine : BOOLEAN]

ASSUME MigrationsAssumption ==
    /\ Newest \in Nat \ {0}
    /\ Idempotent \subseteq Migration
    /\ Container \cap Tool = {}
    /\ Build \in [Proc -> Migration]
    /\ \A t \in Tool : Build[t] = Newest
    /\ NoJournal \notin Seq(Row)
    /\ Nobody \notin Proc
    /\ MaxEdits \in Nat
    /\ MaxAborts \in Nat

VARIABLES
    schema,       \* the migrations whose marker is in the live schema
    journal,      \* the journal's rows in the order of their ids
    creator,      \* the transaction that created the journal, uncommitted
    pc,           \* the statement each process runs next
    mem,          \* what each process has read, while it runs
    raced,        \* history: the database changed since the process started
    advice,       \* what the last refusal tells the operator to do
    edits, aborts

database == <<schema, journal>>
bounds == <<edits, aborts>>
vars == <<database, creator, pc, mem, raced, advice, bounds>>

\* populated: what databaseIsPopulated said; at: markers probed, count: how many
\* of them lead without a gap; last: the newest row, or the rows inserted.
Memory == [populated : BOOLEAN, at : 0 .. Newest, count : 0 .. Newest,
           last : 0 .. Newest]
Blank == [populated |-> FALSE, at |-> 0, count |-> 0, last |-> 0]

Statement == {"populated", "journal", "probe", "detect", "rows", "create",
              "last", "apply", "begin", "empty", "insert", "commit"}
Ended == {"idle", "done", "refused"}
Advice == {"none", "baseline", "drop"}

TypeOK ==
    /\ schema \subseteq Migration
    /\ journal \in Seq(Row) \cup {NoJournal}
    /\ creator \in Tool \cup {Nobody}
    /\ pc \in [Proc -> Statement \cup Ended]
    /\ mem \in [Proc -> Memory]
    /\ raced \in [Proc -> BOOLEAN]
    /\ advice \in Advice
    /\ edits \in 0 .. MaxEdits
    /\ aborts \in 0 .. MaxAborts

-----------------------------------------------------------------------------
(* The journal                                                             *)

Genuine(n) == [m \in 1 .. n |-> [when |-> m, genuine |-> TRUE]]

Exists == journal # NoJournal
Rows == IF Exists THEN journal ELSE <<>>

\* The guard counts the rows and does not read them.
Authentic_CountOnly(rows, n) == Len(rows) = n

\* assertJournalMatchesSchemaPrefix: as many rows as leading markers, and in
\* order of created_at the times and hashes of the first migrations.
Authentic(rows, n) == Len(rows) = n /\ Range(rows) = Range(Genuine(n))

\* drizzle reads the row with the greatest created_at.
LastWhen(rows) ==
    IF rows = <<>> THEN 0
    ELSE CHOOSE w \in Migration : /\ \E r \in Range(rows) : r.when = w
                                  /\ \A r \in Range(rows) : r.when <= w

IsPrefix(S) == \E n \in 0 .. Newest : S = 1 .. n

Init ==
    /\ \E n \in 0 .. Newest :
          /\ schema = 1 .. n
          /\ journal \in {NoJournal} \cup (IF n = 0 THEN {} ELSE {Genuine(n)})
    /\ creator = Nobody
    /\ pc = [p \in Proc |-> "idle"]
    /\ mem = [p \in Proc |-> Blank]
    /\ raced = [p \in Proc |-> FALSE]
    /\ advice = "none"
    /\ edits = 0
    /\ aborts = 0

Goto(p, s) == pc' = [pc EXCEPT ![p] = s]
Note(p, m) == mem' = [mem EXCEPT ![p] = m]

\* A process ends: it serves, has nothing to do, or fails with an error.
End(p, s) == Goto(p, s) /\ Note(p, Blank)

\* An error whose message says what to do about it.
Refuse(p, told) == End(p, "refused") /\ advice' = told

\* p changes the database under every other process that runs or has run.
Races(p) ==
    raced' = [q \in Proc |->
                raced[q] \/ (q # p /\ pc[q] \notin {"idle", "refused"})]

-----------------------------------------------------------------------------
(* The guard: assertSafeToMigrate, and the same reads in the tool          *)

Start(p) ==
    /\ pc[p] \in Ended
    /\ advice # "drop"
    /\ Goto(p, IF p \in Container THEN "populated" ELSE "journal")
    /\ raced' = [raced EXCEPT ![p] = FALSE]
    /\ advice' = IF p \in Tool /\ advice = "baseline" THEN "none" ELSE advice
    /\ UNCHANGED <<database, creator, mem, bounds>>

\* Only the clients table is asked for.  The tool stops at an empty database.
ReadPopulated(p) ==
    /\ pc[p] = "populated"
    /\ \/ /\ p \in Container
          /\ Goto(p, "journal")
          /\ Note(p, [mem[p] EXCEPT !.populated = 1 \in schema])
       \/ /\ p \in Tool /\ 1 \in schema
          /\ Goto(p, "detect")
          /\ UNCHANGED mem
       \/ /\ p \in Tool /\ 1 \notin schema
          /\ End(p, "done")
    /\ UNCHANGED <<database, creator, raced, advice, bounds>>

\* The guard takes a database without a journal for a fresh one.
ReadJournalExists_NoGuard(p) ==
    /\ pc[p] = "journal"
    /\ Goto(p, IF Exists THEN "probe"
               ELSE IF p \in Tool THEN "populated" ELSE "create")
    /\ UNCHANGED <<database, creator, mem, raced, advice, bounds>>

ReadJournalExists(p) ==
    /\ pc[p] = "journal"
    /\ \/ /\ Exists
          /\ Goto(p, "probe")
          /\ UNCHANGED <<mem, advice>>
       \/ /\ ~Exists /\ p \in Tool
          /\ Goto(p, "populated")
          /\ UNCHANGED <<mem, advice>>
       \/ /\ ~Exists /\ p \in Container /\ ~mem[p].populated
          /\ Goto(p, "create")
          /\ UNCHANGED <<mem, advice>>
       \/ /\ ~Exists /\ p \in Container /\ mem[p].populated
          /\ Refuse(p, "baseline")
    /\ UNCHANGED <<database, creator, raced, bounds>>

\* One marker per statement.  A marker behind a gap is refused: the remedy is
\* to repair the schema by hand.
ProbeMarker(p) ==
    LET m == mem[p].at + 1 IN
    /\ pc[p] \in {"probe", "detect"}
    /\ m <= Build[p]
    /\ \/ /\ m \in schema /\ mem[p].count < mem[p].at
          /\ End(p, "refused") /\ UNCHANGED advice
       \/ /\ m \in schema /\ mem[p].count = mem[p].at
          /\ Note(p, [mem[p] EXCEPT !.at = m, !.count = m])
          /\ UNCHANGED <<pc, advice>>
       \/ /\ m \notin schema
          /\ Note(p, [mem[p] EXCEPT !.at = m])
          /\ UNCHANGED <<pc, advice>>
    /\ UNCHANGED <<database, creator, raced, bounds>>

\* All markers probed: the tool that found no journal goes on to write one.
Probed(p) ==
    /\ pc[p] \in {"probe", "detect"}
    /\ mem[p].at = Build[p]
    /\ Goto(p, IF pc[p] = "probe" THEN "rows" ELSE "begin")
    /\ UNCHANGED <<database, creator, mem, raced, advice, bounds>>

\* The guard asks for a row for every migration, the pending ones too.
ReadRows_EveryMigration(p) ==
    /\ pc[p] = "rows"
    /\ \/ /\ Len(Rows) < Build[p]
          /\ Refuse(p, "drop")
       \/ /\ Len(Rows) >= Build[p]
          /\ IF p \in Container THEN Goto(p, "create") /\ UNCHANGED mem
                                ELSE End(p, "done")
          /\ UNCHANGED advice
    /\ UNCHANGED <<database, creator, raced, bounds>>

\* assertJournalMatchesSchemaPrefix: too few rows, too many (for a backup or a
\* push to mend), or not the rows.
ReadRows(p) ==
    /\ pc[p] = "rows"
    /\ \/ /\ ~Exists
          /\ End(p, "refused") /\ UNCHANGED advice
       \/ /\ Exists /\ Len(Rows) < mem[p].count
          /\ Refuse(p, "drop")
       \/ /\ Len(Rows) > mem[p].count
          /\ End(p, "refused") /\ UNCHANGED advice
       \/ /\ Len(Rows) = mem[p].count /\ ~Authentic(Rows, mem[p].count)
          /\ Refuse(p, "drop")
       \/ /\ Exists /\ Authentic(Rows, mem[p].count)
          /\ IF p \in Container THEN Goto(p, "create") /\ UNCHANGED mem
                                ELSE End(p, "done")
          /\ UNCHANGED advice
    /\ UNCHANGED <<database, creator, raced, bounds>>

-----------------------------------------------------------------------------
(* drizzle's migrate, as migrate.ts calls it                               *)

\* CREATE TABLE IF NOT EXISTS, committed on its own.
CreateJournal(p) ==
    /\ pc[p] = "create"
    /\ creator = Nobody
    /\ Goto(p, "last")
    /\ IF Exists THEN UNCHANGED <<journal, raced>>
                 ELSE journal' = <<>> /\ Races(p)
    /\ UNCHANGED <<schema, creator, mem, advice, bounds>>

ReadLast(p) ==
    /\ pc[p] = "last"
    /\ \/ /\ Exists
          /\ Goto(p, "apply")
          /\ Note(p, [mem[p] EXCEPT !.last = LastWhen(Rows)])
       \/ /\ ~Exists
          /\ End(p, "refused")
    /\ UNCHANGED <<database, creator, raced, advice, bounds>>

Pending(p) == {m \in 1 .. Build[p] : m > mem[p].last}

\* A statement fails over an object that is there, or without the tables of
\* the first migration; CREATE ... IF NOT EXISTS does not.
Runs(p) ==
    /\ Exists
    /\ Pending(p) \cap schema \subseteq Idempotent
    /\ 1 \in schema \cup Pending(p)

\* Every pending migration and its row, in one transaction.
ApplyPending(p) ==
    /\ pc[p] = "apply"
    /\ \/ /\ Pending(p) = {}
          /\ End(p, "done")
          /\ UNCHANGED <<database, raced>>
       \/ /\ Pending(p) # {} /\ Runs(p)
          /\ schema' = schema \cup Pending(p)
          /\ journal' = Rows \o [i \in 1 .. (Build[p] - mem[p].last) |->
                                  [when |-> mem[p].last + i, genuine |-> TRUE]]
          /\ End(p, "done")
          /\ Races(p)
       \/ /\ Pending(p) # {} /\ ~Runs(p)
          /\ End(p, "refused")
          /\ UNCHANGED <<database, raced>>
    /\ UNCHANGED <<creator, advice, bounds>>

-----------------------------------------------------------------------------
(* baselineJournal: one transaction                                        *)

\* Two creations of one table wait for each other.
BeginBaseline(p) ==
    /\ pc[p] = "begin"
    /\ creator = Nobody
    /\ creator' = IF Exists THEN Nobody ELSE p
    /\ Goto(p, "empty")
    /\ UNCHANGED <<database, mem, raced, advice, bounds>>

\* It refuses a journal that has rows.
CountRows(p) ==
    /\ pc[p] = "empty"
    /\ \/ Rows = <<>> /\ Goto(p, "insert") /\ UNCHANGED mem
       \/ Rows # <<>> /\ End(p, "refused")
    /\ UNCHANGED <<database, creator, raced, advice, bounds>>

\* The baseline records every migration it knows of.
InsertRow_EveryMigration(p) ==
    /\ pc[p] = "insert"
    /\ \/ /\ mem[p].last < Build[p]
          /\ Note(p, [mem[p] EXCEPT !.last = @ + 1])
          /\ UNCHANGED pc
       \/ /\ mem[p].last = Build[p]
          /\ Goto(p, "commit")
          /\ UNCHANGED mem
    /\ UNCHANGED <<database, creator, raced, advice, bounds>>

\* The rows are inserted outside a transaction.
InsertRow_Autocommit(p) ==
    /\ pc[p] = "insert"
    /\ \/ /\ mem[p].last < mem[p].count
          /\ Note(p, [mem[p] EXCEPT !.last = @ + 1])
          /\ journal' = Append(Rows, [when |-> mem[p].last + 1, genuine |-> TRUE])
          /\ UNCHANGED pc
       \/ /\ mem[p].last = mem[p].count
          /\ End(p, "done")
          /\ UNCHANGED journal
    /\ UNCHANGED <<schema, creator, raced, advice, bounds>>

InsertRow(p) ==
    /\ pc[p] = "insert"
    /\ \/ /\ mem[p].last < mem[p].count
          /\ Note(p, [mem[p] EXCEPT !.last = @ + 1])
          /\ UNCHANGED pc
       \/ /\ mem[p].last = mem[p].count
          /\ Goto(p, "commit")
          /\ UNCHANGED mem
    /\ UNCHANGED <<database, creator, raced, advice, bounds>>

Release(p) == creator' = IF creator = p THEN Nobody ELSE creator

Commit(p) ==
    /\ pc[p] = "commit"
    /\ journal' = Rows \o Genuine(mem[p].last)
    /\ Release(p)
    /\ End(p, "done")
    /\ Races(p)
    /\ UNCHANGED <<schema, advice, bounds>>

-----------------------------------------------------------------------------
(* The process dies, or its connection does: what was not committed is     *)
(* gone                                                                    *)
Abort(p) ==
    /\ pc[p] \in Statement
    /\ aborts < MaxAborts
    /\ aborts' = aborts + 1
    /\ Release(p)
    /\ End(p, "refused")
    /\ UNCHANGED <<database, raced, advice, edits>>

-----------------------------------------------------------------------------
(* The operator.  A push waits for the containers to stop, a hand edit for  *)
(* the tools too; a baseline is undone at any time, when the transactions  *)
(* over the journal let go of it.  Told to drop the journal, the operator  *)
(* starts nothing before that is done.                                     *)

Quiet(S) == \A p \in S : pc[p] \in Ended
Edits ==
    /\ edits < MaxEdits
    /\ edits' = edits + 1
    /\ Races(Nobody)
    /\ UNCHANGED <<creator, pc, mem, aborts>>

\* drizzle-kit push brings the schema to a release.
Push ==
    /\ Quiet(Container)
    /\ \E n \in Migration : schema' = schema \cup 1 .. n /\ schema' # schema
    /\ UNCHANGED <<journal, advice>>
    /\ Edits

\* An object is dropped by hand, or an older dump restored.
DropObjects ==
    /\ Quiet(Proc)
    /\ \E m \in schema : schema' \in {schema \ {m}, 1 .. (m - 1)}
    /\ UNCHANGED <<journal, advice>>
    /\ Edits

\* A row is edited by hand.
SubstituteRow ==
    /\ Quiet(Proc)
    /\ \E i \in DOMAIN Rows :
          /\ journal[i].genuine
          /\ journal' = [journal EXCEPT ![i].genuine = FALSE]
    /\ UNCHANGED <<schema, advice>>
    /\ Edits

\* DROP SCHEMA drizzle CASCADE, to undo a baseline.
DropJournal ==
    /\ Exists
    /\ ~ \E t \in Tool : pc[t] \in {"empty", "insert", "commit"}
    /\ journal' = NoJournal
    /\ UNCHANGED <<schema, advice>>
    /\ Edits

\* The same because a refusal said so, with nothing else running.
Recover ==
    /\ advice = "drop"
    /\ Quiet(Proc)
    /\ advice' = "none"
    /\ journal' = NoJournal
    /\ Races(Nobody)
    /\ UNCHANGED <<schema, creator, pc, mem, bounds>>

Step(p) ==
    \/ ReadPopulated(p) \/ ReadJournalExists(p) \/ ProbeMarker(p)
    \/ Probed(p) \/ ReadRows(p)
    \/ CreateJournal(p) \/ ReadLast(p) \/ ApplyPending(p)
    \/ BeginBaseline(p) \/ CountRows(p) \/ InsertRow(p) \/ Commit(p)

Next ==
    \/ \E p \in Proc : Start(p) \/ Step(p) \/ Abort(p)
    \/ Push \/ DropObjects \/ SubstituteRow \/ DropJournal \/ Recover

\* A process that runs goes on; a container is started again, after a failure by
\* whatever keeps it up and otherwise by the next deploy; the operator does what
\* a refusal says.
Fairness ==
    /\ \A p \in Proc : WF_vars(Step(p))
    /\ \A c \in Container : WF_vars(Start(c))
    /\ \A t \in Tool : WF_vars(advice = "baseline" /\ Start(t))
    /\ WF_vars(Recover)

Spec == Init /\ [][Next]_vars /\ Fairness

-----------------------------------------------------------------------------
(* Properties                                                              *)

\* The journal has the rows of the first n migrations, in whatever order their
\* ids have: drizzle and the guard read them by created_at.
Says(rows, n) ==
    Len(rows) = n /\ \A m \in 1 .. n : [when |-> m, genuine |-> TRUE] \in Range(rows)

\* A container that got through migrate.js with nobody else at the database
\* serves a schema that has every migration of its release, and a journal
\* that says exactly so.
Vouched ==
    \A c \in Container :
        pc[c] = "done" /\ ~raced[c] =>
            /\ 1 .. Build[c] \subseteq schema
            /\ Says(Rows, Build[c])

\* The guard lets nothing through that would run a migration over its own
\* result ("mangles the schema at worst"), unless the database changed after
\* it looked or has lost the clients table.
ReplaysNothing ==
    \A c \in Container :
        pc[c] = "apply" /\ ~raced[c] /\ 1 \in schema =>
            Pending(c) \cap schema = {}

\* However many containers and tools start together and die on the way, the
\* journal has no hole, no migration is recorded twice, and it says of no
\* migration that it ran before its objects are there: while the operator
\* leaves the database alone.
JournalWhole ==
    edits = 0 =>
        \A i \in DOMAIN Rows : Rows[i].when = i /\ i \in schema

\* The journal grows only by a transaction that leaves it saying exactly what
\* the schema has, up to the writer's release, unless the database changed
\* since the writer looked: a baseline that dies leaves all rows or none.
WritesTrue ==
    [][Len(Rows') > Len(Rows) =>
          \E p \in Proc :
             /\ pc[p] \in {"apply", "commit"} /\ pc'[p] = "done"
             /\ ~raced[p] =>
                   Says(Rows', Cardinality(schema' \cap 1 .. Build[p]))]_vars

\* Following the messages ends with the newest schema and its journal, once
\* the operator leaves a schema that is some release's and a journal that is
\* not ahead of it.
Adopted == schema = Migration /\ Says(Rows, Newest)
AdoptionEnds ==
    <>[](IsPrefix(schema) /\ Len(Rows) <= Cardinality(schema)) => <>[]Adopted
=============================================================================
