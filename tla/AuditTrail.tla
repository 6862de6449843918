----------------------------- MODULE AuditTrail -----------------------------
(* The audit log: rows inserted by the request they describe               *)
(* (services/audit.ts), a reader that pages through them                   *)
(* (routes/audit.ts) and the daily cleanup (jobs/cleanup.ts).              *)
(*                                                                         *)
(* created_at has microseconds, a page's cursor and the cleanup's cutoff   *)
(* have milliseconds.  A tick stands for one millisecond; rows of one tick *)
(* are told apart by id, which numbers the inserts in the order of their   *)
(* time stamps.  An insert takes its stamp when it starts and is visible   *)
(* when it has committed.                                                  *)
EXTENDS Integers, FiniteSets, FiniteSetsExt

CONSTANTS
    Writer,       \* requests that may be inserting a row at once
    Limit,        \* rows of a page
    Retention,    \* AUDIT_RETENTION_DAYS
    MaxRows,      \* bound: rows ever stamped
    MaxTime,      \* bound: the last tick
    None          \* no insert, no reading

ASSUME TrailAssumption ==
    /\ Limit \in Nat \ {0}
    /\ Retention \in Nat \ {0}
    /\ MaxRows \in Nat
    /\ MaxTime \in Nat

Time == 0 .. MaxTime
Row == [id : 1 .. MaxRows, at : Time]
NoRow == [id |-> 0, at |-> 0]

VARIABLES
    now,
    stamped,      \* inserts so far
    insert,       \* the row each writer is inserting
    rows,         \* audit_logs, what a query sees
    reading       \* a reader on its way through the history

trail == <<stamped, insert, rows, reading>>

\* A reading: the cursor of the next page, and as history the oldest row it has
\* shown and the rows it has yet to show.
Reading == [before : Time, last : 1 .. MaxRows, owed : SUBSET Row]

ASSUME NoneAssumption == None \notin Time \cup Reading

TrailTypeOK ==
    /\ now \in Time
    /\ stamped \in 0 .. MaxRows
    /\ insert \in [Writer -> Row \cup {NoRow}]
    /\ rows \in SUBSET Row
    /\ reading \in Reading \cup {None}

TrailInit ==
    /\ now = 0
    /\ stamped = 0
    /\ insert = [w \in Writer |-> NoRow]
    /\ rows = {}
    /\ reading = None

-----------------------------------------------------------------------------
(* services/audit.ts                                                       *)

\* audit(): the insert starts, created_at is that moment's.
BeginInsert(w) ==
    /\ insert[w] = NoRow
    /\ stamped < MaxRows
    /\ stamped' = stamped + 1
    /\ insert' = [insert EXCEPT ![w] = [id |-> stamped + 1, at |-> now]]
    /\ UNCHANGED <<rows, reading>>

CommitInsert(w) ==
    /\ insert[w] # NoRow
    /\ rows' = rows \cup {insert[w]}
    /\ insert' = [insert EXCEPT ![w] = NoRow]
    /\ UNCHANGED <<stamped, reading>>

\* The failure is logged and not thrown: the operation goes on.
FailInsert(w) ==
    /\ insert[w] # NoRow
    /\ insert' = [insert EXCEPT ![w] = NoRow]
    /\ UNCHANGED <<stamped, rows, reading>>

-----------------------------------------------------------------------------
(* GET /audit                                                              *)

Newest(s, n) == {x \in s : Cardinality({y \in s : y.id > x.id}) < n}

\* The cursor's own millisecond is shown again.
Page_Inclusive(before) == Newest({x \in rows : x.at <= before}, Limit)

\* Rows strictly older than the cursor, newest first, at most Limit of them.
Page(before) == Newest({x \in rows : x.at < before}, Limit)

\* nextBefore: the oldest row's time without its microseconds, if the page is
\* full.
NextBefore(page) ==
    IF Cardinality(page) = Limit THEN Min({x.at : x \in page}) ELSE None

\* One request.  The reader follows nextBefore until there is none; the rows
\* that share the cursor's millisecond are no longer owed.
Show(page, owed) ==
    reading' =
        LET before == NextBefore(page) IN
        IF before = None THEN None
        ELSE [before |-> before,
              last |-> Min({x.id : x \in page}),
              owed |-> {x \in owed \ page : x.at # before}]

\* The first page has no cursor.  promised are the rows of the requests that
\* were answered by now.
StartReading(promised) ==
    /\ reading = None
    /\ Show(Newest(rows, Limit), promised)
    /\ UNCHANGED <<now, stamped, insert, rows>>

NextPage ==
    /\ reading # None
    /\ Show(Page(reading.before), reading.owed)
    /\ UNCHANGED <<now, stamped, insert, rows>>

-----------------------------------------------------------------------------
(* jobs/cleanup.ts                                                         *)

CleanupExpiredAuditLogs ==
    /\ \E x \in rows : x.at < now - Retention
    /\ rows' = {x \in rows : x.at >= now - Retention}
    /\ UNCHANGED <<now, stamped, insert, reading>>

-----------------------------------------------------------------------------
(* Properties                                                              *)

\* Every page is older than the last one: no row is shown twice, and following
\* the cursor comes to an end.
PagesGoBack ==
    [][reading # None /\ reading' # reading =>
          \A x \in Page(reading.before) : x.id < reading.last]_<<now, trail>>

\* A reader that reached the end was shown every row of a request that was
\* answered before it began.  The exceptions: rows in the very millisecond in
\* which one of its pages ended, and rows the cleanup has meanwhile pruned.
HistoryIsShown ==
    [][reading # None /\ reading' = None =>
          \A x \in reading.owed \ Page(reading.before) :
              x.at < now - Retention]_<<now, trail>>
=============================================================================
