-------------------------- MODULE Migrations_proofs --------------------------
(***************************************************************************)
(* Proofs about Migrations, for any number of migrations, containers and   *)
(* tool runs, any releases and any bounds.                                 *)
(***************************************************************************)
EXTENDS Migrations, SequenceTheorems, FiniteSetTheorems,
        WellFoundedInduction, TLAPS

-----------------------------------------------------------------------------
(* The journal and its newest row                                          *)

(* A set of natural numbers has a least one; one that is bounded also has  *)
(* a greatest one.                                                         *)
LEMMA NatMin ==
    ASSUME NEW T \in SUBSET Nat, T # {}
    PROVE  \E m \in T : \A k \in T : m <= k
<1> DEFINE R == OpToRel(<, Nat)
<1>1. IsWellFoundedOn(R, Nat)
  BY NatLessThanWellFounded
<1>2. \A x, y \in Nat : x < y => <<x, y>> \in R
  BY DEF OpToRel
<1> HIDE DEF R
<1>3. PICK m \in T : \A k \in T : <<k, m>> \notin R
  BY <1>1, WFMin
<1>4. ASSUME NEW k \in T PROVE ~ (k < m)
  <2>1. k \in Nat /\ m \in Nat /\ <<k, m>> \notin R
    BY <1>3
  <2> QED
    BY <1>2, <2>1, Zenon
<1>5. \A k \in T : m <= k
  BY <1>4
<1> QED
  BY <1>5

LEMMA NatMax ==
    ASSUME NEW n \in Nat, NEW T \in SUBSET (0 .. n), T # {}
    PROVE  \E m \in T : \A k \in T : k <= m
<1> DEFINE U == {n - k : k \in T}
<1>1. U \in SUBSET Nat /\ U # {}
  OBVIOUS
<1>2. PICK u \in U : \A k \in U : u <= k
  BY <1>1, NatMin
<1>3. PICK m \in T : u = n - m
  BY <1>2
<1>4. ASSUME NEW k \in T PROVE k <= m
  <2>1. n - k \in U
    OBVIOUS
  <2>2. n - m <= n - k
    BY <1>2, <1>3, <2>1
  <2> QED
    BY <2>2
<1> QED
  BY <1>4

LEMMA NewestType == Newest \in Nat /\ Newest >= 1
  BY MigrationsAssumption

LEMMA BuildType ==
    ASSUME NEW p \in Proc
    PROVE  Build[p] \in 1 .. Newest
  BY MigrationsAssumption DEF Migration

(* The rows a transaction writes, from one migration to another, are rows  *)
(* and leave out none.                                                     *)
LEMMA RunOfRows ==
    ASSUME NEW l \in Nat, NEW n \in Nat, l + n <= Newest,
           NEW s, s = [i \in 1 .. n |-> [when |-> l + i, genuine |-> TRUE]]
    PROVE  /\ s \in Seq(Row)
           /\ Len(s) = n
           /\ Range(s) = {[when |-> m, genuine |-> TRUE] : m \in l + 1 .. l + n}
<1>1. \A i \in 1 .. n : [when |-> l + i, genuine |-> TRUE] \in Row
  BY NewestType DEF Row, Migration
<1>2. s \in [1 .. n -> Row]
  BY <1>1
<1>3. s \in Seq(Row)
  BY <1>2, SeqDef
<1>4. Len(s) = n
  BY <1>2, <1>3, LenProperties
<1>5. Range(s) = {s[i] : i \in 1 .. n}
  BY <1>2 DEF Range
<1> DEFINE A == {s[i] : i \in 1 .. n}
           B == {[when |-> m, genuine |-> TRUE] : m \in l + 1 .. l + n}
<1>6. ASSUME NEW m \in l + 1 .. l + n
      PROVE  [when |-> m, genuine |-> TRUE] \in A
  <2>1. m - l \in 1 .. n /\ l + (m - l) = m
    OBVIOUS
  <2>2. s[m - l] = [when |-> m, genuine |-> TRUE]
    BY <2>1
  <2> QED
    BY <2>1, <2>2
<1>7. ASSUME NEW i \in 1 .. n
      PROVE  s[i] \in B
  <2>1. l + i \in l + 1 .. l + n
    OBVIOUS
  <2>2. s[i] = [when |-> l + i, genuine |-> TRUE]
    OBVIOUS
  <2> QED
    BY <2>1, <2>2
<1>8. A \subseteq B
  BY <1>7
<1>9. B \subseteq A
  BY <1>6
<1> HIDE DEF A, B
<1>10. A = B
  BY <1>8, <1>9
<1> QED
  BY <1>3, <1>4, <1>5, <1>10 DEF A, B

LEMMA GenuineRows ==
    ASSUME NEW n \in 0 .. Newest
    PROVE  /\ Genuine(n) \in Seq(Row)
           /\ Len(Genuine(n)) = n
           /\ Range(Genuine(n)) = {[when |-> m, genuine |-> TRUE] : m \in 1 .. n}
<1>1. n \in Nat /\ 0 + n <= Newest /\ \A i \in 1 .. n : 0 + i = i
  BY NewestType
<1>2. Genuine(n) = [i \in 1 .. n |-> [when |-> 0 + i, genuine |-> TRUE]]
  BY <1>1 DEF Genuine
<1>3. /\ Genuine(n) \in Seq(Row)
      /\ Len(Genuine(n)) = n
      /\ Range(Genuine(n))
            = {[when |-> m, genuine |-> TRUE] : m \in 0 + 1 .. 0 + n}
  <2> DEFINE s == Genuine(n)
  <2>1. s = [i \in 1 .. n |-> [when |-> 0 + i, genuine |-> TRUE]]
    BY <1>2
  <2>2. 0 \in Nat
    OBVIOUS
  <2> HIDE DEF s
  <2>3. /\ s \in Seq(Row)
        /\ Len(s) = n
        /\ Range(s) = {[when |-> m, genuine |-> TRUE] : m \in 0 + 1 .. 0 + n}
    BY <1>1, <2>1, <2>2, RunOfRows
  <2> QED
    BY <2>3 DEF s
<1>4. 0 + 1 .. 0 + n = 1 .. n
  BY <1>1
<1> QED
  BY <1>3, <1>4

(* drizzle's newest row: none of an empty journal, else one that the       *)
(* journal has; of a journal that says what the schema has, the last.      *)
LEMMA LastWhenType ==
    ASSUME NEW rows \in Seq(Row)
    PROVE  LastWhen(rows) \in 0 .. Newest
<1>1. CASE rows = <<>>
  BY <1>1, NewestType DEF LastWhen
<1>2. CASE rows # <<>>
  <2> DEFINE W == {r.when : r \in Range(rows)}
  <2>1. Len(rows) \in Nat \ {0}
    BY <1>2, EmptySeq
  <2>2. rows[1] \in Range(rows) /\ Range(rows) \subseteq Row
    BY <2>1, LenProperties, RangeOfSeq DEF Range
  <2>3. W \in SUBSET (0 .. Newest) /\ W \subseteq Migration /\ W # {}
    BY <2>2, NewestType DEF Row, Migration
  <2>4. PICK w \in W : \A k \in W : k <= w
    BY <2>3, NatMax, NewestType
  <2>5. /\ w \in Migration
        /\ \E r \in Range(rows) : r.when = w
        /\ \A r \in Range(rows) : r.when <= w
    BY <2>3, <2>4
  <2>6. LastWhen(rows) \in Migration
    BY <1>2, <2>5 DEF LastWhen
  <2> QED
    BY <2>6, NewestType DEF Migration
<1> QED
  BY <1>1, <1>2

LEMMA LastOfAuthentic ==
    ASSUME NEW rows \in Seq(Row), NEW n \in 0 .. Newest, Authentic(rows, n)
    PROVE  LastWhen(rows) = n
<1>1. Range(rows) = {[when |-> m, genuine |-> TRUE] : m \in 1 .. n}
  BY GenuineRows DEF Authentic
<1>2. CASE n = 0
  <2>1. rows = <<>>
    BY <1>2, EmptySeq DEF Authentic
  <2> QED
    BY <1>2, <2>1 DEF LastWhen
<1>3. CASE n # 0
  <2>1. rows # <<>>
    BY <1>3, EmptySeq DEF Authentic
  <2>2. n \in Migration /\ n \in 1 .. n
    BY <1>3, NewestType DEF Migration
  <2>3. \E r \in Range(rows) : r.when = n
    <3>1. [when |-> n, genuine |-> TRUE] \in Range(rows)
      BY <1>1, <2>2
    <3> QED
      BY <3>1
  <2>4. \A r \in Range(rows) : r.when \in 1 .. n
    BY <1>1
  <2>5. ASSUME NEW w \in Migration,
               \E r \in Range(rows) : r.when = w,
               \A r \in Range(rows) : r.when <= w
        PROVE  w = n
    BY <2>2, <2>3, <2>4, <2>5 DEF Migration
  <2> QED
    BY <2>1, <2>2, <2>3, <2>4, <2>5 DEF LastWhen, Migration
<1> QED
  BY <1>2, <1>3

-----------------------------------------------------------------------------
(* What is known of a process by its place, whatever others do             *)

OfContainers == {"populated", "journal", "probe", "rows", "create", "last",
                 "apply"}
OfTools == {"journal", "populated", "probe", "rows", "detect", "begin",
            "empty", "insert", "commit"}

(* Each program has its statements; what a process has counted or read is  *)
(* blank before it has; a transaction inserts no more than was counted.    *)
Placed(p) ==
    /\ p \in Container => pc[p] \in OfContainers \cup Ended
    /\ p \in Tool => pc[p] \in OfTools \cup Ended
    /\ pc[p] \in {"populated", "journal"} \cup Ended =>
          mem[p].at = 0 /\ mem[p].count = 0
    /\ pc[p] \notin {"apply", "insert", "commit"} => mem[p].last = 0
    /\ mem[p].count <= mem[p].at /\ mem[p].at <= Build[p]
    /\ pc[p] \in {"rows", "begin", "empty", "insert", "commit"} =>
          mem[p].at = Build[p]
    /\ pc[p] = "insert" => mem[p].last <= mem[p].count
    /\ pc[p] = "commit" => mem[p].last = mem[p].count

TypeInv == TypeOK /\ \A p \in Proc : Placed(p)

-----------------------------------------------------------------------------
(* What a process knows of a database that nobody else has changed since   *)
(* it started                                                              *)

(* The markers it has probed: count of them, then none.                    *)
Found(p) ==
    /\ 1 .. mem[p].count \subseteq schema
    /\ \A m \in mem[p].count + 1 .. mem[p].at : m \notin schema

(* A journal with the rows of what was found, or a database without any.   *)
Checked(p) == mem[p].at = Build[p] /\ Found(p) /\ Authentic(Rows, mem[p].count)
Fresh == Rows = <<>> /\ 1 \notin schema

ContainerKnows(c) ==
    /\ pc[c] = "journal" => (mem[c].populated <=> 1 \in schema)
    /\ pc[c] \in {"probe", "rows"} => Exists /\ Found(c)
    /\ pc[c] = "create" => Checked(c) \/ Fresh
    /\ pc[c] = "last" => Exists /\ (Checked(c) \/ Fresh)
    /\ pc[c] = "apply" =>
          /\ Exists /\ (Checked(c) \/ Fresh)
          /\ mem[c].last = LastWhen(Rows)
    /\ pc[c] = "done" =>
          /\ 1 .. Build[c] \subseteq schema
          /\ Says(Rows, Build[c])

ToolKnows(t) ==
    /\ pc[t] \in {"populated", "detect", "begin"} => ~Exists
    /\ pc[t] \in {"detect", "begin", "empty", "insert", "commit"} => Found(t)
    /\ pc[t] \in {"insert", "commit"} => Rows = <<>>

Knows(p) ==
    ~raced[p] => /\ p \in Container => ContainerKnows(p)
                 /\ p \in Tool => ToolKnows(p)

KnowsInv == TypeInv /\ \A p \in Proc : Knows(p)

-----------------------------------------------------------------------------
(* What holds of the database while the operator leaves it alone           *)

(* The schema is that of the first n migrations, and a journal says so.    *)
Sized(n) == schema = 1 .. n /\ (Exists => journal = Genuine(n))

(* The schema and the journal only grow, and together: who found or read   *)
(* something finds at least that, and it is a whole release that was added.*)
Follows(p, n) ==
    /\ pc[p] \in {"probe", "rows", "detect", "begin", "empty", "insert",
                  "commit"} => mem[p].count <= n
    /\ pc[p] \in {"probe", "rows", "last", "apply"} => Exists
    /\ p \in Container /\ pc[p] = "journal" =>
          mem[p].populated \/ Exists \/ n = 0
    /\ pc[p] = "create" => Exists \/ n = 0
    /\ pc[p] = "apply" =>
          /\ mem[p].last <= n
          /\ mem[p].last = n \/ \E c \in Container : n = Build[c]
    /\ pc[p] \in {"detect", "begin", "empty", "insert", "commit"} =>
          Exists \/ \A m \in mem[p].count + 1 .. mem[p].at : m > n
    /\ pc[p] \in {"empty", "insert", "commit"} => Exists \/ creator = p
    /\ pc[p] \in {"insert", "commit"} => (Exists => mem[p].count = 0)

Alone == \E n \in 0 .. Newest : Sized(n) /\ \A p \in Proc : Follows(p, n)
WholeInv == TypeInv /\ (edits = 0 => advice # "drop" /\ Alone)

-----------------------------------------------------------------------------
(* Type correctness                                                        *)

LEMMA BlankType == Blank \in Memory
  BY NewestType DEF Blank, Memory

LEMMA GotoType ==
    ASSUME TypeOK, NEW p \in Proc, NEW s \in Statement \cup Ended, Goto(p, s)
    PROVE  /\ pc' \in [Proc -> Statement \cup Ended]
           /\ pc'[p] = s
           /\ \A q \in Proc \ {p} : pc'[q] = pc[q]
  BY DEF TypeOK, Goto

LEMMA NoteType ==
    ASSUME TypeOK, NEW p \in Proc, NEW m \in Memory, Note(p, m)
    PROVE  /\ mem' \in [Proc -> Memory]
           /\ mem'[p] = m
           /\ \A q \in Proc \ {p} : mem'[q] = mem[q]
  BY DEF TypeOK, Note

LEMMA EndType ==
    ASSUME TypeOK, NEW p \in Proc, NEW s \in Ended, End(p, s)
    PROVE  /\ pc' \in [Proc -> Statement \cup Ended]
           /\ mem' \in [Proc -> Memory]
           /\ pc'[p] = s /\ mem'[p] = Blank
           /\ \A q \in Proc \ {p} : pc'[q] = pc[q] /\ mem'[q] = mem[q]
  BY BlankType, GotoType, NoteType DEF End

LEMMA RacesType ==
    ASSUME TypeOK, NEW p, Races(p)
    PROVE  raced' \in [Proc -> BOOLEAN]
<1>1. \A q \in Proc :
          (raced[q] \/ (q # p /\ pc[q] \notin {"idle", "refused"})) \in BOOLEAN
  OBVIOUS
<1> QED
  BY <1>1 DEF TypeOK, Races

(* A process that has ended, or has begun and read nothing, is in place.   *)
LEMMA EndPlaced ==
    ASSUME TypeInv, NEW p \in Proc, NEW s \in Ended, End(p, s)
    PROVE  \A q \in Proc : Placed(q)'
<1>1. Build[p] \in Nat
  BY BuildType, NewestType
<1>2. Placed(p)'
  BY <1>1, EndType DEF TypeInv, Placed, Ended, Blank
<1>3. ASSUME NEW q \in Proc \ {p} PROVE Placed(q)'
  BY EndType DEF TypeInv, Placed
<1> QED
  BY <1>2, <1>3

LEMMA OthersPlaced ==
    ASSUME TypeInv, NEW p \in Proc, Placed(p)',
           \A q \in Proc \ {p} : pc'[q] = pc[q] /\ mem'[q] = mem[q]
    PROVE  \A q \in Proc : Placed(q)'
<1>1. ASSUME NEW q \in Proc \ {p} PROVE Placed(q)'
  BY <1>1 DEF TypeInv, Placed
<1> QED
  BY <1>1

LEMMA TypeInit == Init => TypeInv
<1> SUFFICES ASSUME Init PROVE TypeInv
  OBVIOUS
<1>1. PICK n \in 0 .. Newest :
          /\ schema = 1 .. n
          /\ journal \in {NoJournal} \cup (IF n = 0 THEN {} ELSE {Genuine(n)})
  BY DEF Init
<1>2. schema \subseteq Migration
  BY <1>1, NewestType DEF Migration
<1>3. journal \in Seq(Row) \cup {NoJournal}
  BY <1>1, GenuineRows
<1>4. \A p \in Proc : Build[p] \in Nat
  BY BuildType, NewestType
<1>5. TypeOK
  BY <1>2, <1>3, BlankType, MigrationsAssumption
     DEF Init, TypeOK, Advice, Ended
<1>6. \A p \in Proc : Placed(p)
  BY <1>4 DEF Init, Placed, Ended, Blank
<1> QED
  BY <1>5, <1>6 DEF TypeInv

LEMMA StartType ==
    ASSUME TypeInv, NEW p \in Proc, Start(p)
    PROVE  TypeInv'
<1> DEFINE s == IF p \in Container THEN "populated" ELSE "journal"
<1>1. s \in Statement \cup Ended
  BY DEF Statement
<1>2. /\ pc' \in [Proc -> Statement \cup Ended] /\ pc'[p] = s
      /\ \A q \in Proc \ {p} : pc'[q] = pc[q]
  BY <1>1, GotoType DEF TypeInv, Start
<1>3. mem' = mem /\ pc[p] \in Ended
  BY DEF Start
<1>4. Placed(p)'
  BY <1>2, <1>3, MigrationsAssumption
     DEF TypeInv, Placed, Ended, OfContainers, OfTools
<1>5. TypeOK'
  BY <1>2 DEF Start, TypeInv, TypeOK, database, bounds, Advice
<1> QED
  BY <1>2, <1>3, <1>4, <1>5, OthersPlaced DEF TypeInv

LEMMA ReadPopulatedType ==
    ASSUME TypeInv, NEW p \in Proc, ReadPopulated(p)
    PROVE  TypeInv'
<1>0. TypeOK /\ Placed(p) /\ pc[p] = "populated" /\ mem[p] \in Memory
  BY DEF TypeInv, TypeOK, ReadPopulated
<1>1. CASE /\ p \in Container /\ Goto(p, "journal")
           /\ Note(p, [mem[p] EXCEPT !.populated = 1 \in schema])
  <2> DEFINE b == 1 \in schema
             m == [mem[p] EXCEPT !.populated = b]
  <2>0. b \in BOOLEAN
    OBVIOUS
  <2> HIDE DEF b
  <2>1. m \in Memory /\ m.at = mem[p].at /\ m.count = mem[p].count
        /\ m.last = mem[p].last
    BY <1>0, <2>0 DEF Memory
  <2> HIDE DEF m
  <2>2. /\ mem' \in [Proc -> Memory] /\ mem'[p] = m
        /\ \A q \in Proc \ {p} : mem'[q] = mem[q]
    BY <1>0, <1>1, <2>1, NoteType DEF m, b
  <2>3. /\ pc' \in [Proc -> Statement \cup Ended] /\ pc'[p] = "journal"
        /\ \A q \in Proc \ {p} : pc'[q] = pc[q]
    BY <1>0, <1>1, GotoType DEF Statement
  <2>4. Placed(p)'
    BY <1>0, <2>1, <2>2, <2>3 DEF Placed, OfContainers, OfTools, Ended
  <2>5. TypeOK'
    BY <1>0, <2>2, <2>3 DEF ReadPopulated, TypeOK, database, bounds
  <2> QED
    BY <2>2, <2>3, <2>4, <2>5, OthersPlaced DEF TypeInv
<1>2. CASE p \in Tool /\ Goto(p, "detect") /\ UNCHANGED mem
  <2>1. /\ pc' \in [Proc -> Statement \cup Ended] /\ pc'[p] = "detect"
        /\ \A q \in Proc \ {p} : pc'[q] = pc[q]
    BY <1>0, <1>2, GotoType DEF Statement
  <2>2. Placed(p)'
    BY <1>0, <1>2, <2>1, MigrationsAssumption
       DEF Placed, OfContainers, OfTools, Ended
  <2>3. TypeOK'
    BY <1>0, <1>2, <2>1 DEF ReadPopulated, TypeOK, database, bounds
  <2> QED
    BY <1>2, <2>1, <2>2, <2>3, OthersPlaced DEF TypeInv
<1>3. CASE End(p, "done")
  BY <1>0, <1>3, EndType, EndPlaced
     DEF ReadPopulated, TypeInv, TypeOK, database, bounds, Ended
<1> QED
  BY <1>1, <1>2, <1>3 DEF ReadPopulated

LEMMA ReadJournalExistsType ==
    ASSUME TypeInv, NEW p \in Proc, ReadJournalExists(p)
    PROVE  TypeInv'
<1>0. TypeOK /\ Placed(p) /\ pc[p] = "journal" /\ mem[p] \in Memory
  BY DEF TypeInv, TypeOK, ReadJournalExists
<1>1. ASSUME NEW s \in {"probe", "populated", "create"}, Goto(p, s),
             s = "populated" => p \in Tool, s = "create" => p \in Container,
             UNCHANGED <<mem, advice>>
      PROVE  TypeInv'
  <2>1. /\ pc' \in [Proc -> Statement \cup Ended] /\ pc'[p] = s
        /\ \A q \in Proc \ {p} : pc'[q] = pc[q]
    BY <1>0, <1>1, GotoType DEF Statement
  <2>2. Placed(p)'
    BY <1>0, <1>1, <2>1, MigrationsAssumption
       DEF Placed, OfContainers, OfTools, Ended
  <2>3. TypeOK'
    BY <1>0, <1>1, <2>1 DEF ReadJournalExists, TypeOK, database, bounds
  <2> QED
    BY <1>1, <2>1, <2>2, <2>3, OthersPlaced DEF TypeInv
<1>2. CASE Refuse(p, "baseline")
  <2>1. End(p, "refused") /\ advice' = "baseline"
    BY <1>2 DEF Refuse
  <2> QED
    BY <1>0, <2>1, EndType, EndPlaced
       DEF ReadJournalExists, TypeInv, TypeOK, database, bounds, Ended, Advice
<1> QED
  BY <1>1, <1>2 DEF ReadJournalExists

LEMMA ProbeMarkerType ==
    ASSUME TypeInv, NEW p \in Proc, ProbeMarker(p)
    PROVE  TypeInv'
<1> DEFINE m == mem[p].at + 1
<1>0. /\ TypeOK /\ Placed(p) /\ pc[p] \in {"probe", "detect"}
      /\ mem[p] \in Memory /\ m <= Build[p] /\ Build[p] \in 1 .. Newest
  BY BuildType DEF TypeInv, TypeOK, ProbeMarker
<1>1. CASE End(p, "refused") /\ UNCHANGED advice
  BY <1>0, <1>1, EndType, EndPlaced
     DEF ProbeMarker, TypeInv, TypeOK, database, bounds, Ended
<1>2. ASSUME NEW n \in Memory, Note(p, n), UNCHANGED <<pc, advice>>,
             n.at = m, n.count \in {mem[p].count, m}, n.last = mem[p].last
      PROVE  TypeInv'
  <2>1. /\ mem' \in [Proc -> Memory] /\ mem'[p] = n
        /\ \A q \in Proc \ {p} : mem'[q] = mem[q]
    BY <1>0, <1>2, NoteType
  <2>2. mem[p].at \in Nat /\ mem[p].count \in Nat
    BY <1>0 DEF Memory
  <2> HIDE DEF m
  <2>3. Placed(p)'
    BY <1>0, <1>2, <2>1, <2>2 DEF Placed, Ended, m
  <2>4. TypeOK'
    BY <1>0, <1>2, <2>1 DEF ProbeMarker, TypeOK, database, bounds
  <2> QED
    BY <1>2, <2>1, <2>3, <2>4, OthersPlaced DEF TypeInv
<1>3. m \in 0 .. Newest
  BY <1>0, NewestType DEF Memory
<1>4. /\ [mem[p] EXCEPT !.at = m, !.count = m] \in Memory
      /\ [mem[p] EXCEPT !.at = m] \in Memory
  BY <1>0, <1>3 DEF Memory
<1>5. CASE Note(p, [mem[p] EXCEPT !.at = m, !.count = m])
           /\ UNCHANGED <<pc, advice>>
  <2> DEFINE n == [mem[p] EXCEPT !.at = m, !.count = m]
  <2>1. n.at = m /\ n.count = m /\ n.last = mem[p].last
    BY <1>0 DEF Memory
  <2> HIDE DEF n, m
  <2> QED
    BY <1>2, <1>4, <1>5, <2>1 DEF n
<1>6. CASE Note(p, [mem[p] EXCEPT !.at = m]) /\ UNCHANGED <<pc, advice>>
  <2> DEFINE n == [mem[p] EXCEPT !.at = m]
  <2>1. n.at = m /\ n.count = mem[p].count /\ n.last = mem[p].last
    BY <1>0 DEF Memory
  <2> HIDE DEF n, m
  <2> QED
    BY <1>2, <1>4, <1>6, <2>1 DEF n
<1> QED
  BY <1>1, <1>5, <1>6 DEF ProbeMarker

LEMMA ProbedType ==
    ASSUME TypeInv, NEW p \in Proc, Probed(p)
    PROVE  TypeInv'
<1> DEFINE s == IF pc[p] = "probe" THEN "rows" ELSE "begin"
<1>0. /\ TypeOK /\ Placed(p) /\ pc[p] \in {"probe", "detect"}
      /\ mem[p].at = Build[p] /\ s \in Statement \cup Ended
  BY DEF TypeInv, Probed, Statement
<1>1. /\ pc' \in [Proc -> Statement \cup Ended] /\ pc'[p] = s
      /\ \A q \in Proc \ {p} : pc'[q] = pc[q]
  BY <1>0, GotoType DEF Probed
<1>2. UNCHANGED <<database, creator, mem, raced, advice, bounds>>
  BY DEF Probed
<1>3. Placed(p)'
  BY <1>0, <1>1, <1>2 DEF Placed, OfContainers, OfTools, Ended
<1>4. TypeOK'
  BY <1>0, <1>1, <1>2 DEF TypeOK, database, bounds
<1> QED
  BY <1>1, <1>2, <1>3, <1>4, OthersPlaced DEF TypeInv

LEMMA ReadRowsType ==
    ASSUME TypeInv, NEW p \in Proc, ReadRows(p)
    PROVE  TypeInv'
<1>0. TypeOK /\ Placed(p) /\ pc[p] = "rows"
  BY DEF TypeInv, ReadRows
<1>1. ASSUME NEW s \in Ended, End(p, s), advice' \in {advice, "drop"}
      PROVE  TypeInv'
  BY <1>0, <1>1, EndType, EndPlaced
     DEF ReadRows, TypeInv, TypeOK, database, bounds, Advice
<1>2. CASE p \in Container /\ Goto(p, "create") /\ UNCHANGED <<mem, advice>>
  <2>1. /\ pc' \in [Proc -> Statement \cup Ended] /\ pc'[p] = "create"
        /\ \A q \in Proc \ {p} : pc'[q] = pc[q]
    BY <1>0, <1>2, GotoType DEF Statement
  <2>2. Placed(p)'
    BY <1>0, <1>2, <2>1, MigrationsAssumption
       DEF Placed, OfContainers, OfTools, Ended
  <2>3. TypeOK'
    BY <1>0, <1>2, <2>1 DEF ReadRows, TypeOK, database, bounds
  <2> QED
    BY <1>2, <2>1, <2>2, <2>3, OthersPlaced DEF TypeInv
<1> QED
  BY <1>1, <1>2 DEF ReadRows, Refuse, Ended

LEMMA CreateJournalType ==
    ASSUME TypeInv, NEW p \in Proc, CreateJournal(p)
    PROVE  TypeInv'
<1>0. TypeOK /\ Placed(p) /\ pc[p] = "create"
  BY DEF TypeInv, CreateJournal
<1>1. /\ pc' \in [Proc -> Statement \cup Ended] /\ pc'[p] = "last"
      /\ \A q \in Proc \ {p} : pc'[q] = pc[q]
  BY <1>0, GotoType DEF CreateJournal, Statement
<1>2. UNCHANGED <<schema, creator, mem, advice, bounds>>
  BY DEF CreateJournal
<1>3. journal' \in Seq(Row) \cup {NoJournal} /\ raced' \in [Proc -> BOOLEAN]
  BY <1>0, RacesType, EmptySeq DEF CreateJournal, TypeOK
<1>4. Placed(p)'
  BY <1>0, <1>1, <1>2 DEF Placed, OfContainers, OfTools, Ended
<1>5. TypeOK'
  BY <1>0, <1>1, <1>2, <1>3 DEF TypeOK, bounds
<1> QED
  BY <1>1, <1>2, <1>4, <1>5, OthersPlaced DEF TypeInv

LEMMA ReadLastType ==
    ASSUME TypeInv, NEW p \in Proc, ReadLast(p)
    PROVE  TypeInv'
<1>0. TypeOK /\ Placed(p) /\ pc[p] = "last" /\ mem[p] \in Memory
  BY DEF TypeInv, TypeOK, ReadLast
<1>1. CASE /\ Exists /\ Goto(p, "apply")
           /\ Note(p, [mem[p] EXCEPT !.last = LastWhen(Rows)])
  <2> DEFINE w == LastWhen(Rows)
             m == [mem[p] EXCEPT !.last = w]
  <2>1. w \in 0 .. Newest
    BY <1>0, <1>1, LastWhenType DEF TypeOK, Exists, Rows
  <2> HIDE DEF w
  <2>2. m \in Memory /\ m.at = mem[p].at /\ m.count = mem[p].count
    BY <1>0, <2>1 DEF Memory
  <2> HIDE DEF m
  <2>3. /\ mem' \in [Proc -> Memory] /\ mem'[p] = m
        /\ \A q \in Proc \ {p} : mem'[q] = mem[q]
    BY <1>0, <1>1, <2>2, NoteType DEF m, w
  <2>4. /\ pc' \in [Proc -> Statement \cup Ended] /\ pc'[p] = "apply"
        /\ \A q \in Proc \ {p} : pc'[q] = pc[q]
    BY <1>0, <1>1, GotoType DEF Statement
  <2>5. Placed(p)'
    BY <1>0, <2>2, <2>3, <2>4 DEF Placed, OfContainers, OfTools, Ended
  <2>6. TypeOK'
    BY <1>0, <2>3, <2>4 DEF ReadLast, TypeOK, database, bounds
  <2> QED
    BY <2>3, <2>4, <2>5, <2>6, OthersPlaced DEF TypeInv
<1>2. CASE End(p, "refused")
  BY <1>0, <1>2, EndType, EndPlaced
     DEF ReadLast, TypeInv, TypeOK, database, bounds, Ended
<1> QED
  BY <1>1, <1>2 DEF ReadLast

(* The rows of what was pending.                                           *)
Applied(p) == [i \in 1 .. (Build[p] - mem[p].last) |->
                  [when |-> mem[p].last + i, genuine |-> TRUE]]

LEMMA AppliedRows ==
    ASSUME TypeInv, NEW p \in Proc, Pending(p) # {}
    PROVE  /\ mem[p].last \in Nat /\ mem[p].last < Build[p]
           /\ Pending(p) = mem[p].last + 1 .. Build[p]
           /\ Applied(p) \in Seq(Row)
           /\ Len(Applied(p)) = Build[p] - mem[p].last
           /\ Range(Applied(p)) = {[when |-> m, genuine |-> TRUE] :
                                      m \in mem[p].last + 1 .. Build[p]}
           /\ Rows \in Seq(Row)
<1>1. mem[p].last \in Nat /\ Build[p] \in 1 .. Newest
  BY BuildType DEF TypeInv, TypeOK, Memory
<1>2. mem[p].last < Build[p]
  BY <1>1, NewestType DEF Pending
<1>3. Pending(p) = mem[p].last + 1 .. Build[p]
  BY <1>1, NewestType DEF Pending
<1> DEFINE l == mem[p].last
           n == Build[p] - mem[p].last
<1>4. l \in Nat /\ n \in Nat /\ l + n = Build[p] /\ l + n <= Newest
  BY <1>1, <1>2, NewestType
<1>5. Applied(p) = [i \in 1 .. n |-> [when |-> l + i, genuine |-> TRUE]]
  BY DEF Applied
<1>6. Rows \in Seq(Row)
  BY EmptySeq DEF TypeInv, TypeOK, Rows, Exists
<1> HIDE DEF l, n
<1>7. /\ Applied(p) \in Seq(Row) /\ Len(Applied(p)) = n
      /\ Range(Applied(p))
            = {[when |-> m, genuine |-> TRUE] : m \in l + 1 .. l + n}
  BY <1>4, <1>5, RunOfRows
<1> QED
  BY <1>1, <1>2, <1>3, <1>4, <1>6, <1>7 DEF l, n

LEMMA ApplyPendingType ==
    ASSUME TypeInv, NEW p \in Proc, ApplyPending(p)
    PROVE  TypeInv'
<1>0. TypeOK /\ pc[p] = "apply" /\ UNCHANGED <<creator, advice, bounds>>
  BY DEF TypeInv, ApplyPending
<1>1. PICK s \in Ended : End(p, s)
  BY DEF ApplyPending, Ended
<1>2. raced' \in [Proc -> BOOLEAN]
  BY <1>0, RacesType DEF ApplyPending, TypeOK
<1>3. schema' \subseteq Migration /\ journal' \in Seq(Row) \cup {NoJournal}
  <2>1. CASE UNCHANGED <<database, raced>>
    BY <1>0, <2>1 DEF TypeOK, database
  <2>2. CASE /\ Pending(p) # {} /\ schema' = schema \cup Pending(p)
             /\ journal' = Rows \o Applied(p)
    <3>1. journal' \in Seq(Row)
      BY <2>2, AppliedRows, ConcatProperties
    <3>2. Pending(p) \subseteq Migration
      BY BuildType, NewestType DEF Pending, Migration
    <3> QED
      BY <1>0, <2>2, <3>1, <3>2 DEF TypeOK
  <2> QED
    BY <2>1, <2>2 DEF ApplyPending, Applied
<1>4. TypeOK'
  BY <1>0, <1>1, <1>2, <1>3, EndType DEF TypeOK, bounds
<1> QED
  BY <1>1, <1>4, EndPlaced DEF TypeInv

LEMMA BeginBaselineType ==
    ASSUME TypeInv, NEW p \in Proc, BeginBaseline(p)
    PROVE  TypeInv'
<1>0. TypeOK /\ Placed(p) /\ pc[p] = "begin"
  BY DEF TypeInv, BeginBaseline
<1>1. /\ pc' \in [Proc -> Statement \cup Ended] /\ pc'[p] = "empty"
      /\ \A q \in Proc \ {p} : pc'[q] = pc[q]
  BY <1>0, GotoType DEF BeginBaseline, Statement
<1>2. UNCHANGED <<database, mem, raced, advice, bounds>>
  BY DEF BeginBaseline
<1>3. p \in Tool
  BY <1>0 DEF Placed, Proc, OfContainers, Ended
<1>4. Placed(p)'
  BY <1>0, <1>1, <1>2, <1>3, MigrationsAssumption
     DEF Placed, OfContainers, OfTools, Ended
<1>5. TypeOK'
  BY <1>0, <1>1, <1>2, <1>3 DEF BeginBaseline, TypeOK, database, bounds
<1> QED
  BY <1>1, <1>2, <1>4, <1>5, OthersPlaced DEF TypeInv

LEMMA CountRowsType ==
    ASSUME TypeInv, NEW p \in Proc, CountRows(p)
    PROVE  TypeInv'
<1>0. TypeOK /\ Placed(p) /\ pc[p] = "empty" /\ mem[p] \in Memory
  BY DEF TypeInv, TypeOK, CountRows
<1>1. CASE Goto(p, "insert") /\ UNCHANGED mem
  <2>1. /\ pc' \in [Proc -> Statement \cup Ended] /\ pc'[p] = "insert"
        /\ \A q \in Proc \ {p} : pc'[q] = pc[q]
    BY <1>0, <1>1, GotoType DEF Statement
  <2>2. mem[p].count \in Nat
    BY <1>0 DEF Memory
  <2>3. Placed(p)'
    BY <1>0, <1>1, <2>1, <2>2, MigrationsAssumption
       DEF Placed, OfContainers, OfTools, Ended
  <2>4. TypeOK'
    BY <1>0, <1>1, <2>1 DEF CountRows, TypeOK, database, bounds
  <2> QED
    BY <1>1, <2>1, <2>3, <2>4, OthersPlaced DEF TypeInv
<1>2. CASE End(p, "refused")
  BY <1>0, <1>2, EndType, EndPlaced
     DEF CountRows, TypeInv, TypeOK, database, bounds, Ended
<1> QED
  BY <1>1, <1>2 DEF CountRows

LEMMA InsertRowType ==
    ASSUME TypeInv, NEW p \in Proc, InsertRow(p)
    PROVE  TypeInv'
<1>0. TypeOK /\ Placed(p) /\ pc[p] = "insert" /\ mem[p] \in Memory
  BY DEF TypeInv, TypeOK, InsertRow
<1>1. CASE mem[p].last < mem[p].count /\ UNCHANGED pc
           /\ Note(p, [mem[p] EXCEPT !.last = mem[p].last + 1])
  <2> DEFINE w == mem[p].last + 1
             m == [mem[p] EXCEPT !.last = w]
  <2>1. w \in 0 .. Newest /\ w <= mem[p].count
    BY <1>0, <1>1, NewestType DEF Memory
  <2> HIDE DEF w
  <2>2. m \in Memory /\ m.at = mem[p].at /\ m.count = mem[p].count /\ m.last = w
    BY <1>0, <2>1 DEF Memory
  <2> HIDE DEF m
  <2>3. /\ mem' \in [Proc -> Memory] /\ mem'[p] = m
        /\ \A q \in Proc \ {p} : mem'[q] = mem[q]
    BY <1>0, <1>1, <2>2, NoteType DEF m, w
  <2>4. Placed(p)'
    BY <1>0, <1>1, <2>1, <2>2, <2>3 DEF Placed, Ended
  <2>5. TypeOK'
    BY <1>0, <1>1, <2>3 DEF InsertRow, TypeOK, database, bounds
  <2> QED
    BY <1>1, <2>3, <2>4, <2>5, OthersPlaced DEF TypeInv
<1>2. CASE mem[p].last = mem[p].count /\ Goto(p, "commit") /\ UNCHANGED mem
  <2>1. /\ pc' \in [Proc -> Statement \cup Ended] /\ pc'[p] = "commit"
        /\ \A q \in Proc \ {p} : pc'[q] = pc[q]
    BY <1>0, <1>2, GotoType DEF Statement
  <2>2. Placed(p)'
    BY <1>0, <1>2, <2>1, MigrationsAssumption
       DEF Placed, OfContainers, OfTools, Ended
  <2>3. TypeOK'
    BY <1>0, <1>2, <2>1 DEF InsertRow, TypeOK, database, bounds
  <2> QED
    BY <1>2, <2>1, <2>2, <2>3, OthersPlaced DEF TypeInv
<1> QED
  BY <1>1, <1>2 DEF InsertRow

LEMMA ReleaseType ==
    ASSUME TypeOK, NEW p, Release(p)
    PROVE  creator' \in Tool \cup {Nobody}
  BY DEF TypeOK, Release

LEMMA CommitType ==
    ASSUME TypeInv, NEW p \in Proc, Commit(p)
    PROVE  TypeInv'
<1>0. /\ TypeOK /\ End(p, "done") /\ mem[p].last \in 0 .. Newest
      /\ UNCHANGED <<schema, advice, bounds>>
  BY DEF TypeInv, TypeOK, Memory, Commit
<1>1. creator' \in Tool \cup {Nobody} /\ raced' \in [Proc -> BOOLEAN]
  BY <1>0, RacesType, ReleaseType DEF Commit
<1>2. journal' \in Seq(Row)
  <2>1. Rows \in Seq(Row)
    BY <1>0, EmptySeq DEF TypeOK, Rows, Exists
  <2>2. Genuine(mem[p].last) \in Seq(Row)
    BY <1>0, GenuineRows
  <2> QED
    BY <2>1, <2>2, ConcatProperties DEF Commit
<1>3. TypeOK'
  BY <1>0, <1>1, <1>2, EndType DEF TypeOK, bounds, Ended
<1> QED
  BY <1>0, <1>3, EndPlaced DEF TypeInv, Ended

LEMMA AbortType ==
    ASSUME TypeInv, NEW p \in Proc, Abort(p)
    PROVE  TypeInv'
<1>0. /\ TypeOK /\ End(p, "refused") /\ aborts' \in 0 .. MaxAborts
      /\ UNCHANGED <<database, raced, advice, edits>>
  BY MigrationsAssumption DEF TypeInv, TypeOK, Abort
<1>1. creator' \in Tool \cup {Nobody}
  BY <1>0, ReleaseType DEF Abort
<1>2. TypeOK'
  BY <1>0, <1>1, EndType DEF TypeOK, database, Ended
<1> QED
  BY <1>0, <1>2, EndPlaced DEF TypeInv, Ended

(* The operator moves no process.                                          *)
LEMMA OperatorType ==
    ASSUME TypeInv,
           schema' \subseteq Migration, journal' \in Seq(Row) \cup {NoJournal},
           advice' \in Advice, edits' \in 0 .. MaxEdits, Races(Nobody),
           UNCHANGED <<creator, pc, mem, aborts>>
    PROVE  TypeInv'
<1>1. raced' \in [Proc -> BOOLEAN]
  BY RacesType DEF TypeInv
<1>2. TypeOK'
  BY <1>1 DEF TypeInv, TypeOK
<1>3. \A p \in Proc : Placed(p)'
  BY DEF TypeInv, Placed
<1> QED
  BY <1>2, <1>3 DEF TypeInv

LEMMA OperatorsType ==
    ASSUME TypeInv,
           Push \/ DropObjects \/ SubstituteRow \/ DropJournal \/ Recover
    PROVE  TypeInv'
<1>0. TypeOK
  BY DEF TypeInv
<1>1. ASSUME Edits
      PROVE  /\ edits' \in 0 .. MaxEdits /\ Races(Nobody)
             /\ UNCHANGED <<creator, pc, mem, aborts>>
  BY <1>0, <1>1, MigrationsAssumption DEF Edits, TypeOK
<1>2. CASE Push
  <2>1. schema' \subseteq Migration
    BY <1>0, <1>2, NewestType DEF Push, TypeOK, Migration
  <2> QED
    BY <1>0, <1>1, <1>2, <2>1, OperatorType DEF Push, TypeOK
<1>3. CASE DropObjects
  <2>1. schema' \subseteq Migration
    BY <1>0, <1>3, NewestType DEF DropObjects, TypeOK, Migration
  <2> QED
    BY <1>0, <1>1, <1>3, <2>1, OperatorType DEF DropObjects, TypeOK
<1>4. CASE SubstituteRow
  <2>1. PICK i \in DOMAIN Rows : /\ journal[i].genuine
                                 /\ journal' = [journal EXCEPT ![i].genuine = FALSE]
    BY <1>4 DEF SubstituteRow
  <2>2. Exists /\ journal \in Seq(Row) /\ i \in 1 .. Len(journal)
    <3>1. Rows = journal \/ Rows = <<>>
      BY DEF Rows
    <3>2. DOMAIN (<<>>) = {}
      OBVIOUS
    <3> QED
      BY <1>0, <2>1, <3>2, LenProperties DEF TypeOK, Rows, Exists
  <2> DEFINE r == [journal[i] EXCEPT !.genuine = FALSE]
  <2>3. journal[i] \in Row
    BY <2>2, ElementOfSeq
  <2>4. r \in Row
    BY <2>3 DEF Row
  <2>5. journal' = [journal EXCEPT ![i] = r]
    BY <2>1
  <2> HIDE DEF r
  <2>6. journal' \in Seq(Row)
    BY <2>2, <2>4, <2>5, ExceptSeq
  <2> QED
    BY <1>0, <1>1, <1>4, <2>6, OperatorType DEF SubstituteRow, TypeOK
<1>5. CASE DropJournal
  BY <1>0, <1>1, <1>5, OperatorType DEF DropJournal, TypeOK
<1>6. CASE Recover
  BY <1>0, <1>6, OperatorType DEF Recover, TypeOK, bounds, Advice
<1> QED
  BY <1>2, <1>3, <1>4, <1>5, <1>6

LEMMA TypeStep == TypeInv /\ [Next]_vars => TypeInv'
<1> SUFFICES ASSUME TypeInv, [Next]_vars PROVE TypeInv'
  OBVIOUS
<1>1. ASSUME NEW p \in Proc, Step(p) PROVE TypeInv'
  BY <1>1, ReadPopulatedType, ReadJournalExistsType, ProbeMarkerType,
     ProbedType, ReadRowsType, CreateJournalType, ReadLastType,
     ApplyPendingType, BeginBaselineType, CountRowsType, InsertRowType,
     CommitType DEF Step
<1>2. CASE UNCHANGED vars
  BY <1>2 DEF vars, database, bounds, TypeInv, TypeOK, Placed
<1> QED
  BY <1>1, <1>2, StartType, AbortType, OperatorsType DEF Next

(* The variables keep their types: whatever the journal holds, drizzle     *)
(* reads a migration out of it, and every transaction writes rows.         *)
THEOREM TypeCorrect == Spec => []TypeInv
  BY TypeInit, TypeStep, PTL DEF Spec

-----------------------------------------------------------------------------
(* What an undisturbed process knows is true                               *)

LEMMA EmptyJournal == <<>> \in Seq(Row) /\ NoJournal # <<>> /\ Len(<<>>) = 0
  BY EmptySeq, MigrationsAssumption

LEMMA RowsType ==
    ASSUME TypeInv
    PROVE  Rows \in Seq(Row) /\ (~Exists => Rows = <<>>)
  BY EmptyJournal DEF TypeInv, TypeOK, Rows, Exists

(* A step that leaves the database alone leaves the others what they know; *)
(* one that changes it leaves them nothing to know.                        *)
LEMMA KnowsQuiet ==
    ASSUME NEW q \in Proc, Knows(q),
           UNCHANGED <<schema, journal>>,
           pc'[q] = pc[q], mem'[q] = mem[q], raced'[q] = raced[q]
    PROVE  Knows(q)'
<1>1. Exists' = Exists /\ Rows' = Rows
  BY DEF Exists, Rows
<1>2. Found(q)' = Found(q) /\ Checked(q)' = Checked(q) /\ Fresh' = Fresh
  BY <1>1 DEF Found, Checked, Fresh, Authentic, Genuine
<1> QED
  BY <1>1, <1>2 DEF Knows, ContainerKnows, ToolKnows, Says, LastWhen

LEMMA KnowsRaced ==
    ASSUME TypeOK, NEW p, NEW q \in Proc, q # p, Races(p), pc'[q] = pc[q]
    PROVE  Knows(q)'
<1>1. raced'[q] = (raced[q] \/ (q # p /\ pc[q] \notin {"idle", "refused"}))
  BY DEF Races
<1>2. CASE pc[q] \in {"idle", "refused"}
  BY <1>2 DEF Knows, ContainerKnows, ToolKnows
<1>3. CASE pc[q] \notin {"idle", "refused"}
  BY <1>1, <1>3 DEF Knows
<1> QED
  BY <1>2, <1>3

LEMMA RacesSelf ==
    ASSUME TypeOK, NEW p \in Proc, Races(p)
    PROVE  raced'[p] = raced[p]
<1>1. raced[p] \in BOOLEAN
  BY DEF TypeOK
<1>2. raced'[p] = (raced[p] \/ (p # p /\ pc[p] \notin {"idle", "refused"}))
  BY DEF Races
<1> QED
  BY <1>1, <1>2

LEMMA KnowsByStep ==
    ASSUME KnowsInv, NEW p \in Proc, Knows(p)',
           \A q \in Proc \ {p} : pc'[q] = pc[q] /\ mem'[q] = mem[q],
           \/ UNCHANGED <<schema, journal>>
              /\ \A q \in Proc \ {p} : raced'[q] = raced[q]
           \/ Races(p)
    PROVE  \A q \in Proc : Knows(q)'
<1>1. ASSUME NEW q \in Proc \ {p} PROVE Knows(q)'
  BY KnowsQuiet, KnowsRaced DEF KnowsInv, TypeInv
<1> QED
  BY <1>1

(* A process that fails or finds nothing to do.                            *)
LEMMA KnowsAfterEnd ==
    ASSUME KnowsInv, NEW p \in Proc, NEW s \in {"done", "refused"}, End(p, s),
           s = "done" => p \in Tool,
           UNCHANGED <<schema, journal, raced>>
    PROVE  \A q \in Proc : Knows(q)'
<1>1. /\ pc'[p] = s
      /\ \A q \in Proc \ {p} : pc'[q] = pc[q] /\ mem'[q] = mem[q]
  BY EndType DEF KnowsInv, TypeInv, Ended
<1>2. Knows(p)'
  BY <1>1, MigrationsAssumption DEF Knows, ContainerKnows, ToolKnows
<1> QED
  BY <1>1, <1>2, KnowsByStep

(* A process that goes to another statement with what it has read.         *)
LEMMA KnowsAfterGoto ==
    ASSUME KnowsInv, NEW p \in Proc, NEW s \in Statement, Goto(p, s),
           UNCHANGED <<schema, journal>>,
           \A q \in Proc \ {p} : mem'[q] = mem[q] /\ raced'[q] = raced[q],
           Knows(p)'
    PROVE  \A q \in Proc : Knows(q)'
<1>1. \A q \in Proc \ {p} : pc'[q] = pc[q]
  BY GotoType DEF KnowsInv, TypeInv
<1> QED
  BY <1>1, KnowsByStep

LEMMA SameDatabase ==
    ASSUME UNCHANGED <<schema, journal>>
    PROVE  /\ Exists' = Exists /\ Rows' = Rows /\ Fresh' = Fresh
           /\ \A q \in Proc : mem'[q] = mem[q] =>
                 Found(q)' = Found(q) /\ Checked(q)' = Checked(q)
<1>1. Exists' = Exists /\ Rows' = Rows
  BY DEF Exists, Rows
<1> QED
  BY <1>1 DEF Found, Checked, Fresh, Authentic, Genuine

LEMMA StartKnows ==
    ASSUME KnowsInv, NEW p \in Proc, Start(p)
    PROVE  \A q \in Proc : Knows(q)'
<1> DEFINE s == IF p \in Container THEN "populated" ELSE "journal"
<1>1. /\ s \in Statement /\ Goto(p, s) /\ UNCHANGED <<schema, journal, mem>>
      /\ raced' = [raced EXCEPT ![p] = FALSE]
  BY DEF Start, Statement, database
<1>2. pc'[p] = s
  BY <1>1, GotoType DEF KnowsInv, TypeInv
<1>3. Knows(p)'
  BY <1>2, MigrationsAssumption DEF Knows, ContainerKnows, ToolKnows
<1>4. \A q \in Proc \ {p} : raced'[q] = raced[q]
  BY <1>1 DEF KnowsInv, TypeInv, TypeOK
<1> QED
  BY <1>1, <1>3, <1>4, KnowsAfterGoto

LEMMA ReadPopulatedKnows ==
    ASSUME KnowsInv, NEW p \in Proc, ReadPopulated(p)
    PROVE  \A q \in Proc : Knows(q)'
<1>0. /\ TypeInv /\ TypeOK /\ Placed(p) /\ Knows(p) /\ pc[p] = "populated"
      /\ UNCHANGED <<schema, journal, raced>> /\ mem[p] \in Memory
  BY DEF KnowsInv, TypeInv, TypeOK, ReadPopulated, database
<1>1. CASE /\ p \in Container /\ Goto(p, "journal")
           /\ Note(p, [mem[p] EXCEPT !.populated = 1 \in schema])
  <2>1. mem'[p].populated = (1 \in schema)
        /\ \A q \in Proc \ {p} : mem'[q] = mem[q]
    BY <1>0, <1>1 DEF Note, TypeOK, Memory
  <2>2. pc'[p] = "journal"
    BY <1>0, <1>1, GotoType DEF Statement
  <2>3. Knows(p)'
    BY <1>0, <1>1, <2>1, <2>2, MigrationsAssumption
       DEF Knows, ContainerKnows, ToolKnows
  <2> QED
    BY <1>0, <1>1, <2>1, <2>3, KnowsAfterGoto DEF Statement
<1>2. CASE p \in Tool /\ Goto(p, "detect") /\ UNCHANGED mem
  <2>1. pc'[p] = "detect"
    BY <1>0, <1>2, GotoType DEF Statement
  <2>2. Found(p)
    BY <1>0 DEF Placed, Found
  <2>3. Knows(p)'
    BY <1>0, <1>2, <2>1, <2>2, SameDatabase, MigrationsAssumption
       DEF Knows, ToolKnows
  <2> QED
    BY <1>0, <1>2, <2>3, KnowsAfterGoto DEF Statement
<1>3. CASE p \in Tool /\ End(p, "done")
  BY <1>0, <1>3, KnowsAfterEnd
<1> QED
  BY <1>1, <1>2, <1>3 DEF ReadPopulated

LEMMA ReadJournalExistsKnows ==
    ASSUME KnowsInv, NEW p \in Proc, ReadJournalExists(p)
    PROVE  \A q \in Proc : Knows(q)'
<1>0. /\ TypeInv /\ TypeOK /\ Placed(p) /\ Knows(p) /\ pc[p] = "journal"
      /\ UNCHANGED <<schema, journal, raced>>
  BY DEF KnowsInv, TypeInv, ReadJournalExists, database
<1>1. CASE Exists /\ Goto(p, "probe") /\ UNCHANGED mem
  <2>1. pc'[p] = "probe"
    BY <1>0, <1>1, GotoType DEF Statement
  <2>2. Found(p)
    BY <1>0 DEF Placed, Found
  <2>3. Knows(p)'
    BY <1>0, <1>1, <2>1, <2>2, SameDatabase
       DEF Knows, ContainerKnows, ToolKnows
  <2> QED
    BY <1>0, <1>1, <2>3, KnowsAfterGoto DEF Statement
<1>2. CASE ~Exists /\ p \in Tool /\ Goto(p, "populated") /\ UNCHANGED mem
  <2>1. pc'[p] = "populated"
    BY <1>0, <1>2, GotoType DEF Statement
  <2>2. Knows(p)'
    BY <1>0, <1>2, <2>1, SameDatabase, MigrationsAssumption
       DEF Knows, ToolKnows
  <2> QED
    BY <1>0, <1>2, <2>2, KnowsAfterGoto DEF Statement
<1>3. CASE /\ ~Exists /\ p \in Container /\ ~mem[p].populated
           /\ Goto(p, "create") /\ UNCHANGED mem
  <2>1. pc'[p] = "create"
    BY <1>0, <1>3, GotoType DEF Statement
  <2>2. ~raced[p] => Fresh
    BY <1>0, <1>3, RowsType DEF Knows, ContainerKnows, Fresh
  <2>3. Knows(p)'
    BY <1>0, <1>3, <2>1, <2>2, SameDatabase, MigrationsAssumption
       DEF Knows, ContainerKnows
  <2> QED
    BY <1>0, <1>3, <2>3, KnowsAfterGoto DEF Statement
<1>4. CASE Refuse(p, "baseline")
  BY <1>0, <1>4, KnowsAfterEnd DEF Refuse
<1> QED
  BY <1>1, <1>2, <1>3, <1>4 DEF ReadJournalExists

LEMMA ProbeMarkerKnows ==
    ASSUME KnowsInv, NEW p \in Proc, ProbeMarker(p)
    PROVE  \A q \in Proc : Knows(q)'
<1> DEFINE m == mem[p].at + 1
<1>0. /\ TypeInv /\ TypeOK /\ Placed(p) /\ Knows(p)
      /\ pc[p] \in {"probe", "detect"}
      /\ UNCHANGED <<schema, journal, raced>>
      /\ mem[p].at \in Nat /\ mem[p].count \in Nat /\ mem[p] \in Memory
  BY DEF KnowsInv, TypeInv, TypeOK, Memory, ProbeMarker, database
<1>1. CASE End(p, "refused")
  BY <1>0, <1>1, KnowsAfterEnd
<1>2. ASSUME Found(p) => Found(p)', UNCHANGED pc,
             \A q \in Proc \ {p} : mem'[q] = mem[q]
      PROVE  \A q \in Proc : Knows(q)'
  <2>1. Knows(p)'
    BY <1>0, <1>2, SameDatabase DEF Knows, ContainerKnows, ToolKnows
  <2> QED
    BY <1>0, <1>2, <2>1, KnowsByStep
<1>3. CASE /\ m \in schema /\ mem[p].count = mem[p].at
           /\ Note(p, [mem[p] EXCEPT !.at = m, !.count = m]) /\ UNCHANGED pc
  <2>1. /\ mem'[p].at = m /\ mem'[p].count = m
        /\ \A q \in Proc \ {p} : mem'[q] = mem[q]
    BY <1>0, <1>3 DEF Note, TypeOK, Memory
  <2>2. Found(p) => Found(p)'
    BY <1>0, <1>3, <2>1 DEF Found
  <2> QED
    BY <1>2, <1>3, <2>1, <2>2
<1>4. CASE /\ m \notin schema
           /\ Note(p, [mem[p] EXCEPT !.at = m]) /\ UNCHANGED pc
  <2>1. /\ mem'[p].at = m /\ mem'[p].count = mem[p].count
        /\ \A q \in Proc \ {p} : mem'[q] = mem[q]
    BY <1>0, <1>4 DEF Note, TypeOK, Memory
  <2>2. Found(p) => Found(p)'
    BY <1>0, <1>4, <2>1 DEF Found
  <2> QED
    BY <1>2, <1>4, <2>1, <2>2
<1> QED
  BY <1>1, <1>3, <1>4 DEF ProbeMarker

LEMMA ProbedKnows ==
    ASSUME KnowsInv, NEW p \in Proc, Probed(p)
    PROVE  \A q \in Proc : Knows(q)'
<1> DEFINE s == IF pc[p] = "probe" THEN "rows" ELSE "begin"
<1>0. /\ TypeInv /\ TypeOK /\ Placed(p) /\ Knows(p)
      /\ pc[p] \in {"probe", "detect"} /\ s \in Statement /\ Goto(p, s)
      /\ UNCHANGED <<schema, journal, raced, mem>>
  BY DEF KnowsInv, TypeInv, Probed, database, Statement
<1>1. pc'[p] = s
  BY <1>0, GotoType
<1>2. Knows(p)'
  BY <1>0, <1>1, SameDatabase DEF Knows, ContainerKnows, ToolKnows
<1> QED
  BY <1>0, <1>2, KnowsAfterGoto

LEMMA ReadRowsKnows ==
    ASSUME KnowsInv, NEW p \in Proc, ReadRows(p)
    PROVE  \A q \in Proc : Knows(q)'
<1>0. /\ TypeInv /\ TypeOK /\ Placed(p) /\ Knows(p) /\ pc[p] = "rows"
      /\ UNCHANGED <<schema, journal, raced>>
  BY DEF KnowsInv, TypeInv, ReadRows, database
<1>1. CASE End(p, "refused") \/ (p \in Tool /\ End(p, "done"))
  BY <1>0, <1>1, KnowsAfterEnd
<1>2. CASE /\ Authentic(Rows, mem[p].count)
           /\ p \in Container /\ Goto(p, "create") /\ UNCHANGED mem
  <2>1. pc'[p] = "create"
    BY <1>0, <1>2, GotoType DEF Statement
  <2>2. ~raced[p] => Checked(p)
    BY <1>0, <1>2 DEF Knows, ContainerKnows, Checked, Placed
  <2>3. Knows(p)'
    BY <1>0, <1>2, <2>1, <2>2, SameDatabase, MigrationsAssumption
       DEF Knows, ContainerKnows
  <2> QED
    BY <1>0, <1>2, <2>3, KnowsAfterGoto DEF Statement
<1>3. p \in Container \/ p \in Tool
  BY DEF Proc
<1> QED
  BY <1>1, <1>2, <1>3 DEF ReadRows, Refuse

LEMMA CreateJournalKnows ==
    ASSUME KnowsInv, NEW p \in Proc, CreateJournal(p)
    PROVE  \A q \in Proc : Knows(q)'
<1>0. /\ TypeInv /\ TypeOK /\ Placed(p) /\ Knows(p) /\ pc[p] = "create"
      /\ Goto(p, "last") /\ UNCHANGED <<schema, mem>>
  BY DEF KnowsInv, TypeInv, CreateJournal
<1>1. /\ pc'[p] = "last" /\ p \in Container
      /\ \A q \in Proc \ {p} : pc'[q] = pc[q]
  BY <1>0, GotoType DEF Statement, Placed, Proc, OfTools, Ended
<1>2. Exists' /\ Rows' = Rows
  BY EmptyJournal DEF CreateJournal, Exists, Rows
<1>3. raced'[p] = raced[p]
  BY <1>0, RacesSelf DEF CreateJournal
<1>4. Checked(p)' = Checked(p) /\ Fresh' = Fresh
  BY <1>0, <1>2 DEF Checked, Found, Fresh, Authentic, Genuine
<1>5. Knows(p)'
  BY <1>0, <1>1, <1>2, <1>3, <1>4, MigrationsAssumption
     DEF Knows, ContainerKnows
<1> QED
  BY <1>0, <1>1, <1>5, KnowsByStep DEF CreateJournal

LEMMA ReadLastKnows ==
    ASSUME KnowsInv, NEW p \in Proc, ReadLast(p)
    PROVE  \A q \in Proc : Knows(q)'
<1>0. /\ TypeInv /\ TypeOK /\ Placed(p) /\ Knows(p) /\ pc[p] = "last"
      /\ UNCHANGED <<schema, journal, raced>> /\ mem[p] \in Memory
  BY DEF KnowsInv, TypeInv, TypeOK, ReadLast, database
<1>1. CASE /\ Exists /\ Goto(p, "apply")
           /\ Note(p, [mem[p] EXCEPT !.last = LastWhen(Rows)])
  <2>1. /\ pc'[p] = "apply" /\ p \in Container
    BY <1>0, <1>1, GotoType DEF Statement, Placed, Proc, OfTools, Ended
  <2>2. /\ mem'[p].last = LastWhen(Rows)
        /\ mem'[p].at = mem[p].at /\ mem'[p].count = mem[p].count
        /\ \A q \in Proc \ {p} : mem'[q] = mem[q]
    BY <1>0, <1>1 DEF Note, TypeOK, Memory
  <2>3. Exists' = Exists /\ Rows' = Rows /\ Fresh' = Fresh
    BY <1>0, SameDatabase
  <2>4. Checked(p)' = Checked(p) /\ LastWhen(Rows)' = LastWhen(Rows)
    BY <1>0, <2>2, <2>3 DEF Checked, Found, Authentic, Genuine, LastWhen
  <2>5. Knows(p)'
    BY <1>0, <2>1, <2>2, <2>3, <2>4, MigrationsAssumption
       DEF Knows, ContainerKnows
  <2> QED
    BY <1>0, <1>1, <2>2, <2>5, KnowsAfterGoto DEF Statement
<1>2. CASE End(p, "refused")
  BY <1>0, <1>2, KnowsAfterEnd
<1> QED
  BY <1>1, <1>2 DEF ReadLast

(* What an undisturbed container's transaction leaves: every migration of  *)
(* its release, and the rows that say so.                                  *)
LEMMA ApplyFull ==
    ASSUME KnowsInv, NEW p \in Proc, ApplyPending(p), ~raced[p],
           pc'[p] = "done"
    PROVE  1 .. Build[p] \subseteq schema' /\ Says(Rows', Build[p])
<1>0. /\ TypeInv /\ TypeOK /\ Placed(p) /\ Knows(p) /\ pc[p] = "apply"
      /\ Rows \in Seq(Row) /\ Build[p] \in 1 .. Newest
      /\ mem[p].count \in 0 .. Newest
  BY RowsType, BuildType DEF KnowsInv, TypeInv, TypeOK, Memory, ApplyPending
<1>1. p \in Container
  BY <1>0 DEF Placed, Proc, OfTools, Ended
<1>2. /\ Exists /\ (Checked(p) \/ Fresh)
      /\ mem[p].last = LastWhen(Rows)
  BY <1>0, <1>1 DEF Knows, ContainerKnows
<1>3. ~End(p, "refused")
  BY <1>0, EndType DEF Ended
(* Either way the rows there are those up to the newest.                   *)
<1> DEFINE l == mem[p].last
<1>4. /\ l \in 0 .. Build[p] /\ 1 .. l \subseteq schema
      /\ Len(Rows) = l
      /\ \A m \in 1 .. l : [when |-> m, genuine |-> TRUE] \in Range(Rows)
  <2>1. CASE Checked(p)
    <3>1. l = mem[p].count
      BY <1>0, <1>2, <2>1, LastOfAuthentic DEF Checked
    <3>2. l <= Build[p] /\ 1 .. l \subseteq schema /\ Len(Rows) = l
      BY <1>0, <2>1, <3>1, NewestType DEF Placed, Checked, Found, Authentic
    <3>3. Range(Rows) = {[when |-> m, genuine |-> TRUE] : m \in 1 .. l}
      BY <1>0, <2>1, <3>1, GenuineRows DEF Checked, Authentic
    <3>4. l \in 0 .. Build[p]
      BY <1>0, <3>1, <3>2, NewestType
    <3>5. \A m \in 1 .. l : [when |-> m, genuine |-> TRUE] \in Range(Rows)
      BY <3>3
    <3> QED
      BY <3>2, <3>4, <3>5
  <2>2. CASE Fresh
    <3>1. l = 0
      BY <1>2, <2>2 DEF Fresh, LastWhen
    <3> QED
      BY <1>0, <2>2, <3>1, EmptyJournal, NewestType DEF Fresh
  <2> QED
    BY <1>2, <2>1, <2>2
<1>5. CASE Pending(p) = {} /\ UNCHANGED <<database, raced>>
  <2>1. l = Build[p]
    BY <1>0, <1>4, <1>5, NewestType DEF Pending
  <2>2. Rows' = Rows /\ schema' = schema
    BY <1>5 DEF Rows, Exists, database
  <2> QED
    BY <1>4, <2>1, <2>2 DEF Says
<1>6. CASE /\ Pending(p) # {} /\ schema' = schema \cup Pending(p)
           /\ journal' = Rows \o Applied(p)
  <2>1. /\ Pending(p) = l + 1 .. Build[p]
        /\ Applied(p) \in Seq(Row) /\ Len(Applied(p)) = Build[p] - l
        /\ Range(Applied(p))
             = {[when |-> m, genuine |-> TRUE] : m \in l + 1 .. Build[p]}
    BY <1>0, <1>6, AppliedRows
  <2>2. /\ journal' \in Seq(Row) /\ Len(journal') = Len(Rows) + Len(Applied(p))
        /\ Range(journal') = Range(Rows) \cup Range(Applied(p))
    <3>1. Rows \o Applied(p) \in Seq(Row)
          /\ Len(Rows \o Applied(p)) = Len(Rows) + Len(Applied(p))
      BY <1>0, <2>1, ConcatProperties
    <3>2. Range(Rows \o Applied(p)) = Range(Rows) \cup Range(Applied(p))
      BY <1>0, <2>1, RangeConcatenation
    <3> QED
      BY <1>6, <3>1, <3>2
  <2>3. Rows' = journal'
    BY <2>2, MigrationsAssumption DEF Rows, Exists
  <2> HIDE DEF l
  <2>4. Len(Rows') = Build[p]
    BY <1>0, <1>4, <2>1, <2>2, <2>3
  <2>5. ASSUME NEW m \in 1 .. Build[p]
        PROVE  /\ [when |-> m, genuine |-> TRUE] \in Range(Rows')
               /\ m \in schema'
    <3>1. m \in 1 .. l \/ m \in l + 1 .. Build[p]
      BY <1>0, <1>4, NewestType
    <3> QED
      BY <1>4, <1>6, <2>1, <2>2, <2>3, <3>1
  <2> QED
    BY <2>4, <2>5 DEF Says
<1> QED
  BY <1>3, <1>5, <1>6 DEF ApplyPending, Applied

LEMMA ApplyPendingKnows ==
    ASSUME KnowsInv, NEW p \in Proc, ApplyPending(p)
    PROVE  \A q \in Proc : Knows(q)'
<1>0. TypeInv /\ TypeOK /\ Placed(p) /\ pc[p] = "apply"
  BY DEF KnowsInv, TypeInv, ApplyPending
<1>1. p \in Container /\ p \notin Tool
  BY <1>0, MigrationsAssumption DEF Placed, Proc, OfTools, Ended
<1>2. CASE End(p, "refused") /\ UNCHANGED <<database, raced>>
  BY <1>0, <1>2, KnowsAfterEnd DEF database
<1>3. CASE End(p, "done") /\ (UNCHANGED <<database, raced>> \/ Races(p))
  <2>1. /\ pc'[p] = "done"
        /\ \A q \in Proc \ {p} : pc'[q] = pc[q] /\ mem'[q] = mem[q]
    BY <1>0, <1>3, EndType DEF Ended
  <2>2. raced'[p] = raced[p]
    BY <1>0, <1>3, RacesSelf
  <2>3. Knows(p)'
    BY <1>1, <2>1, <2>2, ApplyFull DEF Knows, ContainerKnows
  <2> QED
    BY <1>3, <2>1, <2>3, KnowsByStep DEF database
<1> QED
  BY <1>2, <1>3 DEF ApplyPending

LEMMA BeginBaselineKnows ==
    ASSUME KnowsInv, NEW p \in Proc, BeginBaseline(p)
    PROVE  \A q \in Proc : Knows(q)'
<1>0. /\ TypeInv /\ TypeOK /\ Placed(p) /\ Knows(p) /\ pc[p] = "begin"
      /\ Goto(p, "empty") /\ UNCHANGED <<schema, journal, raced, mem>>
  BY DEF KnowsInv, TypeInv, BeginBaseline, database
<1>1. pc'[p] = "empty"
  BY <1>0, GotoType DEF Statement
<1>2. Knows(p)'
  BY <1>0, <1>1, SameDatabase DEF Knows, ContainerKnows, ToolKnows
<1> QED
  BY <1>0, <1>2, KnowsAfterGoto DEF Statement

LEMMA CountRowsKnows ==
    ASSUME KnowsInv, NEW p \in Proc, CountRows(p)
    PROVE  \A q \in Proc : Knows(q)'
<1>0. /\ TypeInv /\ TypeOK /\ Placed(p) /\ Knows(p) /\ pc[p] = "empty"
      /\ UNCHANGED <<schema, journal, raced>>
  BY DEF KnowsInv, TypeInv, CountRows, database
<1>1. CASE Rows = <<>> /\ Goto(p, "insert") /\ UNCHANGED mem
  <2>1. pc'[p] = "insert"
    BY <1>0, <1>1, GotoType DEF Statement
  <2>2. Knows(p)'
    BY <1>0, <1>1, <2>1, SameDatabase DEF Knows, ContainerKnows, ToolKnows
  <2> QED
    BY <1>0, <1>1, <2>2, KnowsAfterGoto DEF Statement
<1>2. CASE End(p, "refused")
  BY <1>0, <1>2, KnowsAfterEnd
<1> QED
  BY <1>1, <1>2 DEF CountRows

LEMMA InsertRowKnows ==
    ASSUME KnowsInv, NEW p \in Proc, InsertRow(p)
    PROVE  \A q \in Proc : Knows(q)'
<1>0. /\ TypeInv /\ TypeOK /\ Placed(p) /\ Knows(p) /\ pc[p] = "insert"
      /\ UNCHANGED <<schema, journal, raced>> /\ mem[p] \in Memory
  BY DEF KnowsInv, TypeInv, TypeOK, InsertRow, database
<1>1. CASE UNCHANGED pc /\ Note(p, [mem[p] EXCEPT !.last = mem[p].last + 1])
  <2>1. /\ mem'[p].at = mem[p].at /\ mem'[p].count = mem[p].count
        /\ \A q \in Proc \ {p} : mem'[q] = mem[q]
    BY <1>0, <1>1 DEF Note, TypeOK, Memory
  <2>2. Found(p)' = Found(p)
    BY <1>0, <2>1 DEF Found
  <2>3. Knows(p)'
    BY <1>0, <1>1, <2>2, SameDatabase DEF Knows, ContainerKnows, ToolKnows
  <2> QED
    BY <1>0, <1>1, <2>1, <2>3, KnowsByStep
<1>2. CASE Goto(p, "commit") /\ UNCHANGED mem
  <2>1. pc'[p] = "commit"
    BY <1>0, <1>2, GotoType DEF Statement
  <2>2. Knows(p)'
    BY <1>0, <1>2, <2>1, SameDatabase DEF Knows, ContainerKnows, ToolKnows
  <2> QED
    BY <1>0, <1>2, <2>2, KnowsAfterGoto DEF Statement
<1> QED
  BY <1>1, <1>2 DEF InsertRow

LEMMA CommitKnows ==
    ASSUME KnowsInv, NEW p \in Proc, Commit(p)
    PROVE  \A q \in Proc : Knows(q)'
<1>0. /\ TypeInv /\ TypeOK /\ Placed(p) /\ pc[p] = "commit"
      /\ End(p, "done") /\ Races(p)
  BY DEF KnowsInv, TypeInv, Commit
<1>1. p \notin Container
  BY <1>0 DEF Placed, OfContainers, Ended
<1>2. /\ pc'[p] = "done"
      /\ \A q \in Proc \ {p} : pc'[q] = pc[q] /\ mem'[q] = mem[q]
  BY <1>0, EndType DEF Ended
<1>3. Knows(p)'
  BY <1>1, <1>2 DEF Knows, ToolKnows
<1> QED
  BY <1>0, <1>2, <1>3, KnowsByStep

LEMMA AbortKnows ==
    ASSUME KnowsInv, NEW p \in Proc, Abort(p)
    PROVE  \A q \in Proc : Knows(q)'
  BY KnowsAfterEnd DEF Abort, database

LEMMA OperatorsKnow ==
    ASSUME KnowsInv,
           Push \/ DropObjects \/ SubstituteRow \/ DropJournal \/ Recover
    PROVE  \A q \in Proc : Knows(q)'
<1>1. Races(Nobody) /\ UNCHANGED pc
  BY DEF Push, DropObjects, SubstituteRow, DropJournal, Recover, Edits
<1> QED
  BY <1>1, KnowsRaced, MigrationsAssumption DEF KnowsInv, TypeInv

LEMMA KnowsStep == KnowsInv /\ [Next]_vars => KnowsInv'
<1> SUFFICES ASSUME KnowsInv, [Next]_vars PROVE KnowsInv'
  OBVIOUS
<1>1. TypeInv'
  BY TypeStep DEF KnowsInv
<1>2. ASSUME NEW p \in Proc, Step(p) PROVE \A q \in Proc : Knows(q)'
  BY <1>2, ReadPopulatedKnows, ReadJournalExistsKnows, ProbeMarkerKnows,
     ProbedKnows, ReadRowsKnows, CreateJournalKnows, ReadLastKnows,
     ApplyPendingKnows, BeginBaselineKnows, CountRowsKnows, InsertRowKnows,
     CommitKnows DEF Step
<1>3. ASSUME UNCHANGED vars PROVE \A q \in Proc : Knows(q)'
  <2>1. UNCHANGED <<schema, journal, pc, mem, raced>>
    BY <1>3 DEF vars, database
  <2>2. ASSUME NEW q \in Proc PROVE Knows(q)'
    <3>1. /\ Knows(q) /\ UNCHANGED <<schema, journal>>
          /\ pc'[q] = pc[q] /\ mem'[q] = mem[q] /\ raced'[q] = raced[q]
      BY <2>1 DEF KnowsInv
    <3> QED
      BY <3>1, KnowsQuiet
  <2> QED
    BY <2>2
<1>4. \A q \in Proc : Knows(q)'
  <2> DEFINE K == \A q \in Proc : Knows(q)'
  <2>1. ASSUME NEW p \in Proc, Start(p) \/ Step(p) \/ Abort(p) PROVE K
    BY <1>2, <2>1, StartKnows, AbortKnows
  <2>2. ASSUME Push \/ DropObjects \/ SubstituteRow \/ DropJournal \/ Recover
        PROVE  K
    BY <2>2, OperatorsKnow
  <2>3. UNCHANGED vars => K
    BY <1>3
  <2> HIDE DEF K
  <2>4. K
    BY <2>1, <2>2, <2>3 DEF Next
  <2> QED
    BY <2>4 DEF K
<1> QED
  BY <1>1, <1>4 DEF KnowsInv

LEMMA KnowsInit == Init => KnowsInv
<1> SUFFICES ASSUME Init PROVE \A p \in Proc : Knows(p)
  BY TypeInit DEF KnowsInv
<1> QED
  BY DEF Init, Knows, ContainerKnows, ToolKnows

LEMMA Knowing == Spec => []KnowsInv
  BY KnowsInit, KnowsStep, PTL DEF Spec

-----------------------------------------------------------------------------
(* The guard and the baseline                                              *)

(* A container that got through migrate.js undisturbed serves a schema     *)
(* that has every migration of its release and a journal that says exactly *)
(* so, whatever state the database was in when it started.                 *)
THEOREM VouchedHolds == Spec => []Vouched
<1>1. KnowsInv => Vouched
  BY DEF KnowsInv, Knows, ContainerKnows, Vouched, Proc
<1> QED
  BY <1>1, Knowing, PTL

(* The guard lets no container run a migration over its own result, unless *)
(* the database changed after it looked or has lost the clients table.     *)
THEOREM ReplaysNothingHolds == Spec => []ReplaysNothing
<1>1. ASSUME KnowsInv, NEW c \in Container,
             pc[c] = "apply", ~raced[c], 1 \in schema
      PROVE  Pending(c) \cap schema = {}
  <2>0. c \in Proc
    BY DEF Proc
  <2>1. /\ Checked(c) /\ mem[c].last = LastWhen(Rows) /\ Exists
        /\ mem[c].count \in 0 .. Newest
    BY <1>1, <2>0 DEF KnowsInv, TypeInv, TypeOK, Memory, Knows, ContainerKnows, Fresh
  <2>2. Rows \in Seq(Row)
    BY <1>1, RowsType DEF KnowsInv
  <2>3. mem[c].last = mem[c].count
    BY <2>1, <2>2, LastOfAuthentic DEF Checked
  <2>4. Build[c] \in 1 .. Newest
    BY <2>0, BuildType
  <2> QED
    BY <2>1, <2>3, <2>4, NewestType DEF Checked, Found, Pending
<1>2. KnowsInv => ReplaysNothing
  BY <1>1 DEF ReplaysNothing
<1> QED
  BY <1>2, Knowing, PTL

LEMMA CommitFull ==
    ASSUME KnowsInv, NEW p \in Proc, Commit(p), ~raced[p]
    PROVE  Says(Rows', Cardinality(schema' \cap 1 .. Build[p]))
<1>0. /\ TypeInv /\ TypeOK /\ Placed(p) /\ Knows(p) /\ pc[p] = "commit"
      /\ mem[p].count \in 0 .. Newest /\ Build[p] \in 1 .. Newest
      /\ schema' = schema
  BY BuildType DEF KnowsInv, TypeInv, TypeOK, Memory, Commit
<1> DEFINE n == mem[p].count
<1>1. p \in Tool
  BY <1>0 DEF Placed, Proc, OfContainers, Ended
<1>2. Rows = <<>> /\ Found(p) /\ mem[p].at = Build[p] /\ mem[p].last = n
  BY <1>0, <1>1 DEF Knows, ToolKnows, Placed
<1>3. schema \cap 1 .. Build[p] = 1 .. n
  BY <1>0, <1>2, NewestType DEF Found, Placed
<1>4. Cardinality(1 .. n) = n
  BY <1>0, FS_Interval, NewestType
<1>5. Genuine(n) \in Seq(Row)
  BY <1>0, GenuineRows
<1>6. journal' = Genuine(n)
  BY <1>2, <1>5, ConcatEmptySeq DEF Commit
<1>7. Rows' = Genuine(n)
  BY <1>5, <1>6, MigrationsAssumption DEF Rows, Exists
<1>8. Says(Genuine(n), n)
  BY <1>0, GenuineRows DEF Says
<1> QED
  BY <1>0, <1>3, <1>4, <1>7, <1>8

(* The journal grows only by a transaction that leaves it saying exactly   *)
(* what the schema has, up to the writer's release, unless the database    *)
(* changed since the writer looked.                                        *)
THEOREM WritesTrueHolds == Spec => WritesTrue
<1> DEFINE True == Len(Rows') > Len(Rows) =>
                      \E p \in Proc :
                         /\ pc[p] \in {"apply", "commit"} /\ pc'[p] = "done"
                         /\ ~raced[p] =>
                               Says(Rows', Cardinality(schema' \cap 1 .. Build[p]))
<1>1. ASSUME KnowsInv, [Next]_vars PROVE [True]_vars
  <2>0. TypeInv /\ TypeOK /\ Rows \in Seq(Row) /\ Len(Rows) \in Nat
    BY <1>1, RowsType, LenProperties DEF KnowsInv, TypeInv
  <2>1. CASE journal' = journal
    <3>1. Rows' = Rows
      BY <2>1 DEF Rows, Exists
    <3> QED
      BY <2>0, <3>1
  <2>2. CASE journal' \in {<<>>, NoJournal}
    <3>1. Rows' = <<>>
      BY <2>2 DEF Rows, Exists
    <3> QED
      BY <2>0, <3>1, EmptyJournal
  <2>3. ASSUME NEW p \in Proc, ApplyPending(p), End(p, "done") PROVE True
    <3>1. pc[p] = "apply" /\ pc'[p] = "done"
      BY <2>0, <2>3, EndType DEF ApplyPending, Ended
    <3>2. ASSUME ~raced[p]
          PROVE  Says(Rows', Cardinality(schema' \cap 1 .. Build[p]))
      <4>1. 1 .. Build[p] \subseteq schema' /\ Says(Rows', Build[p])
        BY <1>1, <2>3, <3>1, <3>2, ApplyFull
      <4>2. schema' \cap 1 .. Build[p] = 1 .. Build[p]
        BY <4>1
      <4>3. Cardinality(1 .. Build[p]) = Build[p]
        BY BuildType, FS_Interval, NewestType
      <4> QED
        BY <4>1, <4>2, <4>3
    <3> QED
      BY <3>1, <3>2
  <2>4. ASSUME NEW p \in Proc, Commit(p) PROVE True
    <3>1. pc[p] = "commit" /\ pc'[p] = "done"
      BY <2>0, <2>4, EndType DEF Commit, Ended
    <3> QED
      BY <1>1, <2>4, <3>1, CommitFull
  <2>5. CASE SubstituteRow
    <3>1. PICK i \in DOMAIN Rows :
             journal' = [journal EXCEPT ![i].genuine = FALSE]
      BY <2>5 DEF SubstituteRow
    <3>2. Exists /\ journal \in Seq(Row)
      <4>1. DOMAIN (<<>>) = {}
        OBVIOUS
      <4> QED
        BY <2>0, <3>1, <4>1 DEF TypeOK, Rows, Exists
    <3>3. TypeInv'
      BY <1>1, TypeStep DEF KnowsInv
    <3>4. CASE Exists'
      <4>1. journal' \in Seq(Row) /\ DOMAIN journal' = DOMAIN journal
        BY <3>1, <3>2, <3>3, <3>4 DEF TypeInv, TypeOK, Exists
      <4>2. Len(journal') = Len(journal)
        BY <3>2, <4>1, LenProperties
      <4> QED
        BY <2>0, <3>2, <3>4, <4>2 DEF Rows
    <3>5. CASE ~Exists'
      BY <2>0, <3>5, EmptyJournal DEF Rows
    <3> QED
      BY <3>4, <3>5
  <2>6. ASSUME NEW p \in Proc, Step(p)
        PROVE  \/ journal' = journal \/ journal' \in {<<>>, NoJournal}
               \/ ApplyPending(p) /\ End(p, "done")
               \/ Commit(p)
    BY <2>6 DEF Step, ReadPopulated, ReadJournalExists, ProbeMarker, Probed,
       ReadRows, CreateJournal, ReadLast, ApplyPending, BeginBaseline,
       CountRows, InsertRow, database
  <2>7. ASSUME NEW p \in Proc, Start(p) \/ Abort(p) PROVE journal' = journal
    BY <2>7 DEF Start, Abort, database
  <2>8. ASSUME Push \/ DropObjects \/ DropJournal \/ Recover
        PROVE  journal' \in {journal, NoJournal}
    BY <2>8 DEF Push, DropObjects, DropJournal, Recover
  <2> HIDE DEF True
  <2>9. CASE UNCHANGED vars
    BY <2>9
  <2> QED
    BY <1>1, <2>1, <2>2, <2>3, <2>4, <2>5, <2>6, <2>7, <2>8, <2>9 DEF Next
<1> QED
  BY <1>1, Knowing, PTL DEF Spec, WritesTrue

-----------------------------------------------------------------------------
(* The database while the operator leaves it alone                         *)

LEMMA SizedRows ==
    ASSUME NEW n \in 0 .. Newest, Sized(n)
    PROVE  /\ Rows \in Seq(Row)
           /\ Exists => Rows = Genuine(n) /\ Len(Rows) = n /\ Authentic(Rows, n)
           /\ ~Exists => Rows = <<>>
           /\ \A m \in 1 .. Newest : m \in schema <=> m <= n
<1>1. Exists => Rows = Genuine(n)
  BY DEF Sized, Rows
<1>2. ~Exists => Rows = <<>>
  BY DEF Rows
<1>3. \A m \in 1 .. Newest : m \in schema <=> m <= n
  BY NewestType DEF Sized
<1> QED
  BY <1>1, <1>2, <1>3, GenuineRows, EmptyJournal DEF Authentic

LEMMA FollowsQuiet ==
    ASSUME NEW n, NEW q \in Proc, Follows(q, n), journal' = journal,
           creator = q => creator' = q, pc'[q] = pc[q], mem'[q] = mem[q]
    PROVE  Follows(q, n)'
  BY DEF Follows, Exists

LEMMA AloneByStep ==
    ASSUME NEW n \in 0 .. Newest, Sized(n), \A q \in Proc : Follows(q, n),
           NEW p \in Proc, Follows(p, n)',
           UNCHANGED <<schema, journal>>,
           \A q \in Proc \ {p} : creator = q => creator' = q,
           \A q \in Proc \ {p} : pc'[q] = pc[q] /\ mem'[q] = mem[q]
    PROVE  Alone'
<1>1. Sized(n)'
  BY DEF Sized, Exists
<1>2. ASSUME NEW q \in Proc \ {p} PROVE Follows(q, n)'
  BY <1>2, FollowsQuiet
<1> QED
  BY <1>1, <1>2 DEF Alone

(* A process that has ended, or has read nothing, claims nothing.          *)
LEMMA EndAlone ==
    ASSUME TypeInv, Alone, NEW p \in Proc, NEW s \in Ended, End(p, s),
           UNCHANGED <<schema, journal>>,
           \A q \in Proc \ {p} : creator = q => creator' = q
    PROVE  Alone'
<1>1. PICK n \in 0 .. Newest : Sized(n) /\ \A q \in Proc : Follows(q, n)
  BY DEF Alone
<1>2. /\ pc'[p] \in Ended
      /\ \A q \in Proc \ {p} : pc'[q] = pc[q] /\ mem'[q] = mem[q]
  BY EndType DEF TypeInv
<1>3. Follows(p, n)'
  BY <1>2 DEF Follows, Ended
<1> QED
  BY <1>1, <1>2, <1>3, AloneByStep

(* A process goes to another statement, with nothing new in its memory.    *)
LEMMA GotoAlone ==
    ASSUME TypeInv, NEW n \in 0 .. Newest, Sized(n),
           \A q \in Proc : Follows(q, n),
           NEW p \in Proc, NEW s \in Statement, Goto(p, s),
           UNCHANGED <<schema, journal, creator, mem>>, Follows(p, n)'
    PROVE  Alone'
<1>1. \A q \in Proc \ {p} : pc'[q] = pc[q] /\ mem'[q] = mem[q]
  BY GotoType DEF TypeInv
<1> QED
  BY <1>1, AloneByStep

LEMMA StartAlone ==
    ASSUME WholeInv, Alone, NEW p \in Proc, Start(p)
    PROVE  Alone'
<1>1. PICK n \in 0 .. Newest : Sized(n) /\ \A q \in Proc : Follows(q, n)
  BY DEF Alone
<1> DEFINE s == IF p \in Container THEN "populated" ELSE "journal"
<1>2. /\ TypeInv /\ s \in Statement /\ Goto(p, s)
      /\ UNCHANGED <<schema, journal, creator, mem>>
  BY DEF WholeInv, Start, Statement, database
<1>3. pc'[p] = s
  BY <1>2, GotoType DEF TypeInv
<1>4. Follows(p, n)'
  BY <1>3 DEF Follows
<1> HIDE DEF s
<1> QED
  BY <1>1, <1>2, <1>4, GotoAlone

LEMMA ReadPopulatedAlone ==
    ASSUME WholeInv, Alone, NEW p \in Proc, ReadPopulated(p)
    PROVE  Alone'
<1>0. /\ TypeInv /\ TypeOK /\ Placed(p) /\ pc[p] = "populated"
      /\ mem[p] \in Memory /\ UNCHANGED <<schema, journal, creator>>
  BY DEF WholeInv, TypeInv, TypeOK, ReadPopulated, database
<1>1. PICK n \in 0 .. Newest : Sized(n) /\ \A q \in Proc : Follows(q, n)
  BY DEF Alone
<1>2. CASE /\ p \in Container /\ Goto(p, "journal")
           /\ Note(p, [mem[p] EXCEPT !.populated = 1 \in schema])
  <2> DEFINE b == 1 \in schema
             m == [mem[p] EXCEPT !.populated = b]
  <2>1. b \in BOOLEAN /\ (b \/ n = 0)
    BY <1>1, SizedRows, NewestType
  <2> HIDE DEF b
  <2>2. m \in Memory /\ m.populated = b
    BY <1>0, <2>1 DEF Memory
  <2> HIDE DEF m
  <2>3. mem'[p] = m /\ \A q \in Proc \ {p} : mem'[q] = mem[q]
    BY <1>0, <1>2, <2>2, NoteType DEF m, b
  <2>4. pc'[p] = "journal" /\ \A q \in Proc \ {p} : pc'[q] = pc[q]
    BY <1>0, <1>2, GotoType DEF Statement
  <2>5. Follows(p, n)'
    BY <2>1, <2>2, <2>3, <2>4 DEF Follows
  <2> QED
    BY <1>0, <1>1, <2>3, <2>4, <2>5, AloneByStep
<1>3. CASE Goto(p, "detect") /\ UNCHANGED mem
  <2>1. pc'[p] = "detect"
    BY <1>0, <1>3, GotoType DEF Statement
  <2>2. mem[p].at = 0 /\ mem[p].count = 0
    BY <1>0 DEF Placed
  <2>3. Follows(p, n)'
    BY <1>1, <1>3, <2>1, <2>2 DEF Follows
  <2> QED
    BY <1>0, <1>1, <1>3, <2>3, GotoAlone DEF Statement
<1>4. CASE End(p, "done")
  BY <1>0, <1>4, EndAlone DEF Ended
<1> QED
  BY <1>2, <1>3, <1>4 DEF ReadPopulated

LEMMA ReadJournalExistsAlone ==
    ASSUME WholeInv, Alone, NEW p \in Proc, ReadJournalExists(p)
    PROVE  Alone'
<1>0. /\ TypeInv /\ TypeOK /\ Placed(p) /\ pc[p] = "journal"
      /\ UNCHANGED <<schema, journal, creator>>
  BY DEF WholeInv, TypeInv, ReadJournalExists, database
<1>1. PICK n \in 0 .. Newest : Sized(n) /\ \A q \in Proc : Follows(q, n)
  BY DEF Alone
<1>2. mem[p].at = 0 /\ mem[p].count = 0 /\ Exists' = Exists
  BY <1>0 DEF Placed, Exists
<1>3. ASSUME NEW s \in {"probe", "populated", "create"}, Goto(p, s),
             s = "probe" => Exists,
             s = "create" => p \in Container /\ ~mem[p].populated,
             UNCHANGED mem
      PROVE  Alone'
  <2>1. pc'[p] = s
    BY <1>0, <1>3, GotoType DEF Statement
  <2>2. Follows(p, n)'
    BY <1>0, <1>1, <1>2, <1>3, <2>1 DEF Follows
  <2> QED
    BY <1>0, <1>1, <1>3, <2>2, GotoAlone DEF Statement
<1>4. CASE Refuse(p, "baseline")
  BY <1>0, <1>4, EndAlone DEF Ended, Refuse
<1> QED
  BY <1>3, <1>4 DEF ReadJournalExists

LEMMA ProbeMarkerAlone ==
    ASSUME WholeInv, Alone, NEW p \in Proc, ProbeMarker(p)
    PROVE  Alone'
<1> DEFINE m == mem[p].at + 1
<1>0. /\ TypeInv /\ TypeOK /\ Placed(p) /\ pc[p] \in {"probe", "detect"}
      /\ mem[p] \in Memory /\ m <= Build[p] /\ Build[p] \in 1 .. Newest
      /\ UNCHANGED <<schema, journal, creator>>
  BY BuildType DEF WholeInv, TypeInv, TypeOK, ProbeMarker, database
<1>1. PICK n \in 0 .. Newest : Sized(n) /\ \A q \in Proc : Follows(q, n)
  BY DEF Alone
<1>2. m \in 1 .. Newest /\ (m \in schema <=> m <= n)
  BY <1>0, <1>1, SizedRows, NewestType DEF Memory
<1>3. CASE End(p, "refused")
  BY <1>0, <1>3, EndAlone DEF Ended
<1>4. ASSUME NEW w \in Memory, Note(p, w), UNCHANGED pc, w.at = m,
             \/ m \in schema /\ w.count = m
             \/ m \notin schema /\ w.count = mem[p].count
      PROVE  Alone'
  <2>1. mem'[p] = w /\ \A q \in Proc \ {p} : mem'[q] = mem[q]
    BY <1>0, <1>4, NoteType
  <2>2. pc'[p] = pc[p] /\ Exists' = Exists
    BY <1>0, <1>4 DEF Exists
  <2>3. mem[p].at \in Nat /\ mem[p].count \in Nat
    BY <1>0 DEF Memory
  <2>4. w.count <= n
    BY <1>0, <1>1, <1>2, <1>4 DEF Follows
  <2>5. Exists \/ \A k \in w.count + 1 .. w.at : k > n
    <3>1. pc[p] = "detect" =>
             (Exists \/ \A k \in mem[p].count + 1 .. mem[p].at : k > n)
      BY <1>1 DEF Follows
    <3>2. pc[p] = "probe" => Exists
      BY <1>1 DEF Follows
    <3>3. CASE m \in schema /\ w.count = m
      BY <1>2, <1>4, <3>3
    <3>4. CASE m \notin schema /\ w.count = mem[p].count
      BY <1>0, <1>2, <1>4, <2>3, <3>1, <3>2, <3>4
    <3> QED
      BY <1>4, <3>3, <3>4
  <2>6. Follows(p, n)'
    BY <1>0, <1>1, <2>1, <2>2, <2>4, <2>5 DEF Follows
  <2> QED
    BY <1>0, <1>1, <1>4, <2>1, <2>2, <2>6, AloneByStep
<1>5. CASE /\ m \in schema /\ UNCHANGED pc
           /\ Note(p, [mem[p] EXCEPT !.at = m, !.count = m])
  <2> HIDE DEF m
  <2> DEFINE w == [mem[p] EXCEPT !.at = m, !.count = m]
  <2>0. m \in 0 .. Newest
    BY <1>2, NewestType
  <2>1. w \in Memory /\ w.at = m /\ w.count = m
    BY <1>0, <2>0 DEF Memory
  <2> HIDE DEF w
  <2> QED
    BY <1>4, <1>5, <2>1 DEF w
<1>6. CASE m \notin schema /\ UNCHANGED pc /\ Note(p, [mem[p] EXCEPT !.at = m])
  <2> DEFINE w == [mem[p] EXCEPT !.at = m]
  <2>1. w \in Memory /\ w.at = m /\ w.count = mem[p].count
    BY <1>0, <1>2 DEF Memory
  <2> HIDE DEF w, m
  <2> QED
    BY <1>4, <1>6, <2>1 DEF w
<1> QED
  BY <1>3, <1>5, <1>6 DEF ProbeMarker

LEMMA ProbedAlone ==
    ASSUME WholeInv, Alone, NEW p \in Proc, Probed(p)
    PROVE  Alone'
<1> DEFINE s == IF pc[p] = "probe" THEN "rows" ELSE "begin"
<1>0. /\ TypeInv /\ TypeOK /\ pc[p] \in {"probe", "detect"} /\ Goto(p, s)
      /\ s \in Statement /\ UNCHANGED <<schema, journal, creator, mem>>
  BY DEF WholeInv, TypeInv, Probed, database, Statement
<1>1. PICK n \in 0 .. Newest : Sized(n) /\ \A q \in Proc : Follows(q, n)
  BY DEF Alone
<1>2. pc'[p] = s /\ Exists' = Exists
  BY <1>0, GotoType DEF Exists
<1>3. Follows(p, n)'
  BY <1>0, <1>1, <1>2 DEF Follows
<1> HIDE DEF s
<1> QED
  BY <1>0, <1>1, <1>3, GotoAlone

(* A journal that says what the schema has is never too short nor wrong    *)
(* for whoever looks: nobody is told to drop it.                           *)
LEMMA ReadRowsAlone ==
    ASSUME WholeInv, Alone, advice # "drop", NEW p \in Proc, ReadRows(p)
    PROVE  Alone' /\ advice' # "drop"
<1>0. /\ TypeInv /\ TypeOK /\ pc[p] = "rows" /\ mem[p].count \in Nat
      /\ UNCHANGED <<schema, journal, creator>>
  BY DEF WholeInv, TypeInv, TypeOK, Memory, ReadRows, database
<1>1. PICK n \in 0 .. Newest : Sized(n) /\ \A q \in Proc : Follows(q, n)
  BY DEF Alone
<1>2. Exists /\ mem[p].count <= n /\ Exists' = Exists
  BY <1>0, <1>1 DEF Follows, Exists
<1>3. Len(Rows) = n /\ Authentic(Rows, n)
  BY <1>1, <1>2, SizedRows
<1>4. ASSUME NEW s \in Ended, End(p, s), UNCHANGED advice
      PROVE  Alone' /\ advice' # "drop"
  BY <1>0, <1>4, EndAlone
<1>5. CASE Goto(p, "create") /\ UNCHANGED <<mem, advice>>
  <2>1. pc'[p] = "create"
    BY <1>0, <1>5, GotoType DEF Statement
  <2>2. Follows(p, n)'
    BY <1>2, <2>1 DEF Follows
  <2> QED
    BY <1>0, <1>1, <1>5, <2>2, GotoAlone DEF Statement
<1>6. \/ \E s \in Ended : End(p, s) /\ UNCHANGED advice
      \/ Goto(p, "create") /\ UNCHANGED <<mem, advice>>
  BY <1>0, <1>2, <1>3 DEF ReadRows, Ended
<1> QED
  BY <1>4, <1>5, <1>6

LEMMA CreateJournalAlone ==
    ASSUME WholeInv, Alone, NEW p \in Proc, CreateJournal(p)
    PROVE  Alone'
<1>0. /\ TypeInv /\ TypeOK /\ pc[p] = "create" /\ Goto(p, "last")
      /\ UNCHANGED <<schema, creator, mem>>
  BY DEF WholeInv, TypeInv, CreateJournal
<1>1. PICK n \in 0 .. Newest : Sized(n) /\ \A q \in Proc : Follows(q, n)
  BY DEF Alone
<1>2. pc'[p] = "last" /\ \A q \in Proc \ {p} : pc'[q] = pc[q]
  BY <1>0, GotoType DEF Statement
<1>3. CASE Exists
  <2>1. journal' = journal /\ Exists'
    BY <1>3 DEF CreateJournal, Exists
  <2>2. Follows(p, n)'
    BY <1>2, <2>1 DEF Follows
  <2> QED
    BY <1>0, <1>1, <2>1, <2>2, GotoAlone DEF Statement
<1>4. CASE ~Exists
  <2>1. journal' = <<>> /\ n = 0
    BY <1>0, <1>1, <1>4 DEF CreateJournal, Follows
  <2>2. Exists'
    BY <2>1, EmptyJournal DEF Exists
  <2>3. journal' = Genuine(0)
    <3>1. Genuine(0) \in Seq(Row) /\ Len(Genuine(0)) = 0
      BY GenuineRows, NewestType
    <3> QED
      BY <2>1, <3>1, EmptySeq
  <2>4. Sized(n)'
    BY <1>0, <1>1, <2>1, <2>3 DEF Sized, Genuine
  <2>5. ASSUME NEW q \in Proc PROVE Follows(q, n)'
    <3>1. CASE q = p
      BY <1>2, <2>2, <3>1 DEF Follows
    <3>2. CASE q # p
      <4>1. Follows(q, n) /\ pc'[q] = pc[q] /\ mem'[q] = mem[q]
            /\ mem[q].count \in Nat
        BY <1>0, <1>1, <1>2, <3>2 DEF TypeOK, Memory
      <4> QED
        BY <2>1, <2>2, <4>1 DEF Follows
    <3> QED
      BY <3>1, <3>2
  <2> QED
    BY <2>4, <2>5 DEF Alone
<1> QED
  BY <1>3, <1>4

LEMMA ReadLastAlone ==
    ASSUME WholeInv, Alone, NEW p \in Proc, ReadLast(p)
    PROVE  Alone'
<1>0. /\ TypeInv /\ TypeOK /\ pc[p] = "last" /\ mem[p] \in Memory
      /\ UNCHANGED <<schema, journal, creator>>
  BY DEF WholeInv, TypeInv, TypeOK, ReadLast, database
<1>1. PICK n \in 0 .. Newest : Sized(n) /\ \A q \in Proc : Follows(q, n)
  BY DEF Alone
<1>2. CASE /\ Exists /\ Goto(p, "apply")
           /\ Note(p, [mem[p] EXCEPT !.last = LastWhen(Rows)])
  <2> DEFINE w == LastWhen(Rows)
             m == [mem[p] EXCEPT !.last = w]
  <2>1. w = n
    BY <1>1, <1>2, SizedRows, LastOfAuthentic
  <2> HIDE DEF w
  <2>2. m \in Memory /\ m.last = n
    BY <1>0, <2>1 DEF Memory
  <2> HIDE DEF m
  <2>3. mem'[p] = m /\ \A q \in Proc \ {p} : mem'[q] = mem[q]
    BY <1>0, <1>2, <2>2, NoteType DEF m, w
  <2>4. pc'[p] = "apply" /\ \A q \in Proc \ {p} : pc'[q] = pc[q]
    BY <1>0, <1>2, GotoType DEF Statement
  <2>5. Follows(p, n)'
    BY <1>0, <1>2, <2>2, <2>3, <2>4, NewestType DEF Follows, Exists
  <2> QED
    BY <1>0, <1>1, <2>3, <2>4, <2>5, AloneByStep
<1>3. CASE End(p, "refused")
  BY <1>0, <1>3, EndAlone DEF Ended
<1> QED
  BY <1>2, <1>3 DEF ReadLast

(* The newest migration of a release runs only once: whoever read an older *)
(* journal than there is fails over it, and its transaction with it.       *)
Once == \A c \in Container : Build[c] \notin Idempotent

LEMMA StaleApplyFails ==
    ASSUME Once, WholeInv, NEW n \in 0 .. Newest, Sized(n),
           NEW p \in Proc, Follows(p, n), pc[p] = "apply",
           Pending(p) # {}, Runs(p)
    PROVE  mem[p].last = n
<1>0. /\ TypeInv /\ Placed(p) /\ Build[p] \in 1 .. Newest
      /\ mem[p].last \in Nat /\ mem[p].last < Build[p]
      /\ Pending(p) = mem[p].last + 1 .. Build[p]
  BY BuildType, AppliedRows DEF WholeInv, TypeInv
<1>1. p \in Container
  BY <1>0 DEF Placed, Proc, OfTools, Ended
<1>2. SUFFICES ASSUME mem[p].last # n PROVE FALSE
  OBVIOUS
<1>3. PICK c \in Container : n = Build[c]
  BY <1>2 DEF Follows
<1>4. mem[p].last < n
  BY <1>0, <1>2 DEF Follows
<1> DEFINE k == IF n <= Build[p] THEN n ELSE Build[p]
<1>5. k \in Pending(p) /\ k \in schema /\ k \notin Idempotent
  <2>1. k \in mem[p].last + 1 .. Build[p] /\ k \in 1 .. n
    BY <1>0, <1>4, NewestType
  <2>2. k \notin Idempotent
    BY <1>1, <1>3 DEF Once
  <2> QED
    BY <1>0, <2>1, <2>2 DEF Sized
<1> QED
  BY <1>5 DEF Runs

LEMMA JoinedRows ==
    ASSUME NEW l \in Nat, NEW b \in Nat, l < b, b <= Newest,
           NEW s \in Seq(Row), Len(s) = l,
           \A i \in 1 .. l : s[i] = [when |-> i, genuine |-> TRUE],
           NEW t \in Seq(Row), Len(t) = b - l,
           \A i \in 1 .. b - l : t[i] = [when |-> l + i, genuine |-> TRUE]
    PROVE  s \o t = Genuine(b)
<1> DEFINE u == Genuine(b)
<1>1. /\ u \in Seq(Row) /\ Len(u) = b
      /\ \A i \in 1 .. b : u[i] = [when |-> i, genuine |-> TRUE]
  <2>1. b \in 0 .. Newest
    BY NewestType
  <2> QED
    BY <2>1, GenuineRows DEF Genuine
<1> HIDE DEF u
<1>2. /\ s \o t \in Seq(Row) /\ Len(s \o t) = Len(s) + Len(t)
      /\ \A i \in 1 .. Len(s) + Len(t) :
            (s \o t)[i] = IF i <= Len(s) THEN s[i] ELSE t[i - Len(s)]
  BY ConcatProperties, Zenon
<1>3. Len(s \o t) = b
  BY <1>2
<1> DEFINE w == s \o t
<1>4. ASSUME NEW i \in 1 .. b PROVE w[i] = u[i]
  <2> HIDE DEF w
  <2>1. i \in 1 .. Len(s) + Len(t)
    OBVIOUS
  <2>2. w[i] = IF i <= Len(s) THEN s[i] ELSE t[i - Len(s)]
    BY <1>2, <2>1 DEF w
  <2>3. CASE i <= l
    <3>1. w[i] = s[i]
      BY <2>2, <2>3
    <3>2. i \in 1 .. l
      BY <2>3
    <3>3. s[i] = [when |-> i, genuine |-> TRUE]
      BY <3>2
    <3>4. u[i] = [when |-> i, genuine |-> TRUE]
      BY <1>1
    <3> QED
      BY <3>1, <3>3, <3>4
  <2>4. CASE ~(i <= l)
    <3>1. i - l \in 1 .. b - l /\ l + (i - l) = i
      BY <2>4
    <3>2. t[i - l] = [when |-> i, genuine |-> TRUE]
      BY <3>1
    <3> QED
      BY <1>1, <2>2, <2>4, <3>2
  <2> QED
    BY <2>3, <2>4
<1>5. s \o t = u
  BY <1>1, <1>2, <1>3, <1>4, SeqEqual
<1> QED
  BY <1>5 DEF u

LEMMA GenuineExtends ==
    ASSUME TypeInv, NEW p \in Proc, Pending(p) # {}
    PROVE  Genuine(mem[p].last) \o Applied(p) = Genuine(Build[p])
<1> DEFINE l == mem[p].last
           b == Build[p]
           t == Applied(p)
<1>1. /\ l \in Nat /\ b \in Nat /\ l < b /\ b <= Newest
  BY AppliedRows, BuildType, NewestType
<1>2. /\ t \in Seq(Row) /\ Len(t) = b - l
  BY AppliedRows
<1>3. \A i \in 1 .. b - l : t[i] = [when |-> l + i, genuine |-> TRUE]
  BY DEF Applied
<1>4. l \in 0 .. Newest /\ \A i \in 1 .. l :
         Genuine(l)[i] = [when |-> i, genuine |-> TRUE]
  BY <1>1, NewestType DEF Genuine
<1>5. Genuine(l) \in Seq(Row) /\ Len(Genuine(l)) = l
  <2> HIDE DEF l
  <2> QED
    BY <1>4, GenuineRows
<1> HIDE DEF l, b, t
<1>6. Genuine(l) \o t = Genuine(b)
  BY <1>1, <1>2, <1>3, <1>4, <1>5, JoinedRows
<1> QED
  BY <1>6 DEF l, b, t

LEMMA ApplyPendingAlone ==
    ASSUME Once, WholeInv, Alone, NEW p \in Proc, ApplyPending(p)
    PROVE  Alone'
<1>0. /\ TypeInv /\ TypeOK /\ Placed(p) /\ pc[p] = "apply"
      /\ UNCHANGED creator
  BY DEF WholeInv, TypeInv, ApplyPending
<1>1. PICK n \in 0 .. Newest : Sized(n) /\ \A q \in Proc : Follows(q, n)
  BY DEF Alone
<1>2. CASE UNCHANGED database
  <2>1. \E s \in Ended : End(p, s)
    BY DEF ApplyPending, Ended
  <2> QED
    BY <1>0, <1>2, <2>1, EndAlone DEF database
<1>3. CASE /\ Pending(p) # {} /\ Runs(p) /\ End(p, "done")
           /\ schema' = schema \cup Pending(p)
           /\ journal' = Rows \o Applied(p)
  <2> DEFINE b == Build[p]
  <2>1. mem[p].last = n /\ Exists
    BY <1>0, <1>1, <1>3, StaleApplyFails DEF Runs
  <2>2. /\ b \in 0 .. Newest /\ n < b /\ Pending(p) = n + 1 .. b
    BY <1>0, <1>3, <2>1, AppliedRows, BuildType, NewestType
  <2>3. journal' = Genuine(b)
    <3>1. Rows = Genuine(mem[p].last)
      BY <1>1, <2>1, SizedRows
    <3> QED
      BY <1>0, <1>3, <3>1, GenuineExtends
  <2>4. schema' = 1 .. b
    BY <1>1, <1>3, <2>2 DEF Sized
  <2>5. Exists'
    BY <2>2, <2>3, GenuineRows, MigrationsAssumption DEF Exists
  <2>6. Sized(b)'
    BY <2>3, <2>4 DEF Sized, Genuine
  <2>7. p \in Container
    BY <1>0 DEF Placed, Proc, OfTools, Ended
  <2>8. /\ pc'[p] = "done"
        /\ \A q \in Proc \ {p} : pc'[q] = pc[q] /\ mem'[q] = mem[q]
    BY <1>0, <1>3, EndType DEF Ended
  <2>9. ASSUME NEW q \in Proc PROVE Follows(q, b)'
    <3>1. CASE q = p
      BY <2>8, <3>1 DEF Follows
    <3>2. CASE q # p
      <4>1. /\ Follows(q, n) /\ pc'[q] = pc[q] /\ mem'[q] = mem[q]
            /\ mem[q].count \in Nat /\ mem[q].last \in Nat /\ b \in Nat
        BY <1>0, <1>1, <2>2, <2>8, <3>2 DEF TypeOK, Memory
      <4>2. \E c \in Container : b = Build[c]
        BY <2>7
      <4> HIDE DEF b
      <4> QED
        BY <2>1, <2>2, <2>5, <4>1, <4>2 DEF Follows
    <3> QED
      BY <3>1, <3>2
  <2> HIDE DEF b
  <2> QED
    BY <2>2, <2>6, <2>9 DEF Alone
<1> QED
  BY <1>2, <1>3 DEF ApplyPending, Applied

LEMMA BeginBaselineAlone ==
    ASSUME WholeInv, Alone, NEW p \in Proc, BeginBaseline(p)
    PROVE  Alone'
<1>0. /\ TypeInv /\ TypeOK /\ pc[p] = "begin" /\ Goto(p, "empty")
      /\ creator = Nobody /\ creator' = (IF Exists THEN Nobody ELSE p)
      /\ UNCHANGED <<schema, journal, mem>>
  BY DEF WholeInv, TypeInv, BeginBaseline, database
<1>1. PICK n \in 0 .. Newest : Sized(n) /\ \A q \in Proc : Follows(q, n)
  BY DEF Alone
<1>2. pc'[p] = "empty" /\ \A q \in Proc \ {p} : pc'[q] = pc[q]
  BY <1>0, GotoType DEF Statement
<1>3. Follows(p, n)'
  BY <1>0, <1>1, <1>2 DEF Follows, Exists
<1>4. \A q \in Proc : creator # q
  BY <1>0, MigrationsAssumption
<1> QED
  BY <1>0, <1>1, <1>2, <1>3, <1>4, AloneByStep

LEMMA CountRowsAlone ==
    ASSUME WholeInv, Alone, NEW p \in Proc, CountRows(p)
    PROVE  Alone'
<1>0. /\ TypeInv /\ TypeOK /\ pc[p] = "empty" /\ mem[p].count \in Nat
      /\ UNCHANGED <<schema, journal, creator>>
  BY DEF WholeInv, TypeInv, TypeOK, Memory, CountRows, database
<1>1. PICK n \in 0 .. Newest : Sized(n) /\ \A q \in Proc : Follows(q, n)
  BY DEF Alone
<1>2. CASE Rows = <<>> /\ Goto(p, "insert") /\ UNCHANGED mem
  <2>1. pc'[p] = "insert" /\ Exists' = Exists
    BY <1>0, <1>2, GotoType DEF Statement, Exists
  <2>2. Exists => n = 0
    BY <1>1, <1>2, SizedRows, EmptyJournal
  <2>3. Follows(p, n)'
    BY <1>0, <1>1, <1>2, <2>1, <2>2 DEF Follows
  <2> QED
    BY <1>0, <1>1, <1>2, <2>3, GotoAlone DEF Statement
<1>3. CASE End(p, "refused")
  BY <1>0, <1>3, EndAlone DEF Ended
<1> QED
  BY <1>2, <1>3 DEF CountRows

LEMMA InsertRowAlone ==
    ASSUME WholeInv, Alone, NEW p \in Proc, InsertRow(p)
    PROVE  Alone'
<1>0. /\ TypeInv /\ TypeOK /\ pc[p] = "insert" /\ mem[p] \in Memory
      /\ UNCHANGED <<schema, journal, creator>>
  BY DEF WholeInv, TypeInv, TypeOK, InsertRow, database
<1>1. PICK n \in 0 .. Newest : Sized(n) /\ \A q \in Proc : Follows(q, n)
  BY DEF Alone
<1>2. Placed(p) /\ Exists' = Exists
  BY <1>0 DEF TypeInv, Exists
<1>3. CASE mem[p].last < mem[p].count /\ UNCHANGED pc
           /\ Note(p, [mem[p] EXCEPT !.last = mem[p].last + 1])
  <2> DEFINE w == mem[p].last + 1
             m == [mem[p] EXCEPT !.last = w]
  <2>1. w \in 0 .. Newest
    BY <1>0, <1>3, NewestType DEF Memory
  <2> HIDE DEF w
  <2>2. m \in Memory /\ m.at = mem[p].at /\ m.count = mem[p].count
    BY <1>0, <2>1 DEF Memory
  <2> HIDE DEF m
  <2>3. mem'[p] = m /\ \A q \in Proc \ {p} : mem'[q] = mem[q]
    BY <1>0, <1>3, <2>2, NoteType DEF m, w
  <2>4. Follows(p, n)'
    BY <1>0, <1>1, <1>2, <1>3, <2>2, <2>3 DEF Follows
  <2> QED
    BY <1>0, <1>1, <1>3, <2>3, <2>4, AloneByStep
<1>4. CASE Goto(p, "commit") /\ UNCHANGED mem
  <2>1. pc'[p] = "commit"
    BY <1>0, <1>4, GotoType DEF Statement
  <2>2. Follows(p, n)'
    BY <1>0, <1>1, <1>2, <1>4, <2>1 DEF Follows
  <2> QED
    BY <1>0, <1>1, <1>4, <2>2, GotoAlone DEF Statement
<1> QED
  BY <1>3, <1>4 DEF InsertRow

(* A baseline that commits either found a journal, which is empty and so   *)
(* is the schema, or made it, and knows all that is there.                 *)
LEMMA CommitAlone ==
    ASSUME WholeInv, Alone, NEW p \in Proc, Commit(p)
    PROVE  Alone'
<1>0. /\ TypeInv /\ TypeOK /\ Placed(p) /\ pc[p] = "commit" /\ End(p, "done")
      /\ UNCHANGED schema /\ mem[p].count \in Nat
      /\ journal' = Rows \o Genuine(mem[p].last)
  BY DEF WholeInv, TypeInv, TypeOK, Memory, Commit
<1>1. PICK n \in 0 .. Newest : Sized(n) /\ \A q \in Proc : Follows(q, n)
  BY DEF Alone
<1>2. mem[p].last = mem[p].count /\ mem[p].at = Newest /\ p \in Tool
  BY <1>0, MigrationsAssumption DEF Placed, Proc, OfContainers, Ended
<1>3. /\ pc'[p] = "done"
      /\ \A q \in Proc \ {p} : pc'[q] = pc[q] /\ mem'[q] = mem[q]
  BY <1>0, EndType DEF Ended
<1>4. journal' = Genuine(n)
  <2>1. CASE Exists
    <3>1. mem[p].last = 0
      BY <1>0, <1>1, <1>2, <2>1 DEF Follows
    <3>2. Genuine(0) = <<>>
      BY GenuineRows, EmptySeq, NewestType
    <3>3. Rows \in Seq(Row) /\ Rows = Genuine(n)
      BY <1>1, <2>1, SizedRows
    <3> QED
      BY <1>0, <3>1, <3>2, <3>3, ConcatEmptySeq
  <2>2. CASE ~Exists
    <3>1. /\ mem[p].count <= n
          /\ \A m \in mem[p].count + 1 .. Newest : m > n
      BY <1>0, <1>1, <1>2, <2>2 DEF Follows
    <3>2. mem[p].count = n
      <4>1. n \in Nat /\ n <= Newest
        BY NewestType
      <4> QED
        BY <1>0, <3>1, <4>1, NewestType
    <3>3. Rows = <<>> /\ Genuine(n) \in Seq(Row)
      BY <1>1, <2>2, SizedRows, GenuineRows
    <3> QED
      BY <1>0, <1>2, <3>2, <3>3, ConcatEmptySeq
  <2> QED
    BY <2>1, <2>2
<1>5. Exists'
  BY <1>4, GenuineRows, MigrationsAssumption DEF Exists
<1>6. Sized(n)'
  BY <1>0, <1>1, <1>4 DEF Sized, Genuine
<1>7. ASSUME NEW q \in Proc PROVE Follows(q, n)'
  <2>1. CASE q = p
    BY <1>3, <2>1 DEF Follows
  <2>2. CASE q # p
    <3>1. Follows(q, n) /\ pc'[q] = pc[q] /\ mem'[q] = mem[q]
      BY <1>1, <1>3, <2>2
    <3>2. pc[q] \in {"insert", "commit"} => Exists
      BY <1>0, <1>1, <2>2, <3>1 DEF Follows
    <3> QED
      BY <1>5, <3>1, <3>2 DEF Follows
  <2> QED
    BY <2>1, <2>2
<1> QED
  BY <1>6, <1>7 DEF Alone

LEMMA AbortAlone ==
    ASSUME WholeInv, Alone, NEW p \in Proc, Abort(p)
    PROVE  Alone'
<1>1. /\ TypeInv /\ End(p, "refused") /\ UNCHANGED <<schema, journal>>
      /\ \A q \in Proc \ {p} : creator = q => creator' = q
  BY DEF WholeInv, Abort, database, Release
<1> QED
  BY <1>1, EndAlone DEF Ended

LEMMA StepAlone ==
    ASSUME Once, WholeInv, Alone, advice # "drop", NEW p \in Proc, Step(p)
    PROVE  Alone' /\ advice' # "drop"
<1>1. ASSUME ~ReadRows(p) PROVE advice' # "drop"
  BY <1>1 DEF Step, ReadPopulated, ReadJournalExists, ProbeMarker, Probed,
     CreateJournal, ReadLast, ApplyPending, BeginBaseline, CountRows,
     InsertRow, Commit, Refuse
<1>2. ASSUME ~ReadRows(p) PROVE Alone'
  BY <1>2, ReadPopulatedAlone, ReadJournalExistsAlone, ProbeMarkerAlone,
     ProbedAlone, CreateJournalAlone, ReadLastAlone, ApplyPendingAlone,
     BeginBaselineAlone, CountRowsAlone, InsertRowAlone, CommitAlone DEF Step
<1> QED
  BY <1>1, <1>2, ReadRowsAlone

LEMMA WholeInit == Init => WholeInv
<1> SUFFICES ASSUME Init PROVE advice # "drop" /\ Alone
  BY TypeInit DEF WholeInv
<1>1. PICK n \in 0 .. Newest :
          /\ schema = 1 .. n
          /\ journal \in {NoJournal} \cup (IF n = 0 THEN {} ELSE {Genuine(n)})
  BY DEF Init
<1>2. Sized(n)
  BY <1>1 DEF Sized, Exists
<1>3. \A p \in Proc : Follows(p, n)
  BY DEF Init, Follows
<1> QED
  BY <1>2, <1>3 DEF Init, Alone

LEMMA WholeStep ==
    ASSUME Once
    PROVE  WholeInv /\ [Next]_vars => WholeInv'
<1> SUFFICES ASSUME WholeInv, [Next]_vars PROVE WholeInv'
  OBVIOUS
<1> DEFINE K == Alone' /\ advice' # "drop"
<1>1. TypeInv' /\ edits \in Nat
  BY TypeStep, MigrationsAssumption DEF WholeInv, TypeInv, TypeOK
<1>2. ASSUME edits' = 0 PROVE K
  <2>1. edits = 0 /\ ~Edits
    <3>1. ~Edits
      BY <1>1, <1>2 DEF Edits
    <3>2. ASSUME NEW p \in Proc, Start(p) \/ Abort(p) PROVE edits' = edits
      BY <3>2 DEF Start, Abort, bounds
    <3>3. ASSUME NEW p \in Proc, Step(p) PROVE edits' = edits
      BY <3>3 DEF Step, ReadPopulated, ReadJournalExists, ProbeMarker, Probed,
         ReadRows, CreateJournal, ReadLast, ApplyPending, BeginBaseline,
         CountRows, InsertRow, Commit, bounds
    <3>4. UNCHANGED vars \/ Recover => edits' = edits
      BY DEF Recover, vars, bounds
    <3>5. Push \/ DropObjects \/ SubstituteRow \/ DropJournal => Edits
      BY DEF Push, DropObjects, SubstituteRow, DropJournal
    <3> QED
      BY <1>2, <3>1, <3>2, <3>3, <3>4, <3>5 DEF Next
  <2>2. Alone /\ advice # "drop"
    BY <2>1 DEF WholeInv
  <2>3. ASSUME NEW p \in Proc, Start(p) \/ Abort(p) PROVE K
    <3>1. Alone'
      BY <2>2, <2>3, StartAlone, AbortAlone
    <3>2. advice' # "drop"
      BY <2>2, <2>3 DEF Start, Abort
    <3> QED
      BY <3>1, <3>2
  <2>4. ASSUME NEW p \in Proc, Step(p) PROVE K
    BY <2>2, <2>4, StepAlone
  <2>5. CASE UNCHANGED vars
    <3>1. Alone' = Alone
      BY <2>5 DEF vars, database, Alone, Sized, Follows, Exists
    <3> QED
      BY <2>2, <2>5, <3>1 DEF vars
  <2>6. ~(Push \/ DropObjects \/ SubstituteRow \/ DropJournal \/ Recover)
    BY <2>1, <2>2 DEF Push, DropObjects, SubstituteRow, DropJournal, Recover
  <2> HIDE DEF K
  <2> QED
    BY <2>3, <2>4, <2>5, <2>6 DEF Next
<1> QED
  BY <1>1, <1>2 DEF WholeInv

(* However many containers and tools start together and die on the way,    *)
(* the journal has no hole, records no migration twice, and says of none   *)
(* that it ran before its objects are there, while the operator leaves the *)
(* database alone; provided that no release ends with a migration whose    *)
(* statements succeed over their own result, since nothing but their       *)
(* failure stops a container that read the journal before another wrote it.*)
THEOREM JournalWholeHolds ==
    ASSUME \A c \in Container : Build[c] \notin Idempotent
    PROVE  Spec => []JournalWhole
<1>1. Once
  BY DEF Once
<1>2. ASSUME WholeInv PROVE JournalWhole
  <2> SUFFICES ASSUME edits = 0, NEW i \in DOMAIN Rows
               PROVE  Rows[i].when = i /\ i \in schema
    BY DEF JournalWhole
  <2>1. PICK n \in 0 .. Newest : Sized(n)
    BY <1>2 DEF WholeInv, Alone
  <2>2. Exists
    <3>1. DOMAIN (<<>>) = {}
      OBVIOUS
    <3> QED
      BY <3>1 DEF Rows
  <2>3. Rows = Genuine(n) /\ schema = 1 .. n
    BY <2>1, <2>2, SizedRows DEF Sized
  <2> QED
    BY <2>3 DEF Genuine
<1>3. WholeInv /\ [Next]_vars => WholeInv'
  BY <1>1, WholeStep
<1> QED
  BY <1>2, <1>3, WholeInit, PTL DEF Spec
==============================================================================
