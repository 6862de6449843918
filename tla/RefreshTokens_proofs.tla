------------------------ MODULE RefreshTokens_proofs ------------------------
(***************************************************************************)
(* Proofs about RefreshTokens, for every set of accounts, applications,    *)
(* slots and operation ids and every value of the bounds, and about the    *)
(* consumer of RefreshClient on top of them.                               *)
(***************************************************************************)
EXTENDS RefreshClient, FiniteSetTheorems, TLAPS

(* The request a slot holds between two handlers is a request.             *)
LEMMA IdleType == Idle \in Request
<1>1. AnyUser \in User
  BY UserAssumption DEF AnyUser
<1>2. AnyClient \in Client
  BY <1>1, UserAssumption DEF AnyClient
<1> QED
  BY <1>1, <1>2 DEF Idle, Request, Position, Mode, NoToken

(* Writing a request's position, its mode or the whole of it keeps req a   *)
(* table of requests.                                                      *)
LEMMA GotoType ==
    ASSUME TypeOK, NEW p \in Slot, NEW pc \in Position, Goto(p, pc)
    PROVE  req' \in [Slot -> Request]
<1>1. req \in [Slot -> Request]
  BY DEF TypeOK
<1>2. [req[p] EXCEPT !.pc = pc] \in Request
  BY <1>1 DEF Request
<1>3. req' = [req EXCEPT ![p] = [req[p] EXCEPT !.pc = pc]]
  BY DEF Goto
<1> QED
  BY <1>1, <1>2, <1>3

LEMMA GotoAsType ==
    ASSUME TypeOK, NEW p \in Slot, NEW pc \in Position, NEW m \in Mode,
           GotoAs(p, pc, m)
    PROVE  req' \in [Slot -> Request]
<1>1. req \in [Slot -> Request]
  BY DEF TypeOK
<1>2. [req[p] EXCEPT !.pc = pc, !.mode = m] \in Request
  BY <1>1 DEF Request
<1>3. req' = [req EXCEPT ![p] = [req[p] EXCEPT !.pc = pc, !.mode = m]]
  BY <1>1 DEF GotoAs
<1> QED
  BY <1>1, <1>2, <1>3

LEMMA AnswerType ==
    ASSUME TypeOK, NEW p \in Slot, Answer(p)
    PROVE  req' \in [Slot -> Request]
  BY IdleType DEF TypeOK, Answer

LEMMA BeginReplayType ==
    ASSUME TypeOK, NEW p \in Slot, BeginReplay(p)
    PROVE  req' \in [Slot -> Request]
<1>1. req[p] \in Request
  BY DEF TypeOK
<1>2. [Idle EXCEPT !.pc = "snapshot", !.mode = "replay", !.user = req[p].user,
                   !.client = req[p].client, !.tok = req[p].tok] \in Request
  BY <1>1, IdleType DEF Request, Position, Mode
<1> QED
  BY <1>2 DEF TypeOK, BeginReplay

LEMMA NewRowType ==
    ASSUME NEW u \in User, NEW l \in Nat, NEW at \in Nat
    PROVE  NewRow(u, l, at) \in Row
  BY TimeAssumption DEF NewRow, Row, Reason, NoToken

LEMMA RevokeType ==
    ASSUME NEW r \in Row, NEW why \in Reason
    PROVE  Revoke(r, why) \in Row
  BY DEF Revoke, Row

LEMMA RevokeWrites ==
    ASSUME NEW r \in Row, NEW why \in Reason
    PROVE  LET w == Revoke(r, why) IN
           /\ w.revoked /\ w.reason = why
           /\ w.user = r.user /\ w.exp = r.exp
  BY DEF Revoke, Row

LEMMA RedeemType ==
    ASSUME NEW r \in Row, NEW op \in Op \cup {NoOp}, NEW at \in Nat,
           NEW n \in Nat
    PROVE  [r EXCEPT !.op = op, !.at = at, !.next = n] \in Row
  BY DEF Row

LEMMA RepointType ==
    ASSUME NEW r \in Row, NEW n \in Nat
    PROVE  [r EXCEPT !.next = n] \in Row
  BY DEF Row

(* An insert appends: one more row, at the next id.                        *)
LEMMA WithType ==
    ASSUME NEW rows \in [1..issued -> Row], NEW r \in Row, issued \in Nat
    PROVE  /\ With(rows, r) \in [1..(issued + 1) -> Row]
           /\ With(rows, r)[issued + 1] = r
           /\ \A t \in 1..issued : With(rows, r)[t] = rows[t]
  BY DEF With

-----------------------------------------------------------------------------
(* Type correctness *)

LEMMA TypeInit == Init => TypeOK
<1> SUFFICES ASSUME Init PROVE TypeOK
  OBVIOUS
<1>1. issued \in 0..MaxTokens
  BY FS_CardinalityType, LegacyAssumption, BoundAssumption DEF Init
<1>2. row \in [1..issued -> Row]
  <2>1. PICK own \in [1..issued -> LegacyOwner] :
            row = [t \in 1..issued |-> LegacyRow(own[t], t)]
    BY DEF Init
  <2>2. ASSUME NEW t \in 1..issued PROVE LegacyRow(own[t], t) \in Row
    <3>1. own[t] \in User /\ t \in Nat
      BY <1>1, LegacyAssumption
    <3>2. NewRow(own[t], t, 0) \in Row
      BY <3>1, NewRowType
    <3> QED
      BY <3>2 DEF LegacyRow, Row, Reason
  <2> QED
    BY <2>1, <2>2
<1> QED
  BY <1>1, <1>2, IdleType, BoundAssumption DEF Init, TypeOK

LEMMA BeginType ==
    ASSUME TypeOK, NEW p \in Slot, Begin(p)
    PROVE  TypeOK'
<1>1. ASSUME NEW u \in User, NEW pc \in Position, NEW m \in Mode,
             Start(p, [Idle EXCEPT !.pc = pc, !.mode = m, !.user = u,
                                   !.client = ClientOf[u]])
      PROVE  req' \in [Slot -> Request]
  <2>1. [Idle EXCEPT !.pc = pc, !.mode = m, !.user = u,
                     !.client = ClientOf[u]] \in Request
    BY IdleType, UserAssumption DEF Request
  <2> QED
    BY <1>1, <2>1 DEF TypeOK, Start
<1>2. ASSUME NEW u \in User, LoginBegin(p, u) PROVE TypeOK'
  <2>1. req' \in [Slot -> Request]
    BY <1>1, <1>2 DEF LoginBegin, Position, Mode
  <2> QED
    BY <1>2, <2>1 DEF LoginBegin, TypeOK
<1>3. ASSUME NEW u \in User, EverywhereBegin(p, u) PROVE TypeOK'
  <2>1. req' \in [Slot -> Request]
    BY <1>1, <1>3 DEF EverywhereBegin, Position, Mode
  <2> QED
    BY <1>3, <2>1 DEF EverywhereBegin, TypeOK
<1>4. ASSUME NEW u \in User, CredentialsBegin(p, u) PROVE TypeOK'
  <2>1. req' \in [Slot -> Request]
    BY <1>1, <1>4 DEF CredentialsBegin, Position, Mode
  <2> QED
    BY <1>4, <2>1 DEF CredentialsBegin, TypeOK
<1>5. ASSUME NEW u \in User, Deactivate(p, u) PROVE TypeOK'
  <2>1. req' \in [Slot -> Request]
    BY <1>1, <1>5 DEF Deactivate, Position, Mode
  <2> QED
    BY <1>5, <2>1 DEF Deactivate, TypeOK
<1>6. ASSUME NEW t \in stored, NEW c \in Client, LogoutBegin(p, t, c)
      PROVE  TypeOK'
  <2>1. t \in Nat /\ row[t].user \in User
    BY DEF TypeOK, Row
  <2>2. [Idle EXCEPT !.pc = "logout", !.user = row[t].user, !.client = c,
                     !.tok = t] \in Request
    BY <2>1, IdleType DEF Request, Position
  <2> QED
    BY <1>6, <2>2 DEF LogoutBegin, Start, TypeOK
<1>7. ASSUME NEW t \in stored, NEW c \in Client, NEW op \in Op,
             RefreshBegin(p, t, op, c)
      PROVE  TypeOK'
  <2>1. t \in Nat /\ row[t].user \in User
    BY DEF TypeOK, Row
  <2>2. Seen(t) \in Mode
    BY DEF Seen, Mode
  <2>3. [Idle EXCEPT !.pc = "owner", !.mode = Seen(t), !.user = row[t].user,
                     !.client = c, !.tok = t, !.op = op] \in Request
    BY <2>1, <2>2, IdleType DEF Request, Position
  <2> QED
    BY <1>7, <2>3 DEF RefreshBegin, Start, TypeOK
<1> QED
  BY <1>2, <1>3, <1>4, <1>5, <1>6, <1>7 DEF Begin

(* What a request that has looked for a replacement in vain goes on with.  *)
LEMMA RefusedType ==
    ASSUME TypeOK, NEW p \in Slot, Refused(p)
    PROVE  req' \in [Slot -> Request]
<1>1. CASE BeginReplay(p)
  BY <1>1, BeginReplayType
<1>2. CASE Goto(p, "latest")
  BY <1>2, GotoType DEF Position
<1> QED
  BY <1>1, <1>2 DEF Refused

(* A statement that inserts one row into rows that are rows.               *)
LEMMA InsertType ==
    ASSUME TypeOK, issued < MaxTokens,
           NEW rows \in [1..issued -> Row], NEW r \in Row,
           row' = With(rows, r), issued' = issued + 1,
           stored' = stored \cup {issued + 1}, UNCHANGED <<active, now>>,
           req' \in [Slot -> Request]
    PROVE  TypeOK'
<1>1. issued \in Nat /\ issued' \in 0..MaxTokens
  BY BoundAssumption DEF TypeOK
<1>2. row' \in [1..issued' -> Row]
  BY <1>1, WithType
<1> QED
  BY <1>1, <1>2 DEF TypeOK

LEMMA PrepareType ==
    ASSUME TypeOK, NEW p \in Slot, Prepare(p)
    PROVE  TypeOK'
<1> DEFINE pc == CASE req[p].mode = "login" -> "insert"
                   [] req[p].mode = "refresh" -> "rotate"
                   [] OTHER -> "retry"
<1>1. pc \in Position
  BY DEF Position
<1>2. req' = [req EXCEPT ![p] = [req[p] EXCEPT !.at = now, !.pc = pc]]
  BY DEF Prepare
<1>3. now \in Nat /\ req[p] \in Request
  BY DEF TypeOK
<1> HIDE DEF pc
<1>4. [req[p] EXCEPT !.at = now, !.pc = pc] \in Request
  BY <1>1, <1>3 DEF Request
<1>5. req' \in [Slot -> Request]
  BY <1>2, <1>4 DEF TypeOK
<1> QED
  BY <1>5 DEF Prepare, TypeOK

LEMMA RotateType ==
    ASSUME TypeOK, NEW p \in Slot, Rotate(p)
    PROVE  TypeOK'
<1> DEFINE r == req[p]
           t == r.tok
           old == [Revoke(row[t], "rotated") EXCEPT
                     !.op = r.op, !.at = r.at, !.next = issued + 1]
           consumed == Consumable(t, r.at)
<1>1. CASE consumed /\ issued < MaxTokens /\ Answer(p)
           /\ row' = With([row EXCEPT ![t] = old],
                          NewRow(r.user, row[t].root, r.at))
           /\ issued' = issued + 1
           /\ stored' = stored \cup {issued + 1}
  <2>1. t \in 1..issued /\ row[t] \in Row /\ r \in Request /\ issued \in Nat
    BY <1>1 DEF TypeOK, Consumable
  <2>2. Revoke(row[t], "rotated") \in Row
    BY <2>1, RevokeType DEF Reason
  <2>3. old \in Row
    <3>1. r.op \in Op \cup {NoOp} /\ r.at \in Nat /\ issued + 1 \in Nat
      BY <2>1 DEF Request
    <3> QED
      BY <2>2, <3>1, RedeemType
  <2>4. NewRow(r.user, row[t].root, r.at) \in Row
    BY <2>1, NewRowType DEF Row, Request
  <2>5. [row EXCEPT ![t] = old] \in [1..issued -> Row]
    BY <2>3 DEF TypeOK
  <2>6. req' \in [Slot -> Request]
    BY <1>1, AnswerType
  <2> HIDE DEF old, r, t
  <2> QED
    BY <1>1, <2>4, <2>5, <2>6, InsertType DEF Rotate
<1>2. CASE GotoAs(p, "candidate", "lost") /\ UNCHANGED <<issued, row, stored>>
  <2>1. req' \in [Slot -> Request]
    BY <1>2, GotoAsType DEF Position, Mode
  <2> QED
    BY <1>2, <2>1 DEF Rotate, TypeOK
<1> QED
  BY <1>1, <1>2 DEF Rotate

LEMMA RetryType ==
    ASSUME TypeOK, NEW p \in Slot, Retry(p)
    PROVE  TypeOK'
<1> DEFINE r == req[p]
           t == r.tok
           s == row[t].next
           rows == Repointed(t, s)
<1>1. CASE /\ RetryAdmitted(t, r.op) /\ Replaceable(s, r.user)
           /\ issued < MaxTokens /\ Answer(p)
           /\ row' = With(rows, NewRow(r.user, row[s].root, r.at))
           /\ issued' = issued + 1
           /\ stored' = stored \cup {issued + 1}
  <2>0. t \in stored /\ s \in stored
    BY <1>1 DEF RetryAdmitted, Replaceable
  <2>1. /\ t \in 1..issued /\ s \in 1..issued /\ issued \in Nat
        /\ row[t] \in Row /\ row[s] \in Row /\ r \in Request
    <3> HIDE DEF r, t, s
    <3>1. row \in [1..issued -> Row] /\ stored \subseteq 1..issued /\ issued \in Nat
      BY DEF TypeOK
    <3>2. r \in Request
      BY DEF r, TypeOK
    <3> QED
      BY <2>0, <3>1, <3>2
  <2>2. Revoke(row[s], "retry") \in Row
    BY <2>1, RevokeType DEF Reason
  <2>3. [row EXCEPT ![s] = Revoke(@, "retry")] \in [1..issued -> Row]
    BY <2>2 DEF TypeOK
  <2>4. rows \in [1..issued -> Row]
    <3> DEFINE mid == [row EXCEPT ![s] = Revoke(@, "retry")]
    <3>1. mid[t] \in Row /\ issued + 1 \in Nat
      BY <2>1, <2>3
    <3>3. rows = [mid EXCEPT ![t] = [mid[t] EXCEPT !.next = issued + 1]]
      BY DEF Repointed
    <3> HIDE DEF mid, rows
    <3>2. [mid[t] EXCEPT !.next = issued + 1] \in Row
      BY <3>1, RepointType
    <3> QED
      BY <2>3, <3>2, <3>3 DEF mid
  <2>5. NewRow(r.user, row[s].root, r.at) \in Row
    BY <2>1, NewRowType DEF Row, Request
  <2>6. req' \in [Slot -> Request]
    BY <1>1, AnswerType
  <2> HIDE DEF rows, r, t, s
  <2> QED
    BY <1>1, <2>4, <2>5, <2>6, InsertType DEF Retry
<1>2. CASE Refused(p) /\ UNCHANGED <<issued, row, stored>>
  <2>1. req' \in [Slot -> Request]
    BY <1>2, RefusedType
  <2> QED
    BY <1>2, <2>1 DEF Retry, TypeOK
<1> QED
  BY <1>1, <1>2 DEF Retry

LEMMA ContinueType ==
    ASSUME TypeOK, NEW p \in Slot, Continue(p)
    PROVE  TypeOK'
<1>1. CASE Prepare(p)
  BY <1>1, PrepareType
<1>2. CASE InsertSession(p)
  <2>1. req[p] \in Request /\ issued \in Nat
    BY DEF TypeOK
  <2>2. NewRow(req[p].user, issued + 1, req[p].at) \in Row
    BY <2>1, NewRowType DEF Request
  <2>3. req' \in [Slot -> Request]
    BY <1>2, AnswerType DEF InsertSession
  <2>4. row \in [1..issued -> Row]
    BY DEF TypeOK
  <2> QED
    BY <1>2, <2>2, <2>3, <2>4, InsertType DEF InsertSession
<1>3. CASE RefreshOwner(p)
  <2>1. req' \in [Slot -> Request]
    BY <1>3, GotoAsType, BeginReplayType, AnswerType
       DEF RefreshOwner, Position, Mode
  <2> QED
    BY <1>3, <2>1 DEF RefreshOwner, TypeOK
<1>4. CASE Rotate(p)
  BY <1>4, RotateType
<1>5. CASE Candidate(p)
  <2>1. req' \in [Slot -> Request]
    BY <1>5, GotoType, RefusedType DEF Candidate, Position
  <2> QED
    BY <1>5, <2>1 DEF Candidate, TypeOK
<1>6. CASE Retry(p)
  BY <1>6, RetryType
<1>7. CASE Latest(p)
  <2>1. req' \in [Slot -> Request]
    BY <1>7, BeginReplayType, AnswerType DEF Latest
  <2> QED
    BY <1>7, <2>1 DEF Latest, TypeOK
<1>8. CASE SnapshotAll(p)
  <2> DEFINE ids == {t \in stored : /\ row[t].user = req[p].user
                                   /\ Selects(req[p].mode, t)}
  <2>0. stored \subseteq Nat /\ req[p] \in Request
    BY DEF TypeOK
  <2>1. ids \in SUBSET Nat
    BY <2>0
  <2>2. req' = [req EXCEPT ![p] = [req[p] EXCEPT !.pc = "apply", !.ids = ids]]
    BY <1>8, Zenon DEF SnapshotAll
  <2>3. [req[p] EXCEPT !.pc = "apply", !.ids = ids] \in Request
    <3> HIDE DEF ids
    <3> QED
      BY <2>0, <2>1 DEF Request, Position
  <2>4. req' \in [Slot -> Request]
    BY <2>2, <2>3 DEF TypeOK
  <2> QED
    BY <1>8, <2>4 DEF SnapshotAll, TypeOK
<1>9. CASE ApplyAll(p)
  <2>1. req' \in [Slot -> Request]
    BY <1>9, AnswerType DEF ApplyAll
  <2>2. \A t \in 1..issued : Revoke(row[t], WhyAll(req[p].mode)) \in Row
    BY RevokeType DEF TypeOK, WhyAll, Reason
  <2>3. row' \in [1..issued -> Row]
    BY <1>9, <2>2 DEF ApplyAll, TypeOK
  <2> QED
    BY <1>9, <2>1, <2>3 DEF ApplyAll, TypeOK
<1>10. CASE LogoutUpdate(p)
  <2>1. req' \in [Slot -> Request]
    BY <1>10, AnswerType DEF LogoutUpdate
  <2>2. \A t \in 1..issued : Revoke(row[t], "logout") \in Row
    BY RevokeType DEF TypeOK, Reason
  <2>3. row' \in [1..issued -> Row]
    BY <1>10, <2>2 DEF LogoutUpdate, TypeOK
  <2> QED
    BY <1>10, <2>1, <2>3 DEF LogoutUpdate, TypeOK
<1> QED
  BY <1>1, <1>2, <1>3, <1>4, <1>5, <1>6, <1>7, <1>8, <1>9, <1>10 DEF Continue

LEMMA TypeStep == TypeOK /\ [Next]_vars => TypeOK'
<1> SUFFICES ASSUME TypeOK, [Next]_vars PROVE TypeOK'
  OBVIOUS
<1>1. ASSUME NEW p \in Slot, Abort(p) PROVE TypeOK'
  <2>1. req' \in [Slot -> Request]
    BY <1>1, AnswerType DEF Abort
  <2> QED
    BY <1>1, <2>1 DEF Abort, TypeOK
<1>2. ASSUME NEW u \in User, Reactivate(u) PROVE TypeOK'
  BY <1>2 DEF Reactivate, TypeOK
<1>3. ASSUME NEW u \in User, NEW t \in stored, RevokeOne(u, t) PROVE TypeOK'
  <2>1. t \in 1..issued /\ Revoke(row[t], "user_revoked") \in Row
    BY RevokeType DEF TypeOK, Reason
  <2>2. row' \in [1..issued -> Row]
    BY <1>3, <2>1 DEF RevokeOne, TypeOK
  <2> QED
    BY <1>3, <2>2 DEF RevokeOne, TypeOK
<1>4. CASE Cleanup
  BY <1>4 DEF Cleanup, TypeOK
<1>5. CASE Tick
  BY <1>5, BoundAssumption DEF Tick, TypeOK
<1>6. CASE UNCHANGED vars
  BY <1>6 DEF vars, TypeOK
<1> QED
  BY <1>1, <1>2, <1>3, <1>4, <1>5, <1>6, BeginType, ContinueType DEF Next

(* The variables always have their types: rows are complete, the table     *)
(* holds rows that were inserted, and every request is at a position of a  *)
(* handler.                                                                *)
THEOREM TypeCorrect == Spec => []TypeOK
  BY TypeInit, TypeStep, PTL DEF Spec

-----------------------------------------------------------------------------
(* The inductive invariant.  That a login has one live row is not          *)
(* inductive: a retry revokes the row that the predecessor records and     *)
(* inserts another, so the recorded row must be of the same login, and no  *)
(* live row may record a successor.                                        *)

Links ==
    \A t \in Issued :
        /\ row[t].root \in Issued
        /\ row[t].op # NoOp => row[t].next # NoToken
        /\ row[t].next # NoToken =>
              /\ row[t].revoked
              /\ row[t].op # NoOp
              /\ row[t].next \in Issued
              /\ row[row[t].next].root = row[t].root

(* A request on its way to a rotation or a retry carries an operation id.  *)
Asking(r) == \/ r.pc \in {"owner", "rotate", "candidate"}
             \/ r.pc = "prepare" /\ r.mode # "login"
Asked == \A p \in Slot : Asking(req[p]) => req[p].op \in Op

IInv == TypeOK /\ Asked /\ Links /\ OneLivePerLogin /\ LiveIsRecordedSuccessor

(* Every step treats the rows in one of three ways.                        *)

Kept(t) == /\ row'[t].root = row[t].root
           /\ row'[t].user = row[t].user
Unlinked(t) == /\ row'[t].next = row[t].next
               /\ row'[t].op = row[t].op
               /\ row'[t].at = row[t].at

Unused(r) == ~r.revoked /\ r.op = NoOp /\ r.next = NoToken

(* It only ends sessions, or none.                                         *)
OnlyRevokes ==
    /\ issued' = issued
    /\ stored' \subseteq stored
    /\ \A t \in Issued : /\ Kept(t) /\ Unlinked(t)
                         /\ row[t].revoked => row'[t].revoked

(* It begins a session and leaves all others alone.                        *)
NewLogin ==
    /\ issued' = issued + 1
    /\ stored' = stored \cup {issued + 1}
    /\ \A t \in Issued : row'[t] = row[t]
    /\ Unused(row'[issued + 1])
    /\ row'[issued + 1].root = issued + 1

(* It exchanges the live row a for a new row, which p now records: a is p  *)
(* itself in a rotation and the successor of p in a retry.                 *)
Renewal(a, p) ==
    /\ issued' = issued + 1
    /\ stored' = stored \cup {issued + 1}
    /\ \A t \in Issued : Kept(t)
    /\ \A t \in Issued \ {a} : row'[t].revoked = row[t].revoked
    /\ \A t \in Issued \ {p} : Unlinked(t)
    /\ row'[a].revoked /\ row'[p].revoked
    /\ row'[p].next = issued + 1 /\ row'[p].op # NoOp
    /\ \/ a = p
       \/ /\ row[p].next = a
          /\ row'[p].op = row[p].op /\ row'[p].at = row[p].at
          /\ now <= row[p].at + Grace
    /\ Unused(row'[issued + 1])
    /\ row'[issued + 1].root = row[a].root

RowStep ==
    \/ OnlyRevokes
    \/ NewLogin
    \/ \E a \in Live \cap stored, p \in Issued : Renewal(a, p)

LEMMA SameRows ==
    ASSUME UNCHANGED <<issued, row, stored>>
    PROVE  OnlyRevokes
  BY DEF OnlyRevokes, Kept, Unlinked

(* Revoking any set of rows is a step that only revokes.                   *)
LEMMA RevokeRows ==
    ASSUME TypeOK, UNCHANGED <<issued, stored>>, NEW why,
           \A t \in Issued : row'[t] = row[t] \/ row'[t] = Revoke(row[t], why)
    PROVE  OnlyRevokes
<1>1. ASSUME NEW t \in Issued
      PROVE  Kept(t) /\ Unlinked(t) /\ (row[t].revoked => row'[t].revoked)
  <2>1. row[t] \in Row
    BY DEF TypeOK, Issued
  <2>2. CASE row'[t] = row[t]
    BY <2>2 DEF Kept, Unlinked
  <2>3. CASE row'[t] = Revoke(row[t], why)
    <3>1. LET w == Revoke(row[t], why) IN
          /\ w.revoked /\ w.user = row[t].user /\ w.root = row[t].root
          /\ w.next = row[t].next /\ w.op = row[t].op /\ w.at = row[t].at
      BY <2>1 DEF Revoke, Row
    <3> QED
      BY <2>3, <3>1 DEF Kept, Unlinked
  <2> QED
    BY <1>1, <2>2, <2>3
<1> QED
  BY <1>1 DEF OnlyRevokes

LEMMA NewRowUnused ==
    ASSUME NEW u, NEW l, NEW at
    PROVE  /\ Unused(NewRow(u, l, at))
           /\ NewRow(u, l, at).root = l
  BY DEF Unused, NewRow

LEMMA InsertStep ==
    ASSUME TypeOK, NEW p \in Slot, InsertSession(p)
    PROVE  NewLogin
<1>1. issued \in Nat /\ row \in [1..issued -> Row] /\ req[p] \in Request
  BY DEF TypeOK
<1>2. NewRow(req[p].user, issued + 1, req[p].at) \in Row
  BY <1>1, NewRowType DEF Request
<1> QED
  BY <1>1, <1>2, WithType, NewRowUnused DEF InsertSession, NewLogin, Issued

LEMMA RotateStep ==
    ASSUME TypeOK, Asked, Links, NEW p \in Slot, Rotate(p)
    PROVE  RowStep
<1> DEFINE r == req[p]
           t == r.tok
           old == [Revoke(row[t], "rotated") EXCEPT
                     !.op = r.op, !.at = r.at, !.next = issued + 1]
           rows == [row EXCEPT ![t] = old]
           consumed == Consumable(t, r.at)
<1>1. CASE consumed
           /\ row' = With(rows, NewRow(r.user, row[t].root, r.at))
           /\ issued' = issued + 1
           /\ stored' = stored \cup {issued + 1}
  <2>1. /\ t \in 1..issued /\ row[t] \in Row /\ r \in Request
        /\ issued \in Nat /\ row \in [1..issued -> Row]
    BY <1>1 DEF TypeOK, Consumable
  <2>2. Revoke(row[t], "rotated") \in Row /\ Revoke(row[t], "rotated").revoked
    <3>1. "rotated" \in Reason
      BY DEF Reason
    <3> QED
      BY <2>1, <3>1, RevokeType, RevokeWrites
  <2>3. r.op \in Op /\ r.op # NoOp
    BY OpAssumption DEF Asked, Asking, Rotate
  <2>4. old \in Row
    <3>1. r.op \in Op \cup {NoOp} /\ r.at \in Nat /\ issued + 1 \in Nat
      BY <2>1 DEF Request
    <3> QED
      BY <2>2, <3>1, RedeemType
  <2>5. /\ old.root = row[t].root /\ old.user = row[t].user
        /\ old.revoked /\ old.next = issued + 1 /\ old.op # NoOp
    BY <2>1, <2>2, <2>3 DEF Revoke, Row
  <2>6. NewRow(r.user, row[t].root, r.at) \in Row
    BY <2>1, NewRowType DEF Row, Request
  <2>7. ~row[t].revoked /\ t \in stored
    BY <1>1 DEF Consumable
  <2> HIDE DEF old, r, t
  <2>8. rows \in [1..issued -> Row] /\ rows[t] = old
    BY <2>1, <2>4
  <2>9. \A x \in 1..issued : x # t => rows[x] = row[x]
    BY <2>1
  <2> HIDE DEF rows
  <2>10. /\ \A x \in 1..issued : row'[x] = rows[x]
         /\ row'[issued + 1] = NewRow(r.user, row[t].root, r.at)
    <3> DEFINE new == NewRow(r.user, row[t].root, r.at)
    <3>1. row' = With(rows, new)
      BY <1>1
    <3> HIDE DEF new
    <3>2. new \in Row
      BY <2>6 DEF new
    <3>3. /\ With(rows, new)[issued + 1] = new
          /\ \A x \in 1..issued : With(rows, new)[x] = rows[x]
      BY <2>1, <2>8, <3>2, WithType
    <3> QED
      BY <3>1, <3>3 DEF new
  <2>11. \A x \in 1..issued : Kept(x)
    BY <2>5, <2>8, <2>9, <2>10 DEF Kept
  <2>12. \A x \in 1..issued : x # t => Unlinked(x) /\ row'[x].revoked = row[x].revoked
    BY <2>9, <2>10 DEF Unlinked
  <2>13. row'[t] = old
    BY <2>1, <2>8, <2>10
  <2>14. Renewal(t, t)
    BY <1>1, <2>5, <2>10, <2>11, <2>12, <2>13, NewRowUnused DEF Renewal, Issued
  <2> QED
    BY <2>1, <2>7, <2>14 DEF RowStep, Live, Issued
<1>2. CASE UNCHANGED <<issued, row, stored>>
  BY <1>2, SameRows DEF RowStep
<1> QED
  BY <1>1, <1>2 DEF Rotate

LEMMA RetryStep ==
    ASSUME TypeOK, Links, NEW p \in Slot, Retry(p)
    PROVE  RowStep
<1> DEFINE r == req[p]
           t == r.tok
           s == row[t].next
           mid == [row EXCEPT ![s] = Revoke(@, "retry")]
           rows == Repointed(t, s)
<1>1. CASE /\ RetryAdmitted(t, r.op) /\ Replaceable(s, r.user)
           /\ row' = With(rows, NewRow(r.user, row[s].root, r.at))
           /\ issued' = issued + 1
           /\ stored' = stored \cup {issued + 1}
  <2>0. r \in Request
    BY DEF TypeOK
  <2>1. rows = [mid EXCEPT ![t] = [mid[t] EXCEPT !.next = issued + 1]]
    BY DEF Repointed
  <2>2. mid = [row EXCEPT ![s] = Revoke(row[s], "retry")]
    OBVIOUS
  <2>3. row[t].next = s
    OBVIOUS
  <2> HIDE DEF mid, rows, s, t, r
  <2>4. /\ t \in stored /\ s \in stored /\ s # NoToken /\ ~row[s].revoked
        /\ row[t].revoked /\ now <= row[t].at + Grace
    <3>1. /\ t \in stored /\ row[t].revoked /\ row[t].at + Grace >= now
          /\ s # NoToken
      BY <1>1, <2>3 DEF RetryAdmitted, Rotated
    <3>2. s \in stored /\ ~row[s].revoked
      BY <1>1 DEF Replaceable
    <3>3. row[t].at \in Nat /\ now \in Nat
      BY <3>1 DEF TypeOK, Row
    <3> QED
      BY <3>1, <3>2, <3>3, TimeAssumption
  <2>5. /\ t \in 1..issued /\ s \in 1..issued /\ issued \in Nat /\ s # t
        /\ row \in [1..issued -> Row] /\ row[t] \in Row /\ row[s] \in Row
    BY <2>4 DEF TypeOK
  <2>6. /\ row[t].op # NoOp /\ row[s].op = NoOp /\ row[s].next = NoToken
        /\ row[s].root = row[t].root
    BY <2>3, <2>4, <2>5 DEF Links, Issued
  <2>7. /\ Revoke(row[s], "retry") \in Row
        /\ Revoke(row[s], "retry") = [row[s] EXCEPT !.revoked = TRUE, !.reason = "retry"]
    BY <2>5, RevokeType DEF Reason, Revoke
  <2>8. /\ mid \in [1..issued -> Row] /\ mid[s] = Revoke(row[s], "retry")
        /\ \A x \in 1..issued : x # s => mid[x] = row[x]
    BY <2>2, <2>5, <2>7
  <2>9. [row[t] EXCEPT !.next = issued + 1] \in Row
    BY <2>5, RepointType
  <2>10. /\ rows \in [1..issued -> Row]
         /\ rows[t] = [row[t] EXCEPT !.next = issued + 1]
         /\ \A x \in 1..issued : x # t => rows[x] = mid[x]
    BY <2>1, <2>5, <2>8, <2>9
  <2>11. NewRow(r.user, row[s].root, r.at) \in Row
    BY <2>0, <2>5, NewRowType DEF Row, Request
  <2>12. /\ \A x \in 1..issued : row'[x] = rows[x]
         /\ row'[issued + 1] = NewRow(r.user, row[s].root, r.at)
    <3> DEFINE new == NewRow(r.user, row[s].root, r.at)
    <3>1. row' = With(rows, new)
      BY <1>1
    <3> HIDE DEF new
    <3>2. new \in Row
      BY <2>11 DEF new
    <3>3. /\ With(rows, new)[issued + 1] = new
          /\ \A x \in 1..issued : With(rows, new)[x] = rows[x]
      BY <2>5, <2>10, <3>2, WithType
    <3> QED
      BY <3>1, <3>3 DEF new
  <2>13. row'[t] = [row[t] EXCEPT !.next = issued + 1]
    BY <2>5, <2>10, <2>12
  <2>14. row'[s] = [row[s] EXCEPT !.revoked = TRUE, !.reason = "retry"]
    BY <2>5, <2>7, <2>8, <2>10, <2>12
  <2>15. \A x \in 1..issued : x # s /\ x # t => row'[x] = row[x]
    BY <2>8, <2>10, <2>12
  <2>16. /\ Kept(t) /\ row'[t].revoked = row[t].revoked /\ row'[t].op = row[t].op
         /\ row'[t].at = row[t].at /\ row'[t].next = issued + 1
    BY <2>5, <2>13 DEF Kept, Row
  <2>17. Kept(s) /\ Unlinked(s) /\ row'[s].revoked
    BY <2>5, <2>14 DEF Kept, Unlinked, Row
  <2>18. \A x \in 1..issued : Kept(x)
    BY <2>15, <2>16, <2>17 DEF Kept
  <2>19. /\ \A x \in 1..issued : x # s => row'[x].revoked = row[x].revoked
         /\ \A x \in 1..issued : x # t => Unlinked(x)
    BY <2>15, <2>16, <2>17 DEF Unlinked
  <2>20. Renewal(s, t)
    <3>1. issued' = issued + 1 /\ stored' = stored \cup {issued + 1}
      BY <1>1
    <3>2. /\ Unused(row'[issued + 1])
          /\ row'[issued + 1].root = row[s].root
      BY <2>12, NewRowUnused
    <3>3. row'[t].revoked /\ row'[t].op # NoOp
      BY <2>4, <2>6, <2>16
    <3> QED
      BY <3>1, <3>2, <3>3, <2>3, <2>4, <2>16, <2>17, <2>18, <2>19
         DEF Renewal, Issued
  <2> QED
    BY <2>4, <2>5, <2>20 DEF RowStep, Live, Issued
<1>2. CASE UNCHANGED <<issued, row, stored>>
  BY <1>2, SameRows DEF RowStep
<1> QED
  BY <1>1, <1>2 DEF Retry

LEMMA EveryStep ==
    ASSUME TypeOK, Asked, Links, [Next]_vars
    PROVE  RowStep
<1>1. ASSUME NEW p \in Slot, Begin(p) PROVE RowStep
  BY <1>1, SameRows DEF Begin, LoginBegin, EverywhereBegin, CredentialsBegin,
     Deactivate, LogoutBegin, RefreshBegin, RowStep
<1>2. ASSUME NEW p \in Slot, Continue(p) PROVE RowStep
  <2>1. CASE Prepare(p) \/ RefreshOwner(p) \/ Candidate(p) \/ Latest(p) \/ SnapshotAll(p)
    BY <2>1, SameRows DEF Prepare, RefreshOwner, Candidate, Latest, SnapshotAll, RowStep
  <2>2. CASE InsertSession(p)
    BY <2>2, InsertStep DEF RowStep
  <2>3. CASE Rotate(p)
    BY <2>3, RotateStep
  <2>4. CASE Retry(p)
    BY <2>4, RetryStep
  <2>5. CASE ApplyAll(p)
    <3>1. \A t \in Issued : \/ row'[t] = row[t]
                           \/ row'[t] = Revoke(row[t], WhyAll(req[p].mode))
      BY <2>5 DEF ApplyAll, Issued
    <3> QED
      BY <2>5, <3>1, RevokeRows DEF ApplyAll, RowStep
  <2>6. CASE LogoutUpdate(p)
    <3>1. \A t \in Issued : row'[t] = row[t] \/ row'[t] = Revoke(row[t], "logout")
      BY <2>6 DEF LogoutUpdate, Issued, TypeOK
    <3> QED
      BY <2>6, <3>1, RevokeRows DEF LogoutUpdate, RowStep
  <2> QED
    BY <1>2, <2>1, <2>2, <2>3, <2>4, <2>5, <2>6 DEF Continue
<1>3. ASSUME NEW p \in Slot, Abort(p) PROVE RowStep
  BY <1>3, SameRows DEF Abort, RowStep
<1>4. ASSUME NEW u \in User, Reactivate(u) PROVE RowStep
  BY <1>4, SameRows DEF Reactivate, RowStep
<1>5. ASSUME NEW u \in User, NEW x \in stored, RevokeOne(u, x) PROVE RowStep
  <2>1. \A t \in Issued : row'[t] = row[t] \/ row'[t] = Revoke(row[t], "user_revoked")
    BY <1>5 DEF RevokeOne, Issued, TypeOK
  <2> QED
    BY <1>5, <2>1, RevokeRows DEF RevokeOne, RowStep
<1>6. CASE Cleanup
  BY <1>6 DEF Cleanup, RowStep, OnlyRevokes, Kept, Unlinked
<1>7. CASE Tick
  BY <1>7, SameRows DEF Tick, RowStep
<1>8. CASE UNCHANGED vars
  BY <1>8, SameRows DEF vars, RowStep
<1> QED
  BY <1>1, <1>2, <1>3, <1>4, <1>5, <1>6, <1>7, <1>8 DEF Next

-----------------------------------------------------------------------------
(* The invariant is inductive *)

LEMMA InvInit == Init => IInv
<1> SUFFICES ASSUME Init PROVE IInv
  OBVIOUS
<1>1. TypeOK
  BY TypeInit
<1>2. PICK own \in [1..issued -> LegacyOwner] :
          row = [t \in 1..issued |-> LegacyRow(own[t], t)]
  BY DEF Init
<1>3. ASSUME NEW t \in Issued
      PROVE  /\ row[t].root = t /\ row[t].op = NoOp /\ row[t].next = NoToken
             /\ row[t].revoked
  BY <1>2 DEF Issued, LegacyRow, NewRow
<1>4. Links
  BY <1>3 DEF Links
<1>5. Live = {}
  BY <1>3 DEF Live
<1>6. OneLivePerLogin /\ LiveIsRecordedSuccessor
  BY <1>5 DEF OneLivePerLogin, LiveIsRecordedSuccessor
<1>7. Asked
  BY DEF Init, Idle, Asked, Asking
<1> QED
  BY <1>1, <1>4, <1>6, <1>7 DEF IInv

(* Only a refresh that begins puts an operation id where Asked looks.      *)
LEMMA AskedStep ==
    ASSUME TypeOK, Asked, [Next]_vars
    PROVE  Asked'
<1>1. ~Asking(Idle)
  BY DEF Asking, Idle
<1>2. ASSUME NEW p \in Slot, NEW r, req' = [req EXCEPT ![p] = r],
             Asking(r) => r.op \in Op
      PROVE  Asked'
  BY <1>2 DEF Asked, TypeOK
<1>3. ASSUME NEW p \in Slot, NEW pc, Goto(p, pc),
             \/ pc \notin {"owner", "rotate", "candidate", "prepare"}
             \/ Asking(req[p])
      PROVE  Asked'
  <2>1. req[p] \in Request
    BY DEF TypeOK
  <2> DEFINE r == [req[p] EXCEPT !.pc = pc]
  <2>2. r.pc = pc /\ r.op = req[p].op
    BY <2>1 DEF Request
  <2>3. req' = [req EXCEPT ![p] = r]
    BY <1>3 DEF Goto
  <2> HIDE DEF r
  <2>4. Asking(r) => r.op \in Op
    BY <1>3, <2>2 DEF Asking, Asked
  <2> QED
    BY <1>2, <2>3, <2>4
<1>4. ASSUME NEW p \in Slot, NEW pc, NEW m, GotoAs(p, pc, m),
             \/ pc \notin {"owner", "rotate", "candidate", "prepare"}
             \/ Asking(req[p])
      PROVE  Asked'
  <2>1. req[p] \in Request
    BY DEF TypeOK
  <2> DEFINE r == [req[p] EXCEPT !.pc = pc, !.mode = m]
  <2>2. r.pc = pc /\ r.op = req[p].op
    BY <2>1 DEF Request
  <2>3. req' = [req EXCEPT ![p] = r]
    BY <1>4 DEF GotoAs
  <2> HIDE DEF r
  <2>4. Asking(r) => r.op \in Op
    BY <1>4, <2>2 DEF Asking, Asked
  <2> QED
    BY <1>2, <2>3, <2>4
<1>5. ASSUME NEW p \in Slot, Answer(p) PROVE Asked'
  BY <1>1, <1>2, <1>5 DEF Answer
<1>6. ASSUME NEW p \in Slot, BeginReplay(p) PROVE Asked'
  <2> DEFINE r == [Idle EXCEPT !.pc = "snapshot", !.mode = "replay",
                               !.user = req[p].user, !.client = req[p].client,
                               !.tok = req[p].tok]
  <2>1. ~Asking(r)
    BY DEF Asking, Idle
  <2>2. req' = [req EXCEPT ![p] = r]
    BY <1>6 DEF BeginReplay
  <2> HIDE DEF r
  <2> QED
    BY <1>2, <2>1, <2>2
<1>7. ASSUME NEW p \in Slot, Begin(p) PROVE Asked'
  <2>1. ASSUME NEW u \in User, LoginBegin(p, u) PROVE Asked'
    <3>1. ~Asking([Idle EXCEPT !.pc = "prepare", !.mode = "login", !.user = u,
                               !.client = ClientOf[u]])
      BY DEF Asking, Idle
    <3> QED
      BY <1>2, <2>1, <3>1 DEF LoginBegin, Start
  <2>2. ASSUME NEW u \in User, NEW m,
               Start(p, [Idle EXCEPT !.pc = "snapshot", !.mode = m, !.user = u,
                                     !.client = ClientOf[u]])
        PROVE  Asked'
    <3>1. ~Asking([Idle EXCEPT !.pc = "snapshot", !.mode = m, !.user = u,
                               !.client = ClientOf[u]])
      BY DEF Asking, Idle
    <3> QED
      BY <1>2, <2>2, <3>1 DEF Start
  <2>3. ASSUME NEW t \in stored, NEW c \in Client, LogoutBegin(p, t, c) PROVE Asked'
    <3>1. ~Asking([Idle EXCEPT !.pc = "logout", !.user = row[t].user,
                               !.client = c, !.tok = t])
      BY DEF Asking, Idle
    <3> QED
      BY <1>2, <2>3, <3>1 DEF LogoutBegin, Start
  <2>4. ASSUME NEW t \in stored, NEW c \in Client, NEW op \in Op,
               RefreshBegin(p, t, op, c)
        PROVE  Asked'
    <3> DEFINE r == [Idle EXCEPT !.pc = "owner", !.mode = Seen(t),
                                 !.user = row[t].user, !.client = c,
                                 !.tok = t, !.op = op]
    <3>1. r.op \in Op
      BY DEF Idle
    <3>2. req' = [req EXCEPT ![p] = r]
      BY <2>4 DEF RefreshBegin, Start
    <3> HIDE DEF r
    <3> QED
      BY <1>2, <3>1, <3>2
  <2> QED
    BY <1>7, <2>1, <2>2, <2>3, <2>4
       DEF Begin, EverywhereBegin, CredentialsBegin, Deactivate
<1>8. ASSUME NEW p \in Slot, Refused(p) PROVE Asked'
  BY <1>3, <1>6, <1>8 DEF Refused
<1>9. ASSUME NEW p \in Slot, Continue(p) PROVE Asked'
  <2>1. CASE Prepare(p)
    <3> DEFINE pc == CASE req[p].mode = "login" -> "insert"
                       [] req[p].mode = "refresh" -> "rotate"
                       [] OTHER -> "retry"
               r == [req[p] EXCEPT !.at = now, !.pc = pc]
    <3>1. req[p] \in Request /\ req[p].pc = "prepare"
      BY <2>1 DEF TypeOK, Prepare
    <3>2. req' = [req EXCEPT ![p] = r]
      BY <2>1 DEF Prepare
    <3>3. pc \in {"insert", "rotate", "retry"} /\ (pc = "rotate" => req[p].mode = "refresh")
      OBVIOUS
    <3> HIDE DEF pc
    <3>4. r.pc = pc /\ r.op = req[p].op
      BY <3>1 DEF Request
    <3> HIDE DEF r
    <3>5. Asking(r) => r.op \in Op
      BY <3>1, <3>3, <3>4 DEF Asking, Asked
    <3> QED
      BY <1>2, <3>2, <3>5
  <2>2. CASE RefreshOwner(p)
    <3>1. Asking(req[p])
      BY <2>2 DEF RefreshOwner, Asking
    <3> QED
      BY <1>4, <1>5, <1>6, <2>2, <3>1 DEF RefreshOwner
  <2>3. CASE Rotate(p)
    <3>1. Asking(req[p])
      BY <2>3 DEF Rotate, Asking
    <3> QED
      BY <1>4, <1>5, <2>3, <3>1 DEF Rotate
  <2>4. CASE Candidate(p)
    <3>1. Asking(req[p])
      BY <2>4 DEF Candidate, Asking
    <3> QED
      BY <1>3, <1>8, <2>4, <3>1 DEF Candidate
  <2>5. CASE Retry(p)
    BY <1>5, <1>8, <2>5 DEF Retry
  <2>6. CASE Latest(p)
    BY <1>5, <1>6, <2>6 DEF Latest
  <2>7. CASE SnapshotAll(p)
    <3> DEFINE ids == {t \in {x \in stored : row[x].user = req[p].user} :
                          Selects(req[p].mode, t)}
               r == [req[p] EXCEPT !.pc = "apply", !.ids = ids]
    <3>1. req[p] \in Request
      BY DEF TypeOK
    <3>2. req' = [req EXCEPT ![p] = r]
      BY <2>7, Zenon DEF SnapshotAll
    <3> HIDE DEF ids
    <3>3. r.pc = "apply"
      BY <3>1 DEF Request
    <3> HIDE DEF r
    <3>4. ~Asking(r)
      BY <3>3 DEF Asking
    <3> QED
      BY <1>2, <3>2, <3>4
  <2> QED
    BY <1>5, <1>9, <2>1, <2>2, <2>3, <2>4, <2>5, <2>6, <2>7
       DEF Continue, InsertSession, ApplyAll, LogoutUpdate
<1>10. CASE req' = req
  BY <1>10 DEF Asked
<1> QED
  BY <1>5, <1>7, <1>9, <1>10
     DEF Next, Abort, Reactivate, RevokeOne, Cleanup, Tick, vars

(* Ending sessions cannot break what the rows say of each other.           *)
LEMMA RevokesKeep ==
    ASSUME IInv, OnlyRevokes
    PROVE  Links' /\ OneLivePerLogin' /\ LiveIsRecordedSuccessor'
<1>1. Issued' = Issued
  BY DEF OnlyRevokes, Issued
<1>2. Live' \subseteq Live
  BY <1>1 DEF OnlyRevokes, Live
<1>3. Links'
  BY <1>1 DEF IInv, Links, OnlyRevokes, Kept, Unlinked
<1>4. OneLivePerLogin'
  BY <1>1, <1>2 DEF IInv, OneLivePerLogin, OnlyRevokes, Kept, Live
<1>5. LiveIsRecordedSuccessor'
  <2> SUFFICES ASSUME NEW t \in Live', row'[t].root # t
               PROVE  \E p \in Issued' :
                        /\ row'[p].next = t
                        /\ row'[p].revoked /\ row'[p].op # NoOp
                        /\ row'[p].root = row'[t].root
                        /\ \A q \in Issued' : row'[q].next = t => q = p
    BY DEF LiveIsRecordedSuccessor
  <2>1. t \in Live /\ t \in Issued /\ row[t].root # t
    BY <1>1, <1>2 DEF OnlyRevokes, Kept, Live
  <2>2. PICK p \in Issued : /\ row[p].next = t
                            /\ row[p].revoked /\ row[p].op # NoOp
                            /\ row[p].root = row[t].root
                            /\ \A q \in Issued : row[q].next = t => q = p
    BY <2>1 DEF IInv, LiveIsRecordedSuccessor
  <2> QED
    BY <1>1, <2>1, <2>2 DEF OnlyRevokes, Kept, Unlinked
<1> QED
  BY <1>3, <1>4, <1>5

(* A new login is its own chain.                                           *)
LEMMA LoginKeeps ==
    ASSUME IInv, NewLogin
    PROVE  Links' /\ OneLivePerLogin' /\ LiveIsRecordedSuccessor'
<1> DEFINE n == issued + 1
<1>1. issued \in Nat /\ n \notin Issued /\ Issued' = Issued \cup {n} /\ n # NoToken
  BY DEF IInv, TypeOK, NewLogin, Issued, NoToken
<1>2. /\ \A t \in Issued : row'[t] = row[t]
      /\ ~row'[n].revoked /\ row'[n].op = NoOp /\ row'[n].next = NoToken
      /\ row'[n].root = n
  BY DEF NewLogin, Unused
<1> HIDE DEF n
<1>3. Live' = Live \cup {n}
  BY <1>1, <1>2 DEF Live
<1>4. \A t \in Issued : row[t].root # n /\ row[t].next # n
  BY <1>1 DEF IInv, Links
<1>5. Links'
  BY <1>1, <1>2 DEF IInv, Links
<1>6. OneLivePerLogin'
  BY <1>1, <1>2, <1>3, <1>4 DEF IInv, OneLivePerLogin, Live
<1>7. LiveIsRecordedSuccessor'
  <2> SUFFICES ASSUME NEW t \in Live', row'[t].root # t
               PROVE  \E p \in Issued' :
                        /\ row'[p].next = t
                        /\ row'[p].revoked /\ row'[p].op # NoOp
                        /\ row'[p].root = row'[t].root
                        /\ \A q \in Issued' : row'[q].next = t => q = p
    BY DEF LiveIsRecordedSuccessor
  <2>1. t \in Live /\ t \in Issued /\ row[t].root # t
    BY <1>2, <1>3 DEF Live
  <2>2. PICK p \in Issued : /\ row[p].next = t
                            /\ row[p].revoked /\ row[p].op # NoOp
                            /\ row[p].root = row[t].root
                            /\ \A q \in Issued : row[q].next = t => q = p
    BY <2>1 DEF IInv, LiveIsRecordedSuccessor
  <2>3. t # NoToken
    BY <2>1 DEF Issued, NoToken
  <2> QED
    BY <1>1, <1>2, <2>1, <2>2, <2>3
<1> QED
  BY <1>5, <1>6, <1>7

(* A renewal revokes the only live row of its login before it adds one,    *)
(* and leaves p as the only row that records it.                           *)
LEMMA RenewalKeeps ==
    ASSUME IInv, NEW a \in Live \cap stored, NEW p \in Issued, Renewal(a, p)
    PROVE  Links' /\ OneLivePerLogin' /\ LiveIsRecordedSuccessor'
<1> DEFINE n == issued + 1
<1>1. issued \in Nat /\ n \notin Issued /\ Issued' = Issued \cup {n} /\ n # NoToken
  BY DEF IInv, TypeOK, Renewal, Issued, NoToken
<1>2. /\ ~row'[n].revoked /\ row'[n].op = NoOp /\ row'[n].next = NoToken
      /\ row'[n].root = row[a].root
      /\ row'[p].next = n /\ row'[p].op # NoOp /\ row'[p].revoked
      /\ row'[a].revoked
  BY DEF Renewal, Unused
<1>3. /\ \A t \in Issued : row'[t].root = row[t].root
      /\ \A t \in Issued : t # a => row'[t].revoked = row[t].revoked
      /\ \A t \in Issued : t # p => row'[t].next = row[t].next /\ row'[t].op = row[t].op
  BY DEF Renewal, Kept, Unlinked
<1>4. a \in Issued /\ ~row[a].revoked
  BY DEF Live
<1>5. row[p].root = row[a].root /\ (a # p => row[p].next = a)
  BY DEF Renewal, IInv, Links, NoToken, Live, Issued
<1> HIDE DEF n
<1>6. Live' = (Live \ {a}) \cup {n}
  BY <1>1, <1>2, <1>3 DEF Live
<1>7. \A t \in Issued : row[t].next # n /\ row[t].root # n
  BY <1>1 DEF IInv, Links
<1>8. Links'
  <2> SUFFICES ASSUME NEW t \in Issued'
               PROVE  /\ row'[t].root \in Issued'
                      /\ row'[t].op # NoOp => row'[t].next # NoToken
                      /\ row'[t].next # NoToken =>
                            /\ row'[t].revoked
                            /\ row'[t].op # NoOp
                            /\ row'[t].next \in Issued'
                            /\ row'[row'[t].next].root = row'[t].root
    BY DEF Links
  <2>1. CASE t = n
    BY <1>1, <1>2, <1>4, <2>1 DEF IInv, Links
  <2>2. CASE t = p
    BY <1>1, <1>2, <1>3, <1>5, <2>2 DEF IInv, Links
  <2>3. CASE t \in Issued /\ t # p
    <3>1. t # a \/ row[t].next = NoToken
      BY <1>4, <2>3 DEF IInv, Links
    <3>2. t = a => row'[t].next = NoToken /\ row'[t].op = NoOp
      BY <1>3, <2>3, <3>1 DEF IInv, Links
    <3> QED
      BY <1>1, <1>3, <2>3, <3>2 DEF IInv, Links
  <2> QED
    BY <1>1, <2>1, <2>2, <2>3
<1>9. OneLivePerLogin'
  <2>1. \A b \in Live \ {a} : row[b].root # row[a].root
    BY DEF IInv, OneLivePerLogin
  <2> QED
    BY <1>1, <1>2, <1>3, <1>6, <2>1 DEF IInv, OneLivePerLogin, Live
<1>10. LiveIsRecordedSuccessor'
  <2> SUFFICES ASSUME NEW t \in Live', row'[t].root # t
               PROVE  \E o \in Issued' :
                        /\ row'[o].next = t
                        /\ row'[o].revoked /\ row'[o].op # NoOp
                        /\ row'[o].root = row'[t].root
                        /\ \A q \in Issued' : row'[q].next = t => q = o
    BY DEF LiveIsRecordedSuccessor
  <2>1. CASE t = n
    <3>1. \A q \in Issued' : row'[q].next = n => q = p
      BY <1>1, <1>2, <1>3, <1>7
    <3> QED
      BY <1>1, <1>2, <1>3, <1>5, <2>1, <3>1
  <2>2. CASE t \in Live /\ t # a /\ t # n
    <3>1. t \in Issued /\ row[t].root # t /\ row'[t].root = row[t].root
      BY <1>3, <2>2 DEF Live
    <3>2. PICK o \in Issued : /\ row[o].next = t
                              /\ row[o].revoked /\ row[o].op # NoOp
                              /\ row[o].root = row[t].root
                              /\ \A q \in Issued : row[q].next = t => q = o
      BY <2>2, <3>1 DEF IInv, LiveIsRecordedSuccessor
    <3>3. t # NoToken
      BY <3>1 DEF Issued, NoToken
    <3>4. o # p
      <4>1. row[p].next # t
        BY <1>4, <1>5, <2>2, <3>3 DEF IInv, Links
      <4> QED
        BY <3>2, <4>1
    <3>5. o # a
      BY <1>4, <3>2
    <3> QED
      BY <1>1, <1>2, <1>3, <2>2, <3>1, <3>2, <3>3, <3>4, <3>5
  <2> QED
    BY <1>6, <2>1, <2>2
<1> QED
  BY <1>8, <1>9, <1>10

LEMMA InvStep == IInv /\ [Next]_vars => IInv'
<1> SUFFICES ASSUME IInv, [Next]_vars PROVE IInv'
  OBVIOUS
<1>1. TypeOK'
  BY TypeStep DEF IInv
<1>2. Asked'
  BY AskedStep DEF IInv
<1>3. RowStep
  BY EveryStep DEF IInv
<1>4. Links' /\ OneLivePerLogin' /\ LiveIsRecordedSuccessor'
  BY <1>3, RevokesKeep, LoginKeeps, RenewalKeeps DEF RowStep
<1> QED
  BY <1>1, <1>2, <1>4 DEF IInv

THEOREM Invariance == Spec => []IInv
  BY InvInit, InvStep, PTL DEF Spec

(* A login never has two live rows, in whatever order the statements of    *)
(* rotations, retries, replays and revocations run.                        *)
THEOREM OneLive == Spec => []OneLivePerLogin
<1>1. IInv => OneLivePerLogin
  BY DEF IInv
<1> QED
  BY <1>1, Invariance, PTL

(* A retry always finds the one row it has to replace.                     *)
THEOREM SuccessorRecorded == Spec => []LiveIsRecordedSuccessor
<1>1. IInv => LiveIsRecordedSuccessor
  BY DEF IInv
<1> QED
  BY <1>1, Invariance, PTL

(* Neither the time nor the operation of a first redemption ever moves,    *)
(* and its successor is replaced only while the grace period lasts.        *)
THEOREM GraceIsFixed == Spec => RetriesEndWithGrace
<1> DEFINE Fixed(t) == row[t].op # NoOp =>
             /\ row'[t].op = row[t].op
             /\ row'[t].at = row[t].at
             /\ row'[t].next # row[t].next => now <= row[t].at + Grace
<1>1. ASSUME IInv, [Next]_vars, NEW t \in Issued PROVE Fixed(t)
  <2>1. RowStep
    BY <1>1, EveryStep DEF IInv
  <2>2. CASE OnlyRevokes
    BY <2>2 DEF OnlyRevokes, Unlinked
  <2>3. CASE NewLogin
    BY <2>3 DEF NewLogin
  <2>4. ASSUME NEW a \in Live \cap stored, NEW p \in Issued, Renewal(a, p)
        PROVE  Fixed(t)
    <3>1. CASE t # p
      BY <2>4, <3>1 DEF Renewal, Unlinked
    <3>2. CASE t = p /\ a = p
      BY <1>1, <3>2 DEF IInv, Links, Live
    <3>3. CASE t = p /\ a # p
      BY <2>4, <3>3 DEF Renewal
    <3> QED
      BY <3>1, <3>2, <3>3
  <2> QED
    BY <2>1, <2>2, <2>3, <2>4 DEF RowStep
<1>2. IInv /\ [Next]_vars => [\A t \in Issued : Fixed(t)]_vars
  BY <1>1
<1> QED
  BY <1>2, Invariance, PTL DEF Spec, RetriesEndWithGrace

(* The table of rows implements the abstract chains of Sessions: nothing a *)
(* handler does is more than beginning, renewing or ending a session.      *)
THEOREM Implementation == Spec => ImplementsSessions
<1> DEFINE use == {t \in stored : ~row[t].revoked}
           log == [t \in 1..issued |-> row[t].root]
<1>1. Init => Chains!AInit
  <2> SUFFICES ASSUME Init PROVE Chains!AInit
    OBVIOUS
  <2>1. PICK own \in [1..issued -> LegacyOwner] :
            row = [t \in 1..issued |-> LegacyRow(own[t], t)]
    BY DEF Init
  <2>2. \A t \in 1..issued : row[t].root = t /\ row[t].revoked
    BY <2>1 DEF LegacyRow, NewRow
  <2>3. issued \in Nat
    BY TypeInit DEF TypeOK
  <2>4. stored = 1..issued
    BY DEF Init
  <2> QED
    BY <2>2, <2>3, <2>4 DEF Chains!AInit
<1>2. ASSUME IInv, [Next]_vars PROVE [Chains!ANext]_(Chains!avars)
  <2>1. RowStep /\ stored \subseteq Issued /\ issued \in Nat
    BY <1>1, <1>2, EveryStep DEF IInv, TypeOK, Issued
  <2>2. CASE OnlyRevokes
    <3>1. use' \subseteq use
      BY <2>1, <2>2 DEF OnlyRevokes
    <3>2. log' = log
      BY <2>2 DEF OnlyRevokes, Kept, Issued
    <3> QED
      BY <2>2, <3>1, <3>2 DEF OnlyRevokes, Chains!ANext, Chains!End
  <2>3. CASE NewLogin
    <3>1. use' = use \cup {issued + 1}
      BY <2>1, <2>3 DEF NewLogin, Unused, Issued
    <3>2. log' = Chains!Extended(issued + 1)
      BY <2>1, <2>3 DEF NewLogin, Issued, Chains!Extended
    <3> QED
      BY <2>3, <3>1, <3>2 DEF NewLogin, Chains!ANext, Chains!Begin
  <2>4. ASSUME NEW a \in Live \cap stored, NEW p \in Issued, Renewal(a, p)
        PROVE  Chains!ANext
    <3>1. a \in use
      BY DEF Live
    <3>2. use' = (use \ {a}) \cup {issued + 1}
      BY <2>1, <2>4 DEF Renewal, Unused, Issued, Live
    <3>3. log' = Chains!Extended(log[a])
      BY <2>1, <2>4 DEF Renewal, Kept, Issued, Live, Chains!Extended
    <3> QED
      BY <2>4, <3>1, <3>2, <3>3 DEF Renewal, Chains!ANext, Chains!Renew
  <2> QED
    BY <2>1, <2>2, <2>3, <2>4 DEF RowStep
<1>3. IInv /\ [Next]_vars => [Chains!ANext]_(Chains!avars)
  BY <1>2
<1> QED
  BY <1>1, <1>3, Invariance, PTL DEF Spec, ImplementsSessions, Chains!ASpec

(* A login is worth one usable token.                                      *)
THEOREM ChainsAreSingle == Spec => []Chains!OneEach
<1>1. ASSUME IInv PROVE Chains!OneEach
  <2> SUFFICES ASSUME NEW a \in {t \in stored : ~row[t].revoked},
                      NEW b \in {t \in stored : ~row[t].revoked},
                      [t \in 1..issued |-> row[t].root][a]
                         = [t \in 1..issued |-> row[t].root][b]
               PROVE  a = b
    BY DEF Chains!OneEach
  <2>1. a \in Live /\ b \in Live /\ row[a].root = row[b].root
    BY <1>1 DEF IInv, TypeOK, Live, Issued
  <2> QED
    BY <1>1, <2>1 DEF IInv, OneLivePerLogin
<1> QED
  BY <1>1, Invariance, PTL

(* A login whose last usable token a logout, a revocation, a replay or the *)
(* cleanup has ended never has one again, whatever was under way: rotation *)
(* and retry take the place of a usable token, and a new login has a root  *)
(* of its own.                                                             *)
THEOREM EndsAreFinal == Spec => Chains!EndedStaysEnded
<1> DEFINE use == {t \in stored : ~row[t].revoked}
           log == [t \in 1..issued |-> row[t].root]
           Final == \A l \in 1..issued :
                       (\A t \in use : log[t] # l) => (\A t \in use' : log'[t] # l)
<1>1. ASSUME IInv, [Next]_vars PROVE Final
  <2> SUFFICES ASSUME NEW l \in 1..issued, \A t \in use : log[t] # l,
                      NEW t \in use'
               PROVE  log'[t] # l
    OBVIOUS
  <2>1. RowStep /\ stored \subseteq Issued /\ issued \in Nat
    BY <1>1, EveryStep DEF IInv, TypeOK, Issued
  <2>2. \A x \in use : x \in Issued /\ log[x] = row[x].root
    BY <2>1 DEF Issued
  <2>3. t \in stored' /\ ~row'[t].revoked
    OBVIOUS
  <2>4. log' = [x \in 1..issued' |-> row'[x].root]
    OBVIOUS
  <2> HIDE DEF log
  <2>5. CASE OnlyRevokes
    <3>1. t \in use /\ row'[t].root = row[t].root /\ t \in 1..issued'
      BY <2>1, <2>3, <2>5 DEF OnlyRevokes, Kept, Issued
    <3> QED
      BY <2>2, <2>4, <3>1
  <2>6. CASE NewLogin
    <3>1. CASE t \in stored
      <4>1. t \in use /\ row'[t] = row[t] /\ t \in 1..issued'
        BY <2>1, <2>3, <2>6, <3>1 DEF NewLogin, Issued
      <4> QED
        BY <2>2, <2>4, <4>1
    <3>2. CASE t = issued + 1
      <4>1. row'[t].root = issued + 1 /\ t \in 1..issued'
        BY <2>1, <2>6, <3>2 DEF NewLogin
      <4> QED
        BY <2>1, <2>4, <4>1
    <3> QED
      BY <2>3, <2>6, <3>1, <3>2 DEF NewLogin
  <2>7. ASSUME NEW a \in Live \cap stored, NEW p \in Issued, Renewal(a, p)
        PROVE  log'[t] # l
    <3>1. a \in use
      BY DEF Live
    <3>2. CASE t \in stored
      <4>1. row'[t].root = row[t].root /\ t \in 1..issued' /\ t # a
        BY <2>1, <2>3, <2>7, <3>2 DEF Renewal, Kept, Issued
      <4>2. t \in use
        BY <2>1, <2>3, <2>7, <3>2, <4>1 DEF Renewal
      <4> QED
        BY <2>2, <2>4, <4>1, <4>2
    <3>3. CASE t = issued + 1
      <4>1. row'[t].root = row[a].root /\ t \in 1..issued'
        BY <2>1, <2>7, <3>3 DEF Renewal
      <4> QED
        BY <2>2, <2>4, <3>1, <4>1
    <3> QED
      BY <2>3, <2>7, <3>2, <3>3 DEF Renewal
  <2> QED
    BY <2>1, <2>5, <2>6, <2>7 DEF RowStep
<1>2. IInv /\ [Next]_vars => [Final]_(Chains!avars)
  BY <1>1
<1> HIDE DEF Final
<1>3. Spec => [][Final]_(Chains!avars)
  BY <1>2, Invariance, PTL DEF Spec
<1> QED
  BY <1>3 DEF Final, Chains!EndedStaysEnded

-----------------------------------------------------------------------------
(* What a request knows of the token it holds.  A rotation, a retry or a    *)
(* revocation writes rows it read some steps ago: that they are its user's, *)
(* and its user its caller's, must have lasted.                             *)

Holding(r) == \/ r.pc \in {"owner", "rotate", "candidate", "retry", "latest", "logout"}
              \/ r.pc = "prepare" /\ r.mode # "login"

Claim(r) ==
    /\ r.pc \notin {"idle", "owner"} => r.client = ClientOf[r.user]
    /\ Holding(r) => r.tok \in Issued /\ row[r.tok].user = r.user
    /\ \A t \in r.ids : t \in Issued /\ row[t].user = r.user
    /\ r.mode \in {"rotated", "direct", "replay"} => r.tok \in Issued /\ Was(r.tok)

(* A row that reads as rotated was redeemed.                               *)
RotatedWas == \A t \in Issued : Rotated(row[t]) => Was(t)

Claims == RotatedWas /\ \A p \in Slot : Claim(req[p])

(* The two inserts of a refresh, row by row.                               *)
LEMMA RotateWrites ==
    ASSUME TypeOK, NEW p \in Slot, Rotate(p)
    PROVE  LET r == req[p] IN
           \/ UNCHANGED <<issued, row, stored>>
           \/ /\ issued' = issued + 1 /\ req'[p] = Idle
              /\ r.tok \in Issued /\ ~row[r.tok].revoked
              /\ row'[r.tok].next = issued + 1 /\ row'[r.tok].op = r.op
              /\ \A x \in Issued : x # r.tok => row'[x] = row[x]
              /\ row'[issued + 1].user = r.user
              /\ ~row'[issued + 1].revoked
<1> DEFINE r == req[p]
           t == r.tok
           old == [Revoke(row[t], "rotated") EXCEPT
                     !.op = r.op, !.at = r.at, !.next = issued + 1]
           rows == [row EXCEPT ![t] = old]
           new == NewRow(r.user, row[t].root, r.at)
<1>1. CASE /\ Consumable(t, r.at) /\ row' = With(rows, new)
           /\ issued' = issued + 1 /\ Answer(p)
  <2>1. /\ t \in 1..issued /\ row[t] \in Row /\ r \in Request
        /\ issued \in Nat /\ row \in [1..issued -> Row]
        /\ ~row[t].revoked /\ req \in [Slot -> Request]
    BY <1>1 DEF TypeOK, Consumable
  <2>2. Revoke(row[t], "rotated") \in Row
    BY <2>1, RevokeType DEF Reason
  <2>3. r.op \in Op \cup {NoOp} /\ r.at \in Nat /\ issued + 1 \in Nat
    BY <2>1 DEF Request
  <2>4. old \in Row
    BY <2>2, <2>3, RedeemType
  <2>5. old.next = issued + 1 /\ old.op = r.op
    BY <2>2 DEF Row
  <2>6. new \in Row
    BY <2>1, NewRowType DEF Row, Request
  <2>7. new.user = r.user /\ ~new.revoked
    BY DEF NewRow
  <2>8. req'[p] = Idle
    BY <1>1, <2>1 DEF Answer
  <2> HIDE DEF old, r, t, new
  <2>9. /\ rows \in [1..issued -> Row] /\ rows[t] = old
        /\ \A x \in 1..issued : x # t => rows[x] = row[x]
    BY <2>1, <2>4
  <2> HIDE DEF rows
  <2>10. (\A x \in 1..issued : row'[x] = rows[x]) /\ row'[issued + 1] = new
    <3>1. /\ With(rows, new)[issued + 1] = new
          /\ \A x \in 1..issued : With(rows, new)[x] = rows[x]
      BY <2>1, <2>6, <2>9, WithType
    <3> QED
      BY <1>1, <3>1
  <2> QED
    BY <1>1, <2>1, <2>5, <2>7, <2>8, <2>9, <2>10 DEF Issued, r, t
<1>2. CASE UNCHANGED <<issued, row, stored>>
  BY <1>2
<1> QED
  BY <1>1, <1>2 DEF Rotate

LEMMA RetryWrites ==
    ASSUME TypeOK, Links, NEW p \in Slot, Retry(p)
    PROVE  LET r == req[p]
               s == row[r.tok].next IN
           \/ UNCHANGED <<issued, row, stored>>
           \/ /\ issued' = issued + 1 /\ req'[p] = Idle
              /\ r.tok \in Issued /\ s \in Issued /\ s # r.tok
              /\ row[s].user = r.user /\ row[r.tok].op = r.op
              /\ row'[r.tok].next = issued + 1 /\ row'[r.tok].op = r.op
              /\ row'[s] = Revoke(row[s], "retry")
              /\ \A x \in Issued : x # r.tok /\ x # s => row'[x] = row[x]
              /\ row'[issued + 1].user = r.user
              /\ ~row'[issued + 1].revoked
<1> DEFINE r == req[p]
           t == r.tok
           s == row[t].next
           mid == [row EXCEPT ![s] = Revoke(@, "retry")]
           rows == Repointed(t, s)
           new == NewRow(r.user, row[s].root, r.at)
<1>1. CASE /\ RetryAdmitted(t, r.op) /\ Replaceable(s, r.user)
           /\ row' = With(rows, new)
           /\ issued' = issued + 1 /\ Answer(p)
  <2>0. r \in Request /\ req \in [Slot -> Request]
    BY DEF TypeOK
  <2>1. rows = [mid EXCEPT ![t] = [mid[t] EXCEPT !.next = issued + 1]]
    BY DEF Repointed
  <2>2. mid = [row EXCEPT ![s] = Revoke(row[s], "retry")]
    OBVIOUS
  <2>3. row[t].next = s /\ new.user = r.user /\ ~new.revoked
    BY DEF NewRow
  <2>4. req'[p] = Idle
    BY <1>1, <2>0 DEF Answer
  <2>5. new = NewRow(r.user, row[s].root, r.at)
    OBVIOUS
  <2> HIDE DEF mid, rows, s, t, r, new
  <2>6. /\ t \in stored /\ s \in stored /\ ~row[s].revoked /\ row[t].revoked
        /\ row[s].user = r.user /\ row[t].op = r.op
    BY <1>1 DEF RetryAdmitted, Replaceable, Rotated
  <2>7. /\ t \in 1..issued /\ s \in 1..issued /\ issued \in Nat /\ s # t
        /\ row \in [1..issued -> Row] /\ row[t] \in Row /\ row[s] \in Row
    BY <2>6 DEF TypeOK
  <2>8. Revoke(row[s], "retry") \in Row
    BY <2>7, RevokeType DEF Reason
  <2>9. /\ mid \in [1..issued -> Row] /\ mid[s] = Revoke(row[s], "retry")
        /\ \A x \in 1..issued : x # s => mid[x] = row[x]
    BY <2>2, <2>7, <2>8
  <2>10. [row[t] EXCEPT !.next = issued + 1] \in Row
    BY <2>7, RepointType
  <2>11. /\ rows \in [1..issued -> Row]
         /\ rows[t] = [row[t] EXCEPT !.next = issued + 1]
         /\ \A x \in 1..issued : x # t => rows[x] = mid[x]
    BY <2>1, <2>7, <2>9, <2>10
  <2>12. new \in Row
    BY <2>0, <2>5, <2>7, NewRowType DEF Row, Request
  <2>13. (\A x \in 1..issued : row'[x] = rows[x]) /\ row'[issued + 1] = new
    <3>1. /\ With(rows, new)[issued + 1] = new
          /\ \A x \in 1..issued : With(rows, new)[x] = rows[x]
      BY <2>7, <2>11, <2>12, WithType
    <3> QED
      BY <1>1, <3>1
  <2>14. row'[t].next = issued + 1 /\ row'[t].op = row[t].op
    BY <2>7, <2>11, <2>13 DEF Row
  <2>15. row'[s] = Revoke(row[s], "retry")
    BY <2>7, <2>9, <2>11, <2>13
  <2>16. \A x \in 1..issued : x # t /\ x # s => row'[x] = row[x]
    BY <2>9, <2>11, <2>13
  <2> QED
    BY <1>1, <2>3, <2>4, <2>6, <2>7, <2>13, <2>14, <2>15, <2>16 DEF Issued, r, t, s
<1>2. CASE UNCHANGED <<issued, row, stored>>
  BY <1>2
<1> QED
  BY <1>1, <1>2 DEF Retry

(* A revocation of many rows, or of one.                                   *)
LEMMA RevocationWrites ==
    ASSUME TypeOK, NEW p \in Slot, ApplyAll(p) \/ LogoutUpdate(p)
    PROVE  /\ issued' = issued /\ req'[p] = Idle
           /\ \A t \in Issued : row'[t] # row[t] =>
                 /\ t \in req[p].ids \/ (req[p].pc = "logout" /\ t = req[p].tok)
                 /\ \E why \in {"user_revoked", "security", "logout"} :
                       row'[t] = Revoke(row[t], why)
<1>1. req \in [Slot -> Request] /\ row \in [1..issued -> Row]
  BY DEF TypeOK
<1>2. CASE ApplyAll(p)
  <2>1. WhyAll(req[p].mode) \in {"user_revoked", "security"}
    BY DEF WhyAll
  <2>2. \A t \in Issued : \/ row'[t] = row[t]
                          \/ /\ t \in req[p].ids
                             /\ row'[t] = Revoke(row[t], WhyAll(req[p].mode))
    BY <1>2 DEF ApplyAll, Issued
  <2>3. issued' = issued /\ req'[p] = Idle
    BY <1>1, <1>2 DEF ApplyAll, Answer
  <2>4. ASSUME NEW t \in Issued, row'[t] # row[t]
        PROVE  /\ t \in req[p].ids
               /\ \E why \in {"user_revoked", "security", "logout"} :
                     row'[t] = Revoke(row[t], why)
    BY <2>1, <2>2, <2>4
  <2> QED
    BY <2>3, <2>4
<1>3. CASE LogoutUpdate(p)
  BY <1>1, <1>3 DEF LogoutUpdate, Answer, Issued
<1> QED
  BY <1>2, <1>3

LEMMA InsertWrites ==
    ASSUME TypeOK, NEW p \in Slot, InsertSession(p)
    PROVE  /\ issued' = issued + 1 /\ req'[p] = Idle
           /\ \A x \in Issued : row'[x] = row[x]
           /\ ~row'[issued + 1].revoked /\ row'[issued + 1].user = req[p].user
           /\ row'[issued + 1].root = issued + 1
<1>1. issued \in Nat /\ row \in [1..issued -> Row] /\ req \in [Slot -> Request]
  BY DEF TypeOK
<1>2. NewRow(req[p].user, issued + 1, req[p].at) \in Row
  BY <1>1, NewRowType DEF Request
<1>3. \A u, l, at : LET n == NewRow(u, l, at) IN ~n.revoked /\ n.user = u /\ n.root = l
  BY DEF NewRow
<1>4. /\ issued' = issued + 1 /\ req'[p] = Idle
      /\ \A x \in Issued : row'[x] = row[x]
      /\ row'[issued + 1] = NewRow(req[p].user, issued + 1, req[p].at)
  BY <1>1, <1>2, WithType DEF InsertSession, Issued, Answer
<1> QED
  BY <1>3, <1>4

(* Everything else leaves the rows alone.                                  *)
LEMMA Writers ==
    ASSUME TypeOK, [Next]_vars
    PROVE  \/ \E p \in Slot : \/ InsertSession(p) \/ Rotate(p) \/ Retry(p)
                              \/ ApplyAll(p) \/ LogoutUpdate(p)
           \/ \E u \in User, t \in stored : RevokeOne(u, t)
           \/ UNCHANGED <<issued, row>>
<1>1. ASSUME NEW p \in Slot, Begin(p) \/ Abort(p)
      PROVE  UNCHANGED <<issued, row>>
  BY <1>1 DEF Begin, LoginBegin, EverywhereBegin, CredentialsBegin, Deactivate,
     LogoutBegin, RefreshBegin, Abort
<1>2. ASSUME NEW p \in Slot, Continue(p)
      PROVE  \/ InsertSession(p) \/ Rotate(p) \/ Retry(p) \/ ApplyAll(p) \/ LogoutUpdate(p)
             \/ UNCHANGED <<issued, row>>
  BY <1>2 DEF Continue, Prepare, RefreshOwner, Candidate, Latest, SnapshotAll
<1>3. ASSUME \/ \E u \in User : Reactivate(u)
             \/ Cleanup \/ Tick \/ UNCHANGED vars
      PROVE  UNCHANGED <<issued, row>>
  BY <1>3 DEF Reactivate, Cleanup, Tick, vars
<1> QED
  BY <1>1, <1>2, <1>3 DEF Next

LEMMA RevokeOneWrites ==
    ASSUME TypeOK, NEW u \in User, NEW s \in stored, RevokeOne(u, s)
    PROVE  /\ issued' = issued /\ s \in Issued
           /\ row'[s] = Revoke(row[s], "user_revoked")
           /\ \A t \in Issued : t # s => row'[t] = row[t]
  BY DEF RevokeOne, TypeOK, Issued

(* Rows stay, keep their owner, and what was redeemed has been redeemed.   *)
LEMMA RowsStay ==
    ASSUME IInv, [Next]_vars, NEW t \in Issued
    PROVE  t \in Issued' /\ row'[t].user = row[t].user /\ (Was(t) => Was(t)')
<1>1. RowStep /\ issued \in Nat
  BY EveryStep DEF IInv, TypeOK
<1>2. CASE OnlyRevokes
  BY <1>2 DEF OnlyRevokes, Kept, Unlinked, Was, Issued
<1>3. CASE NewLogin
  BY <1>1, <1>3 DEF NewLogin, Was, Issued
<1>4. ASSUME NEW a \in Live \cap stored, NEW p \in Issued, Renewal(a, p)
      PROVE  t \in Issued' /\ row'[t].user = row[t].user /\ (Was(t) => Was(t)')
  <2>1. issued' = issued + 1 /\ Kept(t) /\ (t # p => Unlinked(t))
        /\ row'[p].next = issued + 1
    BY <1>4 DEF Renewal
  <2>2. row'[p].next # NoToken
    BY <1>1, <2>1 DEF NoToken
  <2> QED
    BY <1>1, <2>1, <2>2 DEF Kept, Unlinked, Was, Issued
<1> QED
  BY <1>1, <1>2, <1>3, <1>4 DEF RowStep

LEMMA RotatedStep ==
    ASSUME IInv, RotatedWas, [Next]_vars
    PROVE  RotatedWas'
<1>0. TypeOK /\ Links /\ issued \in Nat
  BY DEF IInv, TypeOK
<1> SUFFICES ASSUME NEW t \in Issued', Rotated(row[t])' PROVE Was(t)'
  BY DEF RotatedWas
<1>1. ASSUME t \in Issued, row'[t] = row[t] PROVE Was(t)'
  BY <1>1, RowsStay DEF RotatedWas, Rotated
<1>2. ASSUME t \in Issued, NEW why \in {"retry", "user_revoked", "security", "logout"},
             row'[t] = Revoke(row[t], why)
      PROVE  FALSE
  <2>1. row[t] \in Row
    BY <1>0, <1>2 DEF TypeOK, Issued
  <2>2. row'[t].reason = why
    BY <1>2, <2>1 DEF Revoke, Row
  <2> QED
    BY <2>2 DEF Rotated
<1>3. ASSUME ~row'[t].revoked PROVE FALSE
  BY <1>3 DEF Rotated
<1>4. ASSUME row'[t].next = issued + 1 PROVE Was(t)'
  BY <1>0, <1>4 DEF Was, NoToken
<1>5. issued' = issued + 1 => t \in Issued \/ t = issued + 1
  BY <1>0 DEF Issued
<1>6. ASSUME NEW p \in Slot, InsertSession(p) PROVE Was(t)'
  BY <1>0, <1>1, <1>3, <1>5, <1>6, InsertWrites
<1>7. ASSUME NEW p \in Slot, Rotate(p) PROVE Was(t)'
  <2>1. CASE UNCHANGED <<issued, row, stored>>
    BY <1>1, <2>1 DEF Issued
  <2> QED
    BY <1>0, <1>1, <1>3, <1>4, <1>5, <1>7, <2>1, RotateWrites
<1>8. ASSUME NEW p \in Slot, Retry(p) PROVE Was(t)'
  <2>1. CASE UNCHANGED <<issued, row, stored>>
    BY <1>1, <2>1 DEF Issued
  <2> QED
    BY <1>0, <1>1, <1>2, <1>3, <1>4, <1>5, <1>8, <2>1, RetryWrites
<1>9. ASSUME NEW p \in Slot, ApplyAll(p) \/ LogoutUpdate(p) PROVE Was(t)'
  <2>1. t \in Issued
    BY <1>0, <1>9, RevocationWrites DEF Issued
  <2> QED
    BY <1>0, <1>1, <1>2, <1>9, <2>1, RevocationWrites
<1>10. ASSUME NEW u \in User, NEW s \in stored, RevokeOne(u, s) PROVE Was(t)'
  <2>1. t \in Issued
    BY <1>0, <1>10, RevokeOneWrites DEF Issued
  <2> QED
    BY <1>0, <1>1, <1>2, <1>10, <2>1, RevokeOneWrites
<1>11. CASE UNCHANGED <<issued, row>>
  BY <1>1, <1>11 DEF Issued
<1> QED
  BY <1>0, <1>6, <1>7, <1>8, <1>9, <1>10, <1>11, Writers

(* Only a begun request claims something new, and what it claims it has    *)
(* just read.                                                              *)
LEMMA ClaimsStep ==
    ASSUME IInv, Claims, [Next]_vars
    PROVE  \A p \in Slot : Claim(req[p])'
<1>0. TypeOK /\ RotatedWas /\ \A p \in Slot : Claim(req[p])
  BY DEF IInv, Claims
<1>1. ASSUME NEW r, Claim(r) PROVE Claim(r)'
  BY <1>1, RowsStay DEF Claim
<1>2. ASSUME NEW p \in Slot, NEW r, req' = [req EXCEPT ![p] = r], Claim(r)
      PROVE  \A q \in Slot : Claim(req[q])'
  <2> SUFFICES ASSUME NEW q \in Slot PROVE Claim(req[q])'
    OBVIOUS
  <2>1. CASE q = p
    <3>1. req'[q] = r
      BY <1>0, <1>2, <2>1 DEF TypeOK
    <3> QED
      BY <1>1, <1>2, <3>1 DEF Claim
  <2>2. CASE q # p
    <3>1. req'[q] = req[q]
      BY <1>0, <1>2, <2>2 DEF TypeOK
    <3>2. Claim(req[q])
      BY <1>0
    <3> QED
      BY <3>1, <3>2, RowsStay DEF Claim
  <2> QED
    BY <2>1, <2>2
<1>3. Claim(Idle)
  BY DEF Claim, Holding, Idle
<1>4. ASSUME NEW p \in Slot, Answer(p) PROVE \A q \in Slot : Claim(req[q])'
  BY <1>2, <1>3, <1>4 DEF Answer
<1>5. ASSUME NEW p \in Slot, NEW r \in Request, req' = [req EXCEPT ![p] = r],
             r.user = req[p].user, r.client = req[p].client, r.tok = req[p].tok,
             r.ids \subseteq req[p].ids,
             r.client = ClientOf[r.user],
             Holding(r) => Holding(req[p]),
             r.mode \in {"rotated", "direct", "replay"} =>
                 \/ req[p].mode \in {"rotated", "direct", "replay"}
                 \/ r.tok \in Issued /\ Was(r.tok)
      PROVE  \A q \in Slot : Claim(req[q])'
  <2>1. Claim(req[p])
    BY <1>0
  <2>2. Claim(r)
    BY <1>5, <2>1 DEF Claim
  <2> QED
    BY <1>2, <1>5, <2>2
<1>6. ASSUME NEW p \in Slot, NEW pc \in Position, NEW m \in Mode, GotoAs(p, pc, m),
             req[p].client = ClientOf[req[p].user], Holding(req[p]),
             m \in {"direct", "lost", "refresh"},
             m = "direct" => req[p].mode \in {"rotated", "direct", "replay"}
      PROVE  \A q \in Slot : Claim(req[q])'
  <2> DEFINE r == [req[p] EXCEPT !.pc = pc, !.mode = m]
  <2>1. req[p] \in Request
    BY <1>0 DEF TypeOK
  <2>2. /\ r \in Request /\ r.user = req[p].user /\ r.client = req[p].client
        /\ r.tok = req[p].tok /\ r.ids = req[p].ids /\ r.mode = m
    BY <2>1 DEF Request
  <2>3. req' = [req EXCEPT ![p] = r]
    BY <1>6 DEF GotoAs
  <2> HIDE DEF r
  <2> QED
    BY <1>5, <1>6, <2>2, <2>3
<1>7. ASSUME NEW p \in Slot, NEW pc \in Position, Goto(p, pc),
             req[p].client = ClientOf[req[p].user], Holding(req[p])
      PROVE  \A q \in Slot : Claim(req[q])'
  <2> DEFINE r == [req[p] EXCEPT !.pc = pc]
  <2>1. req[p] \in Request
    BY <1>0 DEF TypeOK
  <2>2. /\ r \in Request /\ r.user = req[p].user /\ r.client = req[p].client
        /\ r.tok = req[p].tok /\ r.ids = req[p].ids /\ r.mode = req[p].mode
    BY <2>1 DEF Request
  <2>3. req' = [req EXCEPT ![p] = r]
    BY <1>7 DEF Goto
  <2> HIDE DEF r
  <2> QED
    BY <1>5, <1>7, <2>2, <2>3
<1>8. ASSUME NEW p \in Slot, BeginReplay(p),
             req[p].client = ClientOf[req[p].user],
             req[p].tok \in Issued, Was(req[p].tok)
      PROVE  \A q \in Slot : Claim(req[q])'
  <2> DEFINE r == [Idle EXCEPT !.pc = "snapshot", !.mode = "replay",
                               !.user = req[p].user, !.client = req[p].client,
                               !.tok = req[p].tok]
  <2>1. /\ r.pc = "snapshot" /\ r.user = req[p].user /\ r.client = req[p].client
        /\ r.tok = req[p].tok /\ r.ids = {}
    BY DEF Idle
  <2>2. req' = [req EXCEPT ![p] = r]
    BY <1>8 DEF BeginReplay
  <2> HIDE DEF r
  <2>3. Claim(r)
    BY <1>8, <2>1 DEF Claim, Holding
  <2> QED
    BY <1>2, <2>2, <2>3
<1>9. ASSUME NEW p \in Slot, Refused(p), req[p].pc \in {"candidate", "retry"}
      PROVE  \A q \in Slot : Claim(req[q])'
  <2>1. /\ req[p].client = ClientOf[req[p].user] /\ Holding(req[p])
        /\ req[p].mode = "direct" => req[p].tok \in Issued /\ Was(req[p].tok)
    BY <1>0, <1>9 DEF Claim, Holding
  <2>2. "latest" \in Position
    BY DEF Position
  <2> QED
    BY <1>7, <1>8, <1>9, <2>1, <2>2 DEF Refused
<1>10. ASSUME NEW p \in Slot, Begin(p) PROVE \A q \in Slot : Claim(req[q])'
  <2>1. ASSUME NEW u \in User, NEW r, Start(p, r),
               r.pc \in {"prepare", "snapshot"}, r.pc = "prepare" => r.mode = "login",
               r.mode \notin {"rotated", "direct", "replay"},
               r.user = u, r.client = ClientOf[u], r.ids = {}
        PROVE  \A q \in Slot : Claim(req[q])'
    <3>1. Claim(r)
      BY <2>1 DEF Claim, Holding
    <3> QED
      BY <1>2, <2>1, <3>1 DEF Start
  <2>2. ASSUME NEW t \in stored, NEW c \in Client, LogoutBegin(p, t, c)
        PROVE  \A q \in Slot : Claim(req[q])'
    <3> DEFINE r == [Idle EXCEPT !.pc = "logout", !.user = row[t].user,
                                 !.client = c, !.tok = t]
    <3>1. /\ r.pc = "logout" /\ r.mode = "none" /\ r.user = row[t].user /\ r.client = c
          /\ r.tok = t /\ r.ids = {}
      BY DEF Idle
    <3>2. req' = [req EXCEPT ![p] = r] /\ c = ClientOf[row[t].user]
      BY <2>2 DEF LogoutBegin, Start
    <3>3. t \in Issued
      BY <1>0 DEF TypeOK, Issued
    <3> HIDE DEF r
    <3>4. Claim(r)
      BY <3>1, <3>2, <3>3 DEF Claim
    <3> QED
      BY <1>2, <3>2, <3>4
  <2>3. ASSUME NEW t \in stored, NEW c \in Client, NEW op \in Op,
               RefreshBegin(p, t, op, c)
        PROVE  \A q \in Slot : Claim(req[q])'
    <3> DEFINE r == [Idle EXCEPT !.pc = "owner", !.mode = Seen(t),
                                 !.user = row[t].user, !.client = c,
                                 !.tok = t, !.op = op]
    <3>1. /\ r.pc = "owner" /\ r.mode = Seen(t) /\ r.user = row[t].user
          /\ r.tok = t /\ r.ids = {}
      BY DEF Idle
    <3>2. req' = [req EXCEPT ![p] = r]
      BY <2>3 DEF RefreshBegin, Start
    <3>3. t \in Issued
      BY <1>0 DEF TypeOK, Issued
    <3>4. Seen(t) \in {"rotated", "direct", "replay"} => Rotated(row[t])
      BY DEF Seen
    <3>5. Seen(t) \in {"rotated", "direct", "replay"} => Was(t)
      BY <1>0, <3>3, <3>4 DEF RotatedWas
    <3> HIDE DEF r
    <3>6. Claim(r)
      BY <3>1, <3>3, <3>5 DEF Claim
    <3> QED
      BY <1>2, <3>2, <3>6
  <2>4. ASSUME NEW u \in User, LoginBegin(p, u) PROVE \A q \in Slot : Claim(req[q])'
    <3> DEFINE r == [Idle EXCEPT !.pc = "prepare", !.mode = "login", !.user = u,
                                 !.client = ClientOf[u]]
    <3>1. /\ r.pc = "prepare" /\ r.mode = "login" /\ r.user = u
          /\ r.client = ClientOf[u] /\ r.ids = {}
      BY DEF Idle
    <3>2. Start(p, r)
      BY <2>4 DEF LoginBegin
    <3> HIDE DEF r
    <3> QED
      BY <2>1, <3>1, <3>2
  <2>5. ASSUME NEW u \in User, NEW m \in {"everywhere", "credentials", "deactivate"},
               Start(p, [Idle EXCEPT !.pc = "snapshot", !.mode = m, !.user = u,
                                     !.client = ClientOf[u]])
        PROVE  \A q \in Slot : Claim(req[q])'
    <3> DEFINE r == [Idle EXCEPT !.pc = "snapshot", !.mode = m, !.user = u,
                                 !.client = ClientOf[u]]
    <3>1. /\ r.pc = "snapshot" /\ r.mode = m /\ r.user = u
          /\ r.client = ClientOf[u] /\ r.ids = {}
      BY DEF Idle
    <3>2. Start(p, r)
      BY <2>5
    <3> HIDE DEF r
    <3> QED
      BY <2>1, <2>5, <3>1, <3>2
  <2>6. ASSUME NEW u \in User, EverywhereBegin(p, u) \/ CredentialsBegin(p, u) \/ Deactivate(p, u)
        PROVE  \A q \in Slot : Claim(req[q])'
    BY <2>5, <2>6 DEF EverywhereBegin, CredentialsBegin, Deactivate
  <2> QED
    BY <1>10, <2>2, <2>3, <2>4, <2>6 DEF Begin
<1>11. ASSUME NEW p \in Slot, Continue(p) PROVE \A q \in Slot : Claim(req[q])'
  <2>0. req[p] \in Request /\ Claim(req[p])
    BY <1>0 DEF TypeOK
  <2>1. CASE Prepare(p)
    <3> DEFINE pc == CASE req[p].mode = "login" -> "insert"
                       [] req[p].mode = "refresh" -> "rotate"
                       [] OTHER -> "retry"
               r == [req[p] EXCEPT !.at = now, !.pc = pc]
    <3>0. now \in Nat
      BY <1>0 DEF TypeOK
    <3>1. req[p].pc = "prepare" /\ req' = [req EXCEPT ![p] = r]
      BY <2>1 DEF Prepare
    <3>2. pc \in {"insert", "rotate", "retry"} /\ (pc # "insert" => req[p].mode # "login")
      OBVIOUS
    <3> HIDE DEF pc
    <3>3. /\ r \in Request /\ r.pc = pc /\ r.user = req[p].user /\ r.client = req[p].client
          /\ r.tok = req[p].tok /\ r.ids = req[p].ids /\ r.mode = req[p].mode
      BY <2>0, <3>0, <3>1, <3>2 DEF Request, Position
    <3> HIDE DEF r
    <3>4. Holding(r) => Holding(req[p])
      BY <3>1, <3>2, <3>3 DEF Holding
    <3>5. r.client = ClientOf[r.user]
      BY <2>0, <3>1, <3>3 DEF Claim
    <3> QED
      BY <1>5, <3>1, <3>3, <3>4, <3>5
  <2>2. CASE RefreshOwner(p)
    <3>1. req[p].pc = "owner" /\ Holding(req[p])
      BY <2>2 DEF RefreshOwner, Holding
    <3>2. OwnedByCaller(req[p]) => req[p].client = ClientOf[req[p].user]
      BY DEF OwnedByCaller
    <3>3. req[p].mode = "rotated" => req[p].tok \in Issued /\ Was(req[p].tok)
      BY <2>0 DEF Claim
    <3>4. /\ "prepare" \in Position /\ "candidate" \in Position
          /\ "refresh" \in Mode /\ "direct" \in Mode
      BY DEF Position, Mode
    <3> QED
      BY <1>4, <1>6, <1>8, <2>2, <3>1, <3>2, <3>3, <3>4 DEF RefreshOwner
  <2>3. CASE Rotate(p)
    <3>1. /\ req[p].client = ClientOf[req[p].user] /\ Holding(req[p])
      BY <2>0, <2>3 DEF Rotate, Claim, Holding
    <3>2. "candidate" \in Position /\ "lost" \in Mode
      BY DEF Position, Mode
    <3> QED
      BY <1>4, <1>6, <2>3, <3>1, <3>2 DEF Rotate
  <2>4. CASE Candidate(p)
    <3>1. /\ req[p].client = ClientOf[req[p].user] /\ Holding(req[p])
          /\ req[p].pc = "candidate" /\ "prepare" \in Position
      BY <2>0, <2>4 DEF Candidate, Claim, Holding, Position
    <3> QED
      BY <1>7, <1>9, <2>4, <3>1 DEF Candidate
  <2>5. CASE Retry(p)
    BY <1>4, <1>9, <2>5 DEF Retry
  <2>6. CASE Latest(p)
    <3>1. req[p].client = ClientOf[req[p].user]
      BY <2>0, <2>6 DEF Latest, Claim
    <3>2. req[p].tok \in stored /\ Rotated(row[req[p].tok]) =>
             req[p].tok \in Issued /\ Was(req[p].tok)
      BY <1>0 DEF TypeOK, Issued, RotatedWas
    <3> QED
      BY <1>4, <1>8, <2>6, <3>1, <3>2 DEF Latest
  <2>7. CASE SnapshotAll(p)
    <3> DEFINE ids == {t \in {x \in stored : row[x].user = req[p].user} :
                          Selects(req[p].mode, t)}
               r == [req[p] EXCEPT !.pc = "apply", !.ids = ids]
    <3>1. req' = [req EXCEPT ![p] = r] /\ req[p].pc = "snapshot"
      BY <2>7, Zenon DEF SnapshotAll
    <3>2. \A t \in ids : t \in Issued /\ row[t].user = req[p].user
      BY <1>0 DEF TypeOK, Issued
    <3> HIDE DEF ids
    <3>3. /\ r.pc = "apply" /\ r.user = req[p].user /\ r.client = req[p].client
          /\ r.tok = req[p].tok /\ r.ids = ids /\ r.mode = req[p].mode
      BY <2>0 DEF Request
    <3> HIDE DEF r
    <3>4. Claim(r)
      BY <2>0, <3>1, <3>2, <3>3 DEF Claim, Holding
    <3> QED
      BY <1>2, <3>1, <3>4
  <2> QED
    BY <1>4, <1>11, <2>1, <2>2, <2>3, <2>4, <2>5, <2>6, <2>7
       DEF Continue, InsertSession, ApplyAll, LogoutUpdate
<1>12. CASE req' = req
  <2> SUFFICES ASSUME NEW q \in Slot PROVE Claim(req[q])'
    OBVIOUS
  <2>1. Claim(req[q]) /\ req'[q] = req[q]
    BY <1>0, <1>12
  <2> QED
    BY <2>1, RowsStay DEF Claim
<1> QED
  BY <1>4, <1>10, <1>11, <1>12
     DEF Next, Abort, Reactivate, RevokeOne, Cleanup, Tick, vars

LEMMA ClaimsInit == Init => Claims
<1> SUFFICES ASSUME Init PROVE Claims
  OBVIOUS
<1>1. issued = Cardinality(LegacyOwner) /\ issued \in Nat
  BY LegacyAssumption, FS_CardinalityType DEF Init
<1>2. RotatedWas
  BY <1>1 DEF RotatedWas, Was, Issued
<1>3. \A p \in Slot : Claim(req[p])
  BY DEF Init, Claim, Holding, Idle
<1> QED
  BY <1>2, <1>3 DEF Claims

LEMMA ClaimsHold == Spec => [](IInv /\ Claims)
<1>1. IInv /\ Claims /\ [Next]_vars => Claims'
  BY ClaimsStep, RotatedStep DEF Claims
<1> QED
  BY <1>1, ClaimsInit, InvInit, InvStep, PTL DEF Spec

(* Whatever happens to a token while its refresh is under way, a replay is *)
(* declared only of one that has been redeemed.                            *)
THEOREM ReplayOfRedeemed == Spec => []ReplayOnlyOfRedeemed
<1>1. IInv /\ Claims => ReplayOnlyOfRedeemed
  BY DEF Claims, Claim, ReplayOnlyOfRedeemed
<1> QED
  BY <1>1, ClaimsHold, PTL

LEMMA Redeeming ==
    ASSUME IInv, [Next]_vars, issued' > issued, row'[issued'].root # issued'
    PROVE  \E p \in Slot : LET t == req[p].tok IN
               /\ t \in Issued
               /\ row'[t].next = issued'
               /\ row'[t].op = req[p].op
               /\ row[t].op \in {NoOp, req[p].op}
<1>0. TypeOK /\ Links /\ issued \in Nat
  BY DEF IInv, TypeOK
<1>1. issued' # issued
  BY <1>0
<1>2. \A p \in Slot : ~InsertSession(p)
  BY <1>0, InsertWrites
<1>3. ASSUME NEW p \in Slot, Rotate(p)
      PROVE  /\ req[p].tok \in Issued
             /\ row'[req[p].tok].next = issued'
             /\ row'[req[p].tok].op = req[p].op
             /\ row[req[p].tok].op = NoOp
  <2>1. /\ issued' = issued + 1 /\ req[p].tok \in Issued /\ ~row[req[p].tok].revoked
        /\ row'[req[p].tok].next = issued + 1 /\ row'[req[p].tok].op = req[p].op
    BY <1>0, <1>1, <1>3, RotateWrites
  <2> QED
    BY <1>0, <2>1 DEF Links
<1>4. ASSUME NEW p \in Slot, Retry(p)
      PROVE  /\ req[p].tok \in Issued
             /\ row'[req[p].tok].next = issued'
             /\ row'[req[p].tok].op = req[p].op
             /\ row[req[p].tok].op = req[p].op
  BY <1>0, <1>1, <1>4, RetryWrites
<1>5. \A p \in Slot : ~ApplyAll(p) /\ ~LogoutUpdate(p)
  BY <1>0, <1>1, RevocationWrites
<1>6. \A u \in User, t \in stored : ~RevokeOne(u, t)
  BY <1>0, <1>1, RevokeOneWrites
<1> QED
  BY <1>0, <1>1, <1>2, <1>3, <1>4, <1>5, <1>6, Writers

(* Every successor a token is given was asked for under the operation id    *)
(* of its first redemption.                                                *)
THEOREM OneOperation == Spec => RedeemedByOneOperation
<1> DEFINE A == issued' > issued /\ row'[issued'].root # issued' =>
                   \E p \in Slot : LET t == req[p].tok IN
                      /\ t \in Issued
                      /\ row'[t].next = issued'
                      /\ row'[t].op = req[p].op
                      /\ row[t].op \in {NoOp, req[p].op}
<1>1. IInv /\ [Next]_vars => [A]_vars
  BY Redeeming
<1>2. Spec => [][A]_vars
  BY <1>1, Invariance, PTL DEF Spec
<1> QED
  BY <1>2 DEF RedeemedByOneOperation

LEMMA Bound ==
    ASSUME IInv, Claims, Next, NEW t \in 1..issued',
           t \in Issued => row'[t] # row[t]
    PROVE  \/ \E p \in Slot : /\ req[p] # Idle /\ req'[p] = Idle
                              /\ req[p].user = row'[t].user
                              /\ req[p].client = ClientOf[row'[t].user]
           \/ \E u \in User : RevokeOne(u, t)
<1>0. TypeOK /\ Links /\ issued \in Nat /\ \A p \in Slot : Claim(req[p])
  BY DEF IInv, TypeOK, Claims
<1>1. ASSUME NEW p \in Slot, req'[p] = Idle, req[p].user = row'[t].user,
             req[p].pc \in {"insert", "rotate", "retry", "apply", "logout"}
      PROVE  /\ req[p] # Idle /\ req'[p] = Idle
             /\ req[p].user = row'[t].user
             /\ req[p].client = ClientOf[row'[t].user]
  <2>1. req[p] # Idle
    BY <1>1 DEF Idle
  <2>2. req[p].client = ClientOf[req[p].user]
    BY <1>0, <1>1 DEF Claim
  <2> QED
    BY <1>1, <2>1, <2>2
<1>2. issued' = issued + 1 => t \in Issued \/ t = issued + 1
  BY <1>0 DEF Issued
<1>3. t \in Issued => row'[t].user = row[t].user
  BY RowsStay
<1>4. ASSUME NEW p \in Slot, InsertSession(p)
      PROVE  req'[p] = Idle /\ req[p].user = row'[t].user /\ req[p].pc = "insert"
  <2>1. t = issued + 1 /\ req'[p] = Idle
    BY <1>0, <1>2, <1>4, InsertWrites
  <2>2. row'[issued + 1].user = req[p].user
    BY <1>0, <1>4, InsertWrites
  <2> QED
    BY <1>4, <2>1, <2>2 DEF InsertSession
<1>5. ASSUME NEW p \in Slot, Rotate(p)
      PROVE  req'[p] = Idle /\ req[p].user = row'[t].user /\ req[p].pc = "rotate"
  <2>1. req[p].pc = "rotate"
    BY <1>5 DEF Rotate
  <2>2. row[req[p].tok].user = req[p].user
    BY <1>0, <2>1 DEF Claim, Holding
  <2>3. ~UNCHANGED <<issued, row, stored>>
    BY DEF Issued
  <2> QED
    BY <1>0, <1>2, <1>3, <1>5, <2>1, <2>2, <2>3, RotateWrites
<1>6. ASSUME NEW p \in Slot, Retry(p)
      PROVE  req'[p] = Idle /\ req[p].user = row'[t].user /\ req[p].pc = "retry"
  <2>1. req[p].pc = "retry"
    BY <1>6 DEF Retry
  <2>2. row[req[p].tok].user = req[p].user
    BY <1>0, <2>1 DEF Claim, Holding
  <2>3. ~UNCHANGED <<issued, row, stored>>
    BY DEF Issued
  <2> QED
    BY <1>0, <1>2, <1>3, <1>6, <2>1, <2>2, <2>3, RetryWrites
<1>7. ASSUME NEW p \in Slot, ApplyAll(p) \/ LogoutUpdate(p)
      PROVE  req'[p] = Idle /\ req[p].user = row'[t].user /\ req[p].pc \in {"apply", "logout"}
  <2>1. /\ req'[p] = Idle /\ t \in Issued
        /\ t \in req[p].ids \/ (req[p].pc = "logout" /\ t = req[p].tok)
    BY <1>0, <1>7, RevocationWrites DEF Issued
  <2>2. row[t].user = req[p].user
    BY <1>0, <2>1 DEF Claim, Holding
  <2> QED
    BY <1>3, <1>7, <2>1, <2>2 DEF ApplyAll, LogoutUpdate
<1>8. ASSUME NEW u \in User, NEW s \in stored, RevokeOne(u, s)
      PROVE  RevokeOne(u, t)
  <2>1. t = s
    BY <1>0, <1>8, RevokeOneWrites DEF Issued
  <2> QED
    BY <1>8, <2>1
<1>9. ~UNCHANGED <<issued, row>>
  BY DEF Issued
<1> QED
  BY <1>0, <1>1, <1>4, <1>5, <1>6, <1>7, <1>8, <1>9, Writers

(* No row is inserted or changed for an application but its owner's, and a *)
(* request writes the rows of one account alone.                           *)
THEOREM BoundToOwner == Spec => BoundToClient
<1> DEFINE A == \A t \in 1..issued' :
                   (t \in Issued => row'[t] # row[t]) =>
                      \/ \E p \in Slot : /\ req[p] # Idle /\ req'[p] = Idle
                                         /\ req[p].user = row'[t].user
                                         /\ req[p].client = ClientOf[row'[t].user]
                      \/ \E u \in User : RevokeOne(u, t)
<1>1. IInv /\ Claims /\ [Next]_vars => [A]_vars
  BY Bound
<1>2. Spec => [][A]_vars
  BY <1>1, ClaimsHold, PTL DEF Spec
<1> QED
  BY <1>2 DEF BoundToClient

-----------------------------------------------------------------------------
(* The consumer of RefreshClient *)

(* A request is served over a connection that carries its token; an answer *)
(* that brings a pair brings one issued after that token.                  *)
Connected(p) ==
    LET w == wire[p] IN
    /\ w.state # "free" => w.tok \in Issued /\ w.op \in Op
    /\ req[p] # Idle => w.state = "open"
    /\ w.pair <= issued
    /\ w.state = "answered" => w.pair = NoToken \/ w.pair > w.tok
    /\ Awaited(p) /\ w.state # "free" => w.tok = call.tok

(* A call is about the token the consumer has stored, and undecided.       *)
Calling == call.state # "none" =>
              /\ call.tok = held /\ held \in Issued
              /\ call.op \in Op /\ outcome[call.op] = "open"

ConsumerInv ==
    /\ held \in 0..issued
    /\ call \in Call
    /\ wire \in [Slot -> Wire]
    /\ outcome \in [Op -> Outcome]
    /\ failures \in 0..MaxFailures
    /\ overtaken \in BOOLEAN
    /\ Calling
    /\ \A p \in Slot : Connected(p)

ClientInv == IInv /\ Claims /\ ConsumerInv

LEMMA OwnerType == Owner \in User /\ ClientOf[Owner] \in Client
  BY UserAssumption DEF Owner, AnyUser

LEMMA FreeType == Free \in Wire
  BY DEF Free, Wire, NoToken

LEMMA NoCallType == NoCall \in Call
<1>1. (CHOOSE p \in Slot : TRUE) \in Slot
  BY ClientAssumption
<1> QED
  BY <1>1 DEF NoCall, Call, NoToken

(* The steps of the consumer and of the connection are steps of the        *)
(* platform, or none of its own.                                           *)
LEMMA ClientSteps ==
    ASSUME ConsumerInv, [ClientNext]_allvars
    PROVE  [Next]_vars
<1>1. ASSUME NEW p \in Slot, Arrive(p) PROVE Next
  <2>1. /\ RefreshBegin(p, wire[p].tok, wire[p].op, ClientOf[Owner])
        /\ wire[p].state = "sent"
    BY <1>1 DEF Arrive
  <2>2. wire[p].op \in Op
    BY <2>1 DEF ConsumerInv, Connected
  <2>3. wire[p].tok \in stored
    BY <2>1 DEF RefreshBegin
  <2> QED
    BY <2>1, <2>2, <2>3, OwnerType DEF Next, Begin
<1>2. ASSUME NEW p \in Slot, Serve(p) PROVE Next
  BY <1>2 DEF Serve, Next
<1>3. ASSUME NEW p \in Slot, Crash(p) PROVE Next
  BY <1>3 DEF Crash, Next
<1>4. ClientTick => Next
  BY DEF ClientTick, Next
<1>6. ASSUME NEW p \in Slot, ServerError(p) PROVE Next \/ UNCHANGED vars
  BY <1>6 DEF ServerError, Next
<1>5. ASSUME \/ Consume \/ GiveUp
             \/ \E p \in Slot : LoseRequest(p) \/ LoseReply(p)
             \/ UNCHANGED allvars
      PROVE  UNCHANGED vars
  BY <1>5 DEF Consume, Refresh, Resend, Receive, Discard, GiveUp, LoseRequest,
     LoseReply, allvars
<1> QED
  BY <1>1, <1>2, <1>3, <1>4, <1>5, <1>6 DEF ClientNext, Serving, Losing

LEMMA ClientFirst == ClientInit => IInv /\ Claims
<1> SUFFICES ASSUME ClientInit PROVE IInv /\ Claims
  OBVIOUS
<1> DEFINE r == NewRow(Owner, 1, 0)
<1>1. /\ r \in Row /\ r.root = 1 /\ r.op = NoOp /\ r.next = NoToken /\ ~r.revoked
  BY OwnerType, NewRowType DEF NewRow
<1>2. row = [t \in 1..1 |-> r] /\ issued = 1 /\ Issued = {1}
  BY DEF ClientInit, Issued
<1> HIDE DEF r
<1>3. row[1] = r /\ row \in [1..issued -> Row]
  BY <1>1, <1>2
<1>4. TypeOK
  BY <1>2, <1>3, IdleType, BoundAssumption, ClientAssumption
     DEF ClientInit, TypeOK
<1>5. Asked
  BY DEF ClientInit, Asked, Asking, Idle
<1>6. Links
  BY <1>1, <1>2, <1>3 DEF Links
<1>7. OneLivePerLogin /\ LiveIsRecordedSuccessor
  BY <1>1, <1>2, <1>3 DEF OneLivePerLogin, LiveIsRecordedSuccessor, Live
<1>8. RotatedWas
  BY <1>1, <1>2, <1>3 DEF RotatedWas, Rotated
<1>9. \A p \in Slot : Claim(req[p])
  BY DEF ClientInit, Claim, Holding, Idle
<1> QED
  BY <1>4, <1>5, <1>6, <1>7, <1>8, <1>9 DEF IInv, Claims

LEMMA ConsumerInit == ClientInit => ConsumerInv
<1> SUFFICES ASSUME ClientInit PROVE ConsumerInv
  OBVIOUS
<1>1. ASSUME NEW p \in Slot PROVE Connected(p)
  BY DEF ClientInit, Connected, Free, Awaited, NoCall, NoToken
<1>2. Calling
  BY DEF ClientInit, Calling, NoCall
<1>3. outcome \in [Op -> Outcome]
  BY DEF ClientInit, Outcome
<1>4. overtaken \in BOOLEAN
  BY DEF ClientInit
<1>5. wire \in [Slot -> Wire]
  BY FreeType DEF ClientInit
<1>6. held \in 0..issued /\ call \in Call /\ failures \in 0..MaxFailures
  BY NoCallType, ClientAssumption DEF ClientInit
<1> QED
  BY <1>1, <1>2, <1>3, <1>4, <1>5, <1>6 DEF ConsumerInv

LEMMA IssuedGrows ==
    ASSUME IInv, [Next]_vars
    PROVE  issued \in Nat /\ issued' \in {issued, issued + 1}
<1>1. issued \in Nat /\ RowStep
  BY EveryStep DEF IInv, TypeOK
<1> QED
  BY <1>1 DEF RowStep, OnlyRevokes, NewLogin, Renewal

(* A step of one handler, as the connections see it.                       *)
LEMMA ContinueOne ==
    ASSUME TypeOK, NEW p \in Slot, Continue(p)
    PROVE  /\ req[p] # Idle
           /\ \A q \in Slot \ {p} : req'[q] = req[q]
           /\ UNCHANGED <<active, now>>
<1>1. req[p].pc # "idle" /\ UNCHANGED <<active, now>>
  BY DEF Continue, Prepare, InsertSession, RefreshOwner, Rotate, Candidate,
     Retry, Latest, SnapshotAll, ApplyAll, LogoutUpdate
<1>2. \E r : req' = [req EXCEPT ![p] = r]
  BY DEF Continue, Prepare, InsertSession, RefreshOwner, Rotate, Candidate,
     Retry, Latest, SnapshotAll, ApplyAll, LogoutUpdate, Goto, GotoAs, Answer,
     BeginReplay, Refused
<1> QED
  BY <1>1, <1>2 DEF Idle, TypeOK

(* A step that changes one connection and nothing of the consumer's own.   *)
LEMMA OneWire ==
    ASSUME ConsumerInv, NEW p \in Slot, NEW w \in Wire,
           wire' = [wire EXCEPT ![p] = w],
           UNCHANGED <<held, call, outcome, overtaken>>,
           failures' \in 0..MaxFailures,
           issued \in Nat, issued' \in {issued, issued + 1},
           \A q \in Slot \ {p} : req'[q] = req[q],
           Connected(p)'
    PROVE  ConsumerInv'
<1>1. /\ wire' \in [Slot -> Wire] /\ wire'[p] = w
      /\ \A q \in Slot \ {p} : wire'[q] = wire[q]
  BY DEF ConsumerInv
<1>2. ASSUME NEW q \in Slot PROVE Connected(q)'
  <2>1. CASE q = p
    BY <2>1
  <2>2. CASE q # p
    <3>1. Connected(q) /\ wire'[q] = wire[q] /\ req'[q] = req[q] /\ wire[q] \in Wire
      BY <1>1, <2>2 DEF ConsumerInv
    <3>2. wire[q].pair \in Nat /\ wire[q].tok \in Nat
      BY <3>1 DEF Wire
    <3> QED
      BY <3>1, <3>2 DEF Connected, Awaited, Issued
  <2> QED
    BY <2>1, <2>2
<1>3. Calling'
  BY DEF ConsumerInv, Calling, Issued
<1>4. held' \in 0..issued'
  BY DEF ConsumerInv
<1> QED
  BY <1>1, <1>2, <1>3, <1>4 DEF ConsumerInv

LEMMA CallStep ==
    ASSUME ConsumerInv, NEW p \in Slot,
           Refresh(p) \/ Resend(p) \/ Receive(p), IInv
    PROVE  ConsumerInv'
<1>0. /\ UNCHANGED vars /\ issued \in Nat /\ now \in Nat /\ Issued' = Issued
      /\ UNCHANGED <<failures, overtaken>> /\ wire \in [Slot -> Wire]
      /\ call \in Call /\ outcome \in [Op -> Outcome]
  BY DEF Refresh, Resend, Receive, vars, IInv, TypeOK, ConsumerInv, Issued
<1>1. ASSUME NEW tok \in Issued, NEW op \in Op, Send(p, tok, op),
             UNCHANGED held, held = tok, outcome' \in [Op -> Outcome],
             outcome'[op] = "open"
      PROVE  ConsumerInv'
  <2> DEFINE c == [state |-> "waiting", tok |-> tok, op |-> op, slot |-> p,
                   since |-> now]
             w == [Free EXCEPT !.state = "sent", !.tok = tok, !.op = op,
                               !.since = now]
  <2>1. tok \in Nat
    BY <1>0 DEF Issued
  <2>2. c \in Call
    BY <1>0, <2>1 DEF Call
  <2>3. /\ w \in Wire /\ w.state = "sent" /\ w.tok = tok /\ w.op = op
        /\ w.pair = NoToken
    BY <1>0, <2>1 DEF Wire, Free, NoToken
  <2>4. call' = c /\ wire' = [wire EXCEPT ![p] = w] /\ wire[p] = Free
    BY <1>1 DEF Send
  <2>5. c.state = "waiting" /\ c.tok = tok /\ c.op = op /\ c.slot = p
    OBVIOUS
  <2> HIDE DEF c, w
  <2>6. /\ wire' \in [Slot -> Wire] /\ wire'[p] = w
        /\ \A q \in Slot \ {p} : wire'[q] = wire[q]
    BY <1>0, <2>3, <2>4
  <2>7. Calling'
    BY <1>0, <1>1, <2>4, <2>5 DEF Calling
  <2>8. ASSUME NEW q \in Slot PROVE Connected(q)'
    <3>1. CASE q = p
      <4>1. req[p] = Idle
        BY <2>4 DEF ConsumerInv, Connected, Free
      <4>2. NoToken <= issued
        BY <1>0 DEF NoToken
      <4> QED
        BY <1>0, <1>1, <2>3, <2>4, <2>5, <2>6, <3>1, <4>1, <4>2
           DEF Connected, vars
    <3>2. CASE q # p
      <4>1. ~Awaited(q)'
        BY <2>4, <2>5, <3>2 DEF Awaited
      <4> QED
        BY <1>0, <2>6, <3>2, <4>1 DEF ConsumerInv, Connected, vars
    <3> QED
      BY <3>1, <3>2
  <2> QED
    BY <1>0, <1>1, <2>2, <2>4, <2>6, <2>7, <2>8 DEF ConsumerInv, vars
<1>2. CASE Refresh(p)
  <2>1. PICK op \in Op : /\ Send(p, held, op)
                         /\ outcome' = [outcome EXCEPT ![op] = "open"]
    BY <1>2 DEF Refresh
  <2>2. held \in Issued /\ UNCHANGED held
    BY <1>0, <1>2 DEF Refresh, ConsumerInv, Issued, NoToken
  <2>3. outcome' \in [Op -> Outcome] /\ outcome'[op] = "open"
    BY <1>0, <2>1 DEF Outcome
  <2> QED
    BY <1>1, <2>1, <2>2, <2>3 DEF ConsumerInv
<1>3. CASE Resend(p)
  <2>1. /\ Send(p, call.tok, call.op) /\ UNCHANGED <<held, outcome>>
        /\ call.state # "none"
    BY <1>3 DEF Resend, ResendOp
  <2>2. /\ call.tok = held /\ call.tok \in Issued
        /\ call.op \in Op /\ outcome[call.op] = "open"
    BY <2>1 DEF ConsumerInv, Calling
  <2> QED
    BY <1>0, <1>1, <2>1, <2>2
<1>4. CASE Receive(p)
  <2>1. /\ held' = TokenAfter(wire[p]) /\ call' = NoCall
        /\ outcome' = [outcome EXCEPT ![call.op] = Verdict(wire[p])]
        /\ wire' = [wire EXCEPT ![p] = Free]
        /\ wire[p].state \in {"answered", "failed"}
    BY <1>4 DEF Receive, Answered
  <2>2. held' \in 0..issued
    BY <1>0, <2>1 DEF ConsumerInv, Connected, Wire, TokenAfter
  <2>a. outcome' \in [Op -> Outcome]
    <3>1. Verdict(wire[p]) \in Outcome
      BY DEF Verdict, Outcome
    <3> QED
      BY <1>0, <2>1, <3>1
  <2>3. /\ wire' \in [Slot -> Wire] /\ wire'[p] = Free
        /\ \A q \in Slot \ {p} : wire'[q] = wire[q]
    BY <1>0, <2>1, FreeType
  <2>4. \A q \in Slot : ~Awaited(q)'
    BY <2>1 DEF Awaited, NoCall
  <2>5. ASSUME NEW q \in Slot PROVE Connected(q)'
    <3>1. CASE q = p
      <4>1. req[p] = Idle
        BY <2>1 DEF ConsumerInv, Connected
      <4> QED
        BY <1>0, <2>3, <2>4, <3>1, <4>1 DEF Connected, Free, vars, NoToken
    <3>2. CASE q # p
      BY <1>0, <2>3, <2>4, <3>2 DEF ConsumerInv, Connected, vars
    <3> QED
      BY <3>1, <3>2
  <2>6. Calling'
    BY <2>1 DEF Calling, NoCall
  <2> QED
    BY <1>0, <2>1, <2>2, <2>a, <2>3, <2>5, <2>6, NoCallType DEF ConsumerInv, vars
<1> QED
  BY <1>2, <1>3, <1>4

LEMMA GiveUpStep ==
    ASSUME ConsumerInv, GiveUp, IInv
    PROVE  ConsumerInv'
<1>0. /\ UNCHANGED vars /\ UNCHANGED <<held, wire, outcome>> /\ call \in Call
      /\ overtaken' \in BOOLEAN
      /\ call.state = "waiting"
      /\ call' = [call EXCEPT !.state = "ambiguous"] /\ Issued' = Issued
  BY DEF GiveUp, Unfinished, vars, ConsumerInv, Issued
<1>1. failures' \in 0..MaxFailures
  BY ClientAssumption DEF GiveUp, Ambiguous, Fail, ConsumerInv
<1>2. /\ call' \in Call /\ call'.state = "ambiguous" /\ call'.tok = call.tok
      /\ call'.op = call.op
  BY <1>0 DEF Call
<1>3. Calling'
  BY <1>0, <1>2 DEF Calling, ConsumerInv
<1>4. ASSUME NEW q \in Slot PROVE Connected(q)'
  <2>1. ~Awaited(q)' /\ Connected(q)
    BY <1>2 DEF Awaited, ConsumerInv
  <2> QED
    BY <1>0, <2>1 DEF Connected, vars
<1> QED
  BY <1>0, <1>1, <1>2, <1>3, <1>4 DEF ConsumerInv, vars

LEMMA Freed ==
    ASSUME ConsumerInv, NEW p \in Slot, wire' = [wire EXCEPT ![p] = Free],
           UNCHANGED <<held, call, outcome, overtaken>>,
           failures' \in 0..MaxFailures,
           issued \in Nat, issued' \in {issued, issued + 1},
           \A q \in Slot \ {p} : req'[q] = req[q], req'[p] = Idle
    PROVE  ConsumerInv'
<1>1. wire'[p] = Free
  BY DEF ConsumerInv
<1>2. Connected(p)'
  BY <1>1 DEF Connected, Free, NoToken
<1> QED
  BY <1>2, FreeType, OneWire

LEMMA WireStep ==
    ASSUME ConsumerInv, IInv, NEW p \in Slot,
           Discard(p) \/ LoseRequest(p) \/ LoseReply(p) \/ Crash(p)
    PROVE  ConsumerInv'
<1>0. TypeOK /\ issued \in Nat
  BY DEF IInv, TypeOK
<1>1. failures' \in 0..MaxFailures
  BY ClientAssumption
     DEF Discard, LoseRequest, LoseReply, Crash, Fail, ConsumerInv
<1>2. /\ wire' = [wire EXCEPT ![p] = Free]
      /\ UNCHANGED <<held, call, outcome, overtaken, issued>>
  BY DEF Discard, LoseRequest, LoseReply, Crash, Abort, vars
<1>3. CASE Crash(p)
  <2>1. req'[p] = Idle /\ \A q \in Slot \ {p} : req'[q] = req[q]
    BY <1>0, <1>3 DEF Crash, Abort, Answer, TypeOK
  <2> QED
    BY <1>0, <1>1, <1>2, <2>1, Freed
<1>4. CASE Discard(p) \/ LoseRequest(p) \/ LoseReply(p)
  <2>1. UNCHANGED req /\ wire[p].state # "open"
    BY <1>4 DEF Discard, LoseRequest, LoseReply, Answered, vars
  <2>2. req[p] = Idle
    BY <2>1 DEF ConsumerInv, Connected
  <2> QED
    BY <1>0, <1>1, <1>2, <2>1, <2>2, Freed
<1> QED
  BY <1>3, <1>4

LEMMA ErrorStep ==
    ASSUME ConsumerInv, IInv, NEW p \in Slot, ServerError(p)
    PROVE  ConsumerInv'
<1> DEFINE w == [wire[p] EXCEPT !.state = "failed", !.pair = NoToken]
<1>0. TypeOK /\ issued \in Nat /\ wire[p] \in Wire /\ Connected(p)
  BY DEF IInv, TypeOK, ConsumerInv
<1>a. failures' \in 0..MaxFailures
  BY ClientAssumption DEF ServerError, Fail, ConsumerInv
<1>b. UNCHANGED issued
  BY DEF ServerError, Abort, vars
<1>1. /\ UNCHANGED <<held, call, outcome, overtaken, issued>>
      /\ wire' = [wire EXCEPT ![p] = w] /\ failures' \in 0..MaxFailures
  BY <1>a, <1>b DEF ServerError
<1>2. /\ w \in Wire /\ w.state = "failed" /\ w.tok = wire[p].tok
      /\ w.op = wire[p].op /\ w.pair = NoToken
  BY <1>0 DEF Wire, NoToken
<1> HIDE DEF w
<1>3. wire'[p] = w
  BY <1>1 DEF ConsumerInv
<1>4. /\ req'[p] = Idle /\ \A q \in Slot \ {p} : req'[q] = req[q]
      /\ wire[p].state # "free"
  <2>1. CASE Abort(p)
    <3>1. req[p] # Idle
      BY <2>1 DEF Abort, Idle
    <3> QED
      BY <1>0, <2>1, <3>1 DEF Abort, Answer, TypeOK, Connected
  <2>2. CASE UNCHANGED vars /\ wire[p].state \in {"sent", "answered"}
    BY <1>0, <2>2 DEF Connected, vars
  <2> QED
    BY <2>1, <2>2 DEF ServerError
<1>5. Connected(p)'
  BY <1>0, <1>1, <1>2, <1>3, <1>4 DEF Connected, Awaited, Issued, NoToken
<1> QED
  BY <1>0, <1>1, <1>2, <1>4, <1>5, OneWire

LEMMA ArriveStep ==
    ASSUME ConsumerInv, IInv, NEW p \in Slot, Arrive(p)
    PROVE  ConsumerInv'
<1> DEFINE w == [wire[p] EXCEPT !.state = "open"]
<1>0. /\ TypeOK /\ issued \in Nat /\ wire[p] \in Wire /\ Connected(p)
      /\ failures \in 0..MaxFailures
  BY DEF IInv, TypeOK, ConsumerInv
<1>1. /\ wire[p].state = "sent"
      /\ UNCHANGED <<held, call, outcome, failures, overtaken, issued>>
      /\ wire' = [wire EXCEPT ![p] = w]
      /\ \A q \in Slot \ {p} : req'[q] = req[q]
  BY <1>0 DEF Arrive, RefreshBegin, Start, TypeOK
<1>2. /\ w \in Wire /\ w.state = "open" /\ w.tok = wire[p].tok /\ w.op = wire[p].op
      /\ w.pair = wire[p].pair
  BY <1>0 DEF Wire
<1> HIDE DEF w
<1>3. wire'[p] = w
  BY <1>1 DEF ConsumerInv
<1>4. Connected(p)'
  BY <1>0, <1>1, <1>2, <1>3 DEF Connected, Awaited, Issued
<1> QED
  BY <1>0, <1>1, <1>2, <1>4, OneWire

LEMMA ServeStep ==
    ASSUME ConsumerInv, IInv, NEW p \in Slot, Serve(p)
    PROVE  ConsumerInv'
<1>0. /\ TypeOK /\ wire[p] \in Wire /\ Connected(p)
      /\ failures \in 0..MaxFailures
      /\ UNCHANGED <<held, call, outcome, failures, overtaken>>
      /\ wire \in [Slot -> Wire]
  BY DEF IInv, ConsumerInv, Serve
<1>1. /\ req[p] # Idle /\ \A q \in Slot \ {p} : req'[q] = req[q]
      /\ issued \in Nat /\ issued' \in {issued, issued + 1}
  <2>1. [Next]_vars
    BY DEF Serve, Next
  <2> QED
    BY <1>0, <2>1, ContinueOne, IssuedGrows DEF Serve
<1>2. wire[p].state = "open" /\ wire[p].tok \in Issued /\ wire[p].op \in Op
  BY <1>0, <1>1 DEF Connected
<1>3. CASE req'[p] = Idle
  <2> DEFINE w == [wire[p] EXCEPT !.state = "answered", !.pair = Pair]
  <2>1. wire' = [wire EXCEPT ![p] = w]
    BY <1>3 DEF Serve
  <2>2. /\ Pair \in Nat /\ Pair <= issued'
        /\ Pair = NoToken \/ Pair > wire[p].tok
    BY <1>1, <1>2 DEF Pair, NoToken, Issued
  <2>3. /\ w \in Wire /\ w.state = "answered" /\ w.tok = wire[p].tok
        /\ w.op = wire[p].op /\ w.pair = Pair
    BY <1>0, <2>2 DEF Wire
  <2> HIDE DEF w
  <2>4. wire'[p] = w
    BY <1>0, <2>1
  <2>5. Connected(p)'
    BY <1>0, <1>1, <1>2, <1>3, <2>2, <2>3, <2>4 DEF Connected, Awaited, Issued
  <2> QED
    BY <1>0, <1>1, <2>1, <2>3, <2>5, OneWire
<1>4. CASE req'[p] # Idle
  <2>1. wire' = wire
    BY <1>4 DEF Serve
  <2>2. wire' = [wire EXCEPT ![p] = wire[p]]
    BY <1>0, <2>1
  <2>3. wire[p].pair \in Nat
    BY <1>0 DEF Wire
  <2>4. Connected(p)'
    BY <1>0, <1>1, <1>2, <2>1, <2>3 DEF Connected, Awaited, Issued
  <2> QED
    BY <1>0, <1>1, <2>2, <2>4, OneWire
<1> QED
  BY <1>3, <1>4

LEMMA ConsumerStep ==
    ASSUME ConsumerInv, IInv, [ClientNext]_allvars
    PROVE  ConsumerInv'
<1>1. ASSUME UNCHANGED <<req, issued, cvars>> PROVE ConsumerInv'
  <2>1. \A p \in Slot : Connected(p)'
    BY <1>1 DEF ConsumerInv, Connected, Awaited, Issued, cvars
  <2> QED
    BY <1>1, <2>1 DEF ConsumerInv, Calling, Issued, cvars
<1>2. ClientTick \/ UNCHANGED allvars => UNCHANGED <<req, issued, cvars>>
  BY DEF ClientTick, Tick, allvars, vars
<1> QED
  BY <1>1, <1>2, CallStep, GiveUpStep, WireStep, ErrorStep, ArriveStep, ServeStep
     DEF ClientNext, Consume, Serving, Losing

LEMMA ClientInvHolds == ClientSpec => []ClientInv
<1>1. ClientInit => ClientInv
  BY ClientFirst, ConsumerInit DEF ClientInv
<1>2. ClientInv /\ [ClientNext]_allvars => ClientInv'
  <2> SUFFICES ASSUME ClientInv, [ClientNext]_allvars PROVE ClientInv'
    OBVIOUS
  <2>1. [Next]_vars
    BY ClientSteps DEF ClientInv
  <2>2. IInv' /\ Claims'
    BY <2>1, InvStep, ClaimsStep, RotatedStep DEF ClientInv, Claims
  <2> QED
    BY <2>2, ConsumerStep DEF ClientInv
<1> QED
  BY <1>1, <1>2, PTL DEF ClientSpec

(* The consumer's state has its types, beside the platform's.              *)
THEOREM ClientTypeCorrect == ClientSpec => []ClientTypeOK
<1>1. ClientInv => ClientTypeOK
  BY DEF ClientInv, ConsumerInv, IInv, ClientTypeOK
<1> QED
  BY <1>1, ClientInvHolds, PTL

(* However calls overtake each other, time out and are repeated, a pair    *)
(* the consumer stores was issued after the one it replaces.               *)
THEOREM PairsOnlyAdvance == ClientSpec => PairsAdvance
<1> DEFINE A == held' # held /\ held' # NoToken => held' > held
<1>1. ASSUME ClientInv, [ClientNext]_allvars PROVE [A]_allvars
  <2>1. ASSUME NEW p \in Slot, Receive(p) PROVE A
    <3>1. /\ Answered(p) /\ Awaited(p) /\ held' = TokenAfter(wire[p])
      BY <2>1 DEF Receive
    <3>2. Connected(p) /\ Calling
      BY <1>1 DEF ClientInv, ConsumerInv
    <3>3. wire[p].tok = held
      BY <3>1, <3>2 DEF Connected, Calling, Awaited, Answered
    <3> QED
      BY <3>1, <3>2, <3>3 DEF Connected, TokenAfter, Answered
  <2>2. ASSUME \A p \in Slot : ~Receive(p) PROVE held' = held
    BY <1>1, <2>2 DEF ClientNext, Consume, Serving, Losing, Refresh, Resend,
       Discard, GiveUp, Arrive, Serve, LoseRequest, LoseReply, Crash,
       ServerError, ClientTick, cvars, allvars
  <2> QED
    BY <2>1, <2>2
<1>2. ClientInv /\ [ClientNext]_allvars => [A]_allvars
  BY <1>1
<1>3. ClientSpec => [][A]_allvars
  BY <1>2, ClientInvHolds, PTL DEF ClientSpec
<1> QED
  BY <1>3 DEF PairsAdvance
-----------------------------------------------------------------------------
(* The session of a consumer that no request of its own has overtaken       *)

(* A successor outlives the grace period of the token it replaced.         *)
GraceWithinLife == Grace < Life

(* Nothing but the consumer's own requests touches the family.             *)
Undisturbed == stored = Issued /\ \A u \in User : active[u]

(* t was redeemed, and what redeemed it is not repeated or comes too late. *)
Lost(t) ==
    /\ row[t].revoked /\ row[t].op # NoOp
    /\ \/ Dropped(t)
       \/ call.state # "none" /\ row[t].op = call.op /\ Late(t)

(* The consumer has one call out at a time; an answer that brings a pair   *)
(* brings a live one, and a 401 has a cause.                               *)
OneCall ==
    /\ call.since <= now
    /\ call.state = "waiting" => now <= call.since + Timeout
    /\ \A p \in Slot : wire[p].state # "free" =>
          /\ Awaited(p)
          /\ wire[p].op = call.op /\ wire[p].since = call.since
          /\ now <= call.since + Delay
          /\ wire[p].state = "answered" =>
                IF wire[p].pair = NoToken
                   THEN Lost(held) \/ row[held].exp <= now
                   ELSE ~row[wire[p].pair].revoked /\ row[wire[p].pair].user = Owner

(* t was rotated by the call under way, and its successor is unused.       *)
Redeemed(t) ==
    LET s == row[t].next IN
    /\ row[t].revoked /\ row[t].reason = "rotated" /\ row[t].op = call.op
    /\ row[t].at <= now
    /\ s \in Issued /\ ~row[s].revoked /\ row[s].user = row[t].user
    /\ row[s].exp >= row[t].at + Life

(* The consumer holds a live token, one it can still redeem, or a lost one.*)
Session ==
    held # NoToken =>
       /\ row[held].user = Owner
       /\ \/ ~row[held].revoked
          \/ call.state # "none" /\ Redeemed(held)
          \/ Lost(held)

(* Where a request can stand: it rotates the live token, or it repeats a   *)
(* rotation; "lost" is a rotation refused because the token had expired.   *)
Doing(r) ==
    /\ r.op = call.op
    /\ r.pc = "owner" => r.client = ClientOf[Owner]
    /\ \/ /\ ~row[held].revoked
          /\ \/ r.pc = "owner" /\ r.mode = "live"
             \/ r.pc = "prepare" /\ r.mode = "refresh"
             \/ r.pc = "rotate" /\ r.mode = "refresh"
                /\ call.since <= r.at /\ r.at <= now
             \/ r.pc \in {"candidate", "latest"} /\ r.mode = "lost"
                /\ row[held].exp <= now
       \/ /\ row[held].revoked
          /\ \/ r.pc = "owner" /\ r.mode = "rotated"
             \/ r.pc \in {"candidate", "prepare"} /\ r.mode = "direct"
             \/ r.pc = "retry" /\ r.mode = "direct" /\ row[held].at <= r.at

(* A request about a lost token inserts nothing.                           *)
Barren(r) ==
    /\ r.pc \notin {"insert", "logout"} /\ r.mode # "login"
    /\ r.op \in {call.op, NoOp}

Standing(r) ==
    /\ r.tok = held
    /\ \/ Doing(r)
       \/ Lost(held) /\ Barren(r)

Handled == \A p \in Slot : req[p] # Idle => Standing(req[p])

Uninterrupted == Undisturbed /\ OneCall /\ Session /\ Handled

SignedIn == ClientInv /\ Uninterrupted

LEMMA RedeemWrites ==
    ASSUME NEW r \in Row, NEW op, NEW at, NEW n
    PROVE  LET w == [r EXCEPT !.op = op, !.at = at, !.next = n] IN
           /\ w.op = op /\ w.at = at /\ w.next = n
           /\ w.revoked = r.revoked /\ w.reason = r.reason /\ w.user = r.user
  BY DEF Row

LEMMA RepointWrites ==
    ASSUME NEW r \in Row, NEW n
    PROVE  LET w == [r EXCEPT !.next = n] IN
           /\ w.op = r.op /\ w.at = r.at /\ w.next = n
           /\ w.revoked = r.revoked /\ w.reason = r.reason /\ w.user = r.user
  BY DEF Row

(* The rows after a rotation and after an accepted retry.                  *)
LEMMA RotateMakes ==
    ASSUME TypeOK, NEW p \in Slot, Rotate(p), Consumable(req[p].tok, req[p].at)
    PROVE  LET r == req[p] IN
           /\ issued' = issued + 1 /\ stored' = stored \cup {issued + 1}
           /\ req'[p] = Idle
           /\ r.tok \in Issued
           /\ row'[r.tok].revoked /\ row'[r.tok].reason = "rotated"
           /\ row'[r.tok].op = r.op /\ row'[r.tok].at = r.at
           /\ row'[r.tok].next = issued + 1 /\ row'[r.tok].user = row[r.tok].user
           /\ ~row'[issued + 1].revoked /\ row'[issued + 1].user = r.user
           /\ row'[issued + 1].exp = r.at + Life
<1> DEFINE r == req[p]
           t == r.tok
           old == [Revoke(row[t], "rotated") EXCEPT
                     !.op = r.op, !.at = r.at, !.next = issued + 1]
           rows == [row EXCEPT ![t] = old]
           new == NewRow(r.user, row[t].root, r.at)
<1>1. /\ row' = With(rows, new) /\ Answer(p)
      /\ issued' = issued + 1 /\ stored' = stored \cup {issued + 1}
  BY DEF Rotate
<1>a. t \in 1..issued
  BY DEF TypeOK, Consumable
<1>b. /\ issued \in Nat /\ row \in [1..issued -> Row]
      /\ req \in [Slot -> Request]
  BY BoundAssumption DEF TypeOK
<1>c. r \in Request
  BY <1>b
<1>d. row[t] \in Row
  BY <1>a, <1>b
<1>2. /\ t \in 1..issued /\ row[t] \in Row /\ r \in Request
      /\ issued \in Nat /\ row \in [1..issued -> Row]
      /\ req \in [Slot -> Request]
  BY <1>a, <1>b, <1>c, <1>d
<1>e. "rotated" \in Reason
  BY DEF Reason
<1>3. /\ Revoke(row[t], "rotated") \in Row
      /\ Revoke(row[t], "rotated").revoked
      /\ Revoke(row[t], "rotated").reason = "rotated"
      /\ Revoke(row[t], "rotated").user = row[t].user
  BY <1>2, <1>e, RevokeType, RevokeWrites
<1>4. r.op \in Op \cup {NoOp} /\ r.at \in Nat /\ issued + 1 \in Nat
  BY <1>2 DEF Request
<1>5. old \in Row
  BY <1>3, <1>4, RedeemType
<1>6. /\ old.next = issued + 1 /\ old.op = r.op /\ old.at = r.at
      /\ old.revoked /\ old.reason = "rotated" /\ old.user = row[t].user
  BY <1>3, RedeemWrites
<1>7. new \in Row
  BY <1>2, NewRowType DEF Row, Request
<1>8. new.user = r.user /\ ~new.revoked /\ new.exp = r.at + Life
  BY DEF NewRow
<1>9. req'[p] = Idle
  BY <1>1, <1>2 DEF Answer
<1> HIDE DEF old, r, t, new
<1>10. rows \in [1..issued -> Row] /\ rows[t] = old
  BY <1>2, <1>5
<1> HIDE DEF rows
<1>11. row'[t] = old /\ row'[issued + 1] = new
  <2>1. /\ With(rows, new)[issued + 1] = new
        /\ \A u \in 1..issued : With(rows, new)[u] = rows[u]
    BY <1>2, <1>7, <1>10, WithType
  <2>2. With(rows, new)[t] = old
    BY <1>2, <1>10, <2>1
  <2> QED
    BY <1>1, <2>1, <2>2
<1> QED
  BY <1>1, <1>2, <1>6, <1>8, <1>9, <1>11 DEF Issued, r, t

LEMMA RetryMakes ==
    ASSUME TypeOK, NEW p \in Slot, Retry(p),
           RetryAdmitted(req[p].tok, req[p].op),
           Replaceable(row[req[p].tok].next, req[p].user)
    PROVE  LET r == req[p] IN
           /\ issued' = issued + 1 /\ stored' = stored \cup {issued + 1}
           /\ req'[p] = Idle
           /\ r.tok \in Issued
           /\ row'[r.tok].revoked /\ row'[r.tok].reason = row[r.tok].reason
           /\ row'[r.tok].op = row[r.tok].op /\ row'[r.tok].at = row[r.tok].at
           /\ row'[r.tok].next = issued + 1 /\ row'[r.tok].user = row[r.tok].user
           /\ ~row'[issued + 1].revoked /\ row'[issued + 1].user = r.user
           /\ row'[issued + 1].exp = r.at + Life
<1> DEFINE r == req[p]
           t == r.tok
           s == row[t].next
           mid == [row EXCEPT ![s] = Revoke(@, "retry")]
           rows == Repointed(t, s)
           new == NewRow(r.user, row[s].root, r.at)
<1>0. r \in Request /\ req \in [Slot -> Request]
  BY DEF TypeOK
<1>1. /\ row' = With(rows, new) /\ Answer(p)
      /\ issued' = issued + 1 /\ stored' = stored \cup {issued + 1}
  BY DEF Retry
<1>2. rows = [mid EXCEPT ![t] = [mid[t] EXCEPT !.next = issued + 1]]
  BY DEF Repointed
<1>3. mid = [row EXCEPT ![s] = Revoke(row[s], "retry")]
  OBVIOUS
<1>4. new.user = r.user /\ ~new.revoked /\ new.exp = r.at + Life
  BY DEF NewRow
<1>5. req'[p] = Idle
  BY <1>0, <1>1 DEF Answer
<1>6. new = NewRow(r.user, row[s].root, r.at)
  OBVIOUS
<1>7. t \in stored /\ s \in stored /\ ~row[s].revoked /\ row[t].revoked
  BY DEF RetryAdmitted, Replaceable, Rotated
<1> HIDE DEF mid, rows, s, t, r, new
<1>8. /\ t \in 1..issued /\ s \in 1..issued /\ issued \in Nat /\ s # t
      /\ row \in [1..issued -> Row] /\ row[t] \in Row /\ row[s] \in Row
  BY <1>7 DEF TypeOK
<1>9. Revoke(row[s], "retry") \in Row
  BY <1>8, RevokeType DEF Reason
<1>10. mid \in [1..issued -> Row] /\ mid[t] = row[t]
  BY <1>3, <1>8, <1>9
<1>11. [row[t] EXCEPT !.next = issued + 1] \in Row
  BY <1>8, RepointType
<1>12. rows \in [1..issued -> Row] /\ rows[t] = [row[t] EXCEPT !.next = issued + 1]
  BY <1>2, <1>8, <1>10, <1>11
<1>13. new \in Row
  BY <1>0, <1>6, <1>8, NewRowType DEF Row, Request
<1>14. row'[t] = rows[t] /\ row'[issued + 1] = new
  <2>1. /\ With(rows, new)[issued + 1] = new
        /\ \A u \in 1..issued : With(rows, new)[u] = rows[u]
    BY <1>8, <1>12, <1>13, WithType
  <2>2. With(rows, new)[t] = rows[t]
    BY <1>8, <2>1
  <2> QED
    BY <1>1, <2>1, <2>2
<1>15. /\ row'[t].next = issued + 1 /\ row'[t].op = row[t].op
       /\ row'[t].at = row[t].at /\ row'[t].user = row[t].user
       /\ row'[t].revoked /\ row'[t].reason = row[t].reason
  BY <1>7, <1>8, <1>12, <1>14, RepointWrites
<1> QED
  BY <1>1, <1>4, <1>5, <1>8, <1>14, <1>15 DEF Issued, r, t

LEMMA SignedInTypes ==
    ASSUME SignedIn
    PROVE  /\ TypeOK /\ now \in Nat /\ issued \in Nat
           /\ call \in Call /\ call.since \in Nat
           /\ wire \in [Slot -> Wire] /\ req \in [Slot -> Request]
           /\ failures \in Nat /\ failures <= MaxFailures
           /\ Timeout \in Nat /\ Delay \in Nat /\ Grace \in Nat /\ Life \in Nat
           /\ \A t \in Issued : row[t] \in Row /\ row[t].at \in Nat /\ row[t].exp \in Nat
<1>1. /\ TypeOK /\ call \in Call /\ wire \in [Slot -> Wire]
      /\ failures \in 0..MaxFailures
  BY DEF SignedIn, ClientInv, IInv, ConsumerInv
<1>2. now \in Nat /\ issued \in Nat /\ req \in [Slot -> Request]
  BY <1>1, BoundAssumption DEF TypeOK
<1>3. call.since \in Nat
  BY <1>1 DEF Call
<1>4. failures \in Nat /\ failures <= MaxFailures
  BY <1>1, ClientAssumption
<1>5. ASSUME NEW t \in Issued
      PROVE  row[t] \in Row /\ row[t].at \in Nat /\ row[t].exp \in Nat
  <2>1. row[t] \in Row
    BY <1>1 DEF TypeOK, Issued
  <2> QED
    BY <2>1 DEF Row
<1> QED
  BY <1>1, <1>2, <1>3, <1>4, <1>5, ClientAssumption, TimeAssumption

(* The one request under way is the one the consumer waits for.            *)
LEMMA Serves ==
    ASSUME SignedIn, NEW p \in Slot, req[p] # Idle
    PROVE  /\ wire[p].state = "open"
           /\ call.state = "waiting" /\ call.slot = p
           /\ held \in Issued /\ held # NoToken
           /\ call.op \in Op /\ outcome[call.op] = "open"
           /\ req[p].tok = held /\ Standing(req[p])
           /\ now <= call.since + Delay
           /\ \A q \in Slot \ {p} : wire[q].state = "free" /\ req[q] = Idle
<1>1. Connected(p) /\ Calling
  BY DEF SignedIn, ClientInv, ConsumerInv
<1>2. wire[p].state = "open"
  BY <1>1 DEF Connected
<1>3. Awaited(p) /\ now <= call.since + Delay /\ wire[p].since = call.since
  BY <1>2 DEF SignedIn, Uninterrupted, OneCall
<1>4. req[p].tok = held /\ Standing(req[p])
  BY DEF SignedIn, Uninterrupted, Handled, Standing
<1>5. /\ held \in Issued /\ held # NoToken
      /\ call.op \in Op /\ outcome[call.op] = "open"
  BY <1>1, <1>3 DEF Calling, Awaited, Issued, NoToken
<1>6. ASSUME NEW q \in Slot \ {p} PROVE wire[q].state = "free" /\ req[q] = Idle
  <2>1. ~Awaited(q)
    BY <1>3 DEF Awaited
  <2>2. wire[q].state = "free"
    BY <2>1 DEF SignedIn, Uninterrupted, OneCall
  <2>3. Connected(q)
    BY DEF SignedIn, ClientInv, ConsumerInv
  <2> QED
    BY <2>2, <2>3 DEF Connected
<1> QED
  BY <1>2, <1>3, <1>4, <1>5, <1>6 DEF Awaited

(* A lost token stays lost, whatever call is under way.                    *)
LEMMA LostStays ==
    ASSUME SignedIn, UNCHANGED held, held \in Issued, Lost(held),
           row'[held].revoked, row'[held].op = row[held].op,
           row'[held].at = row[held].at, now' \in {now, now + 1},
           call.state # "none" => call'.state # "none" /\ call'.op = call.op,
           \A op \in Op : outcome[op] = "error" => outcome'[op] = "error"
    PROVE  Lost(held)'
<1>1. row[held].op # NoOp /\ row[held].op \in Op /\ row[held].at \in Nat
      /\ now \in Nat /\ Grace \in Nat
  BY SignedInTypes DEF Lost, Row
<1>2. CASE Dropped(held)
  BY <1>1, <1>2 DEF Lost, Dropped
<1>3. CASE call.state # "none" /\ row[held].op = call.op /\ Late(held)
  <2>1. (row[held].at + Grace < now)'
    BY <1>1, <1>3 DEF Late
  <2>2. Late(held)'
    BY <1>1, <2>1 DEF Late
  <2> QED
    BY <1>1, <1>3, <2>2 DEF Lost
<1> QED
  BY <1>2, <1>3 DEF Lost

(* A step that writes no row and forgets no call keeps the session.        *)
LEMMA SessionStays ==
    ASSUME SignedIn, UNCHANGED <<held, issued, row>>, now' \in {now, now + 1},
           call.state # "none" => call'.state # "none" /\ call'.op = call.op,
           \A op \in Op : outcome[op] = "error" => outcome'[op] = "error"
    PROVE  Session'
<1>1. SUFFICES ASSUME held # NoToken
               PROVE  \/ ~row[held].revoked
                      \/ (call.state # "none" /\ Redeemed(held))'
                      \/ Lost(held)'
  BY DEF SignedIn, Uninterrupted, Session
<1>2. held \in Issued /\ row[held].at \in Nat /\ now \in Nat
  <2>1. held \in Issued
    BY <1>1, SignedInTypes DEF SignedIn, ClientInv, ConsumerInv, Issued, NoToken
  <2> QED
    BY <2>1, SignedInTypes
<1>3. CASE call.state # "none" /\ Redeemed(held)
  <2>1. row[held].at <= now'
    BY <1>2, <1>3 DEF Redeemed
  <2> QED
    BY <1>3, <2>1 DEF Redeemed, Issued
<1>4. CASE row[held].revoked /\ Lost(held)
  BY <1>2, <1>4, LostStays
<1> QED
  BY <1>1, <1>3, <1>4 DEF SignedIn, Uninterrupted, Session

(* A request that meets its token redeemed is in time for the retry.       *)
LEMMA StillDue ==
    ASSUME GraceWithinLife, SignedIn, NEW p \in Slot, req[p] # Idle,
           row[held].revoked, ~Lost(held)
    PROVE  /\ Redeemed(held)
           /\ RetryAdmitted(held, call.op)
           /\ Replaceable(row[held].next, row[held].user)
<1> DEFINE a == row[held].at
           s == row[held].next
<1>1. /\ held \in Issued /\ held # NoToken /\ call.state = "waiting"
      /\ call.op \in Op /\ outcome[call.op] = "open"
  BY Serves
<1>2. Redeemed(held)
  BY <1>1 DEF SignedIn, Uninterrupted, Session
<1>3. /\ row[held].revoked /\ row[held].reason = "rotated"
      /\ row[held].op = call.op
      /\ s \in Issued /\ ~row[s].revoked /\ row[s].user = row[held].user
      /\ row[s].exp >= a + Life
  BY <1>2 DEF Redeemed
<1>4. call.op # NoOp
  BY <1>1, OpAssumption
<1>5. ~Late(held)
  BY <1>1, <1>3, <1>4 DEF Lost
<1>6. /\ now \in Nat /\ a \in Nat /\ Grace \in Nat /\ Life \in Nat
      /\ row[s].exp \in Nat
  BY <1>1, <1>3, SignedInTypes
<1>7. a + Grace >= now
  BY <1>3, <1>4, <1>5, <1>6 DEF Late
<1>8. row[s].exp > now
  BY <1>3, <1>6, <1>7 DEF GraceWithinLife
<1>9. stored = Issued /\ s # NoToken
  BY <1>3 DEF SignedIn, Uninterrupted, Undisturbed, Issued, NoToken
<1>10. RetryAdmitted(held, call.op)
  BY <1>1, <1>3, <1>7, <1>9 DEF RetryAdmitted, Rotated
<1>11. Replaceable(row[held].next, row[held].user)
  BY <1>3, <1>8, <1>9 DEF Replaceable
<1> QED
  BY <1>2, <1>10, <1>11

(* What a step of the handler must do, for the session to go on.           *)
LEMMA ServeKeeps ==
    ASSUME SignedIn, NEW p \in Slot, Serve(p),
           Undisturbed', row'[held].user = Owner,
           ~row'[held].revoked \/ Redeemed(held)' \/ Lost(held)',
           \/ /\ req'[p] = Idle
              /\ IF Pair = NoToken
                    THEN Lost(held)' \/ row'[held].exp <= now
                    ELSE ~row'[Pair].revoked /\ row'[Pair].user = Owner
           \/ req'[p] # Idle /\ Standing(req[p])'
    PROVE  Uninterrupted'
<1>1. /\ req[p] # Idle /\ \A q \in Slot \ {p} : req'[q] = req[q]
      /\ UNCHANGED <<active, now, held, call, failures, outcome>>
  BY SignedInTypes, ContinueOne DEF Serve
<1>2. /\ wire \in [Slot -> Wire] /\ call.since \in Nat /\ wire[p] \in Wire
      /\ now \in Nat /\ Delay \in Nat
  BY SignedInTypes
<1>3. /\ wire[p].state = "open" /\ call.state = "waiting" /\ call.slot = p
      /\ held # NoToken /\ now <= call.since + Delay
      /\ \A q \in Slot \ {p} : wire[q].state = "free" /\ req[q] = Idle
  BY <1>1, Serves
<1>4. /\ wire'[p].state # "free" /\ wire'[p].op = wire[p].op
      /\ wire'[p].since = wire[p].since
      /\ \A q \in Slot \ {p} : wire'[q] = wire[q]
      /\ wire'[p].state = "answered" => req'[p] = Idle /\ wire'[p].pair = Pair
  <2>1. CASE req'[p] = Idle
    <3> DEFINE w == [wire[p] EXCEPT !.state = "answered", !.pair = Pair]
    <3>1. wire' = [wire EXCEPT ![p] = w]
      BY <2>1 DEF Serve
    <3>2. /\ w.state = "answered" /\ w.op = wire[p].op /\ w.since = wire[p].since
          /\ w.pair = Pair
      BY <1>2 DEF Wire
    <3> HIDE DEF w
    <3> QED
      BY <1>2, <2>1, <3>1, <3>2
  <2>2. CASE req'[p] # Idle
    BY <1>3, <2>2 DEF Serve
  <2> QED
    BY <2>1, <2>2
<1>5. /\ wire[p].op = call.op /\ wire[p].since = call.since
      /\ call.since <= now /\ (call.state = "waiting" => now <= call.since + Timeout)
  BY <1>3 DEF SignedIn, Uninterrupted, OneCall
<1>6. OneCall'
  <2>1. ASSUME NEW q \in Slot, wire'[q].state # "free"
        PROVE /\ Awaited(q)'
              /\ wire'[q].op = call.op /\ wire'[q].since = call.since
              /\ wire'[q].state = "answered" =>
                    IF wire'[q].pair = NoToken
                       THEN Lost(held)' \/ row'[held].exp <= now
                       ELSE /\ ~row'[wire'[q].pair].revoked
                            /\ row'[wire'[q].pair].user = Owner
    <3>1. q = p
      BY <1>3, <1>4, <2>1
    <3>2. Awaited(q)'
      BY <1>1, <1>3, <3>1 DEF Awaited
    <3>3. wire'[q].state = "answered" =>
                    IF wire'[q].pair = NoToken
                       THEN Lost(held)' \/ row'[held].exp <= now
                       ELSE /\ ~row'[wire'[q].pair].revoked
                            /\ row'[wire'[q].pair].user = Owner
      BY <1>4, <3>1
    <3> QED
      BY <1>4, <1>5, <3>1, <3>2, <3>3
  <2> QED
    BY <1>1, <1>3, <1>5, <2>1 DEF OneCall
<1>7. Session'
  BY <1>1, <1>3 DEF Session
<1>8. Handled'
  BY <1>1, <1>3 DEF Handled
<1> QED
  BY <1>6, <1>7, <1>8 DEF Uninterrupted

(* A step that writes no row.                                              *)
LEMMA QuietKeeps ==
    ASSUME GraceWithinLife, SignedIn, NEW p \in Slot, Serve(p), ~Lost(held),
           UNCHANGED <<issued, row, stored>>,
           \/ req'[p] = Idle /\ row[held].exp <= now
           \/ req'[p] # Idle /\ req'[p].tok = held /\ Doing(req[p])'
    PROVE  Uninterrupted'
<1>1. /\ req[p] # Idle /\ UNCHANGED <<active, now, held, call, failures>>
      /\ held # NoToken
  BY SignedInTypes, ContinueOne, Serves DEF Serve
<1>2. Undisturbed'
  BY <1>1 DEF SignedIn, Uninterrupted, Undisturbed, Issued
<1>3. ASSUME row[held].revoked PROVE Redeemed(held)'
  <2>1. Redeemed(held)
    BY <1>1, <1>3, StillDue
  <2> QED
    BY <1>1, <2>1 DEF Redeemed, Issued
<1>4. Pair = NoToken
  <2>1. issued \in Nat
    BY SignedInTypes
  <2> QED
    BY <2>1 DEF Pair
<1>5. row'[held].user = Owner
  BY <1>1 DEF SignedIn, Uninterrupted, Session
<1>6. req'[p] # Idle => Standing(req[p])'
  BY <1>1 DEF Standing
<1>7. ~row'[held].revoked \/ Redeemed(held)' \/ Lost(held)'
  BY <1>3
<1>8. CASE req'[p] = Idle /\ row[held].exp <= now
  <2>1. row'[held].exp <= now
    BY <1>8
  <2> QED
    BY <1>2, <1>4, <1>5, <1>7, <1>8, <2>1, ServeKeeps
<1>9. CASE req'[p] # Idle
  BY <1>2, <1>5, <1>6, <1>7, <1>9, ServeKeeps
<1> QED
  BY <1>8, <1>9

LEMMA MovedWrites ==
    ASSUME NEW r \in Request, NEW pc, NEW mode, NEW at
    PROVE  /\ LET w == [r EXCEPT !.pc = pc, !.mode = mode]
              IN w.pc = pc /\ w.mode = mode /\ w.tok = r.tok /\ w.op = r.op /\ w.at = r.at
           /\ LET w == [r EXCEPT !.at = at, !.pc = pc]
              IN w.pc = pc /\ w.mode = r.mode /\ w.tok = r.tok /\ w.op = r.op /\ w.at = at
           /\ LET w == [r EXCEPT !.pc = pc]
              IN w.pc = pc /\ w.mode = r.mode /\ w.tok = r.tok /\ w.op = r.op /\ w.at = r.at
  BY DEF Request

(* What the three ways to move a request on leave in its slot.             *)
LEMMA Moves ==
    ASSUME req \in [Slot -> Request], NEW p \in Slot, NEW pc, NEW mode
    PROVE  /\ Goto(p, pc) =>
                 /\ req'[p].pc = pc /\ req'[p].mode = req[p].mode
                 /\ req'[p].tok = req[p].tok /\ req'[p].op = req[p].op
                 /\ req'[p].at = req[p].at
           /\ GotoAs(p, pc, mode) =>
                 /\ req'[p].pc = pc /\ req'[p].mode = mode
                 /\ req'[p].tok = req[p].tok /\ req'[p].op = req[p].op
                 /\ req'[p].at = req[p].at
<1> DEFINE r == req[p]
           v == [r EXCEPT !.pc = pc]
           w == [r EXCEPT !.pc = pc, !.mode = mode]
<1>1. r \in Request
  OBVIOUS
<1>2. /\ v.pc = pc /\ v.mode = r.mode /\ v.tok = r.tok /\ v.op = r.op /\ v.at = r.at
      /\ w.pc = pc /\ w.mode = mode /\ w.tok = r.tok /\ w.op = r.op /\ w.at = r.at
  BY <1>1, MovedWrites
<1>3. Goto(p, pc) => req' = [req EXCEPT ![p] = v]
  BY DEF Goto
<1>4. GotoAs(p, pc, mode) => req' = [req EXCEPT ![p] = w]
  BY DEF GotoAs
<1> HIDE DEF v, w
<1>5. Goto(p, pc) => req'[p] = v
  BY <1>3
<1>6. GotoAs(p, pc, mode) => req'[p] = w
  BY <1>4
<1> QED
  BY <1>2, <1>5, <1>6

LEMMA PrepareMoves ==
    ASSUME req \in [Slot -> Request], NEW p \in Slot, Prepare(p),
           req[p].mode # "login"
    PROVE  /\ req'[p].pc = IF req[p].mode = "refresh" THEN "rotate" ELSE "retry"
           /\ req'[p].mode = req[p].mode /\ req'[p].at = now
           /\ req'[p].tok = req[p].tok /\ req'[p].op = req[p].op
<1> DEFINE r == req[p]
           pc == IF r.mode = "refresh" THEN "rotate" ELSE "retry"
           w == [r EXCEPT !.at = now, !.pc = pc]
<1>1. r \in Request
  OBVIOUS
<1>2. /\ w.pc = pc /\ w.mode = r.mode /\ w.tok = r.tok /\ w.op = r.op /\ w.at = now
  BY <1>1, MovedWrites
<1>3. req' = [req EXCEPT ![p] = w]
  BY DEF Prepare
<1> HIDE DEF w
<1>4. req'[p] = w
  BY <1>3
<1> QED
  BY <1>2, <1>4
(* A request about a lost token ends sessions or writes nothing.           *)
LEMMA LostRows ==
    ASSUME SignedIn, NEW p \in Slot, Serve(p), Lost(held)
    PROVE  /\ UNCHANGED <<issued, stored>> /\ OnlyRevokes
           /\ req'[p] # Idle => req'[p].tok = held /\ Barren(req'[p])
<1> DEFINE r == req[p]
<1>0. /\ r # Idle /\ TypeOK /\ Continue(p)
      /\ req \in [Slot -> Request] /\ r \in Request
  BY SignedInTypes, ContinueOne DEF Serve
<1>1. /\ r.tok = held /\ held \in Issued
      /\ call.op \in Op /\ outcome[call.op] = "open"
  BY <1>0, Serves
<1>2. Barren(r) /\ row[held].revoked
  BY <1>0, Serves DEF Standing, Doing, Lost, Barren
<1>3. ~RetryAdmitted(r.tok, r.op)
  <2>1. SUFFICES ASSUME RetryAdmitted(held, r.op) PROVE FALSE
    BY <1>1
  <2>2. row[held].op = call.op
    BY <1>2, <2>1 DEF RetryAdmitted, Lost, Barren
  <2>3. Late(held)
    BY <1>1, <2>2 DEF Lost, Dropped
  <2>4. now \in Nat /\ Grace \in Nat /\ row[held].at \in Nat
    BY <1>1, SignedInTypes
  <2> QED
    BY <2>1, <2>3, <2>4 DEF RetryAdmitted, Late
<1>4. ~Consumable(r.tok, r.at)
  BY <1>1, <1>2 DEF Consumable
<1>5. ASSUME NEW pc \in Position \ {"idle", "insert", "logout"}, Goto(p, pc)
      PROVE  req'[p].tok = held /\ Barren(req'[p])
  <2>1. /\ req'[p].pc = pc /\ req'[p].mode = r.mode
        /\ req'[p].tok = r.tok /\ req'[p].op = r.op
    BY <1>0, <1>5, Moves
  <2> QED
    BY <1>1, <1>2, <2>1 DEF Barren
<1>6. ASSUME NEW pc \in Position \ {"idle", "insert", "logout"},
             NEW mode \in Mode \ {"login"}, GotoAs(p, pc, mode)
      PROVE  req'[p].tok = held /\ Barren(req'[p])
  <2>1. /\ req'[p].pc = pc /\ req'[p].mode = mode
        /\ req'[p].tok = r.tok /\ req'[p].op = r.op
    BY <1>0, <1>6, Moves
  <2> QED
    BY <1>1, <1>2, <2>1 DEF Barren
<1>7. ASSUME BeginReplay(p)
      PROVE  req'[p].tok = held /\ Barren(req'[p])
  <2> DEFINE w == [Idle EXCEPT !.pc = "snapshot", !.mode = "replay",
                               !.user = r.user, !.client = r.client,
                               !.tok = r.tok]
  <2>1. /\ w.pc = "snapshot" /\ w.mode = "replay" /\ w.tok = r.tok
        /\ w.op = NoOp
    BY DEF Idle
  <2>2. req' = [req EXCEPT ![p] = w]
    BY <1>7 DEF BeginReplay
  <2> HIDE DEF w
  <2>3. req'[p] = w
    BY <1>0, <2>2
  <2> QED
    BY <1>1, <2>1, <2>3 DEF Barren
<1>8. ASSUME Answer(p) PROVE req'[p] = Idle
  BY <1>0, <1>8 DEF Answer
<1>9. ASSUME Refused(p) PROVE req'[p].tok = held /\ Barren(req'[p])
  <2>1. BeginReplay(p) \/ Goto(p, "latest")
    BY <1>9 DEF Refused
  <2> QED
    BY <1>5, <1>7, <2>1 DEF Position
<1>10. CASE Prepare(p)
  <2>1. UNCHANGED <<issued, row, stored>>
    BY <1>10 DEF Prepare
  <2>2. /\ req'[p].pc = IF r.mode = "refresh" THEN "rotate" ELSE "retry"
        /\ req'[p].mode = r.mode /\ req'[p].tok = r.tok /\ req'[p].op = r.op
    BY <1>0, <1>2, <1>10, PrepareMoves DEF Barren
  <2>3. req'[p].tok = held /\ Barren(req'[p])
    BY <1>1, <1>2, <2>2 DEF Barren
  <2> QED
    BY <2>1, <2>3, SameRows
<1>11. CASE RefreshOwner(p)
  <2>1. UNCHANGED <<issued, row, stored>>
    BY <1>11 DEF RefreshOwner
  <2>2. \/ GotoAs(p, "prepare", "refresh") \/ GotoAs(p, "candidate", "direct")
        \/ BeginReplay(p) \/ Answer(p)
    BY <1>11 DEF RefreshOwner
  <2> QED
    BY <1>6, <1>7, <1>8, <2>1, <2>2, SameRows DEF Position, Mode
<1>12. CASE Rotate(p)
  <2>1. GotoAs(p, "candidate", "lost") /\ UNCHANGED <<issued, row, stored>>
    BY <1>4, <1>12 DEF Rotate
  <2> QED
    BY <1>6, <2>1, SameRows DEF Position, Mode
<1>13. CASE Candidate(p)
  <2>1. Refused(p) /\ UNCHANGED <<issued, row, stored>>
    BY <1>3, <1>13 DEF Candidate
  <2> QED
    BY <1>9, <2>1, SameRows
<1>14. CASE Retry(p)
  <2>1. Refused(p) /\ UNCHANGED <<issued, row, stored>>
    BY <1>3, <1>14 DEF Retry
  <2> QED
    BY <1>9, <2>1, SameRows
<1>15. CASE Latest(p)
  <2>1. UNCHANGED <<issued, row, stored>> /\ (BeginReplay(p) \/ Answer(p))
    BY <1>15 DEF Latest
  <2> QED
    BY <1>7, <1>8, <2>1, SameRows
<1>16. CASE SnapshotAll(p)
  <2> DEFINE ids == {t \in {t \in stored : row[t].user = r.user} :
                           Selects(r.mode, t)}
             w == [r EXCEPT !.pc = "apply", !.ids = ids]
  <2>1. UNCHANGED <<issued, row, stored>> /\ req' = [req EXCEPT ![p] = w]
    BY <1>16 DEF SnapshotAll
  <2>2. w.pc = "apply" /\ w.mode = r.mode /\ w.tok = r.tok /\ w.op = r.op
    BY <1>0 DEF Request
  <2> HIDE DEF w
  <2>3. req'[p] = w
    BY <1>0, <2>1
  <2>4. req'[p].tok = held /\ Barren(req'[p])
    BY <1>1, <1>2, <2>2, <2>3 DEF Barren
  <2> QED
    BY <2>1, <2>4, SameRows
<1>17. CASE ApplyAll(p)
  <2>1. UNCHANGED <<issued, stored>> /\ Answer(p)
    BY <1>17 DEF ApplyAll
  <2>2. \A t \in Issued : \/ row'[t] = row[t]
                          \/ row'[t] = Revoke(row[t], WhyAll(r.mode))
    BY <1>17 DEF ApplyAll, Issued
  <2>3. OnlyRevokes
    BY <1>0, <2>1, <2>2, RevokeRows
  <2> QED
    BY <1>8, <2>1, <2>3
<1> QED
  BY <1>0, <1>2, <1>10, <1>11, <1>12, <1>13, <1>14, <1>15, <1>16, <1>17
     DEF Continue, InsertSession, LogoutUpdate, Barren

LEMMA LostKeeps ==
    ASSUME SignedIn, NEW p \in Slot, Serve(p), Lost(held)
    PROVE  Uninterrupted'
<1>1. /\ req[p] # Idle /\ UNCHANGED <<active, now, held, call, outcome>>
      /\ held \in Issued /\ held # NoToken
  BY SignedInTypes, ContinueOne, Serves DEF Serve
<1>2. /\ UNCHANGED <<issued, stored>> /\ OnlyRevokes
      /\ req'[p] # Idle => req'[p].tok = held /\ Barren(req'[p])
  BY LostRows
<1>3. /\ row'[held].op = row[held].op /\ row'[held].at = row[held].at
      /\ row'[held].user = row[held].user
      /\ row[held].revoked /\ row'[held].revoked
  BY <1>1, <1>2 DEF OnlyRevokes, Kept, Unlinked, Lost
<1>4. Lost(held)'
  BY <1>1, <1>3, LostStays
<1>5. Undisturbed'
  BY <1>1, <1>2 DEF SignedIn, Uninterrupted, Undisturbed, Issued
<1>6. row'[held].user = Owner
  BY <1>1, <1>3 DEF SignedIn, Uninterrupted, Session
<1>7. Pair = NoToken
  <2>1. issued \in Nat
    BY SignedInTypes
  <2> QED
    BY <1>2, <2>1 DEF Pair
<1>8. req'[p] # Idle => Standing(req[p])'
  BY <1>1, <1>2, <1>4 DEF Standing, Barren
<1> QED
  BY <1>4, <1>5, <1>6, <1>7, <1>8, ServeKeeps

LEMMA RotateKeeps ==
    ASSUME GraceWithinLife, SignedIn, NEW p \in Slot, Serve(p), Rotate(p),
           ~row[held].revoked, req[p].mode = "refresh", req[p].op = call.op,
           call.since <= req[p].at, req[p].at <= now
    PROVE  Uninterrupted'
<1> DEFINE r == req[p]
<1>1. /\ r.pc = "rotate" /\ r.pc # "idle" /\ r # Idle
      /\ UNCHANGED <<active, now, held, call, failures>>
  BY SignedInTypes, ContinueOne DEF Rotate, Idle, Serve
<1>2. r.tok = held /\ held \in Issued /\ held # NoToken
  BY <1>1, Serves
<1>a. row[held].user = Owner
  BY <1>2 DEF SignedIn, Uninterrupted, Session
<1>b. /\ issued \in Nat /\ r.at \in Nat /\ Life \in Nat /\ now \in Nat
      /\ row[held].exp \in Nat
  BY <1>2, SignedInTypes DEF Request
<1>3. CASE ~Consumable(held, r.at)
  <2>1. GotoAs(p, "candidate", "lost") /\ UNCHANGED <<issued, row, stored>>
    BY <1>2, <1>3 DEF Rotate
  <2>2. /\ req'[p].pc = "candidate" /\ req'[p].mode = "lost"
        /\ req'[p].tok = held /\ req'[p].op = call.op
    BY <1>2, <2>1, Moves, SignedInTypes
  <2>3. row[held].exp <= now
    <3>1. held \in stored
      BY <1>2 DEF SignedIn, Uninterrupted, Undisturbed
    <3> QED
      BY <1>3, <1>b, <3>1 DEF Consumable
  <2>4. Doing(req[p])'
    BY <1>1, <2>1, <2>2, <2>3 DEF Doing
  <2>5. req'[p] # Idle /\ ~Lost(held)
    BY <2>2 DEF Idle, Lost
  <2> QED
    BY <2>1, <2>2, <2>4, <2>5, QuietKeeps
<1>4. CASE Consumable(held, r.at)
  <2> DEFINE s == issued + 1
  <2>1. /\ issued' = s /\ stored' = stored \cup {s} /\ req'[p] = Idle
        /\ row'[held].revoked /\ row'[held].reason = "rotated"
        /\ row'[held].op = call.op /\ row'[held].at = r.at
        /\ row'[held].next = s /\ row'[held].user = row[held].user
        /\ ~row'[s].revoked /\ row'[s].user = r.user
        /\ row'[s].exp = r.at + Life
    BY <1>2, <1>4, RotateMakes, SignedInTypes
  <2>2. row[held].user = r.user
    <3>1. Claim(r)
      BY DEF SignedIn, ClientInv, Claims
    <3> QED
      BY <1>1, <1>2, <3>1 DEF Claim, Holding
  <2>3. s \in Issued' /\ Issued' = Issued \cup {s}
    BY <1>b, <2>1 DEF Issued
  <2>4. Undisturbed'
    BY <1>1, <2>1, <2>3 DEF SignedIn, Uninterrupted, Undisturbed
  <2>5. Redeemed(held)'
    BY <1>1, <1>b, <2>1, <2>2, <2>3 DEF Redeemed
  <2>6. Pair = s /\ s # NoToken
    BY <1>b, <2>1 DEF Pair, NoToken
  <2>7. row'[held].user = Owner /\ row'[s].user = Owner
    BY <1>a, <2>1, <2>2
  <2> QED
    BY <2>1, <2>4, <2>5, <2>6, <2>7, ServeKeeps
<1> QED
  BY <1>3, <1>4

LEMMA RetryKeeps ==
    ASSUME GraceWithinLife, SignedIn, NEW p \in Slot, Serve(p), Retry(p),
           ~Lost(held), row[held].revoked, req[p].op = call.op,
           row[held].at <= req[p].at
    PROVE  Uninterrupted'
<1> DEFINE r == req[p]
           s == issued + 1
<1>1. /\ r.pc = "retry" /\ r.pc # "idle" /\ r # Idle
      /\ UNCHANGED <<active, now, held, call, failures>>
  BY SignedInTypes, ContinueOne DEF Retry, Idle, Serve
<1>2. r.tok = held /\ held \in Issued /\ held # NoToken
  BY <1>1, Serves
<1>3. row[held].user = r.user
  <2>1. Claim(r)
    BY DEF SignedIn, ClientInv, Claims
  <2> QED
    BY <1>1, <1>2, <2>1 DEF Claim, Holding
<1>4. /\ Redeemed(held)
      /\ RetryAdmitted(held, call.op)
      /\ Replaceable(row[held].next, row[held].user)
  BY <1>1, StillDue
<1>5. /\ issued' = s /\ stored' = stored \cup {s} /\ req'[p] = Idle
      /\ row'[held].revoked /\ row'[held].reason = row[held].reason
      /\ row'[held].op = row[held].op /\ row'[held].at = row[held].at
      /\ row'[held].next = s /\ row'[held].user = row[held].user
      /\ ~row'[s].revoked /\ row'[s].user = r.user
      /\ row'[s].exp = r.at + Life
  BY <1>2, <1>3, <1>4, RetryMakes, SignedInTypes
<1>6. /\ issued \in Nat /\ r.at \in Nat /\ Life \in Nat /\ row[held].at \in Nat
  BY <1>2, SignedInTypes DEF Request
<1>7. s \in Issued' /\ Issued' = Issued \cup {s}
  BY <1>5, <1>6 DEF Issued
<1>8. Undisturbed'
  BY <1>1, <1>5, <1>7 DEF SignedIn, Uninterrupted, Undisturbed
<1>9. /\ row[held].reason = "rotated" /\ row[held].op = call.op
      /\ row[held].at <= now
  BY <1>4 DEF Redeemed
<1>10. row'[s].exp >= row'[held].at + Life
  BY <1>5, <1>6
<1>11. Redeemed(held)'
  BY <1>1, <1>3, <1>5, <1>7, <1>9, <1>10 DEF Redeemed
<1>12. Pair = s /\ s # NoToken
  BY <1>5, <1>6 DEF Pair, NoToken
<1>13. row'[held].user = Owner /\ row'[s].user = Owner
  BY <1>2, <1>3, <1>5 DEF SignedIn, Uninterrupted, Session
<1> QED
  BY <1>5, <1>8, <1>11, <1>12, <1>13, ServeKeeps

LEMMA ServeSignedIn ==
    ASSUME GraceWithinLife, SignedIn, NEW p \in Slot, Serve(p)
    PROVE  Uninterrupted'
<1> SUFFICES ASSUME ~Lost(held) PROVE Uninterrupted'
  BY LostKeeps
<1> DEFINE r == req[p]
<1>0. /\ r # Idle /\ UNCHANGED <<active, now, held, call>>
      /\ req \in [Slot -> Request] /\ r \in Request /\ Continue(p)
  BY SignedInTypes, ContinueOne DEF Serve
<1>1. /\ r.tok = held /\ r.op = call.op /\ Doing(r)
      /\ held \in Issued /\ held # NoToken
  BY <1>0, Serves DEF Standing, Doing
<1>2. ASSUME req'[p].pc \in {"prepare", "rotate", "candidate", "retry", "latest"},
             req'[p].tok = r.tok, req'[p].op = r.op, Doing(req[p])',
             UNCHANGED <<issued, row, stored>>
      PROVE  Uninterrupted'
  <2>1. req'[p] # Idle
    BY <1>2 DEF Idle
  <2> QED
    BY <1>1, <1>2, <2>1, QuietKeeps
<1>3. ASSUME Answer(p), UNCHANGED <<issued, row, stored>>, row[held].exp <= now
      PROVE  Uninterrupted'
  <2>1. req'[p] = Idle
    BY <1>0, <1>3 DEF Answer
  <2> QED
    BY <1>3, <2>1, QuietKeeps
<1>4. ASSUME row[held].revoked
      PROVE  /\ Redeemed(held) /\ RetryAdmitted(held, call.op)
             /\ row[held].at <= now
  BY <1>0, <1>4, StillDue DEF Redeemed
<1>5. CASE r.pc = "owner"
  <2>1. RefreshOwner(p) /\ UNCHANGED <<issued, row, stored>>
    BY <1>0, <1>5 DEF Continue, Prepare, InsertSession, RefreshOwner, Rotate,
       Candidate, Retry, Latest, SnapshotAll, ApplyAll, LogoutUpdate
  <2>2. active[r.user]
    BY <1>0 DEF Request, SignedIn, Uninterrupted, Undisturbed
  <2>3. r.mode \in {"live", "rotated"}
    BY <1>1, <1>5 DEF Doing
  <2>a. OwnedByCaller(r)
    <3>1. Claim(r)
      BY DEF SignedIn, ClientInv, Claims
    <3>2. row[held].user = r.user
      BY <1>1, <1>5, <3>1 DEF Claim, Holding
    <3>3. row[held].user = Owner
      BY <1>1 DEF SignedIn, Uninterrupted, Session
    <3> QED
      BY <1>1, <1>5, <3>2, <3>3 DEF OwnedByCaller, Doing
  <2>b. row[held].exp \in Nat /\ now \in Nat
    BY <1>1, SignedInTypes
  <2>c. row[held].exp < now => row[held].exp <= now
    BY <2>b
  <2>4. \/ r.mode = "live" /\ GotoAs(p, "prepare", "refresh")
        \/ r.mode = "rotated" /\ GotoAs(p, "candidate", "direct")
        \/ Answer(p) /\ row[held].exp <= now
    BY <1>1, <2>1, <2>2, <2>3, <2>a, <2>c DEF RefreshOwner
  <2>5. CASE r.mode = "live" /\ GotoAs(p, "prepare", "refresh")
    <3>1. /\ req'[p].pc = "prepare" /\ req'[p].mode = "refresh"
          /\ req'[p].tok = r.tok /\ req'[p].op = r.op
      BY <1>0, <2>5, Moves
    <3>2. ~row[held].revoked
      BY <1>1, <1>5, <2>5 DEF Doing
    <3>3. Doing(req[p])'
      BY <1>0, <1>1, <2>1, <3>1, <3>2 DEF Doing
    <3> QED
      BY <1>2, <2>1, <3>1, <3>3
  <2>6. CASE r.mode = "rotated" /\ GotoAs(p, "candidate", "direct")
    <3>1. /\ req'[p].pc = "candidate" /\ req'[p].mode = "direct"
          /\ req'[p].tok = r.tok /\ req'[p].op = r.op
      BY <1>0, <2>6, Moves
    <3>2. row[held].revoked
      BY <1>1, <1>5, <2>6 DEF Doing
    <3>3. Doing(req[p])'
      BY <1>0, <1>1, <2>1, <3>1, <3>2 DEF Doing
    <3> QED
      BY <1>2, <2>1, <3>1, <3>3
  <2> QED
    BY <1>3, <2>1, <2>4, <2>5, <2>6
<1>6. CASE r.pc = "prepare"
  <2>1. Prepare(p) /\ UNCHANGED <<issued, row, stored>>
    BY <1>0, <1>6 DEF Continue, Prepare, InsertSession, RefreshOwner, Rotate,
       Candidate, Retry, Latest, SnapshotAll, ApplyAll, LogoutUpdate
  <2>2. r.mode \in {"refresh", "direct"}
    BY <1>1, <1>6 DEF Doing
  <2>3. /\ req'[p].pc = IF r.mode = "refresh" THEN "rotate" ELSE "retry"
        /\ req'[p].mode = r.mode /\ req'[p].at = now
        /\ req'[p].tok = r.tok /\ req'[p].op = r.op
    BY <1>0, <2>1, <2>2, PrepareMoves
  <2>4. call.since <= now /\ now <= now
    BY SignedInTypes DEF SignedIn, Uninterrupted, OneCall
  <2>5. CASE r.mode = "refresh"
    <3>1. ~row[held].revoked
      BY <1>1, <1>6, <2>5 DEF Doing
    <3>2. Doing(req[p])'
      BY <1>0, <1>1, <2>1, <2>3, <2>4, <2>5, <3>1 DEF Doing
    <3> QED
      BY <1>2, <2>1, <2>3, <2>5, <3>2
  <2>6. CASE r.mode = "direct"
    <3>1. row[held].revoked
      BY <1>1, <1>6, <2>6 DEF Doing
    <3>2. Doing(req[p])'
      BY <1>0, <1>1, <1>4, <2>1, <2>3, <2>6, <3>1 DEF Doing
    <3> QED
      BY <1>2, <2>1, <2>3, <2>6, <3>2
  <2> QED
    BY <2>2, <2>5, <2>6
<1>7. CASE r.pc = "rotate"
  <2>1. Rotate(p)
    BY <1>0, <1>7 DEF Continue, Prepare, InsertSession, RefreshOwner, Rotate,
       Candidate, Retry, Latest, SnapshotAll, ApplyAll, LogoutUpdate
  <2>2. /\ ~row[held].revoked /\ r.mode = "refresh"
        /\ call.since <= r.at /\ r.at <= now
    BY <1>1, <1>7 DEF Doing
  <2> QED
    BY <1>1, <2>1, <2>2, RotateKeeps
<1>8. CASE r.pc = "candidate"
  <2>1. Candidate(p) /\ UNCHANGED <<issued, row, stored>>
    BY <1>0, <1>8 DEF Continue, Prepare, InsertSession, RefreshOwner, Rotate,
       Candidate, Retry, Latest, SnapshotAll, ApplyAll, LogoutUpdate
  <2>2. CASE row[held].revoked
    <3>1. r.mode = "direct" /\ Goto(p, "prepare")
      BY <1>1, <1>4, <1>8, <2>1, <2>2 DEF Doing, Candidate
    <3>2. /\ req'[p].pc = "prepare" /\ req'[p].mode = "direct"
          /\ req'[p].tok = r.tok /\ req'[p].op = r.op
      BY <1>0, <3>1, Moves
    <3>3. Doing(req[p])'
      BY <1>0, <1>1, <2>1, <2>2, <3>2 DEF Doing
    <3> QED
      BY <1>2, <2>1, <3>2, <3>3
  <2>3. CASE ~row[held].revoked
    <3>1. /\ r.mode = "lost" /\ ~RetryAdmitted(held, call.op)
          /\ row[held].exp <= now
      BY <1>1, <1>8, <2>3 DEF Doing, RetryAdmitted, Rotated
    <3>2. Goto(p, "latest")
      BY <1>1, <2>1, <3>1 DEF Candidate, Refused
    <3>3. /\ req'[p].pc = "latest" /\ req'[p].mode = "lost"
          /\ req'[p].tok = r.tok /\ req'[p].op = r.op
      BY <1>0, <3>1, <3>2, Moves
    <3>4. Doing(req[p])'
      BY <1>0, <1>1, <2>1, <2>3, <3>1, <3>3 DEF Doing
    <3> QED
      BY <1>2, <2>1, <3>3, <3>4
  <2> QED
    BY <2>2, <2>3
<1>9. CASE r.pc = "retry"
  <2>1. Retry(p)
    BY <1>0, <1>9 DEF Continue, Prepare, InsertSession, RefreshOwner, Rotate,
       Candidate, Retry, Latest, SnapshotAll, ApplyAll, LogoutUpdate
  <2>2. row[held].revoked /\ row[held].at <= r.at
    BY <1>1, <1>9 DEF Doing
  <2> QED
    BY <1>1, <2>1, <2>2, RetryKeeps
<1>10. CASE r.pc = "latest"
  <2>1. Latest(p) /\ UNCHANGED <<issued, row, stored>>
    BY <1>0, <1>10 DEF Continue, Prepare, InsertSession, RefreshOwner, Rotate,
       Candidate, Retry, Latest, SnapshotAll, ApplyAll, LogoutUpdate
  <2>2. ~row[held].revoked /\ row[held].exp <= now
    BY <1>1, <1>10 DEF Doing
  <2>3. Answer(p)
    BY <1>1, <2>1, <2>2 DEF Latest, Rotated
  <2> QED
    BY <1>3, <2>1, <2>2, <2>3
<1> QED
  BY <1>1, <1>5, <1>6, <1>7, <1>8, <1>9, <1>10 DEF Doing

(* The consumer's own steps.                                               *)
LEMMA SendKeeps ==
    ASSUME SignedIn, NEW p \in Slot, NEW op \in Op,
           Send(p, held, op), UNCHANGED <<vars, held>>,
           \A q \in Slot : wire[q].state = "free",
           call.state # "none" => op = call.op,
           \A o \in Op : outcome[o] = "error" => outcome'[o] = "error"
    PROVE  Uninterrupted'
<1> DEFINE c == [state |-> "waiting", tok |-> held, op |-> op, slot |-> p,
                 since |-> now]
           w == [Free EXCEPT !.state = "sent", !.tok = held, !.op = op,
                             !.since = now]
<1>1. /\ wire \in [Slot -> Wire] /\ now \in Nat /\ Delay \in Nat /\ Timeout \in Nat
  BY SignedInTypes
<1>2. call' = c /\ wire' = [wire EXCEPT ![p] = w] /\ wire[p] = Free
  BY DEF Send
<1>3. c.state = "waiting" /\ c.op = op /\ c.slot = p /\ c.since = now
  OBVIOUS
<1>4. w.state = "sent" /\ w.op = op /\ w.since = now
  BY DEF Free
<1> HIDE DEF c, w
<1>5. wire'[p] = w /\ \A q \in Slot \ {p} : wire'[q] = wire[q]
  BY <1>1, <1>2
<1>6. UNCHANGED <<active, issued, row, stored, req, now, held>>
  BY DEF vars
<1>7. Undisturbed'
  BY <1>6 DEF SignedIn, Uninterrupted, Undisturbed, Issued
<1>8. \A q \in Slot : wire'[q].state # "free" => q = p
  BY <1>5
<1>9. OneCall'
  <2>1. ASSUME NEW q \in Slot, wire'[q].state # "free"
        PROVE /\ Awaited(q)'
              /\ wire'[q].op = call'.op /\ wire'[q].since = call'.since
              /\ now <= call'.since + Delay /\ wire'[q].state # "answered"
    <3>1. q = p
      BY <1>8, <2>1
    <3> QED
      BY <1>1, <1>2, <1>3, <1>4, <1>5, <3>1 DEF Awaited
  <2> QED
    BY <1>1, <1>2, <1>3, <1>6, <2>1 DEF OneCall
<1>10. Session'
  BY <1>2, <1>3, <1>6, SessionStays
<1>11. \A q \in Slot : req[q] = Idle
  BY DEF SignedIn, ClientInv, ConsumerInv, Connected
<1>12. Handled'
  BY <1>6, <1>11 DEF Handled
<1> QED
  BY <1>7, <1>9, <1>10, <1>12 DEF Uninterrupted

LEMMA AllFree ==
    ASSUME SignedIn, call.state # "waiting"
    PROVE  \A q \in Slot : wire[q].state = "free"
  BY DEF SignedIn, Uninterrupted, OneCall, Awaited

LEMMA RefreshKeeps ==
    ASSUME SignedIn, NEW p \in Slot, Refresh(p)
    PROVE  Uninterrupted'
<1>1. PICK op \in Op : /\ Send(p, held, op) /\ outcome[op] = "unused"
                       /\ outcome' = [outcome EXCEPT ![op] = "open"]
  BY DEF Refresh
<1>2. UNCHANGED <<vars, held>> /\ call.state = "none"
  BY DEF Refresh
<1>3. \A o \in Op : outcome[o] = "error" => outcome'[o] = "error"
  BY <1>1 DEF SignedIn, ClientInv, ConsumerInv
<1> QED
  BY <1>1, <1>2, <1>3, AllFree, SendKeeps

LEMMA ResendKeeps ==
    ASSUME SignedIn, NEW p \in Slot, Resend(p)
    PROVE  Uninterrupted'
<1>1. /\ Send(p, call.tok, call.op) /\ UNCHANGED <<vars, held, outcome>>
      /\ call.state = "ambiguous"
  BY DEF Resend, ResendOp
<1>2. call.tok = held /\ call.op \in Op
  BY <1>1 DEF SignedIn, ClientInv, ConsumerInv, Calling
<1> QED
  BY <1>1, <1>2, AllFree, SendKeeps

(* A call given up while its request is under way counts as overtaken.     *)
LEMMA GiveUpKeeps ==
    ASSUME SignedIn, GiveUp, ~overtaken'
    PROVE  Uninterrupted'
<1>1. /\ UNCHANGED <<vars, held, wire, outcome>> /\ call.state = "waiting"
      /\ Ambiguous(call.slot) /\ call' = [call EXCEPT !.state = "ambiguous"]
      /\ ~Unfinished(call.slot)
  BY DEF GiveUp
<1>2. now \in Nat /\ call.since \in Nat /\ call \in Call
  BY SignedInTypes
<1>3. /\ call'.state = "ambiguous" /\ call'.op = call.op
      /\ call'.since = call.since
  BY <1>1, <1>2 DEF Call
<1>4. /\ UNCHANGED <<active, issued, row, stored, req, now>>
      /\ call.since <= now
  BY <1>1 DEF vars, SignedIn, Uninterrupted, OneCall
<1>5. wire[call.slot].state = "free"
  BY <1>1 DEF Ambiguous
<1>7. \A q \in Slot : wire[q].state = "free"
  BY <1>5 DEF SignedIn, Uninterrupted, OneCall, Awaited
<1>8. Undisturbed'
  BY <1>4 DEF SignedIn, Uninterrupted, Undisturbed, Issued
<1>9. OneCall'
  BY <1>1, <1>3, <1>4, <1>7 DEF OneCall
<1>10. Session'
  BY <1>1, <1>3, <1>4, SessionStays
<1>11. \A q \in Slot : req[q] = Idle
  BY <1>7 DEF SignedIn, ClientInv, ConsumerInv, Connected
<1>12. Handled'
  BY <1>4, <1>11 DEF Handled
<1> QED
  BY <1>8, <1>9, <1>10, <1>12 DEF Uninterrupted

LEMMA ReceiveKeeps ==
    ASSUME SignedIn, NEW p \in Slot, Receive(p)
    PROVE  Uninterrupted'
<1>1. /\ UNCHANGED vars /\ call' = NoCall /\ Awaited(p) /\ Answered(p)
      /\ held' = TokenAfter(wire[p])
      /\ outcome' = [outcome EXCEPT ![call.op] = Verdict(wire[p])]
      /\ wire' = [wire EXCEPT ![p] = Free]
  BY DEF Receive
<1>2. /\ NoCall.state = "none" /\ NoCall.since = 0 /\ Free.state = "free"
  BY DEF NoCall, Free
<1>3. wire \in [Slot -> Wire] /\ now \in Nat
  BY SignedInTypes
<1>4. \A q \in Slot : wire'[q].state = "free"
  <2>1. \A q \in Slot \ {p} : wire[q].state = "free"
    BY <1>1 DEF SignedIn, Uninterrupted, OneCall, Awaited
  <2>2. wire'[p] = Free /\ \A q \in Slot \ {p} : wire'[q] = wire[q]
    BY <1>1, <1>3, FreeType
  <2> QED
    BY <1>2, <2>1, <2>2
<1>5. UNCHANGED <<active, issued, row, stored, req, now>>
  BY <1>1 DEF vars
<1>6. Undisturbed'
  BY <1>5 DEF SignedIn, Uninterrupted, Undisturbed, Issued
<1>7. OneCall'
  BY <1>1, <1>2, <1>3, <1>4, <1>5 DEF OneCall
<1>8. ASSUME wire[p].state = "answered" PROVE Session'
  <2>1. wire[p].pair # NoToken =>
           ~row[wire[p].pair].revoked /\ row[wire[p].pair].user = Owner
    BY <1>8 DEF SignedIn, Uninterrupted, OneCall
  <2>2. held' = wire[p].pair
    BY <1>1, <1>8 DEF TokenAfter
  <2> QED
    BY <1>5, <2>1, <2>2 DEF Session
<1>9. ASSUME wire[p].state = "failed" PROVE Session'
  <2>1. held' = held /\ Verdict(wire[p]) = "error"
    <3>1. TokenAfter(wire[p]) = held
      BY <1>9 DEF TokenAfter
    <3>2. Verdict(wire[p]) = "error"
      BY <1>9 DEF Verdict
    <3> QED
      BY <1>1, <3>1, <3>2
  <2>2. /\ call.state # "none" /\ call.op \in Op /\ outcome[call.op] = "open"
        /\ call.op # NoOp /\ outcome \in [Op -> Outcome] /\ held \in Issued
    BY <1>1, OpAssumption
       DEF SignedIn, ClientInv, ConsumerInv, Calling, Awaited
  <2>3. \A op \in Op : outcome'[op] = IF op = call.op THEN "error" ELSE outcome[op]
    BY <1>1, <2>1, <2>2
  <2>4. row[held].op \in Op \cup {NoOp}
    BY <2>2, SignedInTypes DEF Row
  <2>5. CASE row[held].revoked /\ (Redeemed(held) \/ Lost(held))
    <3>1. row[held].op # NoOp
      BY <2>2, <2>5 DEF Redeemed, Lost
    <3>2. row[held].op = call.op \/ outcome[row[held].op] = "error"
      BY <2>5 DEF Redeemed, Lost, Dropped
    <3>3. outcome'[row[held].op] = "error"
      BY <2>3, <2>4, <3>1, <3>2
    <3>4. Dropped(held)'
      BY <1>5, <2>1, <3>1, <3>3 DEF Dropped
    <3>5. Lost(held)'
      BY <1>5, <2>1, <2>5, <3>1, <3>4 DEF Lost
    <3> QED
      BY <1>5, <2>1, <3>5 DEF SignedIn, Uninterrupted, Session
  <2>6. CASE ~row[held].revoked
    BY <1>5, <2>1, <2>6 DEF SignedIn, Uninterrupted, Session
  <2> QED
    BY <2>1, <2>5, <2>6 DEF SignedIn, Uninterrupted, Session
<1>10. Session'
  BY <1>1, <1>8, <1>9 DEF Answered
<1>11. \A q \in Slot : req[q] = Idle
  <2>1. \A q \in Slot : wire[q].state # "open"
    BY <1>1 DEF SignedIn, Uninterrupted, OneCall, Awaited, Answered
  <2> QED
    BY <2>1 DEF SignedIn, ClientInv, ConsumerInv, Connected
<1>12. Handled'
  BY <1>5, <1>11 DEF Handled
<1> QED
  BY <1>6, <1>7, <1>10, <1>12 DEF Uninterrupted

LEMMA ArriveKeeps ==
    ASSUME SignedIn, NEW p \in Slot, Arrive(p)
    PROVE  Uninterrupted'
<1> DEFINE w == [wire[p] EXCEPT !.state = "open"]
           t == wire[p].tok
           r == [Idle EXCEPT !.pc = "owner", !.mode = Seen(t),
                             !.user = row[t].user, !.client = ClientOf[Owner],
                             !.tok = t, !.op = wire[p].op]
<1>1. /\ wire[p].state = "sent" /\ UNCHANGED <<held, call, outcome, failures>>
      /\ UNCHANGED <<active, issued, row, stored, now>>
      /\ wire' = [wire EXCEPT ![p] = w] /\ req' = [req EXCEPT ![p] = r]
  BY DEF Arrive, RefreshBegin, Start
<1>2. /\ wire \in [Slot -> Wire] /\ req \in [Slot -> Request] /\ wire[p] \in Wire
  BY SignedInTypes
<1>3. /\ w.state = "open" /\ w.op = wire[p].op /\ w.since = wire[p].since
  BY <1>2 DEF Wire
<1>4. /\ r.pc = "owner" /\ r.mode = Seen(t) /\ r.tok = t /\ r.op = wire[p].op
      /\ r.client = ClientOf[Owner]
  BY DEF Idle
<1> HIDE DEF w, r
<1>5. /\ wire'[p] = w /\ req'[p] = r
      /\ \A q \in Slot \ {p} : wire'[q] = wire[q] /\ req'[q] = req[q]
  BY <1>1, <1>2
<1>6. /\ Awaited(p) /\ wire[p].op = call.op /\ wire[p].since = call.since
      /\ now <= call.since + Delay
  BY <1>1 DEF SignedIn, Uninterrupted, OneCall
<1>7. /\ \A q \in Slot \ {p} : wire[q].state = "free"
      /\ call.state = "waiting" /\ call.slot = p
  BY <1>6 DEF SignedIn, Uninterrupted, OneCall, Awaited
<1>8. t = held /\ held # NoToken
  BY <1>1, <1>6 DEF SignedIn, ClientInv, ConsumerInv, Connected, Calling, Awaited,
     Issued, NoToken
<1>9. Undisturbed'
  BY <1>1 DEF SignedIn, Uninterrupted, Undisturbed, Issued
<1>10. OneCall'
  <2>1. ASSUME NEW q \in Slot, wire'[q].state # "free"
        PROVE /\ Awaited(q)'
              /\ wire'[q].op = call.op /\ wire'[q].since = call.since
              /\ wire'[q].state # "answered"
    <3>1. q = p
      BY <1>5, <1>7, <2>1
    <3> QED
      BY <1>1, <1>3, <1>5, <1>6, <3>1 DEF Awaited
  <2> QED
    BY <1>1, <1>6, <2>1 DEF SignedIn, Uninterrupted, OneCall
<1>11. Session'
  BY <1>1, SessionStays
<1>12. Standing(req[p])'
  <2>1. r.tok = held /\ r.op = call.op /\ held' = held /\ call' = call
    BY <1>1, <1>4, <1>6, <1>8
  <2>2. CASE ~row[held].revoked
    <3>1. r.mode = "live"
      BY <1>4, <1>8, <2>2 DEF Seen, Rotated
    <3>2. Doing(req[p])'
      BY <1>1, <1>4, <1>5, <2>1, <2>2, <3>1 DEF Doing
    <3> QED
      BY <1>5, <2>1, <3>2 DEF Standing
  <2>3. CASE row[held].revoked /\ Redeemed(held)
    <3>1. Rotated(row[held])
      BY <2>3 DEF Redeemed, Rotated
    <3>2. r.mode = "rotated"
      BY <1>4, <1>8, <2>3, <3>1 DEF Seen
    <3>3. Doing(req[p])'
      BY <1>1, <1>4, <1>5, <2>1, <2>3, <3>2 DEF Doing
    <3> QED
      BY <1>5, <2>1, <3>3 DEF Standing
  <2>4. CASE Lost(held)
    <3>1. Lost(held)'
      BY <1>1, <2>4 DEF Lost, Dropped, Late
    <3>2. r.mode # "login"
      BY <1>4 DEF Seen
    <3>3. Barren(req[p])'
      BY <1>1, <1>4, <1>5, <2>1, <3>2 DEF Barren
    <3> QED
      BY <1>5, <2>1, <3>1, <3>3 DEF Standing
  <2> QED
    BY <1>8, <2>2, <2>3, <2>4 DEF SignedIn, Uninterrupted, Session
<1>13. Handled'
  <2>1. \A q \in Slot \ {p} : req[q] = Idle
    BY <1>7 DEF SignedIn, ClientInv, ConsumerInv, Connected
  <2> QED
    BY <1>5, <1>12, <2>1 DEF Handled
<1> QED
  BY <1>9, <1>10, <1>11, <1>13 DEF Uninterrupted

(* A loss frees the connection; the call goes on waiting for its timer.  A *)
(* platform that lives answers by an error instead.                        *)
LEMMA LoseKeeps ==
    ASSUME SignedIn, NEW p \in Slot,
           LoseRequest(p) \/ LoseReply(p) \/ Crash(p) \/ ServerError(p)
    PROVE  Uninterrupted'
<1>1. /\ wire[p].state # "free" /\ UNCHANGED <<held, call, outcome>>
      /\ UNCHANGED <<active, issued, row, stored, now>>
  <2>1. CASE Abort(p)
    <3>1. req[p] # Idle
      BY <2>1 DEF Abort, Idle
    <3> QED
      BY <2>1, <3>1, Serves
         DEF LoseRequest, LoseReply, Crash, ServerError, Abort
  <2>2. CASE UNCHANGED vars
    BY <2>2 DEF LoseRequest, LoseReply, Crash, ServerError, Answered, Abort,
       Idle, vars, SignedIn, ClientInv, ConsumerInv, Connected
  <2> QED
    BY <2>1, <2>2 DEF LoseRequest, LoseReply, Crash, ServerError
<1>2. /\ wire \in [Slot -> Wire] /\ req \in [Slot -> Request] /\ wire[p] \in Wire
  BY SignedInTypes
<1>3. /\ call.state = "waiting" /\ call.slot = p
      /\ wire[p].op = call.op /\ wire[p].since = call.since
      /\ now <= call.since + Delay
      /\ \A q \in Slot \ {p} : wire[q].state = "free"
  BY <1>1 DEF SignedIn, Uninterrupted, OneCall, Awaited
<1>4. \/ wire'[p] = Free
      \/ /\ wire'[p].state = "failed" /\ wire'[p].op = call.op
         /\ wire'[p].since = call.since
  <2>1. CASE ServerError(p)
    <3> DEFINE w == [wire[p] EXCEPT !.state = "failed", !.pair = NoToken]
    <3>1. w.state = "failed" /\ w.op = wire[p].op /\ w.since = wire[p].since
      BY <1>2 DEF Wire
    <3>2. wire' = [wire EXCEPT ![p] = w]
      BY <2>1 DEF ServerError
    <3> HIDE DEF w
    <3> QED
      BY <1>2, <1>3, <3>1, <3>2
  <2>2. CASE ~ServerError(p)
    BY <1>2, <2>2 DEF LoseRequest, LoseReply, Crash
  <2> QED
    BY <2>1, <2>2
<1>5. \A q \in Slot \ {p} : wire'[q] = wire[q]
  BY <1>2 DEF LoseRequest, LoseReply, Crash, ServerError
<1>6. \A q \in Slot : req'[q] = Idle
  <2>1. \A q \in Slot \ {p} : req[q] = Idle
    BY <1>3 DEF SignedIn, ClientInv, ConsumerInv, Connected
  <2>2. CASE Abort(p)
    BY <1>2, <2>1, <2>2 DEF Abort, Answer
  <2>3. CASE ~Abort(p)
    <3>1. UNCHANGED req /\ wire[p].state # "open"
      BY <2>3 DEF LoseRequest, LoseReply, Crash, ServerError, Answered, vars
    <3>2. req[p] = Idle
      BY <3>1 DEF SignedIn, ClientInv, ConsumerInv, Connected
    <3> QED
      BY <2>1, <3>1, <3>2
  <2> QED
    BY <2>2, <2>3
<1>7. Undisturbed'
  BY <1>1 DEF SignedIn, Uninterrupted, Undisturbed, Issued
<1>8. OneCall'
  <2>1. ASSUME NEW q \in Slot, wire'[q].state # "free"
        PROVE /\ Awaited(q)'
              /\ wire'[q].op = call.op /\ wire'[q].since = call.since
              /\ wire'[q].state # "answered"
    <3>1. q = p
      BY <1>3, <1>5, <2>1
    <3> QED
      BY <1>1, <1>3, <1>4, <2>1, <3>1 DEF Awaited, Free
  <2> QED
    BY <1>1, <1>3, <2>1 DEF SignedIn, Uninterrupted, OneCall
<1>9. Session'
  BY <1>1, SessionStays
<1>10. Handled'
  BY <1>6 DEF Handled
<1> QED
  BY <1>7, <1>8, <1>9, <1>10 DEF Uninterrupted

LEMMA TickKeeps ==
    ASSUME SignedIn, ClientTick
    PROVE  Uninterrupted'
<1>1. /\ now' = now + 1 /\ UNCHANGED <<active, issued, row, stored, req>>
      /\ UNCHANGED <<held, call, wire, outcome, failures>>
      /\ \A p \in Slot : wire[p].state # "free" => now < wire[p].since + Delay
      /\ call.state = "waiting" => now < call.since + Timeout
  BY DEF ClientTick, Tick, cvars
<1>2. /\ now \in Nat /\ call.since \in Nat /\ Delay \in Nat /\ Timeout \in Nat
  BY SignedInTypes
<1>3. Undisturbed'
  BY <1>1 DEF SignedIn, Uninterrupted, Undisturbed, Issued
<1>4. held \in Issued /\ Lost(held) => Lost(held)'
  BY <1>1, LostStays DEF Lost
<1>5. held # NoToken => held \in Issued
  BY SignedInTypes DEF SignedIn, ClientInv, ConsumerInv, Issued, NoToken
<1>6. held \in Issued /\ row[held].exp <= now => row[held].exp <= now'
  <2>1. held \in Issued => row[held].exp \in Nat
    BY SignedInTypes
  <2> QED
    BY <1>1, <1>2, <2>1
<1>7. OneCall'
  <2>1. call.since <= now'
    BY <1>1, <1>2 DEF SignedIn, Uninterrupted, OneCall
  <2>2. call.state = "waiting" => now' <= call.since + Timeout
    BY <1>1, <1>2
  <2>3. ASSUME NEW q \in Slot, wire[q].state # "free"
        PROVE  /\ now' <= call.since + Delay
               /\ wire[q].state = "answered" =>
                     IF wire[q].pair = NoToken
                        THEN Lost(held)' \/ row[held].exp <= now'
                        ELSE /\ ~row[wire[q].pair].revoked
                             /\ row[wire[q].pair].user = Owner
    <3>1. now < wire[q].since + Delay /\ wire[q].since = call.since
      BY <1>1, <2>3 DEF SignedIn, Uninterrupted, OneCall
    <3>2. now' <= call.since + Delay
      BY <1>1, <1>2, <3>1
    <3>3. Awaited(q)
      BY <2>3 DEF SignedIn, Uninterrupted, OneCall
    <3>4. held \in Issued
      BY <3>3 DEF Awaited, SignedIn, ClientInv, ConsumerInv, Calling
    <3> QED
      BY <1>4, <1>6, <2>3, <3>2, <3>4 DEF SignedIn, Uninterrupted, OneCall
  <2>4. ASSUME NEW q \in Slot, wire[q].state # "free"
        PROVE Awaited(q)' /\ wire[q].op = call.op /\ wire[q].since = call.since
    BY <1>1, <2>4 DEF SignedIn, Uninterrupted, OneCall, Awaited
  <2> QED
    BY <1>1, <2>1, <2>2, <2>3, <2>4 DEF OneCall
<1>8. Session'
  BY <1>1, SessionStays
<1>9. Handled'
  <2>1. ASSUME NEW p \in Slot, req[p] # Idle PROVE Standing(req[p])'
    <3>1. /\ Standing(req[p]) /\ req[p] \in Request /\ held \in Issued
          /\ held # NoToken
      BY <2>1, SignedInTypes, Serves
    <3>2. req[p].at \in Nat
      BY <3>1 DEF Request
    <3>3. req[p].at <= now => req[p].at <= now'
      BY <1>1, <1>2, <3>2
    <3>4. Doing(req[p]) => Doing(req[p])'
      BY <1>1, <1>6, <3>1, <3>3 DEF Doing
    <3>5. Barren(req[p]) => Barren(req[p])'
      BY <1>1 DEF Barren
    <3> QED
      BY <1>1, <1>4, <3>1, <3>4, <3>5 DEF Standing
  <2> QED
    BY <1>1, <2>1 DEF Handled
<1> QED
  BY <1>3, <1>7, <1>8, <1>9 DEF Uninterrupted

LEMMA SignedInFirst == ClientInit => Uninterrupted
<1> SUFFICES ASSUME ClientInit PROVE Uninterrupted
  OBVIOUS
<1>1. Undisturbed
  BY DEF ClientInit, Undisturbed, Issued
<1>2. OneCall
  BY DEF ClientInit, OneCall, NoCall, Free
<1>3. row[1] = NewRow(Owner, 1, 0)
  BY DEF ClientInit
<1>4. Session
  BY <1>3 DEF ClientInit, Session, NewRow
<1>5. Handled
  BY DEF ClientInit, Handled
<1> QED
  BY <1>1, <1>2, <1>4, <1>5 DEF Uninterrupted

LEMMA StaysSignedIn ==
    ASSUME GraceWithinLife, SignedIn, [ClientNext]_allvars, ~overtaken'
    PROVE  Uninterrupted'
<1>1. CASE \E p \in Slot : Discard(p)
  BY <1>1 DEF Discard, Answered, SignedIn, Uninterrupted, OneCall
<1>2. CASE UNCHANGED allvars
  <2>1. /\ UNCHANGED <<active, issued, row, stored, req, now>>
        /\ UNCHANGED <<held, call, wire, outcome>>
    BY <1>2 DEF allvars, vars, cvars
  <2>2. (Lost(held) <=> Lost(held)') /\ \A p \in Slot : Awaited(p) <=> Awaited(p)'
    BY <2>1 DEF Lost, Dropped, Late, Awaited
  <2>3. Undisturbed' /\ OneCall'
    BY <2>1, <2>2 DEF SignedIn, Uninterrupted, Undisturbed, OneCall, Issued
  <2>4. Session'
    BY <2>1, SessionStays
  <2>5. Handled'
    BY <2>1, <2>2 DEF SignedIn, Uninterrupted, Handled, Standing, Doing, Barren
  <2> QED
    BY <2>3, <2>4, <2>5 DEF Uninterrupted
<1> QED
  BY <1>1, <1>2, RefreshKeeps, ResendKeeps, ReceiveKeeps, GiveUpKeeps,
     ArriveKeeps, ServeSignedIn, LoseKeeps, TickKeeps
     DEF ClientNext, Consume, Serving, Losing

(* Once a call has been overtaken, it stays on record.                     *)
LEMMA OvertakenStays ==
    ASSUME ClientInv, [ClientNext]_allvars, overtaken
    PROVE  overtaken'
  BY DEF ClientNext, Consume, Serving, Losing, Refresh, Resend, Receive, Discard,
     GiveUp, Arrive, Serve, LoseRequest, LoseReply, Crash, ServerError,
     ClientTick, cvars, allvars

LEMMA SignedInHolds ==
    ASSUME GraceWithinLife
    PROVE  ClientSpec => [](overtaken \/ SignedIn)
<1> DEFINE Inv == ClientInv /\ (overtaken \/ Uninterrupted)
<1>1. ClientInit /\ ClientInv => Inv
  BY SignedInFirst
<1>2. ASSUME Inv, ClientInv', [ClientNext]_allvars PROVE Inv'
  <2>1. CASE overtaken
    BY <1>2, <2>1, OvertakenStays
  <2>2. CASE Uninterrupted
    BY <1>2, <2>2, StaysSignedIn DEF SignedIn
  <2> QED
    BY <1>2, <2>1, <2>2
<1>3. Inv /\ ClientInv' /\ [ClientNext]_allvars => Inv'
  BY <1>2
<1>4. Inv => overtaken \/ SignedIn
  BY DEF SignedIn
<1> QED
  BY <1>1, <1>3, <1>4, ClientInvHolds, PTL DEF ClientSpec

(* The platform revokes everything only for a token of the consumer that   *)
(* it cannot redeem any more.                                              *)
LEMMA ReplayIsOfLost ==
    ASSUME SignedIn, NEW p \in Slot, req[p].mode = "replay"
    PROVE  req[p].tok = held /\ Lost(held) /\ req[p] # Idle
<1>1. req[p] # Idle
  BY DEF Idle
<1> QED
  BY <1>1, Serves DEF Standing, Doing

(* Whatever the timeouts are, whatever is lost, dies or is answered by an  *)
(* error: a consumer that serializes its refreshes, repeats an unanswered  *)
(* one with the same id and never repeats one that an error answered is    *)
(* taken for a thief only if an error ended the redeeming call, the token  *)
(* comes after its grace period, or a call was given up while its request  *)
(* was under way.                                                          *)
THEOREM TakenForThiefOnlyIfExcused ==
    ASSUME GraceWithinLife
    PROVE  ClientSpec => []NeverSignedOutEverywhere
<1>1. overtaken \/ SignedIn => NeverSignedOutEverywhere
  BY ReplayIsOfLost DEF NeverSignedOutEverywhere, Excused, Lost
<1> QED
  BY <1>1, SignedInHolds, PTL

(* A 401 ends a refresh, and the session with it, for the same reasons or  *)
(* because the token had expired.                                          *)
THEOREM SessionEndsForCause ==
    ASSUME GraceWithinLife
    PROVE  ClientSpec => RefreshSucceeds
<1> DEFINE A == held' = NoToken /\ held # NoToken =>
                   Excused(held) \/ row[held].exp <= now
<1>1. ASSUME overtaken \/ SignedIn, [ClientNext]_allvars PROVE [A]_allvars
  <2>1. ASSUME SignedIn, NEW p \in Slot, Receive(p) PROVE A
    <3>1. /\ Answered(p) /\ Awaited(p) /\ held' = TokenAfter(wire[p])
      BY <2>1 DEF Receive
    <3>2. CASE wire[p].state = "failed"
      BY <3>1, <3>2 DEF TokenAfter
    <3>3. CASE wire[p].state = "answered" /\ wire[p].pair = NoToken
      <4>1. Lost(held) \/ row[held].exp <= now
        BY <2>1, <3>3 DEF SignedIn, Uninterrupted, OneCall
      <4> QED
        BY <4>1 DEF Lost, Excused
    <3>4. CASE wire[p].state = "answered" /\ wire[p].pair # NoToken
      BY <3>1, <3>4 DEF TokenAfter
    <3> QED
      BY <3>1, <3>2, <3>3, <3>4 DEF Answered
  <2>2. ASSUME \A p \in Slot : ~Receive(p) PROVE held' = held
    BY <1>1, <2>2 DEF ClientNext, Consume, Serving, Losing, Refresh, Resend,
       Discard, GiveUp, Arrive, Serve, LoseRequest, LoseReply, Crash,
       ServerError, ClientTick, cvars, allvars
  <2>3. CASE overtaken
    BY <2>3 DEF Excused
  <2> QED
    BY <1>1, <2>1, <2>2, <2>3
<1>2. (overtaken \/ SignedIn) /\ [ClientNext]_allvars => [A]_allvars
  BY <1>1
<1>3. ClientSpec => [][A]_allvars
  BY <1>2, SignedInHolds, PTL DEF ClientSpec
<1> QED
  BY <1>3 DEF RefreshSucceeds

-----------------------------------------------------------------------------
(* When the grace period covers what the failures cost                     *)

(* The SDK waits longer than a request can take, and the grace period      *)
(* covers every timeout that a failure can cost and the way of the last    *)
(* repetition.                                                             *)
Patience ==
    /\ Delay < Timeout
    /\ Grace >= Timeout * MaxFailures + Delay
    /\ Grace < Life

(* A rotation whose answer is lost is repeated one timeout later, and each *)
(* further failure costs one more.                                         *)
Due(t) == row[t].at + Timeout * failures

InTime(t) ==
    /\ call.state = "ambiguous" => now <= Due(t)
    /\ call.state = "waiting" =>
          IF wire[call.slot].state = "free" THEN call.since + Timeout <= Due(t)
                                            ELSE call.since <= Due(t)

(* The call that redeemed the token is repeated in time.                   *)
Timely == call.state # "none" /\ row[held].op = call.op => InTime(held)

(* What a failure costs: the time the SDK waits.                           *)
LEMMA Cost ==
    /\ \A f \in Nat : Timeout * f \in Nat /\ Timeout * (f + 1) = Timeout * f + Timeout
    /\ \A f \in 0..MaxFailures : Timeout * f <= Timeout * MaxFailures
<1>1. Timeout \in Nat /\ MaxFailures \in Nat
  BY ClientAssumption
<1>2. \A f \in Nat : Timeout * f \in Nat /\ Timeout * (f + 1) = Timeout * f + Timeout
  BY <1>1
<1>3. ASSUME NEW f \in 0..MaxFailures PROVE Timeout * f <= Timeout * MaxFailures
  <2> DEFINE d == MaxFailures - f
  <2>1. d \in Nat /\ MaxFailures = f + d
    BY <1>1
  <2>2. Timeout * d \in Nat
    BY <1>1, <2>1
  <2>3. Timeout * (f + d) = Timeout * f + Timeout * d
    BY <1>1, <2>1
  <2>4. Timeout * f \in Nat
    BY <1>1
  <2> QED
    BY <2>1, <2>2, <2>3, <2>4
<1> QED
  BY <1>2, <1>3

LEMMA TimelySend ==
    ASSUME SignedIn, NEW p \in Slot, NEW op \in Op, NEW tok, Send(p, tok, op),
           UNCHANGED <<vars, held, failures>>,
           row[held].op = op => now <= Due(held)
    PROVE  Timely'
<1> DEFINE c == [state |-> "waiting", tok |-> tok, op |-> op, slot |-> p,
                 since |-> now]
           w == [Free EXCEPT !.state = "sent", !.tok = tok, !.op = op,
                             !.since = now]
<1>1. call' = c /\ wire' = [wire EXCEPT ![p] = w] /\ wire \in [Slot -> Wire]
  BY SignedInTypes DEF Send
<1>2. c.state = "waiting" /\ c.op = op /\ c.slot = p /\ c.since = now
  OBVIOUS
<1>3. w.state = "sent"
  BY DEF Free
<1> HIDE DEF c, w
<1>4. wire'[call'.slot].state # "free"
  BY <1>1, <1>2, <1>3
<1>5. row' = row /\ held' = held /\ Due(held)' = Due(held)
  BY DEF vars, Due
<1> QED
  BY <1>1, <1>2, <1>4, <1>5 DEF Timely, InTime

(* Only a rotation by the call under way makes its operation the token's.  *)
LEMMA TimelyServe ==
    ASSUME GraceWithinLife, SignedIn, Timely, NEW p \in Slot, Serve(p)
    PROVE  Timely'
<1> DEFINE r == req[p]
<1>1. /\ r # Idle /\ UNCHANGED <<now, held, call, failures>>
      /\ call.state = "waiting" /\ call.slot = p /\ wire[p].state = "open"
      /\ held \in Issued /\ r.tok = held
      /\ call.op \in Op /\ outcome[call.op] = "open" /\ call.op # NoOp
  BY SignedInTypes, ContinueOne, Serves, OpAssumption DEF Serve
<1>2. wire'[p].state # "free"
  <2>1. wire[p] \in Wire /\ wire \in [Slot -> Wire]
    BY SignedInTypes
  <2> QED
    BY <1>1, <2>1 DEF Serve, Wire
<1>3. SUFFICES ASSUME row'[held].op = call.op PROVE (call.since <= Due(held))'
  BY <1>1, <1>2 DEF Timely, InTime
<1>4. ASSUME row'[held].op = row[held].op, row'[held].at = row[held].at
      PROVE  (call.since <= Due(held))'
  <2>1. call.since <= Due(held)
    BY <1>1, <1>3, <1>4 DEF Timely, InTime
  <2> QED
    BY <1>1, <1>4, <2>1 DEF Due
<1>5. CASE Lost(held)
  <2>1. OnlyRevokes
    BY <1>5, LostRows
  <2> QED
    BY <1>1, <1>4, <2>1 DEF OnlyRevokes, Unlinked
<1>6. CASE ~Lost(held) /\ r.pc = "rotate"
  <2>1. Rotate(p)
    BY <1>6 DEF Serve, Continue, Prepare, InsertSession, RefreshOwner, Rotate,
       Candidate, Retry, Latest, SnapshotAll, ApplyAll, LogoutUpdate
  <2>2. call.since <= r.at /\ r.at <= now
    BY <1>1, <1>6, Serves DEF Standing, Doing
  <2>3. CASE Consumable(r.tok, r.at)
    <3> DEFINE F == Timeout * failures
    <3>1. row'[held].at = r.at
      BY <1>1, <2>1, <2>3, RotateMakes, SignedInTypes
    <3>2. F \in Nat /\ r.at \in Nat /\ call.since \in Nat
      BY Cost, SignedInTypes DEF Request
    <3>3. Due(held)' = r.at + F
      BY <1>1, <3>1 DEF Due
    <3> HIDE DEF F
    <3>4. call.since <= r.at + F
      BY <2>2, <3>2
    <3> QED
      BY <1>1, <3>3, <3>4
  <2>4. CASE ~Consumable(r.tok, r.at)
    <3>1. UNCHANGED row
      BY <2>1, <2>4 DEF Rotate
    <3> QED
      BY <1>4, <3>1
  <2> QED
    BY <2>3, <2>4
<1>7. CASE ~Lost(held) /\ r.pc = "retry"
  <2>1. Retry(p)
    BY <1>7 DEF Serve, Continue, Prepare, InsertSession, RefreshOwner, Rotate,
       Candidate, Retry, Latest, SnapshotAll, ApplyAll, LogoutUpdate
  <2>2. row[held].revoked /\ r.op = call.op
    BY <1>1, <1>7, Serves DEF Standing, Doing
  <2>3. /\ RetryAdmitted(r.tok, r.op)
        /\ Replaceable(row[r.tok].next, row[held].user)
    BY <1>1, <1>7, <2>2, StillDue
  <2>4. row[held].user = r.user
    <3>1. Claim(r)
      BY DEF SignedIn, ClientInv, Claims
    <3> QED
      BY <1>1, <1>7, <3>1 DEF Claim, Holding
  <2>5. row'[held].op = row[held].op /\ row'[held].at = row[held].at
    BY <1>1, <2>1, <2>3, <2>4, RetryMakes, SignedInTypes
  <2> QED
    BY <1>4, <2>5
<1>8. CASE ~Lost(held) /\ r.pc \notin {"rotate", "retry"}
  <2>1. Doing(r)
    BY <1>1, <1>8, Serves DEF Standing
  <2>2. UNCHANGED row
    BY <1>8, <2>1 DEF Serve, Doing, Continue, Prepare, InsertSession,
       RefreshOwner, Rotate, Candidate, Retry, Latest, SnapshotAll, ApplyAll,
       LogoutUpdate
  <2> QED
    BY <1>4, <2>2
<1> QED
  BY <1>5, <1>6, <1>7, <1>8

LEMMA TimelyLose ==
    ASSUME SignedIn, Timely, NEW p \in Slot,
           LoseRequest(p) \/ LoseReply(p) \/ Crash(p) \/ ServerError(p)
    PROVE  Timely'
<1> DEFINE a == row[held].at
           F == Timeout * failures
           G == Timeout * (failures + 1)
<1>1. /\ wire[p].state # "free" /\ UNCHANGED <<held, call, row>>
      /\ failures' = failures + 1
  <2>1. CASE Abort(p)
    <3>1. req[p] # Idle
      BY <2>1 DEF Abort, Idle
    <3> QED
      BY <2>1, <3>1, Serves
         DEF LoseRequest, LoseReply, Crash, ServerError, Abort, Fail
  <2>2. CASE UNCHANGED vars
    BY <2>2 DEF LoseRequest, LoseReply, Crash, ServerError, Answered, Abort,
       Fail, Idle, vars, SignedIn, ClientInv, ConsumerInv, Connected
  <2> QED
    BY <2>1, <2>2 DEF LoseRequest, LoseReply, Crash, ServerError
<1>2. call.state = "waiting" /\ call.slot = p
  BY <1>1 DEF SignedIn, Uninterrupted, OneCall, Awaited
<1>3. SUFFICES ASSUME row[held].op = call.op PROVE InTime(held)'
  BY <1>1 DEF Timely
<1>4. call.since <= a + F
  BY <1>1, <1>2, <1>3 DEF Timely, InTime, Due
<1>5. /\ call.since \in Nat /\ Timeout \in Nat /\ failures \in Nat
      /\ F \in Nat /\ G = F + Timeout /\ a \in Nat
  <2>1. held \in Issued
    BY <1>2 DEF SignedIn, ClientInv, ConsumerInv, Calling
  <2> QED
    BY <2>1, Cost, SignedInTypes
<1>6. Due(held)' = a + G
  BY <1>1 DEF Due
<1> HIDE DEF a, F, G
<1>7. call.since + Timeout <= a + G /\ call.since <= a + G
  BY <1>4, <1>5
<1> QED
  BY <1>1, <1>2, <1>6, <1>7 DEF InTime

LEMMA TimelyGiveUp ==
    ASSUME SignedIn, Timely, GiveUp, ~overtaken'
    PROVE  Timely'
<1>1. /\ UNCHANGED <<vars, held, wire>> /\ call.state = "waiting"
      /\ Ambiguous(call.slot) /\ call' = [call EXCEPT !.state = "ambiguous"]
      /\ ~Unfinished(call.slot)
  BY DEF GiveUp
<1>2. /\ now \in Nat /\ call.since \in Nat /\ Timeout \in Nat /\ call \in Call
  BY SignedInTypes
<1>3. call'.state = "ambiguous" /\ call'.op = call.op
  BY <1>1, <1>2 DEF Call
<1>4. wire[call.slot].state = "free" /\ UNCHANGED failures
  BY <1>1 DEF Ambiguous
<1>5. now <= call.since + Timeout
  BY <1>1 DEF SignedIn, Uninterrupted, OneCall
<1>6. SUFFICES ASSUME row[held].op = call.op PROVE (now <= Due(held))'
  BY <1>1, <1>3 DEF Timely, InTime, vars
<1>7. call.since + Timeout <= Due(held)
  BY <1>1, <1>4, <1>6 DEF Timely, InTime
<1>8. Due(held) \in Nat
  <2>1. held \in Issued
    BY <1>1 DEF SignedIn, ClientInv, ConsumerInv, Calling
  <2>2. row[held].at \in Nat /\ Timeout * failures \in Nat
    BY <2>1, Cost, SignedInTypes
  <2> QED
    BY <2>2 DEF Due
<1>9. now <= Due(held)
  BY <1>2, <1>5, <1>7, <1>8
<1> QED
  BY <1>1, <1>4, <1>9 DEF Due, vars

LEMMA StaysTimely ==
    ASSUME GraceWithinLife, SignedIn, Timely, [ClientNext]_allvars, ~overtaken'
    PROVE  Timely'
<1>1. ASSUME NEW p \in Slot, Refresh(p) PROVE Timely'
  <2>1. PICK op \in Op : Send(p, held, op) /\ outcome[op] = "unused"
    BY <1>1 DEF Refresh
  <2>2. UNCHANGED <<vars, held, failures>> /\ call.state = "none" /\ held # NoToken
    BY <1>1 DEF Refresh
  <2>3. op # NoOp
    BY OpAssumption
  <2>4. row[held].op # op
    <3>1. CASE ~row[held].revoked
      <4>1. held \in Issued
        BY <2>2, SignedInTypes
           DEF SignedIn, ClientInv, ConsumerInv, Issued, NoToken
      <4> QED
        BY <2>3, <3>1, <4>1 DEF SignedIn, ClientInv, IInv, Links
    <3>2. CASE Lost(held)
      BY <2>1, <2>2, <3>2 DEF Lost, Dropped
    <3> QED
      BY <2>2, <3>1, <3>2 DEF SignedIn, Uninterrupted, Session
  <2> QED
    BY <2>1, <2>2, <2>4, TimelySend
<1>2. ASSUME NEW p \in Slot, Resend(p) PROVE Timely'
  <2>1. /\ Send(p, call.tok, call.op) /\ UNCHANGED <<vars, held, failures>>
        /\ call.state = "ambiguous"
    BY <1>2 DEF Resend, ResendOp
  <2>2. call.op \in Op /\ (row[held].op = call.op => now <= Due(held))
    BY <2>1 DEF SignedIn, ClientInv, ConsumerInv, Calling, Timely, InTime
  <2> QED
    BY <2>1, <2>2, TimelySend
<1>3. ASSUME NEW p \in Slot, Receive(p) PROVE Timely'
  BY <1>3 DEF Receive, NoCall, Timely
<1>4. ASSUME NEW p \in Slot, Arrive(p) PROVE Timely'
  <2>1. /\ UNCHANGED <<held, call, failures, row, now>> /\ wire[p].state = "sent"
        /\ wire' = [wire EXCEPT ![p].state = "open"] /\ wire \in [Slot -> Wire]
    BY <1>4, SignedInTypes DEF Arrive, RefreshBegin
  <2>2. wire[p] \in Wire
    BY <2>1
  <2>3. wire'[p].state # "free"
    BY <2>1, <2>2 DEF Wire
  <2>4. call.slot = p
    BY <2>1 DEF SignedIn, Uninterrupted, OneCall, Awaited
  <2> QED
    BY <2>1, <2>3, <2>4 DEF Timely, InTime, Due
<1>5. ASSUME ClientTick PROVE Timely'
  BY <1>5 DEF ClientTick, Tick, cvars, Timely, InTime, Due
<1>6. CASE \E p \in Slot : Discard(p)
  BY <1>6 DEF Discard, Answered, SignedIn, Uninterrupted, OneCall
<1>7. CASE UNCHANGED allvars
  BY <1>7 DEF allvars, vars, cvars, Timely, InTime, Due
<1> QED
  BY <1>1, <1>2, <1>3, <1>4, <1>5, <1>6, <1>7, TimelyGiveUp, TimelyServe,
     TimelyLose DEF ClientNext, Consume, Serving, Losing

(* "A transient response loss no longer signs the user out everywhere":    *)
(* true if the grace period covers the timeouts that the failures cost and *)
(* the last request's way, which the defaults of ten seconds each do not.  *)
THEOREM PatientConsumerStaysSignedIn ==
    ASSUME Patience
    PROVE  ClientSpec => []LossSignsNobodyOut
<1>0. GraceWithinLife
  BY DEF Patience, GraceWithinLife
<1>1. ClientInit => Timely
  BY DEF ClientInit, NoCall, Timely
<1>2. ASSUME overtaken \/ (SignedIn /\ Timely), overtaken \/ SignedIn,
             (overtaken \/ SignedIn)', ClientInv, [ClientNext]_allvars
      PROVE  (overtaken \/ (SignedIn /\ Timely))'
  <2>1. CASE overtaken
    BY <1>2, <2>1, OvertakenStays
  <2>2. CASE ~overtaken' /\ SignedIn /\ Timely
    BY <1>0, <1>2, <2>2, StaysTimely
  <2> QED
    BY <1>2, <2>1, <2>2
<1>3. overtaken \/ (SignedIn /\ Timely) => LossSignsNobodyOut
  <2> SUFFICES ASSUME SignedIn, Timely, NEW p \in Slot, req[p].mode = "replay",
                      ~Dropped(req[p].tok)
               PROVE  FALSE
    BY DEF LossSignsNobodyOut
  <2>1. req[p].tok = held /\ Lost(held) /\ req[p] # Idle
    BY ReplayIsOfLost
  <2>2. /\ call.state = "waiting" /\ call.slot = p /\ wire[p].state = "open"
        /\ now <= call.since + Delay /\ held \in Issued
    BY <2>1, Serves
  <2>3. row[held].op = call.op /\ Late(held)
    BY <2>1 DEF Lost
  <2> DEFINE F == Timeout * failures
             M == Timeout * MaxFailures
             a == row[held].at
  <2>4. call.since <= a + F
    BY <2>2, <2>3 DEF Timely, InTime, Due
  <2>5. F \in Nat /\ F <= M /\ M \in Nat
    <3>1. failures \in 0..MaxFailures /\ MaxFailures \in Nat
      BY SignedInTypes, ClientAssumption
    <3> QED
      BY <3>1, Cost
  <2>6. /\ now \in Nat /\ a \in Nat /\ call.since \in Nat /\ Delay \in Nat
        /\ Grace \in Nat /\ Grace >= M + Delay
    BY <2>2, SignedInTypes DEF Patience
  <2>7. a + Grace < now
    BY <2>3 DEF Late
  <2> HIDE DEF F, M, a
  <2> QED
    BY <2>2, <2>4, <2>5, <2>6, <2>7
<1>4. (overtaken \/ (SignedIn /\ Timely)) /\ (overtaken \/ SignedIn)
      /\ (overtaken \/ SignedIn)' /\ ClientInv /\ [ClientNext]_allvars
         => (overtaken \/ (SignedIn /\ Timely))'
  BY <1>2
<1>5. ClientInit /\ (overtaken \/ SignedIn) => overtaken \/ (SignedIn /\ Timely)
  BY <1>1
<1>6. ClientSpec => [](overtaken \/ SignedIn)
  BY <1>0, SignedInHolds
<1> QED
  BY <1>3, <1>4, <1>5, <1>6, ClientInvHolds, PTL DEF ClientSpec
=============================================================================
