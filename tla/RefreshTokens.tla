---------------------------- MODULE RefreshTokens ----------------------------
(***************************************************************************)
(* Sessions of the identity platform: the refresh_tokens table and every   *)
(* request that writes it.                                                 *)
(*                                                                         *)
(* Any number of Express workers serve requests over one PostgreSQL        *)
(* database at READ COMMITTED.  A request is a slot that runs one handler  *)
(* at a time, and a step of a handler is what happens up to its next       *)
(* await: one statement, one transaction, or the hashing and signing of a  *)
(* new pair.  Between two steps of one request any other request moves.    *)
(*                                                                         *)
(*   login     LoginBegin -> Prepare -> InsertSession                      *)
(*   refresh   RefreshBegin -> RefreshOwner -> Prepare -> Rotate           *)
(*             (lost the race, or a rotated token was presented:)          *)
(*             -> Candidate -> Prepare -> Retry -> Latest -> revoke all    *)
(*   logout    LogoutBegin -> LogoutUpdate                                 *)
(*   revoke    ...Begin -> SnapshotAll -> ApplyAll                         *)
(*                                                                         *)
(* An UPDATE of many rows reads the rows that exist when the statement     *)
(* starts, waits for the locks of those being changed, and evaluates its   *)
(* WHERE again on what it finds: two steps, SnapshotAll and ApplyAll.  The *)
(* transactions of the two rotations write rows they hold locked: one step.*)
(***************************************************************************)
EXTENDS Naturals, FiniteSets

CONSTANTS
    User,          \* accounts
    Client,        \* applications; every user belongs to one
    ClientOf,      \* users.client_id
    Slot,          \* requests in flight at one time
    Op,            \* refresh operation ids (their hashes)
    NoOp,          \* rotation_operation_hash IS NULL
    Grace,         \* REFRESH_RETRY_GRACE_SECONDS, in ticks
    Life,          \* JWT_REFRESH_EXPIRY_DAYS, in ticks
    Retention,     \* RETENTION_DAYS of the cleanup job, in ticks
    LegacyOwner,   \* owners of the rows that an older release rotated
    MaxTokens,     \* bound: rows ever inserted
    MaxTime        \* bound: ticks of the clock

ASSUME UserAssumption   == User # {} /\ ClientOf \in [User -> Client]
ASSUME OpAssumption     == NoOp \notin Op
ASSUME TimeAssumption   == Grace \in Nat /\ Life \in Nat /\ Retention \in Nat
ASSUME LegacyAssumption == LegacyOwner \subseteq User /\ IsFiniteSet(LegacyOwner)
ASSUME BoundAssumption  == MaxTokens \in Nat /\ MaxTime \in Nat

VARIABLES
    active,   \* users.is_active
    issued,   \* number of rows ever inserted; ids are 1..issued
    row,      \* the rows, kept as history after their deletion
    stored,   \* ids of the rows that are in the table
    req,      \* per slot: the handler's position and local variables
    now       \* the platform's clock
vars == <<active, issued, row, stored, req, now>>

NoToken == 0

(* Null is what releases before revoked_reason left behind; the code reads *)
(* it as "rotated".                                                        *)
Reason == {"none", "null", "rotated", "retry", "logout", "user_revoked",
           "security"}

(* root is history: the id of the row the login inserted, so that the rows *)
(* one login led to are those with the same root.  op and at are           *)
(* rotation_operation_hash and rotated_at, always written together;        *)
(* next is replaced_by_token_id.                                           *)
Row == [user : User, root : Nat, revoked : BOOLEAN, reason : Reason,
        op : Op \cup {NoOp}, at : Nat, next : Nat, exp : Nat]

Position == {"idle", "prepare", "insert", "owner", "rotate", "candidate",
             "retry", "latest", "logout", "snapshot", "apply"}

(* What brought the request to its position.                               *)
Mode == {"none",
         "login", "refresh",            \* which pair is being prepared
         "direct", "lost",              \* how a retry came about
         "live", "rotated", "ended",    \* the row as the first SELECT saw it
         "replay", "deactivate", "credentials", "everywhere"} \* revoke all

(* at is the time a step captured, ids the rows an UPDATE started from.    *)
Request == [pc : Position, mode : Mode, user : User, client : Client,
            tok : Nat, op : Op \cup {NoOp}, at : Nat, ids : SUBSET Nat]

AnyUser == CHOOSE u \in User : TRUE
AnyClient == CHOOSE c \in Client : TRUE

Idle == [pc |-> "idle", mode |-> "none", user |-> AnyUser,
         client |-> AnyClient, tok |-> NoToken, op |-> NoOp, at |-> 0,
         ids |-> {}]

TypeOK ==
    /\ active \in [User -> BOOLEAN]
    /\ issued \in 0..MaxTokens
    /\ row \in [1..issued -> Row]
    /\ stored \subseteq 1..issued
    /\ req \in [Slot -> Request]
    /\ now \in 0..MaxTime

-----------------------------------------------------------------------------
(* Rows *)

NewRow(u, root, at) ==
    [user |-> u, root |-> root, revoked |-> FALSE, reason |-> "none",
     op |-> NoOp, at |-> 0, next |-> NoToken, exp |-> at + Life]

LegacyRow(u, id) ==
    [NewRow(u, id, 0) EXCEPT !.revoked = TRUE, !.reason = "null"]

Revoke(r, why) == [r EXCEPT !.revoked = TRUE, !.reason = why]

With(rows, r) ==
    [t \in 1..(issued + 1) |-> IF t = issued + 1 THEN r ELSE rows[t]]

(* Names of the form X_Y are slips a programmer could make in X.  Nothing  *)
(* uses them: each shows that the property named beside it in the project  *)
(* manifest would notice.                                                  *)

Rotated_AnyReason(r) == r.revoked

Rotated(r) == r.revoked /\ r.reason \in {"null", "rotated"}

Consumable_Unchecked(t, at) == t \in stored /\ row[t].exp > at

(* The WHERE of the rotation's UPDATE.                                     *)
Consumable(t, at) == t \in stored /\ ~row[t].revoked /\ row[t].exp > at

Replaceable_Ended(s, u) == s \in stored /\ row[s].user = u /\ row[s].exp > now

(* The successor's UPDATE, which decides whether it is still unused.       *)
Replaceable(s, u) ==
    s \in stored /\ row[s].user = u /\ ~row[s].revoked /\ row[s].exp > now

Repointed_Forgotten(t, s) == [row EXCEPT ![s] = Revoke(@, "retry")]
Repointed_Restarted(t, s) ==
    [row EXCEPT ![s] = Revoke(@, "retry"), ![t].next = issued + 1, ![t].at = now]

(* What an accepted retry writes: the successor, then the predecessor.     *)
Repointed(t, s) == [row EXCEPT ![s] = Revoke(@, "retry"), ![t].next = issued + 1]

RetryAdmitted_Milliseconds(t, op) ==
    /\ t \in stored
    /\ Rotated(row[t])
    /\ row[t].op = op
    /\ row[t].at >= now
    /\ row[t].next # NoToken

RetryAdmitted_AnyOperation(t, op) ==
    /\ t \in stored
    /\ Rotated(row[t])
    /\ row[t].at + Grace >= now
    /\ row[t].next # NoToken

(* Every condition under which replaceUnusedRefreshSuccessor goes on,      *)
(* asked once without and once with the predecessor's lock.                *)
RetryAdmitted(t, op) ==
    /\ t \in stored
    /\ Rotated(row[t])
    /\ row[t].op = op
    /\ row[t].at + Grace >= now
    /\ row[t].next # NoToken

-----------------------------------------------------------------------------
(* Requests *)

Goto(p, pc) == req' = [req EXCEPT ![p].pc = pc]
GotoAs(p, pc, mode) == req' = [req EXCEPT ![p].pc = pc, ![p].mode = mode]
Answer(p) == req' = [req EXCEPT ![p] = Idle]
Start(p, r) == req[p] = Idle /\ req' = [req EXCEPT ![p] = r]

(* revokeSessionsForReplay needs the owner alone; the token stays on record *)
(* for the properties.                                                     *)
BeginReplay(p) ==
    req' = [req EXCEPT ![p] = [Idle EXCEPT !.pc = "snapshot", !.mode = "replay",
                                           !.user = req[p].user,
                                           !.client = req[p].client,
                                           !.tok = req[p].tok]]

Init ==
    /\ active = [u \in User |-> TRUE]
    /\ issued = Cardinality(LegacyOwner)
    /\ issued <= MaxTokens
    /\ \E own \in [1..issued -> LegacyOwner] :
          row = [t \in 1..issued |-> LegacyRow(own[t], t)]
    /\ stored = 1..issued
    /\ req = [p \in Slot |-> Idle]
    /\ now = 0

-----------------------------------------------------------------------------
(* A session begins: login, register and the OAuth exchange share          *)
(* issueSession.                                                           *)

LoginBegin(p, u) ==
    /\ active[u]
    /\ Start(p, [Idle EXCEPT !.pc = "prepare", !.mode = "login", !.user = u,
                             !.client = ClientOf[u]])
    /\ UNCHANGED <<active, issued, row, stored, now>>

(* The permission query, the signature and the new refresh token.          *)
Prepare(p) ==
    /\ req[p].pc = "prepare"
    /\ req' = [req EXCEPT ![p].at = now,
                          ![p].pc = CASE req[p].mode = "login" -> "insert"
                                      [] req[p].mode = "refresh" -> "rotate"
                                      [] OTHER -> "retry"]
    /\ UNCHANGED <<active, issued, row, stored, now>>

InsertSession(p) ==
    /\ req[p].pc = "insert"
    /\ issued < MaxTokens
    /\ row' = With(row, NewRow(req[p].user, issued + 1, req[p].at))
    /\ issued' = issued + 1
    /\ stored' = stored \cup {issued + 1}
    /\ Answer(p)
    /\ UNCHANGED <<active, now>>

-----------------------------------------------------------------------------
(* POST /auth/refresh *)

(* The token's row as the handler will remember it.                        *)
Seen(t) ==
    CASE ~row[t].revoked -> "live"
      [] Rotated(row[t]) -> "rotated"
      [] OTHER -> "ended"

RefreshBegin(p, t, op, c) ==
    /\ t \in stored
    /\ Start(p, [Idle EXCEPT !.pc = "owner", !.mode = Seen(t),
                             !.user = row[t].user, !.client = c,
                             !.tok = t, !.op = op])
    /\ UNCHANGED <<active, issued, row, stored, now>>

OwnedByCaller_Anyone(r) == TRUE
OwnedByCaller(r) == ClientOf[r.user] = r.client

(* The owner is read, within the calling client, and the handler decides   *)
(* on the row it saw one step earlier.                                     *)
RefreshOwner(p) ==
    LET r == req[p]
        owner == OwnedByCaller(r)
        expired == row[r.tok].exp < now
    IN /\ r.pc = "owner"
       /\ \/ /\ owner /\ active[r.user] /\ r.mode = "live" /\ ~expired
             /\ GotoAs(p, "prepare", "refresh")
          \/ /\ owner /\ active[r.user] /\ r.mode = "rotated"
             /\ GotoAs(p, "candidate", "direct")
          \/ /\ owner /\ ~active[r.user] /\ r.mode = "rotated"
             /\ BeginReplay(p)
          \/ /\ \/ ~owner
                \/ r.mode = "ended"
                \/ r.mode = "live" /\ (expired \/ ~active[r.user])
             /\ Answer(p)
       /\ UNCHANGED <<active, issued, row, stored, now>>

(* The transaction that consumes the token and inserts its successor.  The *)
(* expiry is compared with the time captured after Prepare.                *)
Rotate(p) ==
    LET r == req[p]
        t == r.tok
        consumed == Consumable(t, r.at)
    IN /\ r.pc = "rotate"
       /\ \/ /\ consumed
             /\ issued < MaxTokens
             /\ row' = With([row EXCEPT ![t] = [Revoke(@, "rotated") EXCEPT
                                !.op = r.op, !.at = r.at, !.next = issued + 1]],
                            NewRow(r.user, row[t].root, r.at))
             /\ issued' = issued + 1
             /\ stored' = stored \cup {issued + 1}
             /\ Answer(p)
          \/ /\ ~consumed
             /\ GotoAs(p, "candidate", "lost")
             /\ UNCHANGED <<issued, row, stored>>
       /\ UNCHANGED <<active, now>>

-----------------------------------------------------------------------------
(* replaceUnusedRefreshSuccessor, and what its caller does with a null     *)

Refused(p) ==
    IF req[p].mode = "direct" THEN BeginReplay(p)
                              ELSE Goto(p, "latest")

Candidate(p) ==
    /\ req[p].pc = "candidate"
    /\ IF RetryAdmitted(req[p].tok, req[p].op) THEN Goto(p, "prepare")
                                               ELSE Refused(p)
    /\ UNCHANGED <<active, issued, row, stored, now>>

Retry(p) ==
    LET r == req[p]
        t == r.tok
        s == row[t].next
        replaced == RetryAdmitted(t, r.op) /\ Replaceable(s, r.user)
    IN /\ r.pc = "retry"
       /\ \/ /\ replaced
             /\ issued < MaxTokens
             /\ row' = With(Repointed(t, s), NewRow(r.user, row[s].root, r.at))
             /\ issued' = issued + 1
             /\ stored' = stored \cup {issued + 1}
             /\ Answer(p)
          \/ /\ ~replaced
             /\ Refused(p)
             /\ UNCHANGED <<issued, row, stored>>
       /\ UNCHANGED <<active, now>>

(* Who lost the race asks why: only a rotated row means a second holder.   *)
Latest(p) ==
    LET t == req[p].tok
    IN /\ req[p].pc = "latest"
       /\ IF t \in stored /\ Rotated(row[t])
             THEN BeginReplay(p)
             ELSE Answer(p)
       /\ UNCHANGED <<active, issued, row, stored, now>>

-----------------------------------------------------------------------------
(* Revoking everything a user has: replay, deactivation, a changed or      *)
(* reset password, and DELETE /sessions.  The statements differ in the     *)
(* reason they write and in whether they leave revoked rows alone.         *)

WhyAll_Raw(mode) == mode
WhyAll(mode) == IF mode = "everywhere" THEN "user_revoked" ELSE "security"
OnlyLive(mode) == mode \in {"replay", "everywhere"}
Selects(mode, t) == OnlyLive(mode) => ~row[t].revoked

SnapshotAll(p) ==
    LET mine == {t \in stored : row[t].user = req[p].user}
    IN /\ req[p].pc = "snapshot"
       /\ req' = [req EXCEPT ![p].pc = "apply",
                             ![p].ids = {t \in mine : Selects(req[p].mode, t)}]
       /\ UNCHANGED <<active, issued, row, stored, now>>

ApplyAll(p) ==
    LET m == req[p].mode
        hit == {t \in req[p].ids \cap stored : Selects(m, t)}
    IN /\ req[p].pc = "apply"
       /\ row' = [t \in 1..issued |-> IF t \in hit THEN Revoke(row[t], WhyAll(m))
                                                   ELSE row[t]]
       /\ Answer(p)
       /\ UNCHANGED <<active, issued, stored, now>>

(* DELETE /sessions with the user's Bearer token.                          *)
EverywhereBegin(p, u) ==
    /\ Start(p, [Idle EXCEPT !.pc = "snapshot", !.mode = "everywhere",
                             !.user = u, !.client = ClientOf[u]])
    /\ UNCHANGED <<active, issued, row, stored, now>>

(* revokeAllRefreshTokens after a password reset or change; the password   *)
(* itself is another component's state.                                    *)
CredentialsBegin(p, u) ==
    /\ Start(p, [Idle EXCEPT !.pc = "snapshot", !.mode = "credentials",
                             !.user = u, !.client = ClientOf[u]])
    /\ UNCHANGED <<active, issued, row, stored, now>>

(* PATCH /users/:id: the account first, its sessions in a second statement.*)
Deactivate(p, u) ==
    /\ Start(p, [Idle EXCEPT !.pc = "snapshot", !.mode = "deactivate",
                             !.user = u, !.client = ClientOf[u]])
    /\ active' = [active EXCEPT ![u] = FALSE]
    /\ UNCHANGED <<issued, row, stored, now>>

Reactivate(u) ==
    /\ active' = [active EXCEPT ![u] = TRUE]
    /\ UNCHANGED <<issued, row, stored, req, now>>

-----------------------------------------------------------------------------
(* Ending one session *)

(* POST /auth/logout reads the row and its owner's client, both immutable. *)
LogoutBegin(p, t, c) ==
    /\ t \in stored
    /\ ClientOf[row[t].user] = c
    /\ Start(p, [Idle EXCEPT !.pc = "logout", !.user = row[t].user,
                             !.client = c, !.tok = t])
    /\ UNCHANGED <<active, issued, row, stored, now>>

(* The UPDATE has no condition but the id.                                 *)
LogoutUpdate(p) ==
    LET t == req[p].tok
    IN /\ req[p].pc = "logout"
       /\ row' = IF t \in stored THEN [row EXCEPT ![t] = Revoke(@, "logout")]
                                 ELSE row
       /\ Answer(p)
       /\ UNCHANGED <<active, issued, stored, now>>

(* DELETE /sessions/:id, one statement.                                    *)
RevokeOne(u, t) ==
    /\ t \in stored
    /\ row[t].user = u
    /\ ~row[t].revoked
    /\ row' = [row EXCEPT ![t] = Revoke(@, "user_revoked")]
    /\ UNCHANGED <<active, issued, stored, req, now>>

-----------------------------------------------------------------------------
(* The daily job, the clock, and a request that dies at an await (an error *)
(* from the database or a restart): what it has committed stays.           *)

Cleanup ==
    LET old == {t \in stored : row[t].exp + Retention < now}
    IN /\ old # {}
       /\ stored' = stored \ old
       /\ UNCHANGED <<active, issued, row, req, now>>

Tick ==
    /\ now < MaxTime
    /\ now' = now + 1
    /\ UNCHANGED <<active, issued, row, stored, req>>

Abort(p) ==
    /\ req[p].pc # "idle"
    /\ Answer(p)
    /\ UNCHANGED <<active, issued, row, stored, now>>

Begin(p) ==
    \/ \E u \in User : \/ LoginBegin(p, u)
                       \/ EverywhereBegin(p, u)
                       \/ CredentialsBegin(p, u)
                       \/ Deactivate(p, u)
    \/ \E t \in stored, c \in Client : \/ LogoutBegin(p, t, c)
                                       \/ \E op \in Op : RefreshBegin(p, t, op, c)

Continue(p) ==
    \/ Prepare(p)
    \/ InsertSession(p)
    \/ RefreshOwner(p)
    \/ Rotate(p)
    \/ Candidate(p)
    \/ Retry(p)
    \/ Latest(p)
    \/ SnapshotAll(p)
    \/ ApplyAll(p)
    \/ LogoutUpdate(p)

Next ==
    \/ \E p \in Slot : Begin(p) \/ Continue(p) \/ Abort(p)
    \/ \E u \in User : Reactivate(u)
    \/ \E u \in User, t \in stored : RevokeOne(u, t)
    \/ Cleanup
    \/ Tick

Spec == Init /\ [][Next]_vars

-----------------------------------------------------------------------------
(* Properties *)

Issued == 1..issued
Live == {t \in Issued : ~row[t].revoked}

(* A login is never worth two sessions: whatever rotations, retries and    *)
(* replays race, at most one of the rows one login led to is unrevoked     *)
(* (the conditions of the two UPDATEs that precede an insert).             *)
OneLivePerLogin ==
    \A a, b \in Live : row[a].root = row[b].root => a = b

(* A retry can always find what it has to replace: the live row of a login *)
(* that has rotated is what exactly one redeemed row records as its        *)
(* successor, also after retries have replaced it (replaced_by_token_id).  *)
LiveIsRecordedSuccessor ==
    \A t \in Live : row[t].root # t =>
        \E p \in Issued :
            /\ row[p].next = t
            /\ row[p].revoked /\ row[p].op # NoOp
            /\ row[p].root = row[t].root
            /\ \A q \in Issued : row[q].next = t => q = p

Was(t) == row[t].next # NoToken \/ t <= Cardinality(LegacyOwner)

(* The family is revoked for replay only if the token presented had been   *)
(* redeemed, never because of one that a logout, the sessions API, a       *)
(* security event or an accepted retry ended unused, also when that        *)
(* happens while the refresh is under way.                                 *)
ReplayOnlyOfRedeemed ==
    \A p \in Slot : req[p].mode = "replay" => Was(req[p].tok)

(* A token is redeemed by one operation: every successor it is ever given  *)
(* was asked for under the operation id its first redemption recorded.     *)
RedeemedByOneOperation ==
    [][issued' > issued /\ row'[issued'].root # issued' =>
        \E p \in Slot : LET t == req[p].tok IN
            /\ t \in Issued
            /\ row'[t].next = issued'
            /\ row'[t].op = req[p].op
            /\ row[t].op \in {NoOp, req[p].op}]_vars

(* Tokens are bound to the application of their owner: whatever another    *)
(* application presents, no row of the owner is inserted or changed on its *)
(* behalf, and a request changes the rows of one account alone.            *)
BoundToClient ==
    [][\A t \in 1..issued' :
        (t \in Issued => row'[t] # row[t]) =>
            \/ \E p \in Slot : /\ req[p] # Idle /\ req'[p] = Idle
                               /\ req[p].user = row'[t].user
                               /\ req[p].client = ClientOf[row'[t].user]
            \/ \E u \in User : RevokeOne(u, t)]_vars

(* Retries do not extend the grace period: the successor of a redeemed     *)
(* token changes only within Grace of the first redemption, whose time and *)
(* operation no later step moves.                                          *)
RetriesEndWithGrace ==
    [][\A t \in Issued : row[t].op # NoOp =>
        /\ row'[t].op = row[t].op
        /\ row'[t].at = row[t].at
        /\ row'[t].next # row[t].next => now <= row[t].at + Grace]_vars

(* The table implements the abstract chains: its usable tokens are the     *)
(* unrevoked rows still stored.  Every insert is a login or takes the      *)
(* place of one usable token of the same login; no statement of any        *)
(* handler, in any order, makes an ended login usable again.               *)
Chains == INSTANCE Sessions WITH
    count <- issued,
    login <- [t \in 1..issued |-> row[t].root],
    usable <- {t \in stored : ~row[t].revoked}
ImplementsSessions == Chains!ASpec

-----------------------------------------------------------------------------
(* Statements of the repository's documents that the code does not keep    *)

(* "Revokes every active refresh token the user has": after the replay     *)
(* revocation no login that was live when its statement began is live.     *)
ReplayEndsEverySession ==
    [][\A p \in Slot : ApplyAll(p) /\ req[p].mode = "replay" =>
        \A t \in stored, i \in req[p].ids :
            row[t].root = row[i].root => row'[t].revoked]_vars
=============================================================================
