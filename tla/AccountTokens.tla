---------------------------- MODULE AccountTokens ----------------------------
(***************************************************************************)
(* Accounts and the single-use tokens that are mailed to their owners:     *)
(* registration, provisioning, login, sign-in through a provider, password *)
(* reset, email verification, password change, deactivation.               *)
(*                                                                         *)
(* A slot runs one handler, a step is what it does up to its next await    *)
(* that another request can tell.  Of a refresh token's row only whether   *)
(* it is live and whose it is matters here: operations, retries, replays   *)
(* and logouts are RefreshTokens', the browser's way to the provider and   *)
(* back OAuthFlow's, and the roles a new account gets Authorization's.     *)
(*                                                                         *)
(*   register  RegisterBegin -> InsertUser -> InsertSession                *)
(*   provision InviteBegin -> InsertUser -> IssueToken                     *)
(*             -> MailSent or MailFails                                    *)
(*   callback  CallbackBegin -> InsertUser or LinkProvider                 *)
(*   forgot    RequestLink -> IssueToken -> MailSent or MailFails          *)
(*   redeem    RedeemBegin -> RedeemOwner -> Consume -> WriteUser          *)
(*             (reset:) -> SnapshotAll -> ApplyAll                         *)
(*   change    ChangeBegin -> WriteUser -> SnapshotAll -> ApplyAll         *)
(*   offboard  Deactivate -> SnapshotAll -> ApplyAll                       *)
(*   login     LoginBegin or ExchangeBegin -> InsertSession                *)
(*   refresh   RefreshBegin -> Rotate                                      *)
(***************************************************************************)
EXTENDS Naturals, FiniteSets

CONSTANTS
    User,        \* (application, email) pairs: at most one account each
    Client,      \* applications
    ClientOf,    \* the application of each pair
    Password,    \* passwords (their hashes)
    NoPassword,  \* password_hash IS NULL
    Slot,        \* requests in flight at one time
    MaxTokens,   \* bound: account tokens ever issued
    MaxSessions  \* bound: refresh tokens ever issued

ASSUME UserAssumption     == User # {} /\ ClientOf \in [User -> Client]
ASSUME PasswordAssumption == NoPassword \notin Password /\ Password # {}
ASSUME BoundAssumption    == MaxTokens \in Nat /\ MaxSessions \in Nat

VARIABLES
    account,  \* users rows
    token,    \* account_tokens rows
    mailed,   \* tokens whose link reached the owner's mailbox
    session,  \* refresh_tokens rows
    req,      \* per slot: the handler's position and local variables
    writes    \* history: how often a token led to a write of its account
vars == <<account, token, mailed, session, req, writes>>

Origin == {"none", "register", "invite", "oauth", "seed"}
Purpose == {"password_reset", "email_verify"}
Account == [origin : Origin, pw : Password \cup {NoPassword},
            verified : BOOLEAN, active : BOOLEAN, linked : BOOLEAN]

(* expired stands for any time after expires_at, the row deleted or not.   *)
Token == [user : User, purpose : Purpose, state : {"live", "used", "expired"}]

(* Two histories.  stale: since the credentials that opened the session    *)
(* were checked, the password was replaced or the account deactivated.     *)
(* excuse: why no revocation will reach a stale row, see the end.          *)
Session == [user : User, live : BOOLEAN, stale : BOOLEAN,
            excuse : {"none", "login", "rotation", "cut"}]

Mode == {"none", "register", "invite", "oauth", "login", "exchange", "refresh",
         "forgot", "send", "reset", "verify", "change", "deactivate"}
Position == {"idle", "insert", "link", "session", "rotate", "issue", "mail",
             "owner", "consume", "write", "revoke", "apply"}
NoToken == 0

(* seen: the password of the row a change has read; current: the one its   *)
(* caller presented; rows: the refresh tokens a statement has read;        *)
(* overtaken: see stale, of a session that is about to be inserted.        *)
Request == [pc : Position, mode : Mode, user : User, client : Client,
            tok : Nat, pw : Password \cup {NoPassword},
            seen : Password \cup {NoPassword},
            current : Password \cup {NoPassword},
            rows : SUBSET Nat, overtaken : BOOLEAN]

AnyUser == CHOOSE u \in User : TRUE

Idle == [pc |-> "idle", mode |-> "none", user |-> AnyUser,
         client |-> ClientOf[AnyUser], tok |-> NoToken, pw |-> NoPassword,
         seen |-> NoPassword, current |-> NoPassword, rows |-> {},
         overtaken |-> FALSE]

Issued == DOMAIN token
Opened == DOMAIN session

TypeOK ==
    /\ account \in [User -> Account]
    /\ \E n \in 0..MaxTokens : token \in [1..n -> Token]
    /\ mailed \subseteq Issued
    /\ \E n \in 0..MaxSessions : session \in [1..n -> Session]
    /\ req \in [Slot -> Request]
    /\ writes \in [Issued -> Nat]

NoAccount == [origin |-> "none", pw |-> NoPassword, verified |-> FALSE,
              active |-> FALSE, linked |-> FALSE]

Init ==
    /\ account = [u \in User |-> NoAccount]
    /\ token = [t \in {} |-> NoToken]
    /\ mailed = {}
    /\ session = [i \in {} |-> 0]
    /\ req = [p \in Slot |-> Idle]
    /\ writes = [t \in {} |-> 0]

-----------------------------------------------------------------------------
(* Definitions named X_Y are slips a programmer could make in X; nothing   *)
(* uses them.                                                              *)

Exists(u) == account[u].origin # "none"

(* The unique index on (client_id, email).                                 *)
Insertable(u) == ~Exists(u)

PurposeOf(mode) ==
    IF mode \in {"send", "verify"} THEN "email_verify" ELSE "password_reset"

Redeemable_AnyPurpose(t, mode) == token[t].state = "live"
(* The WHERE that resolving and consuming share.                           *)
Redeemable(t, mode) ==
    token[t].state = "live" /\ token[t].purpose = PurposeOf(mode)

OwnedByCaller_Anyone(u, c) == account[u].active
OwnedByCaller(u, c) == ClientOf[u] = c /\ account[u].active

Consumable_Resolved(t, mode) == TRUE
Consumable(t, mode) == Redeemable(t, mode)

Written_Verified(a, mode, w) ==
    [a EXCEPT !.pw = IF mode = "verify" THEN @ ELSE w, !.verified = TRUE]

(* What the write of a reset, a verification and a change leaves.          *)
Written(a, mode, w) ==
    [a EXCEPT !.pw = IF mode = "verify" THEN @ ELSE w,
              !.verified = @ \/ mode # "change"]

Goto(p, pc) == req' = [req EXCEPT ![p].pc = pc]
Answer(p) == req' = [req EXCEPT ![p] = Idle]
Begun(pc, mode, u, w) ==
    [Idle EXCEPT !.pc = pc, !.mode = mode, !.pw = w, !.user = u,
                 !.client = ClientOf[u]]
StartWith(p, pc, mode, u, w) ==
    req[p] = Idle /\ req' = [req EXCEPT ![p] = Begun(pc, mode, u, w)]
Start(p, pc, mode, u) == StartWith(p, pc, mode, u, NoPassword)

-----------------------------------------------------------------------------
(* Sessions and the UPDATE that revokes them *)

(* A request that is about to revoke every row of its account (nothing     *)
(* read yet) or whose UPDATE is under way over the rows its snapshot has.  *)
Revoking(r, u) == r.pc = "revoke" /\ r.user = u
Covers(r, u, i) == \/ Revoking(r, u)
                   \/ r.pc = "apply" /\ r.user = u /\ i \in r.rows

Add(s) ==
    LET n == Cardinality(Opened) + 1
    IN /\ n <= MaxSessions
       /\ session' = [i \in 1..n |-> IF i = n THEN s ELSE session[i]]

Ended(s) == [s EXCEPT !.live = FALSE, !.stale = FALSE, !.excuse = "none"]

(* The history of a replaced password or a deactivation: every session of  *)
(* the account is stale, those about to be inserted are overtaken.         *)
Outdate(u) ==
    session' = [i \in Opened |->
                   IF session[i].user = u /\ session[i].live
                   THEN [session[i] EXCEPT !.stale = TRUE, !.excuse = "none"]
                   ELSE session[i]]
Overtake(u, reqs) ==
    [q \in Slot |-> IF reqs[q].pc = "session" /\ reqs[q].user = u
                    THEN [reqs[q] EXCEPT !.overtaken = TRUE] ELSE reqs[q]]

-----------------------------------------------------------------------------
(* An account begins *)

RegisterBegin(p, u, w) ==
    /\ ~Exists(u)
    /\ StartWith(p, "insert", "register", u, w)
    /\ UNCHANGED <<account, token, mailed, session, writes>>

InviteBegin(p, u) ==
    /\ ~Exists(u)
    /\ Start(p, "insert", "invite", u)
    /\ UNCHANGED <<account, token, mailed, session, writes>>

(* The provider's answer names the address: an account is created, or one  *)
(* that has no provider yet is linked.  Otherwise the row stays as it is.  *)
CallbackBegin(p, u) ==
    /\ \/ ~Exists(u) /\ Start(p, "insert", "oauth", u)
       \/ /\ account[u].active
          /\ ~account[u].linked
          /\ Start(p, "link", "oauth", u)
    /\ UNCHANGED <<account, token, mailed, session, writes>>

NewAccount(origin, w) ==
    [origin |-> origin, active |-> TRUE, linked |-> origin = "oauth",
     pw |-> IF origin \in {"register", "seed"} THEN w ELSE NoPassword,
     verified |-> origin \in {"oauth", "seed"}]

(* A violation of the index is an unhandled error: a 500.  An invite can   *)
(* be created without a link (sendInvite: false).                          *)
InsertUser(p) ==
    LET r == req[p]
    IN /\ r.pc = "insert"
       /\ \/ /\ Insertable(r.user)
             /\ account' = [account EXCEPT ![r.user] = NewAccount(r.mode, r.pw)]
             /\ \/ /\ r.mode = "register"
                   /\ req' = [req EXCEPT ![p] =
                                 Begun("session", r.mode, r.user, NoPassword)]
                \/ r.mode = "invite" /\ Goto(p, "issue")
                \/ r.mode # "register" /\ Answer(p)
          \/ /\ ~Insertable(r.user)
             /\ Answer(p)
             /\ UNCHANGED account
       /\ UNCHANGED <<token, mailed, session, writes>>

(* An unconditional UPDATE of the row, long after it was read.             *)
LinkProvider(p) ==
    /\ req[p].pc = "link"
    /\ account' = [account EXCEPT ![req[p].user] =
                      [@ EXCEPT !.linked = TRUE, !.verified = TRUE]]
    /\ Answer(p)
    /\ UNCHANGED <<token, mailed, session, writes>>

(* The operator's seed script, a process of its own.                       *)
SeedAdmin(u, w) ==
    /\ Insertable(u)
    /\ account' = [account EXCEPT ![u] = NewAccount("seed", w)]
    /\ UNCHANGED <<token, mailed, session, req, writes>>

-----------------------------------------------------------------------------
(* A session begins, a session goes on *)

(* The account is read and the password verified against what was read.    *)
LoginBegin(p, u, w) ==
    /\ account[u].active
    /\ account[u].pw = w
    /\ Start(p, "session", "login", u)
    /\ UNCHANGED <<account, token, mailed, session, writes>>

(* A code of the callback has been consumed, and the account is read.      *)
ExchangeBegin(p, u) ==
    /\ account[u].active
    /\ account[u].linked
    /\ Start(p, "session", "exchange", u)
    /\ UNCHANGED <<account, token, mailed, session, writes>>

InsertSession(p) ==
    LET r == req[p]
        reached == ~r.overtaken \/ \E q \in Slot : Revoking(req[q], r.user)
    IN /\ r.pc = "session"
       /\ Add([user |-> r.user, live |-> TRUE, stale |-> r.overtaken,
               excuse |-> IF reached THEN "none" ELSE "login"])
       /\ Answer(p)
       /\ UNCHANGED <<account, token, mailed, writes>>

(* The token's row and its owner are read.                                 *)
RefreshBegin(p, i) ==
    /\ session[i].live
    /\ account[session[i].user].active
    /\ req[p] = Idle
    /\ req' = [req EXCEPT ![p] =
          [Begun("rotate", "refresh", session[i].user, NoPassword)
             EXCEPT !.rows = {i}]]
    /\ UNCHANGED <<account, token, mailed, session, writes>>

(* One transaction consumes the row if it is still live and inserts its    *)
(* successor; an accepted retry does the same to an unused successor.      *)
Rotate(p) ==
    LET r == req[p]
        missed(i) == /\ session[i].stale
                     /\ \E q \in Slot : req[q].pc = "apply" /\ i \in req[q].rows
                     /\ \A q \in Slot : ~Revoking(req[q], session[i].user)
        next(i) == [session[i] EXCEPT
                       !.excuse = IF missed(i) THEN "rotation" ELSE @]
        n == Cardinality(Opened) + 1
    IN /\ r.pc = "rotate"
       /\ Answer(p)
       /\ \/ \E i \in r.rows \cap Opened :
                /\ session[i].live
                /\ n <= MaxSessions
                /\ session' = [k \in 1..n |->
                      IF k = n THEN next(i)
                      ELSE IF k = i THEN Ended(session[i]) ELSE session[k]]
          \/ /\ \A i \in r.rows \cap Opened : ~session[i].live
             /\ UNCHANGED session
       /\ UNCHANGED <<account, token, mailed, writes>>

-----------------------------------------------------------------------------
(* A token is mailed *)

(* POST /auth/password/forgot and /auth/email/send-verification.           *)
RequestLink(p, u, mode) ==
    /\ account[u].active
    /\ mode = "send" => ~account[u].verified
    /\ Start(p, "issue", mode, u)
    /\ UNCHANGED <<account, token, mailed, session, writes>>

IssueToken(p) ==
    LET r == req[p]
        t == Cardinality(Issued) + 1
        new == [user |-> r.user, purpose |-> PurposeOf(r.mode), state |-> "live"]
    IN /\ r.pc = "issue"
       /\ t <= MaxTokens
       /\ token' = [i \in 1..t |-> IF i = t THEN new ELSE token[i]]
       /\ writes' = [i \in 1..t |-> IF i = t THEN 0 ELSE writes[i]]
       /\ req' = [req EXCEPT ![p].pc = "mail", ![p].tok = t]
       /\ UNCHANGED <<account, mailed, session>>

MailSent(p) ==
    /\ req[p].pc = "mail"
    /\ mailed' = mailed \cup {req[p].tok}
    /\ Answer(p)
    /\ UNCHANGED <<account, token, session, writes>>

(* 502 for a link the user asked for, a warning for an invite: the token   *)
(* stays, and nobody has its link.                                         *)
MailFails(p) ==
    /\ req[p].pc = "mail"
    /\ Answer(p)
    /\ UNCHANGED <<account, token, mailed, session, writes>>

-----------------------------------------------------------------------------
(* A token is redeemed: password reset, email verification *)

RedeemBegin(p, t, c, mode, w) ==
    /\ t \in mailed
    /\ Redeemable(t, mode)
    /\ req[p] = Idle
    /\ req' = [req EXCEPT ![p] = [Idle EXCEPT !.pc = "owner", !.mode = mode,
                                             !.user = token[t].user,
                                             !.client = c, !.tok = t, !.pw = w]]
    /\ UNCHANGED <<account, token, mailed, session, writes>>

RedeemOwner(p) ==
    LET r == req[p]
    IN /\ r.pc = "owner"
       /\ IF OwnedByCaller(r.user, r.client) THEN Goto(p, "consume") ELSE Answer(p)
       /\ UNCHANGED <<account, token, mailed, session, writes>>

Consume(p) ==
    LET r == req[p]
    IN /\ r.pc = "consume"
       /\ \/ /\ Consumable(r.tok, r.mode)
             /\ token' = [token EXCEPT ![r.tok].state = "used"]
             /\ Goto(p, "write")
          \/ /\ ~Consumable(r.tok, r.mode)
             /\ Answer(p)
             /\ UNCHANGED token
       /\ UNCHANGED <<account, mailed, session, writes>>

WriteUser_RevokesOnReset(p) ==
    LET r == req[p]
    IN /\ r.pc = "write"
       /\ account' = [account EXCEPT ![r.user] = Written(@, r.mode, r.pw)]
       /\ IF r.mode = "verify"
          THEN Answer(p) /\ UNCHANGED session
          ELSE /\ req' = Overtake(r.user,
                   [req EXCEPT ![p] =
                      IF r.mode = "reset"
                      THEN Begun("revoke", r.mode, r.user, NoPassword) ELSE Idle])
               /\ Outdate(r.user)
       /\ writes' = IF r.tok = NoToken THEN writes
                                       ELSE [writes EXCEPT ![r.tok] = @ + 1]
       /\ UNCHANGED <<token, mailed>>

(* An unconditional UPDATE of the row, long after it was read.             *)
WriteUser(p) ==
    LET r == req[p]
    IN /\ r.pc = "write"
       /\ account' = [account EXCEPT ![r.user] = Written(@, r.mode, r.pw)]
       /\ IF r.mode = "verify"
          THEN Answer(p) /\ UNCHANGED session
          ELSE /\ req' = Overtake(r.user,
                   [req EXCEPT ![p] = Begun("revoke", r.mode, r.user, NoPassword)])
               /\ Outdate(r.user)
       /\ writes' = IF r.tok = NoToken THEN writes
                                       ELSE [writes EXCEPT ![r.tok] = @ + 1]
       /\ UNCHANGED <<token, mailed>>

(* UPDATE refresh_tokens WHERE user_id: the statement's snapshot, and its  *)
(* writes.  A row committed in between is not in the snapshot.             *)
SnapshotAll(p) ==
    /\ req[p].pc = "revoke"
    /\ req' = [req EXCEPT ![p].pc = "apply",
                          ![p].rows = {i \in Opened : session[i].user = req[p].user}]
    /\ UNCHANGED <<account, token, mailed, session, writes>>

ApplyAll(p) ==
    /\ req[p].pc = "apply"
    /\ session' = [i \in Opened |-> IF i \in req[p].rows THEN Ended(session[i])
                                                       ELSE session[i]]
    /\ Answer(p)
    /\ UNCHANGED <<account, token, mailed, writes>>

-----------------------------------------------------------------------------
(* Password change, deactivation *)

Authenticates_Unchecked(u, current) == account[u].pw # NoPassword
Authenticates(u, current) == account[u].pw = current

(* The user's Bearer token (whoever signs in has one for 15 minutes) and   *)
(* the current password, verified against the row as read.                 *)
ChangeBegin(p, u, current, w) ==
    /\ account[u].active
    /\ account[u].pw # NoPassword
    /\ Authenticates(u, current)
    /\ req[p] = Idle
    /\ req' = [req EXCEPT ![p] = [Begun("write", "change", u, w) EXCEPT
                                     !.seen = account[u].pw, !.current = current]]
    /\ UNCHANGED <<account, token, mailed, session, writes>>

Deactivate(p, u) ==
    /\ Exists(u)
    /\ req[p] = Idle
    /\ account' = [account EXCEPT ![u].active = FALSE]
    /\ req' = Overtake(u, [req EXCEPT ![p] =
                              Begun("revoke", "deactivate", u, NoPassword)])
    /\ Outdate(u)
    /\ UNCHANGED <<token, mailed, writes>>

Reactivate(u) ==
    /\ Exists(u)
    /\ account' = [account EXCEPT ![u].active = TRUE]
    /\ UNCHANGED <<token, mailed, session, req, writes>>

-----------------------------------------------------------------------------
Expire(t) ==
    /\ token[t].state = "live"
    /\ token' = [token EXCEPT ![t].state = "expired"]
    /\ UNCHANGED <<account, mailed, session, req, writes>>

(* A request dies at an await: what it has committed stays, and what it    *)
(* alone was about to revoke stays, too.                                   *)
Abort(p) ==
    LET cut(i) == LET u == session[i].user
                  IN /\ Covers(req[p], u, i)
                     /\ \A q \in Slot \ {p} : ~Covers(req[q], u, i)
    IN /\ req[p].pc # "idle"
       /\ Answer(p)
       /\ session' = [i \in Opened |->
                         IF session[i].stale /\ cut(i)
                         THEN [session[i] EXCEPT !.excuse = "cut"] ELSE session[i]]
       /\ UNCHANGED <<account, token, mailed, writes>>

Begin(p) ==
    \/ \E u \in User, w \in Password :
          \/ RegisterBegin(p, u, w)
          \/ LoginBegin(p, u, w)
          \/ \E current \in Password : ChangeBegin(p, u, current, w)
    \/ \E u \in User :
          \/ InviteBegin(p, u)
          \/ CallbackBegin(p, u)
          \/ ExchangeBegin(p, u)
          \/ Deactivate(p, u)
          \/ \E mode \in {"forgot", "send"} : RequestLink(p, u, mode)
    \/ \E i \in Opened : RefreshBegin(p, i)
    \/ \E t \in Issued, c \in Client :
          \/ \E w \in Password : RedeemBegin(p, t, c, "reset", w)
          \/ RedeemBegin(p, t, c, "verify", NoPassword)

Continue(p) ==
    \/ InsertUser(p)
    \/ LinkProvider(p)
    \/ InsertSession(p)
    \/ Rotate(p)
    \/ IssueToken(p)
    \/ MailSent(p)
    \/ MailFails(p)
    \/ RedeemOwner(p)
    \/ Consume(p)
    \/ WriteUser(p)
    \/ SnapshotAll(p)
    \/ ApplyAll(p)

Next ==
    \/ \E p \in Slot : Begin(p) \/ Continue(p) \/ Abort(p)
    \/ \E u \in User : Reactivate(u) \/ \E w \in Password : SeedAdmin(u, w)
    \/ \E t \in Issued : Expire(t)

Spec == Init /\ [][Next]_vars

-----------------------------------------------------------------------------
(* Properties *)

(* "Consumed atomically, a second use fails no matter how fast": a token   *)
(* leads to at most one write of its account, whoever presents it at the   *)
(* same time, for whatever purpose (resolve, owner check and consume are   *)
(* three statements).                                                      *)
OneWritePerToken == \A t \in Issued : writes[t] <= 1

(* A verified address has proved control of the mailbox: a link that was   *)
(* delivered there has been redeemed.  Or somebody else vouches for it:    *)
(* the provider the account is linked to, the operator who seeded it.      *)
VerifiedThroughMailbox ==
    \A u \in User : account[u].verified =>
        \/ account[u].linked
        \/ account[u].origin = "seed"
        \/ \E t \in mailed : token[t].user = u /\ token[t].state = "used"

(* The password of an existing account changes only by a reset token that  *)
(* was mailed to it, presented by its own application, or by a change      *)
(* whose caller presented the password of the row it read.  A provisioned  *)
(* account and one a provider opened therefore stay without one until a    *)
(* link is used, and no second registration, provisioning, callback or     *)
(* seed touches it.                                                        *)
PasswordsAreAuthorized ==
    [][\A u \in User : Exists(u) /\ account'[u].pw # account[u].pw =>
        \E p \in Slot :
            LET r == req[p]
            IN /\ WriteUser(p) /\ r.user = u /\ r.client = ClientOf[u]
               /\ \/ /\ r.mode = "change"
                     /\ r.seen # NoPassword /\ r.current = r.seen
                  \/ /\ r.tok \in mailed
                     /\ token[r.tok].user = u
                     /\ token[r.tok].purpose = "password_reset"]_vars

(* Failed checks do not burn a token: ownership is validated before the    *)
(* atomic consume, so what another application presents stays redeemable.  *)
TokensSurviveOthers ==
    [][\A t \in Issued : token'[t].state = "used" /\ token[t].state # "used" =>
        \E p \in Slot : /\ req[p].tok = t
                        /\ req[p].client = ClientOf[token[t].user]
                        /\ req'[p].pc = "write"]_vars

(* A reset, a change and a deactivation revoke "every refresh token the    *)
(* user has": a live session whose credentials are outdated is about to    *)
(* be revoked.  Three races leave one that no UPDATE will reach, and each  *)
(* excuses only the row it leaves: a login that had checked its            *)
(* credentials before the write inserts its session after the snapshot; a  *)
(* rotation commits a successor after the snapshot of the UPDATE that has  *)
(* its predecessor; the request that alone was to revoke dies.             *)
RevocationIsComplete ==
    \A i \in Opened : session[i].live /\ session[i].stale =>
        \/ session[i].excuse # "none"
        \/ \E p \in Slot : Covers(req[p], session[i].user, i)
=============================================================================
