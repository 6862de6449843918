------------------------------ MODULE OAuthFlow ------------------------------
(***************************************************************************)
(* Signing in through an OAuth provider: the sealed state that carries a   *)
(* transaction through the browser, its nonce in Redis, the account that   *)
(* is found, created or linked, the authorization code in Redis and its    *)
(* exchange for a session.                                                 *)
(*                                                                         *)
(*   initiate  Initiate                                                    *)
(*   callback  CallbackBegin -> ConsumeNonce -> ProviderAnswers -> FindUser*)
(*             -> CreateUser -> AssignRoles, or LinkUser -> StoreCode       *)
(*   exchange  ExchangeBegin -> ConsumeCode -> LoadUser -> InsertSession   *)
(*                                                                         *)
(* The browser may present a state, and an application a code, as often    *)
(* and as concurrently as it likes.  Applications stay active.             *)
(***************************************************************************)
EXTENDS Naturals, FiniteSets

CONSTANTS
    User,          \* email addresses
    Provider,      \* providers
    Verifying,     \* the providers whose unverified addresses are refused
    Subject,       \* provider-side account ids
    App,           \* applications (and their registered redirect_uris)
    Public,        \* the applications without a secret
    Redirect,      \* redirect targets
    Challenge,     \* PKCE challenges; a verifier stands for its challenge
    NoChallenge,   \* a transaction without PKCE
    Slot,          \* requests in flight at one time
    StateLife,     \* STATE_MAX_AGE_MS, in ticks
    CodeLife,      \* CODE_TTL, in ticks
    Away,          \* bound: least ticks a browser spends at the provider
    Lag,           \* bound: most ticks from a state's check to its SET NX
    MaxStates,     \* bound: transactions initiated
    MaxCodes,      \* bound: codes stored
    MaxTime        \* bound: ticks of the clock

ASSUME SetAssumption ==
    /\ User # {} /\ Verifying \subseteq Provider /\ Public \subseteq App
    /\ NoChallenge \notin Challenge
ASSUME TimeAssumption ==
    /\ StateLife \in Nat \ {0} /\ CodeLife \in Nat \ {0}
    /\ Away \in Nat /\ Lag \in 0..Away
ASSUME BoundAssumption ==
    MaxStates \in Nat /\ MaxCodes \in Nat /\ MaxTime \in Nat

VARIABLES
    txn,      \* the sealed states, readable and authentic to the platform
    marker,   \* Redis: per state, when its nonce's marker goes, 0 if never set
    code,     \* the codes ever stored
    kept,     \* Redis: codes not yet deleted
    account,  \* users rows
    req,      \* per slot: the handler's position and local variables
    now,      \* the platform's clock
    passed,   \* history: per state, callbacks that went on
    opened    \* history: per code, sessions inserted
vars == <<txn, marker, code, kept, account, req, now, passed, opened>>

Binding == [app : App, redirect : Redirect, challenge : Challenge \cup {NoChallenge}]
Identity == [provider : Provider, subject : Subject, verified : BOOLEAN]

Txn == [bind : Binding, provider : Provider, iat : Nat]
Code == [user : User, txn : Nat, bind : Binding, exp : Nat]

(* link is {} for a password account, oauth_provider and its id otherwise. *)
(* roles: the default roles have been assigned.                            *)
Account == [exists : BOOLEAN, active : BOOLEAN, roles : BOOLEAN,
            link : SUBSET Identity]

Position == {"idle", "nonce", "provider", "find", "create", "assign",
             "link", "store", "consume", "load", "insert"}
Request == [pc : Position, txn : Nat, user : User, who : SUBSET Identity,
            code : Nat, by : SUBSET Binding, at : Nat]

AnyUser == CHOOSE u \in User : TRUE
Idle == [pc |-> "idle", txn |-> 0, user |-> AnyUser, who |-> {}, code |-> 0,
         by |-> {}, at |-> 0]

Txns == DOMAIN txn
Codes == DOMAIN code

TypeOK ==
    /\ \E n \in 0..MaxStates : txn \in [1..n -> Txn]
    /\ marker \in [Txns -> Nat]
    /\ \E n \in 0..MaxCodes : code \in [1..n -> Code]
    /\ kept \subseteq Codes
    /\ account \in [User -> Account]
    /\ req \in [Slot -> Request]
    /\ now \in 0..MaxTime
    /\ passed \in [Txns -> Nat]
    /\ opened \in [Codes -> Nat]

Absent == [exists |-> FALSE, active |-> FALSE, roles |-> FALSE, link |-> {}]
PasswordAccount == [Absent EXCEPT !.exists = TRUE, !.active = TRUE, !.roles = TRUE]

Init ==
    /\ txn = [i \in {} |-> 0] /\ marker = [i \in {} |-> 0]
    /\ code = [i \in {} |-> 0] /\ kept = {}
    /\ account \in [User -> {Absent, PasswordAccount}]
    /\ req = [p \in Slot |-> Idle]
    /\ now = 0
    /\ passed = [i \in {} |-> 0] /\ opened = [i \in {} |-> 0]

-----------------------------------------------------------------------------
(* Definitions named X_Y are slips a programmer could make in X; nothing   *)
(* uses them.                                                              *)

Append1(f, v) == LET n == Cardinality(DOMAIN f) + 1
                 IN [i \in 1..n |-> IF i = n THEN v ELSE f[i]]

Fresh(s) == now <= txn[s].iat + StateLife

MarkerLife_AsCodes == CodeLife
(* The marker outlives every state it could be asked about.                *)
MarkerLife == StateLife

Marked(s) == marker[s] # 0 /\ now <= marker[s]

(* fetchProviderUserInfo: only GitHub's answer says which addresses are    *)
(* verified.                                                               *)
Trusted(i) == i.provider \in Verifying => i.verified

Alive(c) == c \in kept /\ now <= code[c].exp

Redeems_WithoutVerifier(b, by) == by.app = b.app /\ by.redirect = b.redirect
Redeems_AnyRedirect(b, by) ==
    by.app = b.app /\ (b.challenge # NoChallenge => by.challenge = b.challenge)

(* Application, redirect_uri and, if the code has one, challenge match.    *)
Redeems(b, by) ==
    /\ by.app = b.app
    /\ by.redirect = b.redirect
    /\ b.challenge # NoChallenge => by.challenge = b.challenge

(* What of the state goes into the code.                                   *)
BindingOf(s) == txn[s].bind

Taken_Resolved(c) == TRUE
(* The script that gets and deletes.                                       *)
Taken(c) == Alive(c)

Insertable(u) == ~account[u].exists

Goto(p, pc) == req' = [req EXCEPT ![p].pc = pc]
Answer(p) == req' = [req EXCEPT ![p] = Idle]
Start(p, r) == req[p] = Idle /\ req' = [req EXCEPT ![p] = r]

-----------------------------------------------------------------------------
(* GET /auth/oauth/:provider *)

Initiate(b, provider) ==
    /\ Cardinality(Txns) < MaxStates
    /\ b.app \in Public => b.challenge # NoChallenge
    /\ txn' = Append1(txn, [bind |-> b, provider |-> provider, iat |-> now])
    /\ marker' = Append1(marker, 0)
    /\ passed' = Append1(passed, 0)
    /\ UNCHANGED <<code, kept, account, req, now, opened>>

-----------------------------------------------------------------------------
(* GET /auth/oauth/:provider/callback *)

(* Unsealing, the state's age, the provider it was started for.            *)
CallbackBegin(p, s) ==
    /\ Fresh(s)
    /\ now >= txn[s].iat + Away
    /\ Start(p, [Idle EXCEPT !.pc = "nonce", !.txn = s, !.at = now])
    /\ UNCHANGED <<txn, marker, code, kept, account, now, passed, opened>>

(* SET NX EX, one command.                                                 *)
ConsumeNonce(p) ==
    LET s == req[p].txn
    IN /\ req[p].pc = "nonce"
       /\ \/ /\ ~Marked(s)
             /\ marker' = [marker EXCEPT ![s] = now + MarkerLife]
             /\ passed' = [passed EXCEPT ![s] = @ + 1]
             /\ Goto(p, "provider")
          \/ /\ Marked(s)
             /\ Answer(p)
             /\ UNCHANGED <<marker, passed>>
       /\ UNCHANGED <<txn, code, kept, account, now, opened>>

(* The provider's error, a failing exchange or profile, or a profile.      *)
ProviderAnswers(p) ==
    /\ req[p].pc = "provider"
    /\ \/ Answer(p)
       \/ \E i \in Identity, u \in User :
             /\ i.provider = txn[req[p].txn].provider
             /\ Trusted(i)
             /\ req' = [req EXCEPT ![p].pc = "find", ![p].who = {i}, ![p].user = u]
    /\ UNCHANGED <<txn, marker, code, kept, account, now, passed, opened>>

(* The provider and the subject; whether the address was verified is not   *)
(* stored.                                                                 *)
Same(i, j) == i.provider = j.provider /\ i.subject = j.subject

FindUser(p) ==
    LET u == req[p].user
        a == account[u]
        known == \A i \in req[p].who, j \in a.link : Same(i, j)
    IN /\ req[p].pc = "find"
       /\ CASE ~a.exists -> Goto(p, "create")
            [] a.exists /\ ~a.active -> Answer(p)
            [] a.exists /\ a.active /\ a.link = {} -> Goto(p, "link")
            [] OTHER -> IF known THEN Goto(p, "store") ELSE Answer(p)
       /\ UNCHANGED <<txn, marker, code, kept, account, now, passed, opened>>

(* The unique index refuses the second of two inserts with a 500.          *)
CreateUser(p) ==
    LET u == req[p].user
    IN /\ req[p].pc = "create"
       /\ \/ /\ Insertable(u)
             /\ account' = [account EXCEPT ![u] =
                   [Absent EXCEPT !.exists = TRUE, !.active = TRUE,
                                  !.link = req[p].who]]
             /\ Goto(p, "assign")
          \/ /\ ~Insertable(u)
             /\ Answer(p)
             /\ UNCHANGED account
       /\ UNCHANGED <<txn, marker, code, kept, now, passed, opened>>

AssignRoles(p) ==
    /\ req[p].pc = "assign"
    /\ account' = [account EXCEPT ![req[p].user].roles = TRUE]
    /\ Goto(p, "store")
    /\ UNCHANGED <<txn, marker, code, kept, now, passed, opened>>

(* An UPDATE by id, with no condition on what the account is linked to.    *)
LinkUser(p) ==
    /\ req[p].pc = "link"
    /\ account' = [account EXCEPT ![req[p].user].link = req[p].who]
    /\ Goto(p, "store")
    /\ UNCHANGED <<txn, marker, code, kept, now, passed, opened>>

StoreCode(p) ==
    LET r == req[p]
    IN /\ r.pc = "store"
       /\ Cardinality(Codes) < MaxCodes
       /\ code' = Append1(code, [user |-> r.user, txn |-> r.txn,
                                 bind |-> BindingOf(r.txn),
                                 exp |-> now + CodeLife])
       /\ kept' = kept \cup {Cardinality(Codes) + 1}
       /\ opened' = Append1(opened, 0)
       /\ Answer(p)
       /\ UNCHANGED <<txn, marker, account, now, passed>>

-----------------------------------------------------------------------------
(* POST /auth/oauth/token *)

(* Resolving the code and every check of what it is bound to.              *)
ExchangeBegin(p, c, by) ==
    /\ Alive(c)
    /\ Redeems(code[c].bind, by)
    /\ Start(p, [Idle EXCEPT !.pc = "consume", !.code = c,
                             !.user = code[c].user, !.by = {by}])
    /\ UNCHANGED <<txn, marker, code, kept, account, now, passed, opened>>

ConsumeCode(p) ==
    LET c == req[p].code
    IN /\ req[p].pc = "consume"
       /\ IF Taken(c) THEN Goto(p, "load") ELSE Answer(p)
       /\ kept' = kept \ {c}
       /\ UNCHANGED <<txn, marker, code, account, now, passed, opened>>

LoadUser(p) ==
    /\ req[p].pc = "load"
    /\ IF account[req[p].user].active THEN Goto(p, "insert") ELSE Answer(p)
    /\ UNCHANGED <<txn, marker, code, kept, account, now, passed, opened>>

InsertSession(p) ==
    /\ req[p].pc = "insert"
    /\ opened' = [opened EXCEPT ![req[p].code] = @ + 1]
    /\ Answer(p)
    /\ UNCHANGED <<txn, marker, code, kept, account, now, passed>>

-----------------------------------------------------------------------------
(* PATCH /users/:id as seen here, the clock, requests that die.            *)

SetActive(u, flag) ==
    /\ account' = [account EXCEPT ![u].active = account[u].exists /\ flag]
    /\ UNCHANGED <<txn, marker, code, kept, req, now, passed, opened>>

Tick ==
    /\ now < MaxTime
    /\ \A p \in Slot : req[p].pc = "nonce" => now < req[p].at + Lag
    /\ now' = now + 1
    /\ UNCHANGED <<txn, marker, code, kept, account, req, passed, opened>>

Abort(p) ==
    /\ req[p].pc # "idle"
    /\ Answer(p)
    /\ UNCHANGED <<txn, marker, code, kept, account, now, passed, opened>>

Begin(p) ==
    \/ \E s \in Txns : CallbackBegin(p, s)
    \/ \E c \in Codes, by \in Binding : ExchangeBegin(p, c, by)

Continue(p) ==
    \/ ConsumeNonce(p)
    \/ ProviderAnswers(p)
    \/ FindUser(p)
    \/ CreateUser(p)
    \/ AssignRoles(p)
    \/ LinkUser(p)
    \/ StoreCode(p)
    \/ ConsumeCode(p)
    \/ LoadUser(p)
    \/ InsertSession(p)

Next ==
    \/ \E b \in Binding, provider \in Provider : Initiate(b, provider)
    \/ \E p \in Slot : Begin(p) \/ Continue(p) \/ Abort(p)
    \/ \E u \in User, flag \in BOOLEAN : SetActive(u, flag)
    \/ Tick

Spec == Init /\ [][Next]_vars

-----------------------------------------------------------------------------
(* Properties *)

(* "A state can never complete two callbacks": over the life of a state    *)
(* its nonce lets one callback go on, although the marker that remembers   *)
(* it is itself forgotten.  It takes that Redis answers sooner than the    *)
(* browser came back (Lag <= Away): the age is checked before the nonce.   *)
StatesPassOnce == \A s \in Txns : passed[s] <= 1

(* "OAuth codes are single use, consumed atomically": a code opens at most *)
(* one session, however many exchanges resolved it first.                  *)
CodesOpenOnce == \A c \in Codes : opened[c] <= 1

(* A session belongs to the transaction it began with: who redeems the     *)
(* code is the application that initiated, with the same redirect_uri and  *)
(* the verifier of the challenge sealed in the state.                      *)
SessionsMatchTransactions ==
    \A p \in Slot : req[p].pc = "insert" =>
        \A by \in req[p].by :
            LET b == txn[code[req[p].code].txn].bind
            IN /\ by.app = b.app /\ by.redirect = b.redirect
               /\ by.challenge = b.challenge \/ b.challenge = NoChallenge

(* Failed binding checks do not burn a code: before its time is over it    *)
(* leaves Redis only into the hands of the application it is meant for,    *)
(* under the redirect_uri it was issued for.                               *)
CodesSurviveOthers ==
    [][\A c \in kept \ kept' : now <= code[c].exp =>
        \E p \in Slot : /\ req[p].pc = "consume" /\ req[p].code = c
                        /\ \A by \in req[p].by :
                              /\ by.app = code[c].bind.app
                              /\ by.redirect = code[c].bind.redirect]_vars
=============================================================================
