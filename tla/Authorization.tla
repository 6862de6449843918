---------------------------- MODULE Authorization ----------------------------
(***************************************************************************)
(* Roles, the permissions they grant, the users and service accounts that  *)
(* hold them, API keys, and the check of an API key that a request carries. *)
(*                                                                         *)
(* A slot runs one handler, a step is one statement with what follows it   *)
(* up to the next await; no handler here opens a transaction.  Managers    *)
(* have been admitted and act for one client.  Permissions, users and      *)
(* service accounts are never deleted and nothing changes its client, so a *)
(* check of those is part of the step before it.                           *)
(*                                                                         *)
(*   create role    CreateRole -> Attach                                   *)
(*   replace        ReplaceBegin -> DeleteGrants -> InsertGrants           *)
(*   assign         AssignBegin -> Assign                                  *)
(*   new principal  CreateBegin -> InsertPrincipal -> AssignInitial        *)
(*   registration   InsertRegistered -> SelectDefaults -> AssignInitial    *)
(*   account key    KeyBegin -> InsertKey                                  *)
(*   authenticate   AuthenticateBegin -> CheckClient -> CheckAccount       *)
(*                  -> Admit or Refuse                                     *)
(*   /auth/verify   VerifyBegin -> CheckAccount -> Admit or Refuse         *)
(***************************************************************************)
EXTENDS Naturals, Sequences

CONSTANTS
    Client,      \* clients (tenants)
    Managed,     \* those whose managers are at work
    User,        \* users
    Account,     \* service accounts
    NoAccount,   \* service_account_id IS NULL: a plain key
    Role,        \* ids roles will get; an id is used once
    Default,     \* the roles created with isDefault
    Permission,  \* ids of the permission catalogs
    Key,         \* ids API keys will get
    ClientOf,    \* the client of each user, account, role and permission
    NameOf,      \* resource:action of each permission, split at the colons
    ScopeLists,  \* the scopes plain keys are created with
    Needed,      \* what guarded routes and callers of /auth/verify require
    Slot         \* requests in flight at one time

Principal == User \cup Account
Name == Seq(STRING)

ASSUME OwnerAssumption ==
    /\ ClientOf \in [Principal \cup Role \cup Permission -> Client]
    /\ Managed \subseteq Client
ASSUME NameAssumption ==
    /\ NameOf \in [Permission -> Name]
    /\ \A S \in ScopeLists : S \subseteq Name
    /\ Needed \subseteq Name
ASSUME IdAssumption ==
    /\ NoAccount \notin Account
    /\ User \cap Account = {}
    /\ Default \subseteq Role

VARIABLES
    role,      \* roles: not created yet, present, deleted
    grants,    \* role_permissions
    presence,  \* users and service_accounts rows; off: is_active is false
    held,      \* user_roles and service_account_roles
    key,       \* api_keys rows
    clientOn,  \* clients.is_active
    req,       \* per slot: the handler's position and local variables
    unseen,    \* history: conditions of a check not met since it began
    gap        \* history: a condition was not met at some time since then
rows == <<role, grants, presence, held, key, clientOn>>
vars == <<rows, req, unseen, gap>>

Idle == [pc |-> "idle"]
RoleWrite == [pc : {"attach", "delete", "insert"}, role : Role,
              perms : SUBSET Permission, twice : BOOLEAN]
Assignment == [pc : {"assign"}, who : Principal, role : Role]
Creation == [pc : {"create", "defaults", "initial"}, who : Principal,
             roles : SUBSET Role, twice : BOOLEAN]
KeyCreation == [pc : {"key"}, who : Account]
Check == [pc : {"client", "account", "scopes"}, key : Key, client : Client,
          need : Needed]
Request == {Idle} \cup RoleWrite \cup Assignment \cup Creation
           \cup KeyCreation \cup Check

NoKey == [state |-> "none"]
Credential == [state : {"live", "revoked", "expired"}, client : Client,
               account : Account \cup {NoAccount},
               scopes : ScopeLists \cup {{}}]

Condition == {"key", "client", "account", "permission"}

TypeOK ==
    /\ role \in [Role -> {"none", "on", "gone"}]
    /\ grants \in [Role -> SUBSET Permission]
    /\ presence \in [Principal -> {"none", "on", "off"}]
    /\ held \in [Principal -> SUBSET Role]
    /\ key \in [Key -> {NoKey} \cup Credential]
    /\ clientOn \in [Client -> BOOLEAN]
    /\ req \in [Slot -> Request]
    /\ unseen \in [Slot -> SUBSET Condition]
    /\ gap \in [Slot -> BOOLEAN]

(* The roles of the other clients are there already.                       *)
Init ==
    /\ role = [r \in Role |-> IF ClientOf[r] \in Managed THEN "none" ELSE "on"]
    /\ grants = [r \in Role |-> {}]
    /\ presence = [x \in Principal |-> "none"]
    /\ held = [x \in Principal |-> {}]
    /\ key = [k \in Key |-> NoKey]
    /\ clientOn = [c \in Client |-> TRUE]
    /\ req = [p \in Slot |-> Idle]
    /\ unseen = [p \in Slot |-> {}]
    /\ gap = [p \in Slot |-> FALSE]

-----------------------------------------------------------------------------
(* Definitions named X_Y are slips a programmer could make in X; nothing   *)
(* uses them.                                                              *)

OwnPermissions_Existing(P, c) == P \subseteq Permission
(* assertPermissionsBelongToClient *)
OwnPermissions(P, c) == \A q \in P : ClientOf[q] = c

(* assertRoleBelongsToClient and the checks like it. *)
OwnRole(r, c) == role[r] = "on" /\ ClientOf[r] = c

(* assertUserBelongsToClient, assertServiceAccountBelongsToClient *)
OwnPrincipal(x, c) == presence[x] # "none" /\ ClientOf[x] = c

Referenced_Unchecked(R) == TRUE
(* The foreign keys of role_permissions and of the assignment tables.      *)
Referenced(R) == \A r \in R : role[r] = "on"

(* A permission as getUserPermissions and getServiceAccountPermissions     *)
(* load it: one join from the assignments to the catalog.                  *)
PermissionsOf(x) == {NameOf[q] : q \in UNION {grants[r] : r \in held[x]}}

(* The check of a user's token: requirePermission, /auth/verify, the SDK.  *)
Permits(granted, need) ==
    \/ <<"*">> \in granted
    \/ need \in granted
    \/ <<need[1], "*">> \in granted

(* ... and what a key's scopes permit beside: the key's check goes by the   *)
(* first two parts of a name, and the schemas accept names of three.       *)
PermitsKey(granted, need) ==
    \/ Permits(granted, need)
    \/ \E s \in granted : Len(s) > 2 /\ s[1] = need[1] /\ s[2] = "*"

HasScope_Exact(granted, need) == <<"*">> \in granted \/ need \in granted
(* The check of an API key.                                                *)
HasScope(granted, need) ==
    \E s \in granted :
        \/ s = <<"*">>
        \/ s = need
        \/ s[1] = need[1] /\ Len(s) > 1 /\ s[2] = "*"

Scopes(k) ==
    IF key[k].account = NoAccount THEN key[k].scopes
                                  ELSE PermissionsOf(key[k].account)

Switched(b) == IF b THEN "on" ELSE "off"

Usable_Unrevoked(k) == key[k].state \in {"live", "expired"}
(* Not revoked and not expired.                                            *)
Usable(k) == key[k].state = "live"

Standing_Existing(a) == presence[a] # "none"
Standing(a) == presence[a] = "on"

Goto(p, pc) == req' = [req EXCEPT ![p].pc = pc]
Answer(p) == req' = [req EXCEPT ![p] = Idle]
Start(p, request) ==
    /\ req[p] = Idle
    /\ req' = [req EXCEPT ![p] = request]

Checking(p) == req[p].pc \in {"client", "account", "scopes"}

(* What the contracts require of an admitted key, in the present state.    *)
Met(p) ==
    LET r == req[p]
        k == key[r.key]
    IN {f \in Condition :
          CASE f = "key"        -> k.state = "live"
            [] f = "client"     -> k.client = r.client /\ clientOn[k.client]
            [] f = "account"    -> k.account # NoAccount => presence[k.account] = "on"
            [] f = "permission" -> PermitsKey(Scopes(r.key), r.need)}

(* The histories, a part of every action: the checks in flight see what it *)
(* leaves.                                                                 *)
Observe ==
    /\ unseen' = [p \in Slot |->
          IF ~Checking(p)' THEN {}
          ELSE (IF Checking(p) THEN unseen[p] ELSE Condition) \ Met(p)']
    /\ gap' = [p \in Slot |->
          Checking(p)' /\ ((Checking(p) /\ gap[p]) \/ Met(p)' # Condition)]

-----------------------------------------------------------------------------
(* Roles *)

(* A permission id given twice passes the check, which counts the distinct *)
(* ones, and breaks the primary key of the insert.                         *)
WriteOf(pc, r, P, twice) ==
    [pc |-> pc, role |-> r, perms |-> P, twice |-> twice /\ P # {}]

CreateRole(p, c, r, P, twice) ==
    /\ ClientOf[r] = c
    /\ OwnPermissions(P, c)
    /\ role[r] = "none"
    /\ role' = [role EXCEPT ![r] = "on"]
    /\ IF P = {} THEN req[p] = Idle /\ UNCHANGED req
                 ELSE Start(p, WriteOf("attach", r, P, twice))
    /\ UNCHANGED <<grants, presence, held, key, clientOn>>
    /\ Observe

ReplaceBegin(p, c, r, P, twice) ==
    /\ OwnRole(r, c)
    /\ OwnPermissions(P, c)
    /\ Start(p, WriteOf("delete", r, P, twice))
    /\ UNCHANGED rows
    /\ Observe

DeleteGrants(p) ==
    LET r == req[p]
    IN /\ r.pc = "delete"
       /\ grants' = [grants EXCEPT ![r.role] = {}]
       /\ IF r.perms = {} THEN Answer(p) ELSE Goto(p, "insert")
       /\ UNCHANGED <<role, presence, held, key, clientOn>>
       /\ Observe

(* One INSERT of several rows: all of them, or an error and none.          *)
Insertable(r) ==
    /\ Referenced({r.role})
    /\ ~r.twice
    /\ r.perms \cap grants[r.role] = {}

Add(p, pc) ==
    LET r == req[p]
    IN /\ r.pc = pc
       /\ grants' = IF Insertable(r)
                    THEN [grants EXCEPT ![r.role] = @ \cup r.perms]
                    ELSE grants
       /\ Answer(p)
       /\ UNCHANGED <<role, presence, held, key, clientOn>>
       /\ Observe

Attach(p) == Add(p, "attach")
InsertGrants(p) == Add(p, "insert")

(* Its grants and its assignments go with it, by cascade.                  *)
DeleteRole(c, r) ==
    /\ OwnRole(r, c)
    /\ role' = [role EXCEPT ![r] = "gone"]
    /\ grants' = [grants EXCEPT ![r] = {}]
    /\ held' = [x \in Principal |-> held[x] \ {r}]
    /\ UNCHANGED <<presence, key, clientOn, req>>
    /\ Observe

AssignBegin(p, c, x, r) ==
    /\ OwnRole(r, c)
    /\ OwnPrincipal(x, c)
    /\ Start(p, [pc |-> "assign", who |-> x, role |-> r])
    /\ UNCHANGED rows
    /\ Observe

Assign(p) ==
    LET r == req[p]
    IN /\ r.pc = "assign"
       /\ held' = IF Referenced({r.role})
                  THEN [held EXCEPT ![r.who] = @ \cup {r.role}]
                  ELSE held
       /\ Answer(p)
       /\ UNCHANGED <<role, grants, presence, key, clientOn>>
       /\ Observe

Unassign(c, x, r) ==
    /\ OwnPrincipal(x, c)
    /\ held' = [held EXCEPT ![x] = @ \ {r}]
    /\ UNCHANGED <<role, grants, presence, key, clientOn, req>>
    /\ Observe

-----------------------------------------------------------------------------
(* Principals *)

(* Provisioning a user and creating a service account: the requested roles *)
(* are checked, the row is inserted, the roles are inserted.  Accounts     *)
(* drop repeated ids first, users do not.                                  *)
CreateBegin(p, c, x, R, twice) ==
    /\ ClientOf[x] = c
    /\ \A r \in R : OwnRole(r, c)
    /\ x \in Account => ~twice
    /\ Start(p, [pc |-> "create", who |-> x, roles |-> R,
                 twice |-> twice /\ R # {}])
    /\ UNCHANGED rows
    /\ Observe

(* The unique index on the account's name, the user's email: a principal   *)
(* stands for its row and that name (renaming is left out).                *)
InsertPrincipal(p) ==
    LET r == req[p]
    IN /\ r.pc = "create"
       /\ \/ /\ presence[r.who] = "none"
             /\ presence' = [presence EXCEPT ![r.who] = "on"]
             /\ IF r.roles = {} THEN Answer(p) ELSE Goto(p, "initial")
          \/ /\ presence[r.who] # "none"
             /\ Answer(p)
             /\ UNCHANGED presence
       /\ UNCHANGED <<role, grants, held, key, clientOn>>
       /\ Observe

(* Registration and the first sign in through a provider, both past their  *)
(* checks of the client.                                                   *)
InsertRegistered(p, u) ==
    /\ presence[u] = "none"
    /\ presence' = [presence EXCEPT ![u] = "on"]
    /\ Start(p, [pc |-> "defaults", who |-> u, roles |-> {}, twice |-> FALSE])
    /\ UNCHANGED <<role, grants, held, key, clientOn>>
    /\ Observe

SelectDefaults(p) ==
    LET r == req[p]
        found == {d \in Default : OwnRole(d, ClientOf[r.who])}
    IN /\ r.pc = "defaults"
       /\ IF found = {} THEN Answer(p)
                        ELSE req' = [req EXCEPT ![p].pc = "initial",
                                                ![p].roles = found]
       /\ UNCHANGED rows
       /\ Observe

AssignInitial(p) ==
    LET r == req[p]
    IN /\ r.pc = "initial"
       /\ held' = IF Referenced(r.roles) /\ ~r.twice
                     /\ r.roles \cap held[r.who] = {}
                  THEN [held EXCEPT ![r.who] = @ \cup r.roles]
                  ELSE held
       /\ Answer(p)
       /\ UNCHANGED <<role, grants, presence, key, clientOn>>
       /\ Observe

(* PATCH /service-accounts/:id *)
SetAccount(c, a, b) ==
    /\ OwnPrincipal(a, c)
    /\ presence' = [presence EXCEPT ![a] = Switched(b)]
    /\ UNCHANGED <<role, grants, held, key, clientOn, req>>
    /\ Observe

(* PATCH /clients/:id *)
SetClient(c, b) ==
    /\ clientOn' = [clientOn EXCEPT ![c] = b]
    /\ UNCHANGED <<role, grants, presence, held, key, req>>
    /\ Observe

-----------------------------------------------------------------------------
(* Keys *)

CreatePlainKey(c, k, S) ==
    /\ key[k] = NoKey
    /\ key' = [key EXCEPT ![k] = [state |-> "live", client |-> c,
                                  account |-> NoAccount, scopes |-> S]]
    /\ UNCHANGED <<role, grants, presence, held, clientOn, req>>
    /\ Observe

KeyBegin(p, c, a) ==
    /\ OwnPrincipal(a, c)
    /\ Standing(a)
    /\ Start(p, [pc |-> "key", who |-> a])
    /\ UNCHANGED rows
    /\ Observe

(* The account may have been switched off since it was read.               *)
InsertKey(p, k) ==
    LET r == req[p]
        created == [state |-> "live", client |-> ClientOf[r.who],
                    account |-> r.who, scopes |-> {}]
    IN /\ r.pc = "key"
       /\ key[k] = NoKey
       /\ key' = [key EXCEPT ![k] = created]
       /\ Answer(p)
       /\ UNCHANGED <<role, grants, presence, held, clientOn>>
       /\ Observe

RevokeKey(c, k) ==
    /\ key[k] # NoKey
    /\ key[k].client = c
    /\ key' = [key EXCEPT ![k].state = "revoked"]
    /\ UNCHANGED <<role, grants, presence, held, clientOn, req>>
    /\ Observe

(* Time passes expires_at.                                                 *)
ExpireKey(k) ==
    /\ key[k].state = "live"
    /\ key' = [key EXCEPT ![k].state = "expired"]
    /\ UNCHANGED <<role, grants, presence, held, clientOn, req>>
    /\ Observe

-----------------------------------------------------------------------------
(* A request that carries a key.  A key that is not found, or found        *)
(* unusable, is refused at once and leaves no trace.                       *)

CheckOf(pc, k, c, n) == [pc |-> pc, key |-> k, client |-> c, need |-> n]

(* A plain key goes straight to the scopes it was created with.            *)
AfterClient(k) == IF key[k].account = NoAccount THEN "scopes" ELSE "account"

AuthenticateBegin(p, k, n) ==
    /\ Usable(k)
    /\ Start(p, CheckOf("client", k, key[k].client, n))
    /\ UNCHANGED rows
    /\ Observe

CheckClient(p) ==
    LET r == req[p]
    IN /\ r.pc = "client"
       /\ clientOn[r.client]
       /\ Goto(p, AfterClient(r.key))
       /\ UNCHANGED rows
       /\ Observe

Audience_Any(k, c) == clientOn[key[k].client]
(* The join of POST /auth/verify: the key, and its client as the audience. *)
Audience(k, c) == key[k].client = c /\ clientOn[c]

VerifyBegin(p, k, c, n) ==
    /\ Usable(k)
    /\ Audience(k, c)
    /\ Start(p, CheckOf(AfterClient(k), k, c, n))
    /\ UNCHANGED rows
    /\ Observe

CheckAccount(p) ==
    LET r == req[p]
    IN /\ r.pc = "account"
       /\ Standing(key[r.key].account)
       /\ Goto(p, "scopes")
       /\ UNCHANGED rows
       /\ Observe

Admit(p) ==
    LET r == req[p]
    IN /\ r.pc = "scopes"
       /\ HasScope(Scopes(r.key), r.need)
       /\ Answer(p)
       /\ UNCHANGED rows
       /\ Observe

Refuse(p) ==
    LET r == req[p]
    IN /\ \/ r.pc = "client" /\ ~clientOn[r.client]
          \/ r.pc = "account" /\ ~Standing(key[r.key].account)
          \/ r.pc = "scopes" /\ ~HasScope(Scopes(r.key), r.need)
       /\ Answer(p)
       /\ UNCHANGED rows
       /\ Observe

(* A request dies at an await: what it has committed stays.                *)
Abort(p) ==
    /\ req[p] # Idle
    /\ Answer(p)
    /\ UNCHANGED rows
    /\ Observe

-----------------------------------------------------------------------------
Manage(p, c) ==
    \/ \E r \in Role, P \in SUBSET Permission, twice \in BOOLEAN :
          CreateRole(p, c, r, P, twice) \/ ReplaceBegin(p, c, r, P, twice)
    \/ \E x \in Principal, r \in Role : AssignBegin(p, c, x, r)
    \/ \E x \in Principal, R \in SUBSET Role, twice \in BOOLEAN :
          CreateBegin(p, c, x, R, twice)
    \/ \E a \in Account : KeyBegin(p, c, a)

Begin(p) ==
    \/ \E c \in Managed : Manage(p, c)
    \/ \E u \in User : InsertRegistered(p, u)
    \/ \E k \in Key, n \in Needed :
          \/ AuthenticateBegin(p, k, n)
          \/ \E c \in Client : VerifyBegin(p, k, c, n)

Continue(p) ==
    \/ Attach(p)
    \/ DeleteGrants(p)
    \/ InsertGrants(p)
    \/ Assign(p)
    \/ InsertPrincipal(p)
    \/ SelectDefaults(p)
    \/ AssignInitial(p)
    \/ \E k \in Key : InsertKey(p, k)
    \/ CheckClient(p)
    \/ CheckAccount(p)
    \/ Admit(p)
    \/ Refuse(p)

(* Handlers of a single statement.                                         *)
Single(c) ==
    \/ \E r \in Role : DeleteRole(c, r)
    \/ \E x \in Principal, r \in Role : Unassign(c, x, r)
    \/ \E a \in Account, b \in BOOLEAN : SetAccount(c, a, b)
    \/ \E b \in BOOLEAN : SetClient(c, b)
    \/ \E k \in Key, S \in ScopeLists : CreatePlainKey(c, k, S)
    \/ \E k \in Key : RevokeKey(c, k)

Next ==
    \/ \E p \in Slot : Begin(p) \/ Continue(p) \/ Abort(p)
    \/ \E c \in Managed : Single(c)
    \/ \E k \in Key : ExpireKey(k)

Spec == Init /\ [][Next]_vars

-----------------------------------------------------------------------------
(* Properties *)

(* "Everything is per client": whatever handlers race, a role grants only  *)
(* its client's permissions, a principal holds only its client's roles,    *)
(* and a key is attached only to an account of its client.                 *)
Silo ==
    /\ \A r \in Role : \A q \in grants[r] : ClientOf[q] = ClientOf[r]
    /\ \A x \in Principal : \A r \in held[x] : ClientOf[r] = ClientOf[x]
    /\ \A k \in Key : key[k] # NoKey /\ key[k].account # NoAccount =>
          ClientOf[key[k].account] = key[k].client

(* A deleted role is gone for good: a replacement, an assignment, a        *)
(* registration or a new account that read it before the deletion does not *)
(* bring any of it back, and a principal that does not exist holds none.   *)
NoOrphans ==
    /\ \A r \in Role : role[r] # "on" =>
          grants[r] = {} /\ \A x \in Principal : r \notin held[x]
    /\ \A x \in Principal : presence[x] = "none" => held[x] = {}

(* "Permission changes for service accounts are live", "revocation is      *)
(* immediate", "deactivation makes all attached keys unusable immediately":*)
(* an admitted key met each condition at some time after the check began:  *)
(* its scopes permit what a user's token with them would, and no more than *)
(* the third form of PermitsKey beside.  What was withdrawn before that,   *)
(* and not given back, is never honoured, although the conditions are read *)
(* in up to four statements.                                               *)
AdmittedFresh == [][\A p \in Slot : Admit(p) => unseen[p] = {}]_vars

(* And conversely: a key that met all of them, all the time since its      *)
(* check began, is not refused, whatever is written meanwhile, and         *)
(* whatever a user's token would be admitted for, a key is.                *)
RefusedRightly == [][\A p \in Slot : Refuse(p) => gap[p]]_vars
=============================================================================
