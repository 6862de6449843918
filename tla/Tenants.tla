------------------------------ MODULE Tenants ------------------------------
(* The operator's administration of one client (routes/clients.ts): its     *)
(* registration, the rotation of its secret, deactivation, the bootstrap of *)
(* its tenant; and the credentialed calls that depend on it                 *)
(* (verifyClientCredentials, services/session.ts).                          *)
(*                                                                          *)
(* Every statement commits on its own.  A bootstrap is a row of them: it    *)
(* may be cut off after each, run beside another one, and run again.        *)
EXTENDS Integers, FiniteSets

CONSTANTS
    Slot,         \* requests handled at once
    Email,
    Name,         \* of roles
    Management,   \* MANAGEMENT_PERMISSIONS
    MaxRoles,     \* bound: roles ever created
    MaxSecrets,   \* bound: secrets ever generated
    None

ASSUME TenantsAssumption ==
    /\ MaxRoles \in Nat
    /\ MaxSecrets \in Nat \ {0}
    /\ None \notin Email \cup Name

RoleId == 1 .. MaxRoles
Secret == 1 .. MaxSecrets

VARIABLES
    client,       \* the row of clients: secret, isActive, passwordResetUrl set
    generated,    \* secrets so far
    dead,         \* history: secrets replaced by a rotation that was answered
    permissions,  \* rows of the silo: the unique indexes make them sets
    roles,        \* the id of each role name, 0 where there is none
    created,      \* roles so far
    grants,       \* role_permissions
    users,        \* emails
    userRoles,
    job           \* what each request is doing

silo == <<permissions, roles, created, grants, users, userRoles>>
registry == <<client, generated, dead>>
vars == <<registry, silo, job>>

Rest == {"idle", "done", "failed", "refused"}
BootstrapSteps == {"email", "permissions", "role", "newRole", "grants", "admin",
                   "assign", "invite", "answer"}
Steps == BootstrapSteps \cup {"rotate", "tell", "credentials"}

\* secret: the one a call presents, a rotation generates; old: the one it found.
\* cause: history, what happened beside the request accounts for its failure.
Job == [pc : Rest \cup Steps, email : Email \cup {None}, name : Name \cup {None},
        role : RoleId \cup {0}, secret : Secret \cup {0}, old : Secret \cup {0},
        cause : BOOLEAN]
NoJob == [pc |-> "idle", email |-> None, name |-> None, role |-> 0,
          secret |-> 0, old |-> 0, cause |-> FALSE]

TypeOK ==
    /\ client \in [secret : Secret \cup {0}, isActive : BOOLEAN, resetUrl : BOOLEAN]
    /\ generated \in 0 .. MaxSecrets
    /\ dead \in SUBSET Secret
    /\ permissions \in SUBSET Management
    /\ roles \in [Name -> RoleId \cup {0}]
    /\ created \in 0 .. MaxRoles
    /\ grants \in SUBSET (RoleId \X Management)
    /\ users \in SUBSET Email
    /\ userRoles \in SUBSET (Email \X ({roles[n] : n \in Name} \ {0}))
    /\ job \in [Slot -> Job]

\* client.secret is 0 until the client is registered.
Init ==
    /\ client = [secret |-> 0, isActive |-> FALSE, resetUrl |-> FALSE]
    /\ generated = 0
    /\ dead = {}
    /\ permissions = {}
    /\ roles = [n \in Name |-> 0]
    /\ created = 0
    /\ grants = {}
    /\ users = {}
    /\ userRoles = {}
    /\ job = [r \in Slot |-> NoJob]

Registered == client.secret # 0
At(r, step) == job[r].pc = step
Free(r) == job[r].pc \in Rest
RoleExists(id) == \E n \in Name : roles[n] = id

\* A request moves on, or is over.
Goto(r, step) == job' = [job EXCEPT ![r].pc = step]
End(r, outcome) == job' = [job EXCEPT ![r] = [NoJob EXCEPT !.pc = outcome]]

\* So does one whose statement bears on other requests, those that P holds of.
GotoBeside(r, step, role, P(_)) ==
    job' = [s \in Slot |->
               IF s = r THEN [job[r] EXCEPT !.pc = step, !.role = role]
               ELSE [job[s] EXCEPT !.cause = @ \/ P(job[s])]]
Beside(P(_)) == job' = [s \in Slot |-> [job[s] EXCEPT !.cause = @ \/ P(job[s])]]

-----------------------------------------------------------------------------
(* POST /clients, POST /clients/:id/rotate-secret, PATCH /clients/:id      *)

\* The row is inserted; "tell" answers with the secret, once.
CreateClient(r) ==
    /\ Free(r)
    /\ ~Registered
    /\ generated' = generated + 1
    /\ \E url \in BOOLEAN :
          client' = [secret |-> generated', isActive |-> TRUE, resetUrl |-> url]
    /\ job' = [job EXCEPT ![r] = [NoJob EXCEPT !.pc = "tell", !.secret = generated']]
    /\ UNCHANGED <<dead, silo>>

\* The client is read, a secret generated ...
RotateSecret(r) ==
    /\ Free(r)
    /\ Registered
    /\ generated < MaxSecrets
    /\ generated' = generated + 1
    /\ job' = [job EXCEPT ![r] = [NoJob EXCEPT !.pc = "rotate", !.old = client.secret,
                                               !.secret = generated']]
    /\ UNCHANGED <<client, dead, silo>>

\* ... and its hash written, by id alone ...
WriteSecret(r) ==
    /\ At(r, "rotate")
    /\ client' = [client EXCEPT !.secret = job[r].secret]
    /\ GotoBeside(r, "tell", 0, LAMBDA j : j.pc = "tell")
    /\ UNCHANGED <<generated, dead, silo>>

\* ... and answered.
TellSecret(r) ==
    /\ At(r, "tell")
    /\ dead' = dead \cup ({job[r].old} \ {0})
    /\ End(r, "done")
    /\ UNCHANGED <<client, generated, silo>>

UpdateClient ==
    /\ Registered
    /\ \E active, url \in BOOLEAN :
          client' = [client EXCEPT !.isActive = active, !.resetUrl = url]
    /\ UNCHANGED <<generated, dead, silo, job>>

-----------------------------------------------------------------------------
(* verifyClientCredentials                                                 *)

Call(r) ==
    /\ Free(r)
    /\ \E s \in 1 .. generated :
          job' = [job EXCEPT ![r] = [NoJob EXCEPT !.pc = "credentials", !.secret = s,
                                                  !.cause = s \notin dead]]
    /\ UNCHANGED <<registry, silo>>

\* The old secret works until the next rotation.
Admits_Overlap(s) == client.isActive /\ s \in {client.secret, client.secret - 1}

Admits(s) == client.isActive /\ client.secret = s

CheckCredentials(r) ==
    /\ At(r, "credentials")
    /\ End(r, IF Admits(job[r].secret) THEN "done" ELSE "refused")
    /\ UNCHANGED <<registry, silo>>

-----------------------------------------------------------------------------
(* POST /clients/:id/bootstrap                                             *)

\* The client is read; without a reset URL the request is refused.
Bootstrap(r) ==
    /\ Free(r)
    /\ Registered /\ client.resetUrl
    /\ \E e \in Email, n \in Name :
          job' = [job EXCEPT ![r] = [NoJob EXCEPT !.pc = "email", !.email = e,
                                                  !.name = n, !.cause = e \in users]]
    /\ UNCHANGED <<registry, silo>>

\* EMAIL_EXISTS
FindEmail(r) ==
    /\ At(r, "email")
    /\ IF job[r].email \in users THEN End(r, "failed") ELSE Goto(r, "permissions")
    /\ UNCHANGED <<registry, silo>>

\* The insert without onConflictDoNothing.
InsertPermissions_NoConflictClause(r) ==
    /\ At(r, "permissions")
    /\ permissions' = permissions \cup Management
    /\ IF permissions = {} THEN Goto(r, "role") ELSE End(r, "failed")
    /\ UNCHANGED <<registry, roles, created, grants, users, userRoles>>

\* Permissions are never deleted: the select that follows finds all of them.
InsertPermissions(r) ==
    /\ At(r, "permissions")
    /\ permissions' = permissions \cup Management
    /\ Goto(r, "role")
    /\ UNCHANGED <<registry, roles, created, grants, users, userRoles>>

\* A role that exists is taken to be complete.
FindRole_TakenAsComplete(r) ==
    /\ At(r, "role")
    /\ LET id == roles[job[r].name] IN
       job' = [job EXCEPT ![r].role = id,
                          ![r].pc = IF id = 0 THEN "newRole" ELSE "admin"]
    /\ UNCHANGED <<registry, silo>>

FindRole(r) ==
    /\ At(r, "role")
    /\ LET id == roles[job[r].name] IN
       job' = [job EXCEPT ![r].role = id,
                          ![r].pc = IF id = 0 THEN "newRole" ELSE "grants"]
    /\ UNCHANGED <<registry, silo>>

\* The name's unique index refuses a second row.
InsertRole(r) ==
    LET n == job[r].name IN
    /\ At(r, "newRole")
    /\ \/ /\ roles[n] # 0
          /\ End(r, "failed")
          /\ UNCHANGED <<roles, created>>
       \/ /\ roles[n] = 0
          /\ created < MaxRoles
          /\ created' = created + 1
          /\ roles' = [roles EXCEPT ![n] = created']
          /\ GotoBeside(r, "grants", created', LAMBDA j : j.name = n)
    /\ UNCHANGED <<registry, permissions, grants, users, userRoles>>

\* A foreign key refuses a role that is gone; so does AssignRole's.
GrantPermissions(r) ==
    LET id == job[r].role IN
    /\ At(r, "grants")
    /\ \/ /\ RoleExists(id)
          /\ grants' = grants \cup ({id} \X Management)
          /\ Goto(r, "admin")
       \/ /\ ~RoleExists(id)
          /\ End(r, "failed")
          /\ UNCHANGED grants
    /\ UNCHANGED <<registry, permissions, roles, created, users, userRoles>>

InsertAdmin(r) ==
    LET e == job[r].email IN
    /\ At(r, "admin")
    /\ \/ /\ e \notin users
          /\ users' = users \cup {e}
          /\ GotoBeside(r, "assign", job[r].role, LAMBDA j : j.email = e)
       \/ /\ e \in users
          /\ End(r, "failed")
          /\ UNCHANGED users
    /\ UNCHANGED <<registry, permissions, roles, created, grants, userRoles>>

AssignRole(r) ==
    LET id == job[r].role IN
    /\ At(r, "assign")
    /\ \/ /\ RoleExists(id)
          /\ userRoles' = userRoles \cup {<<job[r].email, id>>}
          /\ Goto(r, "invite")
       \/ /\ ~RoleExists(id)
          /\ End(r, "failed")
          /\ UNCHANGED userRoles
    /\ UNCHANGED <<registry, permissions, roles, created, grants, users>>

\* The account token is created and the mail sent; whether it goes out does not
\* matter to what follows.
Invite(r) ==
    /\ At(r, "invite")
    /\ Goto(r, "answer")
    /\ UNCHANGED <<registry, silo>>

\* The audit row, and 201.
AnswerBootstrap(r) ==
    /\ At(r, "answer")
    /\ End(r, "done")
    /\ UNCHANGED <<registry, silo>>

-----------------------------------------------------------------------------
(* The rest of the world                                                   *)

\* The process is killed, or the database fails it: no answer.
Cut(r) ==
    /\ ~Free(r)
    /\ End(r, "idle")
    /\ UNCHANGED <<registry, silo>>

\* Someone may manage roles once an admin has been bootstrapped.
Managed == \E e \in Email, n \in Name : <<e, roles[n]>> \in userRoles

\* DELETE /roles/:id, with what refers to the role.
DeleteRole ==
    /\ Managed
    /\ \E n \in Name :
          /\ roles[n] # 0
          /\ roles' = [roles EXCEPT ![n] = 0]
          /\ grants' = {g \in grants : g[1] # roles[n]}
          /\ userRoles' = {a \in userRoles : a[2] # roles[n]}
          /\ Beside(LAMBDA j : j.name = n)
    /\ UNCHANGED <<registry, permissions, created, users>>

\* PUT /roles/:id/permissions takes a permission away.
TakeGrant ==
    /\ Managed
    /\ \E g \in grants :
          /\ grants' = grants \ {g}
          /\ Beside(LAMBDA j : j.role = g[1])
    /\ UNCHANGED <<registry, permissions, roles, created, users, userRoles>>

\* POST /roles/revoke
TakeRole ==
    /\ Managed
    /\ \E a \in userRoles :
          /\ userRoles' = userRoles \ {a}
          /\ Beside(LAMBDA j : j.email = a[1])
    /\ UNCHANGED <<registry, permissions, roles, created, grants, users>>

\* POST /auth/register
Register ==
    /\ Registered /\ client.isActive
    /\ \E e \in Email \ users :
          /\ users' = users \cup {e}
          /\ Beside(LAMBDA j : j.email = e)
    /\ UNCHANGED <<registry, permissions, roles, created, grants, userRoles>>

Next ==
    \/ UpdateClient \/ DeleteRole \/ TakeGrant \/ TakeRole \/ Register
    \/ \E r \in Slot :
          \/ CreateClient(r) \/ RotateSecret(r) \/ WriteSecret(r) \/ TellSecret(r)
          \/ Call(r) \/ CheckCredentials(r)
          \/ Bootstrap(r) \/ FindEmail(r) \/ InsertPermissions(r) \/ FindRole(r)
          \/ InsertRole(r) \/ GrantPermissions(r) \/ InsertAdmin(r)
          \/ AssignRole(r) \/ Invite(r) \/ AnswerBootstrap(r)
          \/ Cut(r)

Spec == Init /\ [][Next]_vars

-----------------------------------------------------------------------------
(* Properties                                                              *)

\* Nobody is invited, and no bootstrap answers 201, before the tenant can be
\* administered: the admin is there, holds the role, the role grants all the
\* management permissions.  Permissions and a role that an earlier bootstrap left
\* incomplete when it was cut off are completed (an admin's row is not: its email
\* is refused); only what was changed by hand meanwhile may differ.
AdminInPlace ==
    \A r \in Slot :
        job[r].pc \in {"invite", "answer"} /\ ~job[r].cause =>
            /\ <<job[r].email, job[r].role>> \in userRoles
            /\ {job[r].role} \X Management \subseteq grants

\* A bootstrap fails for a reason that lies beside it: its email was there or
\* was taken meanwhile, its role was created or deleted under it.  An email that
\* a bootstrap left behind when it was cut off is such a reason; run again with a
\* new email, nothing else that was left behind makes it fail.
FailsForCause ==
    [][\A r \in Slot : job'[r].pc = "failed" /\ job[r].pc # "failed" =>
                           job[r].cause]_vars

\* Once a rotation has been answered, no call that begins with the secret it
\* found is admitted.
OldSecretsDie ==
    [][\A r \in Slot : At(r, "credentials") /\ job'[r].pc = "done" =>
                           job[r].cause]_vars

\* The secret an operator is told works, unless another rotation has written
\* since this one did.
ToldSecretsWork ==
    \A r \in Slot : At(r, "tell") /\ ~job[r].cause => client.secret = job[r].secret
=============================================================================
