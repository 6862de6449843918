--------------------------- MODULE Tenants_proofs ---------------------------
(* Proofs about Tenants, for every set of requests, emails, role names and  *)
(* permissions, and any bounds.                                             *)
EXTENDS Tenants, TLAPS

\* What a request at a position holds.
Prepared(j) ==
    /\ j.pc \in BootstrapSteps => j.email \in Email /\ j.name \in Name
    /\ j.pc \in {"grants", "admin", "assign", "invite", "answer"} => j.role \in RoleId
    /\ j.pc \in {"rotate", "tell"} => j.secret \in Secret

\* The counters are ahead of the ids they have given out.
Counted ==
    /\ client.secret = 0 => generated = 0
    /\ \A n \in Name : roles[n] <= created

TypeInv ==
    /\ TypeOK
    /\ Counted
    /\ \A r \in Slot : Prepared(job[r])

\* What a step of one request does to another: at most it is told that
\* something has happened beside it.
Told(j, k) == k \in {j, [j EXCEPT !.cause = TRUE]}

LEMMA GotoJob ==
    ASSUME job \in [Slot -> Job], NEW r \in Slot, NEW step \in Rest \cup Steps,
           Goto(r, step)
    PROVE  /\ job' \in [Slot -> Job]
           /\ job'[r] = [job[r] EXCEPT !.pc = step]
           /\ \A s \in Slot \ {r} : Told(job[s], job'[s])
  BY DEF Goto, Told, Job

LEMMA EndJob ==
    ASSUME job \in [Slot -> Job], NEW r \in Slot, NEW outcome \in Rest,
           End(r, outcome)
    PROVE  /\ job' \in [Slot -> Job]
           /\ job'[r] = [NoJob EXCEPT !.pc = outcome]
           /\ \A s \in Slot \ {r} : Told(job[s], job'[s])
  BY DEF End, Told, Job, NoJob

LEMMA StartJob ==
    ASSUME job \in [Slot -> Job], NEW r \in Slot, NEW j \in Job,
           job' = [job EXCEPT ![r] = j]
    PROVE  /\ job' \in [Slot -> Job]
           /\ job'[r] = j
           /\ \A s \in Slot \ {r} : Told(job[s], job'[s])
  BY DEF Told

\* A request that is told if b, and otherwise left as it is; one that moves on.
Tell(j, b) == [j EXCEPT !.cause = @ \/ b]
Moved(j, step, role) == [j EXCEPT !.pc = step, !.role = role]

LEMMA Mark ==
    ASSUME NEW j \in Job, NEW b \in BOOLEAN
    PROVE  /\ Tell(j, b) \in Job
           /\ Told(j, Tell(j, b))
           /\ b => Tell(j, b).cause
<1> DEFINE c == j.cause \/ b
<1>1. c \in BOOLEAN /\ (b => c)
  OBVIOUS
<1>2. Tell(j, b) = [j EXCEPT !.cause = c]
  BY DEF Tell
<1>3. c = j.cause \/ c = TRUE
  BY DEF Job
<1>4. j = [j EXCEPT !.cause = j.cause]
  BY DEF Job
<1> HIDE DEF c
<1>5. [j EXCEPT !.cause = c] \in Job /\ [j EXCEPT !.cause = c].cause = c
  BY <1>1 DEF Job
<1> QED
  BY <1>1, <1>2, <1>3, <1>4, <1>5 DEF Told

\* marked are the requests that the step bears on.
LEMMA BesideJob ==
    ASSUME job \in [Slot -> Job], NEW r \in Slot, NEW step \in Rest \cup Steps,
           NEW role \in RoleId \cup {0}, NEW marked \in [Slot -> BOOLEAN],
           job' = [s \in Slot |-> job'[s]],
           job'[r] = Moved(job[r], step, role),
           \A s \in Slot \ {r} : job'[s] = Tell(job[s], marked[s])
    PROVE  /\ job' \in [Slot -> Job]
           /\ \A s \in Slot \ {r} : Told(job[s], job'[s])
           /\ \A s \in Slot \ {r} : marked[s] => job'[s].cause
<1>1. \A s \in Slot \ {r} : /\ job'[s] \in Job /\ Told(job[s], job'[s])
                            /\ marked[s] => job'[s].cause
  <2> SUFFICES ASSUME NEW s \in Slot \ {r}
               PROVE  /\ job'[s] \in Job /\ Told(job[s], job'[s])
                      /\ marked[s] => job'[s].cause
    OBVIOUS
  <2>1. job[s] \in Job /\ marked[s] \in BOOLEAN
    OBVIOUS
  <2>2. job'[s] = Tell(job[s], marked[s])
    OBVIOUS
  <2> QED
    BY ONLY <2>1, <2>2, Mark
<1>2. job'[r] \in Job
  <2>1. job[r] \in Job
    OBVIOUS
  <2> QED
    BY ONLY <2>1, step \in Rest \cup Steps, role \in RoleId \cup {0},
            job'[r] = Moved(job[r], step, role) DEF Job, Moved
<1>3. \A s \in Slot : job'[s] \in Job
  BY <1>1, <1>2
<1>4. job' \in [Slot -> Job]
  BY ONLY <1>3, job' = [s \in Slot |-> job'[s]]
<1> QED
  BY <1>1, <1>4

\* The same for a step of nobody's.
LEMMA AllJob ==
    ASSUME job \in [Slot -> Job], NEW marked \in [Slot -> BOOLEAN],
           job' = [s \in Slot |-> job'[s]],
           \A s \in Slot : job'[s] = Tell(job[s], marked[s])
    PROVE  /\ job' \in [Slot -> Job]
           /\ \A s \in Slot : Told(job[s], job'[s])
           /\ \A s \in Slot : marked[s] => job'[s].cause
<1>1. \A s \in Slot : /\ job'[s] \in Job /\ Told(job[s], job'[s])
                      /\ marked[s] => job'[s].cause
  <2> SUFFICES ASSUME NEW s \in Slot
               PROVE  /\ job'[s] \in Job /\ Told(job[s], job'[s])
                      /\ marked[s] => job'[s].cause
    OBVIOUS
  <2>1. job[s] \in Job /\ marked[s] \in BOOLEAN
    OBVIOUS
  <2>2. job'[s] = Tell(job[s], marked[s])
    OBVIOUS
  <2> QED
    BY ONLY <2>1, <2>2, Mark
<1>2. job' \in [Slot -> Job]
  BY ONLY <1>1, job' = [s \in Slot |-> job'[s]]
<1> QED
  BY <1>1, <1>2

LEMMA ToldFields ==
    ASSUME NEW j \in Job, NEW k, Told(j, k)
    PROVE  /\ k \in Job
           /\ k.pc = j.pc /\ k.email = j.email /\ k.name = j.name
           /\ k.role = j.role /\ k.secret = j.secret /\ k.old = j.old
           /\ j.cause => k.cause
  BY DEF Told, Job

LEMMA RestPrepared ==
    ASSUME NEW j, j.pc \in Rest
    PROVE  Prepared(j)
  BY DEF Prepared, Rest, BootstrapSteps

-----------------------------------------------------------------------------
(* Type correctness                                                        *)

\* TypeOK without the requests.
RowsOK ==
    /\ client \in [secret : Secret \cup {0}, isActive : BOOLEAN, resetUrl : BOOLEAN]
    /\ generated \in 0 .. MaxSecrets
    /\ dead \in SUBSET Secret
    /\ permissions \in SUBSET Management
    /\ roles \in [Name -> RoleId \cup {0}]
    /\ created \in 0 .. MaxRoles
    /\ grants \in SUBSET (RoleId \X Management)
    /\ users \in SUBSET Email
    /\ userRoles \in SUBSET (Email \X ({roles[n] : n \in Name} \ {0}))

LEMMA TypeStep ==
    ASSUME RowsOK', Counted', TypeInv, NEW r \in Slot,
           job' \in [Slot -> Job], Prepared(job'[r]),
           \A s \in Slot \ {r} : Told(job[s], job'[s])
    PROVE  TypeInv'
<1>1. \A s \in Slot : Prepared(job'[s])
  <2> SUFFICES ASSUME NEW s \in Slot, s # r PROVE Prepared(job'[s])
    OBVIOUS
  <2>1. job[s] \in Job /\ Prepared(job[s]) /\ Told(job[s], job'[s])
    BY DEF TypeInv, TypeOK
  <2> QED
    BY <2>1, ToldFields DEF Prepared
<1> QED
  BY <1>1 DEF TypeInv, TypeOK, RowsOK

LEMMA RowsKept == ASSUME TypeInv, UNCHANGED <<registry, silo>> PROVE RowsOK' /\ Counted'
  BY DEF TypeInv, TypeOK, RowsOK, Counted, registry, silo

LEMMA TypeInit == Init => TypeInv
<1> SUFFICES ASSUME Init PROVE TypeInv
  OBVIOUS
<1>1. TypeOK
  BY TenantsAssumption DEF Init, TypeOK, Job, NoJob, Rest
<1>2. Counted
  BY TenantsAssumption DEF Init, Counted
<1>3. \A r \in Slot : Prepared(job[r])
  BY RestPrepared DEF Init, NoJob, Rest
<1> QED
  BY <1>1, <1>2, <1>3 DEF TypeInv

\* A request that moves on and writes nothing.
LEMMA GotoType ==
    ASSUME TypeInv, UNCHANGED <<registry, silo>>, NEW r \in Slot,
           NEW step \in Rest \cup Steps, Goto(r, step),
           Prepared([job[r] EXCEPT !.pc = step])
    PROVE  TypeInv'
<1>1. RowsOK' /\ Counted'
  BY RowsKept
<1>2. job \in [Slot -> Job]
  BY DEF TypeInv, TypeOK
<1> QED
  BY <1>1, <1>2, GotoJob, TypeStep

LEMMA EndType ==
    ASSUME TypeInv, RowsOK', Counted', NEW r \in Slot,
           NEW outcome \in Rest, End(r, outcome)
    PROVE  TypeInv'
<1>2. job \in [Slot -> Job]
  BY DEF TypeInv, TypeOK
<1>3. Prepared([NoJob EXCEPT !.pc = outcome])
  BY RestPrepared DEF NoJob
<1> QED
  BY <1>2, <1>3, EndJob, TypeStep

LEMMA StartType ==
    ASSUME TypeInv, RowsOK', Counted', NEW r \in Slot,
           NEW j \in Job, Prepared(j), job' = [job EXCEPT ![r] = j]
    PROVE  TypeInv'
<1>1. job \in [Slot -> Job]
  BY DEF TypeInv, TypeOK
<1> QED
  BY <1>1, StartJob, TypeStep

\* The requests about the client's own row.
LEMMA RegistryType ==
    ASSUME TypeInv, NEW r \in Slot,
           CreateClient(r) \/ RotateSecret(r) \/ WriteSecret(r) \/ TellSecret(r)
    PROVE  TypeInv'
<1> USE TenantsAssumption
<1>0. /\ TypeOK /\ Counted /\ job \in [Slot -> Job]
      /\ job[r] \in Job /\ Prepared(job[r])
  BY DEF TypeInv, TypeOK
<1>1. CASE CreateClient(r)
  <2>1. generated = 0 /\ generated' = 1
    BY <1>0, <1>1 DEF CreateClient, Registered, Counted
  <2>2. RowsOK'
    BY <1>0, <1>1, <2>1 DEF CreateClient, TypeOK, RowsOK, Secret, silo
  <2>3. Counted'
    BY <1>0, <1>1, <2>1 DEF CreateClient, Counted, silo
  <2> DEFINE j == [NoJob EXCEPT !.pc = "tell", !.secret = generated']
  <2>a. generated' \in Secret
    BY <2>1 DEF Secret
  <2>4. j \in Job /\ Prepared(j)
    BY <2>a DEF NoJob, Job, Steps, Prepared, BootstrapSteps
  <2>5. job' = [job EXCEPT ![r] = j]
    BY <1>1 DEF CreateClient
  <2> QED
    BY <2>2, <2>3, <2>4, <2>5, StartType
<1>2. CASE RotateSecret(r)
  <2>1. generated' \in Secret /\ client.secret \in Secret
    BY <1>0, <1>2 DEF RotateSecret, Registered, TypeOK, Secret
  <2>2. RowsOK'
    BY <1>0, <1>2, <2>1 DEF RotateSecret, TypeOK, RowsOK, Secret, silo
  <2>3. Counted'
    BY <1>0, <1>2, <2>1 DEF RotateSecret, Registered, Counted, silo
  <2> DEFINE j == [NoJob EXCEPT !.pc = "rotate", !.old = client.secret,
                                !.secret = generated']
  <2>4. j \in Job /\ Prepared(j)
    BY <2>1 DEF NoJob, Job, Steps, Prepared, BootstrapSteps
  <2>5. job' = [job EXCEPT ![r] = j]
    BY <1>2 DEF RotateSecret
  <2> QED
    BY <2>2, <2>3, <2>4, <2>5, StartType
<1>3. CASE WriteSecret(r)
  <2>1. job[r].secret \in Secret
    BY <1>0, <1>3 DEF WriteSecret, At, Prepared
  <2>2. RowsOK'
    BY <1>0, <1>3, <2>1 DEF WriteSecret, TypeOK, RowsOK, silo
  <2>3. Counted'
    BY <1>0, <1>3, <2>1 DEF WriteSecret, Counted, TypeOK, Secret, silo
  <2> DEFINE marked == [s \in Slot |-> job[s].pc = "tell"]
  <2>4. marked \in [Slot -> BOOLEAN]
    OBVIOUS
  <2>5. /\ job' = [s \in Slot |-> job'[s]]
        /\ job'[r] = Moved(job[r], "tell", 0)
        /\ \A s \in Slot \ {r} : job'[s] = Tell(job[s], marked[s])
    BY <1>3 DEF WriteSecret, GotoBeside, Tell, Moved
  <2> HIDE DEF marked
  <2>6. "tell" \in Rest \cup Steps /\ 0 \in RoleId \cup {0}
    BY DEF Steps
  <2>7. /\ job' \in [Slot -> Job]
        /\ \A s \in Slot \ {r} : Told(job[s], job'[s])
    BY <1>0, <2>4, <2>5, <2>6, BesideJob
  <2>8. Prepared(job'[r])
    BY <1>0, <2>1, <2>5 DEF Prepared, BootstrapSteps, Job, Moved
  <2> QED
    BY <2>2, <2>3, <2>7, <2>8, TypeStep
<1>4. CASE TellSecret(r)
  <2>1. RowsOK' /\ Counted'
    BY <1>0, <1>4 DEF TellSecret, TypeOK, RowsOK, Counted, Job, silo
  <2> QED
    BY <1>4, <2>1, EndType DEF TellSecret, Rest
<1> QED
  BY <1>1, <1>2, <1>3, <1>4

\* Steps that write no row.
LEMMA ReadType ==
    ASSUME TypeInv, NEW r \in Slot,
           \/ Call(r) \/ CheckCredentials(r) \/ Bootstrap(r) \/ FindEmail(r)
           \/ FindRole(r) \/ Invite(r) \/ AnswerBootstrap(r) \/ Cut(r)
    PROVE  TypeInv'
<1>0. /\ TypeOK /\ job \in [Slot -> Job]
      /\ job[r] \in Job /\ Prepared(job[r])
  BY DEF TypeInv, TypeOK
<1>a. UNCHANGED <<registry, silo>>
  BY DEF Call, CheckCredentials, Bootstrap, FindEmail, FindRole, Invite,
         AnswerBootstrap, Cut
<1>b. RowsOK' /\ Counted'
  BY <1>a, RowsKept
<1>1. CASE Call(r)
  <2> PICK c \in 1 .. generated :
        job' = [job EXCEPT ![r] = [NoJob EXCEPT !.pc = "credentials", !.secret = c,
                                                !.cause = c \notin dead]]
    BY <1>1 DEF Call
  <2> DEFINE j == [NoJob EXCEPT !.pc = "credentials", !.secret = c,
                                !.cause = c \notin dead]
  <2>a. generated \in 0 .. MaxSecrets /\ MaxSecrets \in Nat
    BY <1>0, TenantsAssumption DEF TypeOK
  <2>1. c \in Secret
    BY <2>a DEF Secret
  <2>2. j \in Job /\ Prepared(j)
    BY <2>1 DEF NoJob, Job, Steps, Prepared, BootstrapSteps
  <2> QED
    BY <1>b, <2>2, StartType
<1>2. CASE CheckCredentials(r)
  BY <1>2, <1>b, EndType DEF CheckCredentials, Rest
<1>3. CASE Bootstrap(r)
  <2> PICK e \in Email, n \in Name :
        job' = [job EXCEPT ![r] = [NoJob EXCEPT !.pc = "email", !.email = e,
                                                !.name = n, !.cause = e \in users]]
    BY <1>3 DEF Bootstrap
  <2> DEFINE b == e \in users
             j == [NoJob EXCEPT !.pc = "email", !.email = e,
                                !.name = n, !.cause = b]
  <2>1. b \in BOOLEAN /\ job' = [job EXCEPT ![r] = j]
    OBVIOUS
  <2> HIDE DEF b
  <2>2. j \in Job /\ Prepared(j)
    BY <2>1 DEF NoJob, Job, Steps, Prepared, BootstrapSteps
  <2> QED
    BY <1>b, <2>1, <2>2, StartType
<1>4. CASE FindEmail(r)
  <2>1. CASE job[r].email \in users
    BY <1>4, <2>1, <1>b, EndType DEF FindEmail, Rest
  <2>2. CASE job[r].email \notin users
    <3>1. Goto(r, "permissions") /\ job[r].pc = "email"
      BY <1>4, <2>2 DEF FindEmail, At
    <3>2. Prepared([job[r] EXCEPT !.pc = "permissions"])
      BY <1>0, <3>1 DEF Prepared, BootstrapSteps, Job
    <3> QED
      BY <1>a, <3>1, <3>2, GotoType DEF Steps, BootstrapSteps
  <2> QED
    BY <2>1, <2>2
<1>5. CASE FindRole(r)
  <2> DEFINE id == roles[job[r].name]
             step == IF id = 0 THEN "newRole" ELSE "grants"
             j == [job[r] EXCEPT !.role = id, !.pc = step]
  <2>1. job[r].name \in Name /\ job[r].email \in Email
    BY <1>0, <1>5 DEF FindRole, At, Prepared, BootstrapSteps
  <2>2. id \in RoleId \cup {0}
    BY <1>0, <2>1 DEF TypeOK
  <2>3. j \in Job /\ Prepared(j)
    BY <1>0, <2>1, <2>2 DEF Prepared, BootstrapSteps, Job, Steps
  <2>4. job' = [job EXCEPT ![r] = j]
    BY <1>0, <1>5 DEF FindRole
  <2> QED
    BY <1>b, <2>3, <2>4, StartType
<1>6. CASE Invite(r)
  <2>1. Prepared([job[r] EXCEPT !.pc = "answer"])
    BY <1>0, <1>6 DEF Invite, At, Prepared, BootstrapSteps, Job
  <2> QED
    BY <1>6, <1>a, <2>1, GotoType DEF Invite, Steps, BootstrapSteps
<1>7. CASE AnswerBootstrap(r)
  BY <1>7, <1>b, EndType DEF AnswerBootstrap, Rest
<1>8. CASE Cut(r)
  BY <1>8, <1>b, EndType DEF Cut, Rest
<1> QED
  BY <1>1, <1>2, <1>3, <1>4, <1>5, <1>6, <1>7, <1>8

\* The steps of a bootstrap that write rows.
LEMMA WriteType ==
    ASSUME TypeInv, NEW r \in Slot,
           \/ InsertPermissions(r) \/ InsertRole(r) \/ GrantPermissions(r)
           \/ InsertAdmin(r) \/ AssignRole(r)
    PROVE  TypeInv'
<1> USE TenantsAssumption
<1>0. /\ TypeOK /\ Counted /\ job \in [Slot -> Job]
      /\ job[r] \in Job /\ Prepared(job[r])
  BY DEF TypeInv, TypeOK
<1>a. ASSUME UNCHANGED <<registry, silo>>, End(r, "failed") PROVE TypeInv'
  BY <1>a, RowsKept, EndType DEF Rest
<1>1. CASE InsertPermissions(r)
  <2>1. RowsOK' /\ Counted'
    BY <1>0, <1>1 DEF InsertPermissions, TypeOK, RowsOK, Counted, registry
  <2>2. Prepared([job[r] EXCEPT !.pc = "role"])
    BY <1>0, <1>1 DEF InsertPermissions, At, Prepared, BootstrapSteps, Job
  <2>3. Goto(r, "role") /\ "role" \in Rest \cup Steps
    BY <1>1 DEF InsertPermissions, Steps, BootstrapSteps
  <2> QED
    BY <1>0, <2>1, <2>2, <2>3, GotoJob, TypeStep
<1>2. CASE InsertRole(r)
  <2> DEFINE n == job[r].name
             marked == [s \in Slot |-> job[s].name = n]
  <2>1. n \in Name /\ job[r].email \in Email
    BY <1>0, <1>2 DEF InsertRole, At, Prepared, BootstrapSteps
  <2>2. CASE roles[n] # 0
    BY <1>2, <2>2, <1>a DEF InsertRole, silo
  <2>3. CASE roles[n] = 0
    <3>1. /\ created < MaxRoles /\ created' = created + 1
          /\ roles' = [roles EXCEPT ![n] = created']
      BY <1>2, <2>3 DEF InsertRole
    <3>2. created' \in RoleId
      BY <1>0, <3>1 DEF TypeOK, RoleId
    <3>3. \A m \in Name : roles'[m] \in {roles[m], created'}
      BY <1>0, <3>1 DEF TypeOK
    <3>4. userRoles \in SUBSET (Email \X ({roles'[m] : m \in Name} \ {0}))
      <4>1. ASSUME NEW v \in {roles[m] : m \in Name} \ {0}
            PROVE  v \in {roles'[m] : m \in Name} \ {0}
        BY <1>0, <2>3, <3>1 DEF TypeOK
      <4> QED
        BY <1>0, <4>1 DEF TypeOK
    <3>c. created \in 0 .. MaxRoles /\ roles \in [Name -> RoleId \cup {0}]
      BY <1>0 DEF TypeOK
    <3>d. created' \in 0 .. MaxRoles
      BY <3>1, <3>c
    <3>a. roles' \in [Name -> RoleId \cup {0}]
      BY <3>1, <3>2, <3>c
    <3>b. UNCHANGED <<registry, permissions, grants, users, userRoles>>
      BY <1>2 DEF InsertRole
    <3>5. RowsOK'
      BY <1>0, <3>a, <3>b, <3>d, <3>4 DEF TypeOK, RowsOK, registry
    <3>6. Counted'
      <4>1. \A m \in Name : roles'[m] <= created'
        <5>1. created \in Nat /\ \A m \in Name : roles[m] <= created /\ roles[m] \in Nat
          BY <1>0 DEF TypeOK, Counted, RoleId
        <5> QED
          BY <5>1, <3>1, <3>3
      <4> QED
        BY <1>0, <1>2, <4>1 DEF InsertRole, Counted, registry
    <3>7. marked \in [Slot -> BOOLEAN]
      OBVIOUS
    <3>8. /\ job' = [s \in Slot |-> job'[s]]
          /\ job'[r] = Moved(job[r], "grants", created')
          /\ \A s \in Slot \ {r} : job'[s] = Tell(job[s], marked[s])
      BY <1>2, <2>3 DEF InsertRole, GotoBeside, Tell, Moved
    <3> HIDE DEF marked
    <3>9. "grants" \in Rest \cup Steps /\ created' \in RoleId \cup {0}
      BY <3>2 DEF Steps, BootstrapSteps
    <3>10. /\ job' \in [Slot -> Job]
           /\ \A s \in Slot \ {r} : Told(job[s], job'[s])
      BY <1>0, <3>7, <3>8, <3>9, BesideJob
    <3>11. Prepared(job'[r])
      BY <1>0, <2>1, <3>2, <3>8 DEF Prepared, BootstrapSteps, Job, Moved
    <3> QED
      BY <3>5, <3>6, <3>10, <3>11, TypeStep
  <2> QED
    BY <2>2, <2>3
<1>3. CASE GrantPermissions(r)
  <2> DEFINE id == job[r].role
  <2>1. id \in RoleId /\ job[r].name \in Name /\ job[r].email \in Email
    BY <1>0, <1>3 DEF GrantPermissions, At, Prepared, BootstrapSteps
  <2>2. CASE ~RoleExists(id)
    BY <1>3, <2>2, <1>a DEF GrantPermissions, silo
  <2>3. CASE RoleExists(id)
    <3>1. RowsOK' /\ Counted'
      BY <1>0, <1>3, <2>1, <2>3
      DEF GrantPermissions, TypeOK, RowsOK, Counted, registry
    <3>2. Goto(r, "admin") /\ "admin" \in Rest \cup Steps
      BY <1>3, <2>3 DEF GrantPermissions, Steps, BootstrapSteps
    <3>3. Prepared([job[r] EXCEPT !.pc = "admin"])
      BY <1>0, <2>1 DEF Prepared, BootstrapSteps, Job
    <3> QED
      BY <1>0, <3>1, <3>2, <3>3, GotoJob, TypeStep
  <2> QED
    BY <2>2, <2>3
<1>4. CASE InsertAdmin(r)
  <2> DEFINE e == job[r].email
             marked == [s \in Slot |-> job[s].email = e]
  <2>1. e \in Email /\ job[r].name \in Name /\ job[r].role \in RoleId
    BY <1>0, <1>4 DEF InsertAdmin, At, Prepared, BootstrapSteps
  <2>2. CASE e \in users
    BY <1>4, <2>2, <1>a DEF InsertAdmin, silo
  <2>3. CASE e \notin users
    <3>1. RowsOK' /\ Counted'
      BY <1>0, <1>4, <2>1, <2>3 DEF InsertAdmin, TypeOK, RowsOK, Counted, registry
    <3>7. marked \in [Slot -> BOOLEAN]
      OBVIOUS
    <3>8. /\ job' = [s \in Slot |-> job'[s]]
          /\ job'[r] = Moved(job[r], "assign", job[r].role)
          /\ \A s \in Slot \ {r} : job'[s] = Tell(job[s], marked[s])
      BY <1>4, <2>3 DEF InsertAdmin, GotoBeside, Tell, Moved
    <3> HIDE DEF marked
    <3>9. "assign" \in Rest \cup Steps /\ job[r].role \in RoleId \cup {0}
      BY <2>1 DEF Steps, BootstrapSteps
    <3>10. /\ job' \in [Slot -> Job]
           /\ \A s \in Slot \ {r} : Told(job[s], job'[s])
      BY <1>0, <3>7, <3>8, <3>9, BesideJob
    <3>11. Prepared(job'[r])
      BY <1>0, <2>1, <3>8 DEF Prepared, BootstrapSteps, Job, Moved
    <3> QED
      BY <3>1, <3>10, <3>11, TypeStep
  <2> QED
    BY <2>2, <2>3
<1>5. CASE AssignRole(r)
  <2> DEFINE id == job[r].role
  <2>1. id \in RoleId /\ job[r].name \in Name /\ job[r].email \in Email
    BY <1>0, <1>5 DEF AssignRole, At, Prepared, BootstrapSteps
  <2>2. CASE ~RoleExists(id)
    BY <1>5, <2>2, <1>a DEF AssignRole, silo
  <2>3. CASE RoleExists(id)
    <3>b. id \in {roles[n] : n \in Name} \ {0}
      BY <2>1, <2>3 DEF RoleExists, RoleId
    <3>c. userRoles' = userRoles \cup {<<job[r].email, id>>}
      BY <1>5, <2>3 DEF AssignRole
    <3>d. userRoles' \in SUBSET (Email \X ({roles[n] : n \in Name} \ {0}))
      BY <1>0, <2>1, <3>b, <3>c DEF TypeOK
    <3>1. RowsOK' /\ Counted'
      BY <1>0, <1>5, <3>d DEF AssignRole, TypeOK, RowsOK, Counted, registry
    <3>2. Goto(r, "invite") /\ "invite" \in Rest \cup Steps
      BY <1>5, <2>3 DEF AssignRole, Steps, BootstrapSteps
    <3>3. Prepared([job[r] EXCEPT !.pc = "invite"])
      BY <1>0, <2>1 DEF Prepared, BootstrapSteps, Job
    <3> QED
      BY <1>0, <3>1, <3>2, <3>3, GotoJob, TypeStep
  <2> QED
    BY <2>2, <2>3
<1> QED
  BY <1>1, <1>2, <1>3, <1>4, <1>5

\* The steps of nobody's request.
LEMMA WorldType ==
    ASSUME TypeInv, UpdateClient \/ DeleteRole \/ TakeGrant \/ TakeRole \/ Register
    PROVE  /\ TypeInv'
           /\ \A s \in Slot : Told(job[s], job'[s])
<1>0. TypeOK /\ Counted /\ job \in [Slot -> Job]
  BY DEF TypeInv, TypeOK
<1>a. ASSUME RowsOK', Counted', job' \in [Slot -> Job],
             \A s \in Slot : Told(job[s], job'[s])
      PROVE  TypeInv'
  <2>1. CASE Slot = {}
    BY <1>a, <2>1 DEF TypeInv, TypeOK, RowsOK
  <2>2. CASE Slot # {}
    <3> PICK r \in Slot : TRUE
      BY <2>2
    <3>1. Prepared(job'[r])
      <4>1. job[r] \in Job /\ Prepared(job[r]) /\ Told(job[r], job'[r])
        BY <1>a DEF TypeInv, TypeOK
      <4> QED
        BY <4>1, ToldFields DEF Prepared
    <3> QED
      BY <1>a, <3>1, TypeStep
  <2> QED
    BY <2>1, <2>2
<1>1. CASE UpdateClient
  <2>1. job' = job
    BY <1>1 DEF UpdateClient
  <2>2. \A s \in Slot : Told(job[s], job'[s])
    BY <2>1 DEF Told
  <2>3. client'.secret = client.secret /\ UNCHANGED <<generated, dead, silo>>
    BY <1>0, <1>1 DEF UpdateClient, TypeOK
  <2>5. client' \in [secret : Secret \cup {0}, isActive : BOOLEAN, resetUrl : BOOLEAN]
    BY <1>0, <1>1 DEF UpdateClient, TypeOK
  <2>4. RowsOK' /\ Counted'
    BY <1>0, <2>3, <2>5 DEF TypeOK, RowsOK, Counted, silo
  <2> QED
    BY <1>0, <1>a, <2>1, <2>2, <2>4
<1>2. CASE DeleteRole
  <2> PICK n \in Name :
        /\ roles[n] # 0
        /\ roles' = [roles EXCEPT ![n] = 0]
        /\ grants' = {g \in grants : g[1] # roles[n]}
        /\ userRoles' = {a \in userRoles : a[2] # roles[n]}
        /\ Beside(LAMBDA j : j.name = n)
    BY <1>2 DEF DeleteRole
  <2> DEFINE marked == [s \in Slot |-> job[s].name = n]
  <2>1. /\ marked \in [Slot -> BOOLEAN]
        /\ job' = [s \in Slot |-> job'[s]]
        /\ \A s \in Slot : job'[s] = Tell(job[s], marked[s])
    BY DEF Beside, Tell
  <2>2. userRoles' \in SUBSET (Email \X ({roles'[m] : m \in Name} \ {0}))
    <3>1. ASSUME NEW a \in userRoles, a[2] # roles[n]
          PROVE  a \in Email \X ({roles'[m] : m \in Name} \ {0})
      <4>1. PICK e \in Email, m \in Name : a = <<e, roles[m]>> /\ roles[m] # 0
        BY <1>0 DEF TypeOK
      <4>2. m # n /\ roles'[m] = roles[m]
        BY <1>0, <3>1, <4>1 DEF TypeOK
      <4> QED
        BY <4>1, <4>2
    <3> QED
      BY <3>1
  <2>3. RowsOK' /\ Counted'
    BY <1>0, <1>2, <2>2 DEF DeleteRole, TypeOK, RowsOK, Counted, registry
  <2> HIDE DEF marked
  <2>4. job' \in [Slot -> Job] /\ \A s \in Slot : Told(job[s], job'[s])
    BY <1>0, <2>1, AllJob
  <2> QED
    BY <1>a, <2>3, <2>4
<1>3. CASE TakeGrant
  <2> PICK g \in grants : grants' = grants \ {g} /\ Beside(LAMBDA j : j.role = g[1])
    BY <1>3 DEF TakeGrant
  <2> DEFINE marked == [s \in Slot |-> job[s].role = g[1]]
  <2>1. /\ marked \in [Slot -> BOOLEAN]
        /\ job' = [s \in Slot |-> job'[s]]
        /\ \A s \in Slot : job'[s] = Tell(job[s], marked[s])
    BY DEF Beside, Tell
  <2>3. RowsOK' /\ Counted'
    BY <1>0, <1>3 DEF TakeGrant, TypeOK, RowsOK, Counted, registry
  <2> HIDE DEF marked
  <2>4. job' \in [Slot -> Job] /\ \A s \in Slot : Told(job[s], job'[s])
    BY <1>0, <2>1, AllJob
  <2> QED
    BY <1>a, <2>3, <2>4
<1>4. CASE Register
  <2> PICK e \in Email : users' = users \cup {e} /\ Beside(LAMBDA j : j.email = e)
    BY <1>4 DEF Register
  <2> DEFINE marked == [s \in Slot |-> job[s].email = e]
  <2>1. /\ marked \in [Slot -> BOOLEAN]
        /\ job' = [s \in Slot |-> job'[s]]
        /\ \A s \in Slot : job'[s] = Tell(job[s], marked[s])
    BY DEF Beside, Tell
  <2>3. RowsOK' /\ Counted'
    BY <1>0, <1>4 DEF Register, TypeOK, RowsOK, Counted, registry
  <2> HIDE DEF marked
  <2>4. job' \in [Slot -> Job] /\ \A s \in Slot : Told(job[s], job'[s])
    BY <1>0, <2>1, AllJob
  <2> QED
    BY <1>a, <2>3, <2>4
<1>5. CASE TakeRole
  <2> PICK a \in userRoles :
        userRoles' = userRoles \ {a} /\ Beside(LAMBDA j : j.email = a[1])
    BY <1>5 DEF TakeRole
  <2> DEFINE marked == [s \in Slot |-> job[s].email = a[1]]
  <2>1. /\ marked \in [Slot -> BOOLEAN]
        /\ job' = [s \in Slot |-> job'[s]]
        /\ \A s \in Slot : job'[s] = Tell(job[s], marked[s])
    BY DEF Beside, Tell
  <2>3. RowsOK' /\ Counted'
    BY <1>0, <1>5 DEF TakeRole, TypeOK, RowsOK, Counted, registry
  <2> HIDE DEF marked
  <2>4. job' \in [Slot -> Job] /\ \A s \in Slot : Told(job[s], job'[s])
    BY <1>0, <2>1, AllJob
  <2> QED
    BY <1>a, <2>3, <2>4
<1> QED
  BY <1>1, <1>2, <1>3, <1>4, <1>5

LEMMA TypeNext == TypeInv /\ [Next]_vars => TypeInv'
<1> SUFFICES ASSUME TypeInv, [Next]_vars PROVE TypeInv'
  OBVIOUS
<1>1. CASE UNCHANGED vars
  BY <1>1 DEF TypeInv, TypeOK, Counted, Prepared, vars, registry, silo
<1>2. CASE UpdateClient \/ DeleteRole \/ TakeGrant \/ TakeRole \/ Register
  BY <1>2, WorldType
<1>3. CASE \E r \in Slot : CreateClient(r) \/ RotateSecret(r) \/ WriteSecret(r)
                           \/ TellSecret(r)
  BY <1>3, RegistryType
<1>4. CASE \E r \in Slot : Call(r) \/ CheckCredentials(r) \/ Bootstrap(r)
                           \/ FindEmail(r) \/ FindRole(r) \/ Invite(r)
                           \/ AnswerBootstrap(r) \/ Cut(r)
  BY <1>4, ReadType
<1>5. CASE \E r \in Slot : InsertPermissions(r) \/ InsertRole(r)
                           \/ GrantPermissions(r) \/ InsertAdmin(r) \/ AssignRole(r)
  BY <1>5, WriteType
<1> QED
  BY <1>1, <1>2, <1>3, <1>4, <1>5 DEF Next

\* The variables keep their types, for any requests, emails, names, permissions
\* and bounds: in particular ids and secrets stay within what was given out.
THEOREM TypeCorrect == Spec => []TypeOK
<1>1. TypeInv => TypeOK
  BY DEF TypeInv
<1> QED
  BY <1>1, TypeInit, TypeNext, PTL DEF Spec

-----------------------------------------------------------------------------
(* What a step leaves of the other requests                                *)

LEMMA OthersSame ==
    ASSUME TypeInv, NEW r \in Slot,
           \/ CreateClient(r) \/ RotateSecret(r) \/ TellSecret(r)
           \/ Call(r) \/ CheckCredentials(r)
           \/ Bootstrap(r) \/ FindEmail(r) \/ InsertPermissions(r) \/ FindRole(r)
           \/ GrantPermissions(r) \/ AssignRole(r) \/ Invite(r)
           \/ AnswerBootstrap(r) \/ Cut(r)
    PROVE  \A s \in Slot \ {r} : job'[s] = job[s]
<1> job \in [Slot -> Job]
  BY DEF TypeInv, TypeOK
<1>1. ASSUME NEW step, Goto(r, step) PROVE \A s \in Slot \ {r} : job'[s] = job[s]
  BY <1>1 DEF Goto
<1>2. ASSUME NEW step, End(r, step) PROVE \A s \in Slot \ {r} : job'[s] = job[s]
  BY <1>2 DEF End
<1>3. CASE CreateClient(r) \/ RotateSecret(r)
  BY <1>3 DEF CreateClient, RotateSecret
<1>4. CASE Call(r) \/ Bootstrap(r) \/ FindRole(r)
  BY <1>4 DEF Call, Bootstrap, FindRole
<1>5. CASE TellSecret(r) \/ AnswerBootstrap(r) \/ Cut(r) \/ CheckCredentials(r)
  BY <1>5, <1>2 DEF TellSecret, AnswerBootstrap, Cut, CheckCredentials
<1>6. CASE FindEmail(r) \/ InsertPermissions(r) \/ Invite(r)
  BY <1>6, <1>1, <1>2 DEF FindEmail, InsertPermissions, Invite
<1>7. CASE GrantPermissions(r) \/ AssignRole(r)
  BY <1>7, <1>1, <1>2 DEF GrantPermissions, AssignRole
<1> QED
  BY <1>3, <1>4, <1>5, <1>6, <1>7

LEMMA OthersTold ==
    ASSUME TypeInv, NEW r \in Slot,
           WriteSecret(r) \/ InsertRole(r) \/ InsertAdmin(r)
    PROVE  \A s \in Slot \ {r} : Told(job[s], job'[s])
<1>0. job \in [Slot -> Job] /\ job[r] \in Job
  BY DEF TypeInv, TypeOK
<1>2. ASSUME End(r, "failed") PROVE \A s \in Slot \ {r} : Told(job[s], job'[s])
  BY <1>0, <1>2, EndJob DEF Rest
<1>3. CASE WriteSecret(r)
  <2> SUFFICES ASSUME NEW s \in Slot \ {r} PROVE Told(job[s], job'[s])
    OBVIOUS
  <2> DEFINE b == job[s].pc = "tell"
  <2>1. job'[s] = Tell(job[s], b) /\ b \in BOOLEAN /\ job[s] \in Job
    BY <1>0, <1>3 DEF WriteSecret, GotoBeside, Tell
  <2> HIDE DEF b
  <2> QED
    BY <2>1, Mark
<1>4. CASE InsertRole(r) /\ roles[job[r].name] = 0
  <2> SUFFICES ASSUME NEW s \in Slot \ {r} PROVE Told(job[s], job'[s])
    OBVIOUS
  <2> DEFINE b == job[s].name = job[r].name
  <2>1. job'[s] = Tell(job[s], b) /\ b \in BOOLEAN /\ job[s] \in Job
    BY <1>0, <1>4 DEF InsertRole, GotoBeside, Tell
  <2> HIDE DEF b
  <2> QED
    BY <2>1, Mark
<1>5. CASE InsertAdmin(r) /\ job[r].email \notin users
  <2> SUFFICES ASSUME NEW s \in Slot \ {r} PROVE Told(job[s], job'[s])
    OBVIOUS
  <2> DEFINE b == job[s].email = job[r].email
  <2>1. job'[s] = Tell(job[s], b) /\ b \in BOOLEAN /\ job[s] \in Job
    BY <1>0, <1>5 DEF InsertAdmin, GotoBeside, Tell
  <2> HIDE DEF b
  <2> QED
    BY <2>1, Mark
<1>6. CASE InsertRole(r) /\ roles[job[r].name] # 0
  BY <1>6, <1>2 DEF InsertRole
<1>7. CASE InsertAdmin(r) /\ job[r].email \in users
  BY <1>7, <1>2 DEF InsertAdmin
<1> QED
  BY <1>3, <1>4, <1>5, <1>6, <1>7

-----------------------------------------------------------------------------
(* Bootstraps                                                              *)

\* What a bootstrap may rely on at each position, unless something happened
\* beside it: the email is still free until the user is inserted, its role is
\* the one of that name, the grants and the assignment it made are there.
Boot(j, U, R, G, A) ==
    ~j.cause =>
       /\ j.pc \in {"email", "permissions", "role", "newRole", "grants", "admin"} =>
             j.email \notin U
       /\ j.pc = "newRole" => R[j.name] = 0
       /\ j.pc \in {"grants", "admin", "assign", "invite", "answer"} =>
             R[j.name] = j.role
       /\ j.pc \in {"admin", "assign", "invite", "answer"} =>
             {j.role} \X Management \subseteq G
       /\ j.pc \in {"invite", "answer"} => <<j.email, j.role>> \in A

\* No two names have one id.
Injective == \A m, n \in Name : roles[m] = roles[n] /\ roles[m] # 0 => m = n

BootInv ==
    /\ Injective
    /\ \A r \in Slot : Boot(job[r], users, roles, grants, userRoles)

LEMMA BootRest ==
    ASSUME NEW j, NEW U, NEW R, NEW G, NEW A, j.pc \notin BootstrapSteps
    PROVE  Boot(j, U, R, G, A)
  BY DEF Boot, BootstrapSteps

LEMMA BootTold ==
    ASSUME NEW j \in Job, NEW k, Told(j, k), NEW U, NEW R, NEW G, NEW A,
           Boot(j, U, R, G, A)
    PROVE  Boot(k, U, R, G, A)
  BY ToldFields DEF Boot

\* Steps that write neither users nor roles, grants or assignments.
LEMMA BootSame ==
    ASSUME TypeInv, BootInv, UNCHANGED <<users, roles, grants, userRoles>>,
           NEW r \in Slot, \A s \in Slot \ {r} : Told(job[s], job'[s]),
           Boot(job'[r], users, roles, grants, userRoles)
    PROVE  BootInv'
<1>1. ASSUME NEW s \in Slot PROVE Boot(job'[s], users, roles, grants, userRoles)
  <2>1. job[s] \in Job /\ Boot(job[s], users, roles, grants, userRoles)
    BY DEF TypeInv, TypeOK, BootInv
  <2> QED
    BY <2>1, BootTold
<1> QED
  BY <1>1 DEF BootInv, Injective

LEMMA BootInit == Init => BootInv
  BY BootRest DEF Init, BootInv, Injective, NoJob, BootstrapSteps

LEMMA BootRead ==
    ASSUME TypeInv, BootInv, NEW r \in Slot,
           \/ CreateClient(r) \/ RotateSecret(r) \/ TellSecret(r) \/ WriteSecret(r)
           \/ Call(r) \/ CheckCredentials(r) \/ Bootstrap(r) \/ FindEmail(r)
           \/ InsertPermissions(r) \/ FindRole(r) \/ Invite(r)
           \/ AnswerBootstrap(r) \/ Cut(r)
    PROVE  BootInv'
<1>0. /\ job \in [Slot -> Job] /\ job[r] \in Job /\ Prepared(job[r])
      /\ Boot(job[r], users, roles, grants, userRoles)
  BY DEF TypeInv, TypeOK, BootInv
<1>a. UNCHANGED <<users, roles, grants, userRoles>>
  BY DEF CreateClient, RotateSecret, TellSecret, WriteSecret, Call, CheckCredentials,
         Bootstrap, FindEmail, InsertPermissions, FindRole, Invite, AnswerBootstrap,
         Cut, silo
<1>b. \A s \in Slot \ {r} : Told(job[s], job'[s])
  BY OthersSame, OthersTold DEF Told
<1> SUFFICES Boot(job'[r], users, roles, grants, userRoles)
  BY <1>a, <1>b, BootSame
<1>c. ASSUME NEW outcome \in Rest, End(r, outcome)
      PROVE  Boot(job'[r], users, roles, grants, userRoles)
  <2>1. job'[r].pc = outcome
    BY <1>0, <1>c DEF End, NoJob
  <2> QED
    BY <2>1, BootRest DEF Rest, BootstrapSteps
<1>1. CASE CreateClient(r) \/ RotateSecret(r) \/ Call(r)
  <2>1. job'[r].pc \in {"tell", "rotate", "credentials"}
    BY <1>0, <1>1 DEF CreateClient, RotateSecret, Call, NoJob
  <2> QED
    BY <2>1, BootRest DEF BootstrapSteps
<1>2. CASE WriteSecret(r)
  <2>1. job'[r].pc = "tell"
    BY <1>0, <1>2 DEF WriteSecret, GotoBeside, Job
  <2> QED
    BY <2>1, BootRest DEF BootstrapSteps
<1>3. CASE TellSecret(r) \/ CheckCredentials(r) \/ AnswerBootstrap(r) \/ Cut(r)
  BY <1>3, <1>c DEF TellSecret, CheckCredentials, AnswerBootstrap, Cut, Rest
<1>4. CASE Bootstrap(r)
  <2>1. PICK e \in Email, n \in Name :
           job'[r] = [NoJob EXCEPT !.pc = "email", !.email = e, !.name = n,
                                   !.cause = e \in users]
    BY <1>0, <1>4 DEF Bootstrap
  <2>2. /\ job'[r].pc = "email" /\ job'[r].email = e
        /\ job'[r].cause = (e \in users)
    BY <2>1 DEF NoJob
  <2> QED
    BY <2>2 DEF Boot
<1>5. CASE FindEmail(r)
  <2>1. CASE job[r].email \in users
    BY <1>5, <2>1, <1>c DEF FindEmail, Rest
  <2>2. CASE job[r].email \notin users
    <3>1. job'[r] = [job[r] EXCEPT !.pc = "permissions"]
      BY <1>0, <1>5, <2>2 DEF FindEmail, Goto
    <3> QED
      BY <1>0, <2>2, <3>1 DEF Boot, Job
  <2> QED
    BY <2>1, <2>2
<1>6. CASE InsertPermissions(r)
  <2>1. job'[r] = [job[r] EXCEPT !.pc = "role"] /\ job[r].pc = "permissions"
    BY <1>0, <1>6 DEF InsertPermissions, Goto, At
  <2> QED
    BY <1>0, <2>1 DEF Boot, Job
<1>7. CASE FindRole(r)
  <2> DEFINE id == roles[job[r].name]
  <2>1. /\ job'[r] = [job[r] EXCEPT !.role = id,
                                    !.pc = IF id = 0 THEN "newRole" ELSE "grants"]
        /\ job[r].pc = "role"
    BY <1>0, <1>7 DEF FindRole, At
  <2>2. /\ job'[r].pc = IF id = 0 THEN "newRole" ELSE "grants"
        /\ job'[r].role = id /\ job'[r].name = job[r].name
        /\ job'[r].email = job[r].email /\ job'[r].cause = job[r].cause
    BY <1>0, <2>1 DEF Job
  <2> HIDE DEF id
  <2>3. id = roles[job[r].name]
    BY DEF id
  <2> QED
    BY <1>0, <2>1, <2>2, <2>3 DEF Boot
<1>8. CASE Invite(r)
  <2>1. job'[r] = [job[r] EXCEPT !.pc = "answer"] /\ job[r].pc = "invite"
    BY <1>0, <1>8 DEF Invite, Goto, At
  <2> QED
    BY <1>0, <2>1 DEF Boot, Job
<1> QED
  BY <1>1, <1>2, <1>3, <1>4, <1>5, <1>6, <1>7, <1>8

\* The steps of a bootstrap that write the rows the others rely on.
LEMMA BootWrite ==
    ASSUME TypeInv, BootInv, NEW r \in Slot,
           InsertRole(r) \/ GrantPermissions(r) \/ InsertAdmin(r) \/ AssignRole(r)
    PROVE  BootInv'
<1>0. /\ job \in [Slot -> Job] /\ job[r] \in Job /\ Prepared(job[r])
      /\ Boot(job[r], users, roles, grants, userRoles)
      /\ TypeOK /\ Counted
  BY DEF TypeInv, TypeOK, BootInv
<1>b. \A s \in Slot \ {r} : Told(job[s], job'[s])
  BY OthersSame, OthersTold DEF Told
<1>c. ASSUME End(r, "failed"), UNCHANGED <<users, roles, grants, userRoles>>
      PROVE  BootInv'
  <2>1. job'[r].pc = "failed"
    BY <1>0, <1>c DEF End, NoJob
  <2>2. Boot(job'[r], users, roles, grants, userRoles)
    BY <2>1, BootRest DEF BootstrapSteps
  <2> QED
    BY <1>b, <1>c, <2>2, BootSame
<1>d. ASSUME NEW s \in Slot \ {r}
      PROVE  /\ job[s] \in Job /\ Prepared(job[s])
             /\ Boot(job[s], users, roles, grants, userRoles)
             /\ job'[s].pc = job[s].pc /\ job'[s].email = job[s].email
             /\ job'[s].name = job[s].name /\ job'[s].role = job[s].role
             /\ job[s].cause => job'[s].cause
  <2>1. job[s] \in Job /\ Prepared(job[s]) /\ Told(job[s], job'[s])
    BY <1>b DEF TypeInv, TypeOK
  <2> QED
    BY <2>1, ToldFields DEF BootInv
<1>1. CASE InsertRole(r)
  <2> DEFINE n == job[r].name
  <2>1. CASE roles[n] # 0
    BY <1>1, <2>1, <1>c DEF InsertRole
  <2>2. CASE roles[n] = 0
    <3>0. n \in Name
      BY <1>0, <1>1 DEF InsertRole, At, Prepared, BootstrapSteps
    <3>1. /\ created' = created + 1 /\ roles' = [roles EXCEPT ![n] = created']
          /\ UNCHANGED <<users, grants, userRoles>>
      BY <1>1, <2>2 DEF InsertRole
    <3>2. /\ roles'[n] = created'
          /\ \A m \in Name : m # n => roles'[m] = roles[m]
      BY <1>0, <3>0, <3>1 DEF TypeOK
    <3>3. /\ created' \notin {roles[m] : m \in Name} /\ created' # 0
      <4>1. created \in Nat /\ \A m \in Name : roles[m] <= created /\ roles[m] \in Nat
        BY <1>0 DEF TypeOK, Counted, RoleId
      <4> QED
        BY <3>1, <4>1
    <3>4. Injective'
      BY <3>0, <3>2, <3>3 DEF BootInv, Injective
    <3>5. ASSUME NEW s \in Slot \ {r} PROVE Boot(job'[s], users, roles', grants, userRoles)
      <4>1. job[s].name = n => job'[s].cause
        <5> DEFINE b == job[s].name = n
        <5>1. job'[s] = Tell(job[s], b) /\ b \in BOOLEAN
          BY <1>0, <1>1, <2>2 DEF InsertRole, GotoBeside, Tell
        <5> HIDE DEF b
        <5>2. b => job'[s].cause
          BY <1>d, <5>1, Mark
        <5> QED
          BY <5>2 DEF b
      <4>2. job[s].pc \in {"newRole", "grants", "admin", "assign", "invite", "answer"} =>
               job[s].name \in Name
        BY <1>d DEF Prepared, BootstrapSteps
      <4>3. CASE job[s].name = n
        BY <4>1, <4>3 DEF Boot
      <4>4. CASE job[s].name # n
        <5>1. job[s].name \in Name => roles'[job[s].name] = roles[job[s].name]
          BY <3>2, <4>4
        <5> QED
          BY <1>d, <4>2, <5>1 DEF Boot
      <4> QED
        BY <4>3, <4>4
    <3>6. Boot(job'[r], users, roles', grants, userRoles)
      <4>1. /\ job'[r].pc = "grants" /\ job'[r].role = created' /\ job[r].pc = "newRole"
            /\ job'[r].name = n /\ job'[r].email = job[r].email
            /\ job'[r].cause = job[r].cause
        <5>1. job'[r] = Moved(job[r], "grants", created') /\ job[r].pc = "newRole"
          BY <1>0, <1>1, <2>2 DEF InsertRole, GotoBeside, At, Moved
        <5> QED
          BY <1>0, <5>1 DEF Moved, Job
      <4> QED
        BY <1>0, <3>2, <4>1 DEF Boot
    <3> QED
      BY <3>1, <3>4, <3>5, <3>6 DEF BootInv
  <2> QED
    BY <2>1, <2>2
<1>2. CASE GrantPermissions(r)
  <2> DEFINE id == job[r].role
  <2>1. CASE ~RoleExists(id)
    BY <1>2, <2>1, <1>c DEF GrantPermissions
  <2>2. CASE RoleExists(id)
    <3>1. /\ grants' = grants \cup ({id} \X Management)
          /\ UNCHANGED <<users, roles, userRoles>>
          /\ job'[r] = [job[r] EXCEPT !.pc = "admin"] /\ job[r].pc = "grants"
      BY <1>0, <1>2, <2>2 DEF GrantPermissions, Goto, At
    <3>2. ASSUME NEW s \in Slot \ {r} PROVE Boot(job'[s], users, roles, grants', userRoles)
      <4>1. grants \subseteq grants'
        BY <3>1
      <4> QED
        BY <1>d, <4>1 DEF Boot
    <3>3. Boot(job'[r], users, roles, grants', userRoles)
      <4>1. /\ job'[r].pc = "admin" /\ job'[r].role = id
            /\ job'[r].name = job[r].name /\ job'[r].email = job[r].email
            /\ job'[r].cause = job[r].cause
        BY <1>0, <3>1 DEF Job
      <4> QED
        BY <1>0, <3>1, <4>1 DEF Boot
    <3> QED
      BY <3>1, <3>2, <3>3 DEF BootInv, Injective
  <2> QED
    BY <2>1, <2>2
<1>3. CASE InsertAdmin(r)
  <2> DEFINE e == job[r].email
  <2>1. CASE e \in users
    BY <1>3, <2>1, <1>c DEF InsertAdmin
  <2>2. CASE e \notin users
    <3>1. users' = users \cup {e} /\ UNCHANGED <<roles, grants, userRoles>>
      BY <1>3, <2>2 DEF InsertAdmin
    <3>2. ASSUME NEW s \in Slot \ {r} PROVE Boot(job'[s], users', roles, grants, userRoles)
      <4>1. job[s].email = e => job'[s].cause
        <5> DEFINE b == job[s].email = e
        <5>1. job'[s] = Tell(job[s], b) /\ b \in BOOLEAN
          BY <1>0, <1>3, <2>2 DEF InsertAdmin, GotoBeside, Tell
        <5> HIDE DEF b
        <5>2. b => job'[s].cause
          BY <1>d, <5>1, Mark
        <5> QED
          BY <5>2 DEF b
      <4> QED
        BY <1>d, <3>1, <4>1 DEF Boot
    <3>3. Boot(job'[r], users', roles, grants, userRoles)
      <4>1. /\ job'[r].pc = "assign" /\ job'[r].role = job[r].role /\ job[r].pc = "admin"
            /\ job'[r].name = job[r].name /\ job'[r].cause = job[r].cause
        <5>1. job'[r] = Moved(job[r], "assign", job[r].role) /\ job[r].pc = "admin"
          BY <1>0, <1>3, <2>2 DEF InsertAdmin, GotoBeside, At, Moved
        <5> QED
          BY <1>0, <5>1 DEF Moved, Job
      <4> QED
        BY <1>0, <4>1 DEF Boot
    <3> QED
      BY <3>1, <3>2, <3>3 DEF BootInv, Injective
  <2> QED
    BY <2>1, <2>2
<1>4. CASE AssignRole(r)
  <2> DEFINE id == job[r].role
  <2>1. CASE ~RoleExists(id)
    BY <1>4, <2>1, <1>c DEF AssignRole
  <2>2. CASE RoleExists(id)
    <3>1. /\ userRoles' = userRoles \cup {<<job[r].email, id>>}
          /\ UNCHANGED <<users, roles, grants>>
          /\ job'[r] = [job[r] EXCEPT !.pc = "invite"] /\ job[r].pc = "assign"
      BY <1>0, <1>4, <2>2 DEF AssignRole, Goto, At
    <3>2. ASSUME NEW s \in Slot \ {r} PROVE Boot(job'[s], users, roles, grants, userRoles')
      BY <1>d, <3>1 DEF Boot
    <3>3. Boot(job'[r], users, roles, grants, userRoles')
      <4>1. /\ job'[r].pc = "invite" /\ job'[r].role = id
            /\ job'[r].name = job[r].name /\ job'[r].email = job[r].email
            /\ job'[r].cause = job[r].cause
        BY <1>0, <3>1 DEF Job
      <4> QED
        BY <1>0, <3>1, <4>1 DEF Boot
    <3> QED
      BY <3>1, <3>2, <3>3 DEF BootInv, Injective
  <2> QED
    BY <2>1, <2>2
<1> QED
  BY <1>1, <1>2, <1>3, <1>4

\* The steps of nobody's request.
LEMMA BootWorld ==
    ASSUME TypeInv, BootInv, UpdateClient \/ DeleteRole \/ TakeGrant \/ TakeRole \/ Register
    PROVE  BootInv'
<1>0. job \in [Slot -> Job] /\ TypeOK /\ Injective
  BY DEF TypeInv, TypeOK, BootInv
<1>d. ASSUME NEW s \in Slot
      PROVE  /\ job[s] \in Job /\ Prepared(job[s]) /\ Told(job[s], job'[s])
             /\ Boot(job[s], users, roles, grants, userRoles)
             /\ job'[s].pc = job[s].pc /\ job'[s].email = job[s].email
             /\ job'[s].name = job[s].name /\ job'[s].role = job[s].role
             /\ job[s].cause => job'[s].cause
  <2>1. job[s] \in Job /\ Prepared(job[s]) /\ Told(job[s], job'[s])
    BY WorldType DEF TypeInv, TypeOK
  <2> QED
    BY <2>1, ToldFields DEF BootInv
<1>1. CASE UpdateClient
  <2>1. job' = job /\ UNCHANGED silo
    BY <1>1 DEF UpdateClient
  <2> QED
    BY <2>1 DEF BootInv, Injective, silo
<1>2. CASE DeleteRole
  <2> PICK n \in Name :
        /\ roles[n] # 0
        /\ roles' = [roles EXCEPT ![n] = 0]
        /\ grants' = {g \in grants : g[1] # roles[n]}
        /\ userRoles' = {a \in userRoles : a[2] # roles[n]}
        /\ Beside(LAMBDA j : j.name = n)
    BY <1>2 DEF DeleteRole
  <2>1. UNCHANGED users
    BY <1>2 DEF DeleteRole
  <2>2. roles'[n] = 0 /\ \A m \in Name : m # n => roles'[m] = roles[m]
    BY <1>0 DEF TypeOK
  <2>3. Injective'
    BY <1>0, <2>2 DEF Injective
  <2>4. ASSUME NEW s \in Slot PROVE Boot(job'[s], users, roles', grants', userRoles')
    <3>1. job[s].name = n => job'[s].cause
      <4> DEFINE b == job[s].name = n
      <4>1. job'[s] = Tell(job[s], b) /\ b \in BOOLEAN
        BY <1>0 DEF Beside, Tell
      <4> HIDE DEF b
      <4>2. b => job'[s].cause
        BY <1>d, <4>1, Mark
      <4> QED
        BY <4>2 DEF b
    <3>2. CASE job[s].name = n
      BY <3>1, <3>2 DEF Boot
    <3>3. CASE job[s].name # n /\ job[s].pc \notin BootstrapSteps
      BY <1>d, <3>3, BootRest
    <3>4. CASE job[s].name # n /\ job[s].pc \in BootstrapSteps
      <4>1. job[s].name \in Name /\ roles'[job[s].name] = roles[job[s].name]
        BY <1>d, <2>2, <3>4 DEF Prepared
      <4>2. CASE job[s].pc \notin {"grants", "admin", "assign", "invite", "answer"}
        BY <1>d, <2>1, <4>1, <4>2 DEF Boot
      <4>3. CASE job[s].pc \in {"grants", "admin", "assign", "invite", "answer"}
        <5> SUFFICES ASSUME ~job'[s].cause
                     PROVE  Boot(job'[s], users, roles', grants', userRoles')
          BY DEF Boot
        <5>1. job[s].role \in RoleId /\ roles[job[s].name] = job[s].role
          BY <1>d, <4>3 DEF Prepared, Boot
        <5>2. job[s].role # roles[n]
          BY <1>0, <3>4, <4>1, <5>1 DEF Injective, RoleId
        <5>3. job[s].pc \in {"admin", "assign", "invite", "answer"} =>
                 {job[s].role} \X Management \subseteq grants'
          BY <1>d, <5>2 DEF Boot
        <5>4. job[s].pc \in {"invite", "answer"} =>
                 <<job[s].email, job[s].role>> \in userRoles'
          BY <1>d, <5>2 DEF Boot
        <5>5. job[s].pc = "admin" => job[s].email \notin users
          BY <1>d DEF Boot
        <5>6. job[s].pc = "grants" => job[s].email \notin users
          BY <1>d DEF Boot
        <5> QED
          BY <1>d, <2>1, <4>1, <4>3, <5>1, <5>3, <5>4, <5>5, <5>6 DEF Boot
      <4> QED
        BY <4>2, <4>3
    <3> QED
      BY <3>2, <3>3, <3>4
  <2> QED
    BY <2>1, <2>3, <2>4 DEF BootInv
<1>3. CASE TakeGrant
  <2> PICK g \in grants : grants' = grants \ {g} /\ Beside(LAMBDA j : j.role = g[1])
    BY <1>3 DEF TakeGrant
  <2>1. UNCHANGED <<users, roles, userRoles>>
    BY <1>3 DEF TakeGrant
  <2>2. ASSUME NEW s \in Slot PROVE Boot(job'[s], users, roles, grants', userRoles)
    <3>1. job[s].role = g[1] => job'[s].cause
      <4> DEFINE b == job[s].role = g[1]
      <4>1. job'[s] = Tell(job[s], b) /\ b \in BOOLEAN
        BY <1>0 DEF Beside, Tell
      <4> HIDE DEF b
      <4>2. b => job'[s].cause
        BY <1>d, <4>1, Mark
      <4> QED
        BY <4>2 DEF b
    <3>2. CASE job[s].role = g[1]
      BY <3>1, <3>2 DEF Boot
    <3>3. CASE job[s].role # g[1]
      <4>1. {job[s].role} \X Management \subseteq grants =>
               {job[s].role} \X Management \subseteq grants'
        BY <3>3
      <4> QED
        BY <1>d, <4>1 DEF Boot
    <3> QED
      BY <3>2, <3>3
  <2> QED
    BY <2>1, <2>2 DEF BootInv, Injective
<1>4. CASE Register
  <2> PICK e \in Email : users' = users \cup {e} /\ Beside(LAMBDA j : j.email = e)
    BY <1>4 DEF Register
  <2>1. UNCHANGED <<roles, grants, userRoles>>
    BY <1>4 DEF Register
  <2>2. ASSUME NEW s \in Slot PROVE Boot(job'[s], users', roles, grants, userRoles)
    <3>1. job[s].email = e => job'[s].cause
      <4> DEFINE b == job[s].email = e
      <4>1. job'[s] = Tell(job[s], b) /\ b \in BOOLEAN
        BY <1>0 DEF Beside, Tell
      <4> HIDE DEF b
      <4>2. b => job'[s].cause
        BY <1>d, <4>1, Mark
      <4> QED
        BY <4>2 DEF b
    <3> QED
      BY <1>d, <3>1 DEF Boot
  <2> QED
    BY <2>1, <2>2 DEF BootInv, Injective
<1>5. CASE TakeRole
  <2> PICK a \in userRoles :
        userRoles' = userRoles \ {a} /\ Beside(LAMBDA j : j.email = a[1])
    BY <1>5 DEF TakeRole
  <2>1. UNCHANGED <<users, roles, grants>>
    BY <1>5 DEF TakeRole
  <2>2. ASSUME NEW s \in Slot PROVE Boot(job'[s], users, roles, grants, userRoles')
    <3>1. job[s].email = a[1] => job'[s].cause
      <4> DEFINE b == job[s].email = a[1]
      <4>1. job'[s] = Tell(job[s], b) /\ b \in BOOLEAN
        BY <1>0 DEF Beside, Tell
      <4> HIDE DEF b
      <4>2. b => job'[s].cause
        BY <1>d, <4>1, Mark
      <4> QED
        BY <4>2 DEF b
    <3>2. CASE job[s].email = a[1]
      BY <3>1, <3>2 DEF Boot
    <3>3. CASE job[s].email # a[1]
      <4>1. <<job[s].email, job[s].role>> # a
        BY <3>3
      <4>2. <<job[s].email, job[s].role>> \in userRoles =>
               <<job[s].email, job[s].role>> \in userRoles'
        BY <4>1
      <4> QED
        BY <1>d, <4>2 DEF Boot
    <3> QED
      BY <3>2, <3>3
  <2> QED
    BY <2>1, <2>2 DEF BootInv, Injective
<1> QED
  BY <1>1, <1>2, <1>3, <1>4, <1>5

LEMMA BootNext == TypeInv /\ BootInv /\ [Next]_vars => BootInv'
<1> SUFFICES ASSUME TypeInv, BootInv, [Next]_vars PROVE BootInv'
  OBVIOUS
<1>1. CASE UNCHANGED vars
  BY <1>1 DEF BootInv, Injective, vars, silo
<1>2. CASE UpdateClient \/ DeleteRole \/ TakeGrant \/ TakeRole \/ Register
  BY <1>2, BootWorld
<1>3. CASE \E r \in Slot :
              \/ CreateClient(r) \/ RotateSecret(r) \/ TellSecret(r) \/ WriteSecret(r)
              \/ Call(r) \/ CheckCredentials(r) \/ Bootstrap(r) \/ FindEmail(r)
              \/ InsertPermissions(r) \/ FindRole(r) \/ Invite(r)
              \/ AnswerBootstrap(r) \/ Cut(r)
  BY <1>3, BootRead
<1>4. CASE \E r \in Slot : InsertRole(r) \/ GrantPermissions(r) \/ InsertAdmin(r)
                           \/ AssignRole(r)
  BY <1>4, BootWrite
<1> QED
  BY <1>1, <1>2, <1>3, <1>4 DEF Next

\* Nobody is invited, and no bootstrap answers, before the admin is there, holds
\* the role and the role grants all the management permissions, however many
\* bootstraps race, are cut off and run again beside everything else.
THEOREM AdminInPlaceHolds == Spec => []AdminInPlace
<1>1. TypeInv /\ BootInv => AdminInPlace
  BY DEF BootInv, Boot, AdminInPlace
<1> QED
  BY <1>1, TypeInit, BootInit, TypeNext, BootNext, PTL DEF Spec

Fails(r) == job'[r].pc = "failed" /\ job[r].pc # "failed"

\* Where a bootstrap fails, what it relied on does not hold.
LEMMA FailingStep ==
    ASSUME TypeInv, BootInv, NEW r \in Slot, Fails(r),
           \/ FindEmail(r) \/ InsertRole(r) \/ GrantPermissions(r)
           \/ InsertAdmin(r) \/ AssignRole(r)
    PROVE  job[r].cause
<1>0. /\ job \in [Slot -> Job] /\ job[r] \in Job /\ Prepared(job[r])
      /\ Boot(job[r], users, roles, grants, userRoles)
  BY DEF TypeInv, TypeOK, BootInv
<1>a. ASSUME NEW step, step # "failed", Goto(r, step) PROVE FALSE
  BY <1>0, <1>a DEF Goto, Fails, Job
<1>b. ASSUME job[r].pc \in {"grants", "assign"}, ~RoleExists(job[r].role)
      PROVE  job[r].cause
  <2>1. job[r].name \in Name
    BY <1>0, <1>b DEF Prepared, BootstrapSteps
  <2> QED
    BY <1>0, <1>b, <2>1 DEF Boot, RoleExists
<1>1. CASE FindEmail(r)
  <2>1. CASE job[r].email \in users
    BY <1>0, <1>1, <2>1 DEF FindEmail, At, Boot
  <2>2. CASE job[r].email \notin users
    BY <1>1, <2>2, <1>a DEF FindEmail
  <2> QED
    BY <2>1, <2>2
<1>2. CASE InsertRole(r)
  <2>1. CASE roles[job[r].name] # 0
    BY <1>0, <1>2, <2>1 DEF InsertRole, At, Boot
  <2>2. CASE roles[job[r].name] = 0
    <3>1. job'[r] = Moved(job[r], "grants", created')
      BY <1>0, <1>2, <2>2 DEF InsertRole, GotoBeside, Moved
    <3> QED
      BY <1>0, <3>1 DEF Fails, Moved, Job
  <2> QED
    BY <2>1, <2>2
<1>3. CASE GrantPermissions(r)
  <2>1. CASE ~RoleExists(job[r].role)
    BY <1>3, <1>b, <2>1 DEF GrantPermissions, At
  <2>2. CASE RoleExists(job[r].role)
    BY <1>3, <2>2, <1>a DEF GrantPermissions
  <2> QED
    BY <2>1, <2>2
<1>4. CASE InsertAdmin(r)
  <2>1. CASE job[r].email \in users
    BY <1>0, <1>4, <2>1 DEF InsertAdmin, At, Boot
  <2>2. CASE job[r].email \notin users
    <3>1. job'[r] = Moved(job[r], "assign", job[r].role)
      BY <1>0, <1>4, <2>2 DEF InsertAdmin, GotoBeside, Moved
    <3> QED
      BY <1>0, <3>1 DEF Fails, Moved, Job
  <2> QED
    BY <2>1, <2>2
<1>5. CASE AssignRole(r)
  <2>1. CASE ~RoleExists(job[r].role)
    BY <1>5, <1>b, <2>1 DEF AssignRole, At
  <2>2. CASE RoleExists(job[r].role)
    BY <1>5, <2>2, <1>a DEF AssignRole
  <2> QED
    BY <2>1, <2>2
<1> QED
  BY <1>1, <1>2, <1>3, <1>4, <1>5

\* No other step fails.
LEMMA OtherSteps ==
    ASSUME TypeInv, NEW r \in Slot,
           \/ CreateClient(r) \/ RotateSecret(r) \/ TellSecret(r) \/ WriteSecret(r)
           \/ Call(r) \/ CheckCredentials(r) \/ Bootstrap(r)
           \/ InsertPermissions(r) \/ FindRole(r) \/ Invite(r)
           \/ AnswerBootstrap(r) \/ Cut(r)
    PROVE  ~Fails(r)
<1>0. job \in [Slot -> Job] /\ job[r] \in Job
  BY DEF TypeInv, TypeOK
<1>a. ASSUME NEW step, step # "failed", Goto(r, step) \/ End(r, step) PROVE ~Fails(r)
  BY <1>0, <1>a DEF Goto, End, NoJob, Fails, Job
<1>1. CASE CreateClient(r) \/ RotateSecret(r)
  BY <1>0, <1>1 DEF CreateClient, RotateSecret, NoJob, Fails
<1>2. CASE TellSecret(r) \/ AnswerBootstrap(r) \/ Cut(r)
  BY <1>2, <1>a DEF TellSecret, AnswerBootstrap, Cut
<1>3. CASE CheckCredentials(r)
  BY <1>3, <1>a DEF CheckCredentials
<1>4. CASE WriteSecret(r)
  <2>1. job'[r] = Moved(job[r], "tell", 0)
    BY <1>0, <1>4 DEF WriteSecret, GotoBeside, Moved
  <2> QED
    BY <1>0, <2>1 DEF Fails, Moved, Job
<1>5. CASE Call(r)
  BY <1>0, <1>5 DEF Call, NoJob, Fails
<1>6. CASE Bootstrap(r)
  BY <1>0, <1>6 DEF Bootstrap, NoJob, Fails
<1>7. CASE InsertPermissions(r) \/ Invite(r)
  BY <1>7, <1>a DEF InsertPermissions, Invite
<1>8. CASE FindRole(r)
  BY <1>0, <1>8 DEF FindRole, Fails, Job
<1> QED
  BY <1>1, <1>2, <1>3, <1>4, <1>5, <1>6, <1>7, <1>8

\* A bootstrap fails only for what lay or happened beside it: of what an earlier
\* one that was cut off left behind, nothing but its own email, which counts as
\* taken, makes it fail.
THEOREM FailsForCauseHolds == Spec => FailsForCause
<1>1. TypeInv /\ BootInv /\ [Next]_vars =>
         [\A r \in Slot : Fails(r) => job[r].cause]_vars
  <2> SUFFICES ASSUME TypeInv, BootInv, Next, NEW r \in Slot, Fails(r)
               PROVE  job[r].cause
    BY DEF Fails
  <2>0. job[r] \in Job
    BY DEF TypeInv, TypeOK
  <2>a. ~Told(job[r], job'[r])
    BY <2>0, ToldFields DEF Fails
  <2>1. CASE UpdateClient \/ DeleteRole \/ TakeGrant \/ TakeRole \/ Register
    BY <2>1, <2>a, WorldType
  <2>2. CASE \E s \in Slot :
                \/ CreateClient(s) \/ RotateSecret(s) \/ TellSecret(s) \/ WriteSecret(s)
                \/ Call(s) \/ CheckCredentials(s) \/ Bootstrap(s)
                \/ InsertPermissions(s) \/ FindRole(s) \/ Invite(s)
                \/ AnswerBootstrap(s) \/ Cut(s)
    <3>1. PICK s \in Slot :
                \/ CreateClient(s) \/ RotateSecret(s) \/ TellSecret(s) \/ WriteSecret(s)
                \/ Call(s) \/ CheckCredentials(s) \/ Bootstrap(s)
                \/ InsertPermissions(s) \/ FindRole(s) \/ Invite(s)
                \/ AnswerBootstrap(s) \/ Cut(s)
      BY <2>2
    <3>2. r # s => Told(job[r], job'[r])
      BY <3>1, OthersSame, OthersTold DEF Told
    <3> QED
      BY <2>a, <3>1, <3>2, OtherSteps
  <2>3. CASE \E s \in Slot : FindEmail(s) \/ InsertRole(s) \/ GrantPermissions(s)
                             \/ InsertAdmin(s) \/ AssignRole(s)
    <3>1. PICK s \in Slot : FindEmail(s) \/ InsertRole(s) \/ GrantPermissions(s)
                            \/ InsertAdmin(s) \/ AssignRole(s)
      BY <2>3
    <3>2. r # s => Told(job[r], job'[r])
      BY <3>1, OthersSame, OthersTold DEF Told
    <3> QED
      BY <2>a, <3>1, <3>2, FailingStep
  <2> QED
    BY <2>1, <2>2, <2>3 DEF Next
<1>2. [][\A r \in Slot : Fails(r) => job[r].cause]_vars => FailsForCause
  BY DEF FailsForCause, Fails
<1> QED
  BY <1>1, <1>2, TypeInit, BootInit, TypeNext, BootNext, PTL DEF Spec

-----------------------------------------------------------------------------
(* Secrets                                                                 *)

\* A secret that a rotation has generated is not used anywhere before it is
\* written; the one it found is not the client's once it has written, and its
\* own is until another one writes; a call that begins with a dead secret holds
\* a dead one.  c, g and D are the client's secret, how many there are and which
\* are dead.
Holds(j, c, g, D) ==
    /\ j.pc = "rotate" => j.secret \notin D \cup {c, j.old} /\ j.secret <= g
    /\ j.pc \in {"rotate", "tell"} => j.old <= g
    /\ j.pc = "tell" => c # 0 /\ j.old # c /\ (~j.cause => c = j.secret)
    /\ j.pc = "credentials" /\ ~j.cause => j.secret \in D

\* Two rotations have generated different secrets, and neither has found the
\* other's.
Apart(j, k) ==
    j.pc = "rotate" /\ k.pc \in {"rotate", "tell"} =>
        /\ k.pc = "rotate" => j.secret # k.secret
        /\ j.secret # k.old

SecretInv ==
    /\ client.secret <= generated /\ client.secret \notin dead
    /\ \A s \in dead : s <= generated
    /\ \A r \in Slot : Holds(job[r], client.secret, generated, dead)
    /\ \A r, s \in Slot : r # s => Apart(job[r], job[s])

LEMMA HoldsTold ==
    ASSUME NEW j \in Job, NEW k, Told(j, k), NEW c, NEW g, NEW D, Holds(j, c, g, D)
    PROVE  Holds(k, c, g, D)
  BY ToldFields DEF Holds

LEMMA ApartTold ==
    ASSUME NEW i \in Job, NEW j \in Job, NEW k, Told(j, k), Apart(i, j), Apart(j, i)
    PROVE  Apart(i, k) /\ Apart(k, i)
  BY ToldFields DEF Apart

\* The steps of a request are judged by what it holds after them.
LEMMA SecretStep ==
    ASSUME TypeInv, SecretInv, NEW r \in Slot, job'[r] \in Job,
           \A s \in Slot \ {r} : Told(job[s], job'[s]),
           client'.secret <= generated' /\ client'.secret \notin dead',
           \A s \in dead' : s <= generated',
           Holds(job'[r], client'.secret, generated', dead'),
           \A s \in Slot \ {r} : /\ \/ Holds(job[s], client'.secret, generated', dead')
                                    \/ Holds(job'[s], client'.secret, generated', dead')
                                 /\ Apart(job[s], job'[r]) /\ Apart(job'[r], job[s])
    PROVE  SecretInv'
<1>0. \A s \in Slot : job[s] \in Job
  BY DEF TypeInv, TypeOK
<1>1. ASSUME NEW s \in Slot PROVE Holds(job'[s], client'.secret, generated', dead')
  <2>1. CASE s = r
    BY <2>1
  <2>2. CASE s # r
    BY <1>0, <2>2, HoldsTold
  <2> QED
    BY <2>1, <2>2
<1>2. ASSUME NEW s \in Slot, NEW q \in Slot, s # q PROVE Apart(job'[s], job'[q])
  <2>1. CASE q = r
    BY <1>0, <1>2, <2>1, ApartTold
  <2>2. CASE s = r
    BY <1>0, <1>2, <2>2, ApartTold
  <2>3. CASE s # r /\ q # r
    <3>1. Apart(job[s], job[q]) /\ Apart(job[q], job[s])
      BY <1>2 DEF SecretInv
    <3>2. /\ job[s] \in Job /\ job[q] \in Job
          /\ Told(job[s], job'[s]) /\ Told(job[q], job'[q])
      BY <1>0, <2>3
    <3>3. Apart(job[s], job'[q]) /\ Apart(job'[q], job[s])
      BY <3>1, <3>2, ApartTold
    <3>4. job'[q] \in Job
      BY <3>2, ToldFields
    <3> QED
      BY <3>2, <3>3, <3>4, ApartTold
  <2> QED
    BY <2>1, <2>2, <2>3
<1> QED
  BY <1>1, <1>2 DEF SecretInv

\* A request that neither rotates nor tells holds no secret to itself.
LEMMA ApartRest ==
    ASSUME NEW j, NEW k, k.pc \notin {"rotate", "tell"}
    PROVE  Apart(j, k) /\ Apart(k, j)
  BY DEF Apart

LEMMA SecretInit == Init => SecretInv
  BY ApartRest DEF Init, SecretInv, Holds, NoJob

\* The requests about the client's own row.
LEMMA SecretRegistry ==
    ASSUME TypeInv, SecretInv, TypeInv', NEW r \in Slot,
           CreateClient(r) \/ RotateSecret(r) \/ WriteSecret(r) \/ TellSecret(r)
    PROVE  SecretInv'
<1> DEFINE c == client.secret
           g == generated
<1>0. /\ job \in [Slot -> Job] /\ TypeOK /\ Counted
      /\ job[r] \in Job /\ Prepared(job[r]) /\ job'[r] \in Job
      /\ Holds(job[r], c, g, dead)
  BY DEF TypeInv, TypeOK, SecretInv
<1>a. c \in Nat /\ g \in Nat /\ c <= g /\ dead \subseteq Nat /\ \A s \in dead : s <= g
  BY <1>0 DEF TypeOK, Secret, SecretInv
<1>b. \A s \in Slot \ {r} : Told(job[s], job'[s])
  BY OthersSame, OthersTold DEF Told
<1>d. ASSUME NEW s \in Slot \ {r}
      PROVE  /\ job[s].secret \in Nat /\ job[s].old \in Nat
             /\ job[s].pc \in {"rotate", "tell"} => job[s].secret # 0
             /\ Holds(job[s], c, g, dead)
             /\ Apart(job[s], job[r]) /\ Apart(job[r], job[s])
  <2>1. job[s] \in Job /\ Prepared(job[s])
    BY DEF TypeInv, TypeOK
  <2> QED
    BY <2>1 DEF Job, Secret, Prepared, SecretInv
<1>1. CASE CreateClient(r)
  <2>1. c = 0 /\ g = 0 /\ generated' = 1 /\ dead' = dead /\ client'.secret = 1
    BY <1>0, <1>1 DEF CreateClient, Registered, Counted
  <2>2. dead = {}
    BY <1>0, <1>a, <2>1 DEF TypeOK, Secret
  <2>3. job'[r].pc = "tell" /\ job'[r].old = 0 /\ job'[r].secret = 1
    BY <1>0, <1>1, <2>1 DEF CreateClient, NoJob
  <2>4. Holds(job'[r], 1, 1, {})
    BY <2>3 DEF Holds
  <2>5. ASSUME NEW s \in Slot \ {r}
        PROVE  /\ Holds(job[s], 1, 1, {})
               /\ Apart(job[s], job'[r]) /\ Apart(job'[r], job[s])
    <3>1. job[s].pc \notin {"rotate", "tell"}
      BY <1>d, <2>1 DEF Holds
    <3> QED
      BY <1>d, <2>2, <3>1, ApartRest DEF Holds
  <2> QED
    BY <1>0, <1>b, <2>1, <2>2, <2>4, <2>5, SecretStep
<1>2. CASE RotateSecret(r)
  <2>1. c # 0 /\ generated' = g + 1 /\ dead' = dead /\ client' = client
    BY <1>2 DEF RotateSecret, Registered
  <2>2. job'[r].pc = "rotate" /\ job'[r].old = c /\ job'[r].secret = g + 1
    BY <1>0, <1>2 DEF RotateSecret, NoJob
  <2>3. Holds(job'[r], c, g + 1, dead)
    BY <1>a, <2>2 DEF Holds
  <2>4. ASSUME NEW s \in Slot \ {r}
        PROVE  /\ Holds(job[s], c, g + 1, dead)
               /\ Apart(job[s], job'[r]) /\ Apart(job'[r], job[s])
    <3>1. Holds(job[s], c, g + 1, dead)
      BY <1>a, <1>d DEF Holds
    <3>2. job[s].pc = "rotate" => job[s].secret # g + 1 /\ job[s].secret # c
      BY <1>a, <1>d DEF Holds
    <3>3. job[s].pc \in {"rotate", "tell"} => job[s].old # g + 1
      BY <1>a, <1>d DEF Holds
    <3> QED
      BY <2>2, <3>1, <3>2, <3>3 DEF Apart
  <2>5. c <= g + 1 /\ c \notin dead /\ \A s \in dead : s <= g + 1
    BY <1>a DEF SecretInv
  <2> QED
    BY <1>0, <1>b, <2>1, <2>3, <2>4, <2>5, SecretStep
<1>3. CASE WriteSecret(r)
  <2> DEFINE n == job[r].secret
  <2>1. job[r].pc = "rotate" /\ client'.secret = n /\ UNCHANGED <<generated, dead>>
    BY <1>0, <1>3 DEF WriteSecret, At, TypeOK
  <2>2. job'[r].pc = "tell" /\ job'[r].old = job[r].old /\ job'[r].secret = n
    <3>1. job'[r] = Moved(job[r], "tell", 0)
      BY <1>0, <1>3 DEF WriteSecret, GotoBeside, Moved
    <3> QED
      BY <1>0, <3>1 DEF Moved, Job
  <2>3. n # 0 /\ n <= g /\ n \notin dead /\ n # job[r].old /\ job[r].old <= g
    BY <1>0, <2>1 DEF Holds, Prepared, Secret
  <2>4. Holds(job'[r], n, g, dead)
    BY <2>2, <2>3 DEF Holds
  <2>5. ASSUME NEW s \in Slot \ {r}
        PROVE  /\ Holds(job'[s], n, g, dead)
               /\ Apart(job[s], job'[r]) /\ Apart(job'[r], job[s])
    <3>1. Apart(job[s], job'[r]) /\ Apart(job'[r], job[s])
      BY <1>d, <2>1, <2>2 DEF Apart
    <3>2. job[s].pc = "rotate" => job[s].secret # n
      BY <1>d, <2>1 DEF Apart
    <3>3. job[s].pc = "tell" => job[s].old # n
      BY <1>d, <2>1 DEF Apart
    <3>4. job[s].pc = "tell" => job'[s].cause
      <4> DEFINE b == job[s].pc = "tell"
      <4>1. job'[s] = Tell(job[s], b) /\ b \in BOOLEAN /\ job[s] \in Job
        BY <1>0, <1>3 DEF WriteSecret, GotoBeside, Tell
      <4> HIDE DEF b
      <4>2. b => job'[s].cause
        BY <4>1, Mark
      <4> QED
        BY <4>2 DEF b
    <3>5. /\ job'[s].pc = job[s].pc /\ job'[s].secret = job[s].secret
          /\ job'[s].old = job[s].old /\ (job[s].cause => job'[s].cause)
      BY <1>0, <1>b, ToldFields
    <3> QED
      BY <1>d, <2>3, <3>1, <3>2, <3>3, <3>4, <3>5 DEF Holds
  <2> QED
    BY <1>0, <1>a, <1>b, <2>1, <2>3, <2>4, <2>5, SecretStep
<1>4. CASE TellSecret(r)
  <2> DEFINE o == job[r].old
  <2>1. /\ job[r].pc = "tell" /\ dead' = dead \cup ({o} \ {0})
        /\ UNCHANGED <<client, generated>> /\ job'[r].pc = "done"
    BY <1>0, <1>4 DEF TellSecret, At, End, NoJob
  <2>2. o # c /\ o <= g
    BY <1>0, <2>1 DEF Holds
  <2>3. Holds(job'[r], c, g, dead')
    BY <2>1 DEF Holds
  <2>4. ASSUME NEW s \in Slot \ {r}
        PROVE  /\ Holds(job[s], c, g, dead')
               /\ Apart(job[s], job'[r]) /\ Apart(job'[r], job[s])
    <3>1. job[s].pc = "rotate" => job[s].secret # o
      BY <1>d, <2>1 DEF Apart
    <3>2. Apart(job[s], job'[r]) /\ Apart(job'[r], job[s])
      BY <2>1, ApartRest
    <3> QED
      BY <1>d, <2>1, <3>1, <3>2 DEF Holds
  <2>5. c \notin dead' /\ \A s \in dead' : s <= g
    BY <1>a, <2>1, <2>2 DEF SecretInv
  <2> QED
    BY <1>0, <1>a, <1>b, <2>1, <2>3, <2>4, <2>5, SecretStep
<1> QED
  BY <1>1, <1>2, <1>3, <1>4

\* The other requests: only a call holds a secret.
LEMMA SecretOther ==
    ASSUME TypeInv, SecretInv, TypeInv', NEW r \in Slot,
           \/ Call(r) \/ CheckCredentials(r) \/ Bootstrap(r) \/ FindEmail(r)
           \/ InsertPermissions(r) \/ FindRole(r) \/ InsertRole(r)
           \/ GrantPermissions(r) \/ InsertAdmin(r) \/ AssignRole(r)
           \/ Invite(r) \/ AnswerBootstrap(r) \/ Cut(r)
    PROVE  SecretInv'
<1>0. /\ job \in [Slot -> Job] /\ job[r] \in Job /\ job'[r] \in Job
  BY DEF TypeInv, TypeOK
<1>a. UNCHANGED registry
  BY DEF Call, CheckCredentials, Bootstrap, FindEmail, InsertPermissions, FindRole,
         InsertRole, GrantPermissions, InsertAdmin, AssignRole, Invite,
         AnswerBootstrap, Cut
<1>b. \A s \in Slot \ {r} : Told(job[s], job'[s])
  BY OthersSame, OthersTold DEF Told
<1>c. ASSUME NEW outcome \in Rest \cup BootstrapSteps, job'[r].pc = outcome PROVE SecretInv'
  <2>1. job'[r].pc \notin {"rotate", "tell", "credentials"}
    BY <1>c DEF Rest, BootstrapSteps
  <2>2. Holds(job'[r], client.secret, generated, dead)
    BY <2>1 DEF Holds
  <2>3. \A s \in Slot \ {r} : /\ Holds(job[s], client.secret, generated, dead)
                              /\ Apart(job[s], job'[r]) /\ Apart(job'[r], job[s])
    BY <2>1, ApartRest DEF SecretInv
  <2> QED
    BY <1>0, <1>a, <1>b, <2>2, <2>3, SecretStep DEF SecretInv, registry
<1>d. ASSUME NEW step \in Rest \cup BootstrapSteps, Goto(r, step) PROVE SecretInv'
  <2>1. job'[r].pc = step
    BY <1>0, <1>d DEF Goto, Job
  <2> QED
    BY <2>1, <1>c
<1>e. ASSUME NEW outcome \in Rest, End(r, outcome) PROVE SecretInv'
  <2>1. job'[r].pc = outcome
    BY <1>0, <1>e DEF End, NoJob
  <2> QED
    BY <2>1, <1>c
<1> USE DEF Rest, BootstrapSteps
<1>1. CASE Call(r)
  <2>1. PICK q \in 1 .. generated :
          job'[r] = [NoJob EXCEPT !.pc = "credentials", !.secret = q,
                                  !.cause = q \notin dead]
    BY <1>0, <1>1 DEF Call
  <2>2. job'[r].pc = "credentials" /\ job'[r].secret = q /\ job'[r].cause = (q \notin dead)
    BY <2>1 DEF NoJob
  <2>3. Holds(job'[r], client.secret, generated, dead)
    BY <2>2 DEF Holds
  <2>4. \A s \in Slot \ {r} : /\ Holds(job[s], client.secret, generated, dead)
                              /\ Apart(job[s], job'[r]) /\ Apart(job'[r], job[s])
    BY <2>2, ApartRest DEF SecretInv
  <2> QED
    BY <1>0, <1>a, <1>b, <2>3, <2>4, SecretStep DEF SecretInv, registry
<1>2. CASE CheckCredentials(r) \/ AnswerBootstrap(r) \/ Cut(r)
  BY <1>2, <1>e DEF CheckCredentials, AnswerBootstrap, Cut
<1>3. CASE Bootstrap(r)
  <2>1. job'[r].pc = "email"
    BY <1>0, <1>3 DEF Bootstrap, NoJob
  <2> QED
    BY <2>1, <1>c
<1>4. CASE FindEmail(r) \/ InsertPermissions(r) \/ Invite(r)
  BY <1>4, <1>d, <1>e DEF FindEmail, InsertPermissions, Invite
<1>5. CASE FindRole(r)
  <2>1. job'[r].pc \in {"newRole", "grants"}
    BY <1>0, <1>5 DEF FindRole, Job
  <2> QED
    BY <2>1, <1>c
<1>6. CASE InsertRole(r)
  <2>1. CASE roles[job[r].name] = 0
    <3>1. job'[r] = Moved(job[r], "grants", created')
      BY <1>0, <1>6, <2>1 DEF InsertRole, GotoBeside, Moved
    <3>2. job'[r].pc = "grants"
      BY <1>0, <3>1 DEF Moved, Job
    <3> QED
      BY <3>2, <1>c
  <2>2. CASE roles[job[r].name] # 0
    BY <1>6, <2>2, <1>e DEF InsertRole
  <2> QED
    BY <2>1, <2>2
<1>7. CASE InsertAdmin(r)
  <2>1. CASE job[r].email \notin users
    <3>1. job'[r] = Moved(job[r], "assign", job[r].role)
      BY <1>0, <1>7, <2>1 DEF InsertAdmin, GotoBeside, Moved
    <3>2. job'[r].pc = "assign"
      BY <1>0, <3>1 DEF Moved, Job
    <3> QED
      BY <3>2, <1>c
  <2>2. CASE job[r].email \in users
    BY <1>7, <2>2, <1>e DEF InsertAdmin
  <2> QED
    BY <2>1, <2>2
<1>8. CASE GrantPermissions(r) \/ AssignRole(r)
  BY <1>8, <1>d, <1>e DEF GrantPermissions, AssignRole
<1> QED
  BY <1>1, <1>2, <1>3, <1>4, <1>5, <1>6, <1>7, <1>8

LEMMA SecretNext == TypeInv /\ SecretInv /\ [Next]_vars => SecretInv'
<1> SUFFICES ASSUME TypeInv, SecretInv, [Next]_vars PROVE SecretInv'
  OBVIOUS
<1>0. TypeInv'
  BY TypeNext
<1>1. CASE UNCHANGED vars
  BY <1>1 DEF SecretInv, vars, registry
<1>2. CASE UpdateClient \/ DeleteRole \/ TakeGrant \/ TakeRole \/ Register
  <2>1. \A s \in Slot : Told(job[s], job'[s])
    BY <1>2, WorldType
  <2>2. client'.secret = client.secret /\ UNCHANGED <<generated, dead>>
    BY <1>2 DEF TypeInv, TypeOK, UpdateClient, DeleteRole, TakeGrant, TakeRole, Register,
               registry
  <2>3. SecretInv' =
          /\ client.secret <= generated /\ client.secret \notin dead
          /\ \A s \in dead : s <= generated
          /\ \A r \in Slot : Holds(job'[r], client.secret, generated, dead)
          /\ \A r, s \in Slot : r # s => Apart(job'[r], job'[s])
    BY <2>2 DEF SecretInv
  <2>4. ASSUME NEW r \in Slot PROVE Holds(job'[r], client.secret, generated, dead)
    BY <2>1, HoldsTold DEF SecretInv, TypeInv, TypeOK
  <2>5. ASSUME NEW r \in Slot, NEW s \in Slot, r # s PROVE Apart(job'[r], job'[s])
    <3>1. /\ job[r] \in Job /\ job[s] \in Job
          /\ Told(job[r], job'[r]) /\ Told(job[s], job'[s])
          /\ Apart(job[r], job[s]) /\ Apart(job[s], job[r])
      BY <2>1, <2>5 DEF SecretInv, TypeInv, TypeOK
    <3>2. Apart(job[r], job'[s]) /\ Apart(job'[s], job[r]) /\ job'[s] \in Job
      BY <3>1, ApartTold, ToldFields
    <3> QED
      BY <3>1, <3>2, ApartTold
  <2> QED
    BY <2>3, <2>4, <2>5 DEF SecretInv
<1>3. CASE \E r \in Slot : CreateClient(r) \/ RotateSecret(r) \/ WriteSecret(r)
                           \/ TellSecret(r)
  BY <1>0, <1>3, SecretRegistry
<1>4. CASE \E r \in Slot :
              \/ Call(r) \/ CheckCredentials(r) \/ Bootstrap(r) \/ FindEmail(r)
              \/ InsertPermissions(r) \/ FindRole(r) \/ InsertRole(r)
              \/ GrantPermissions(r) \/ InsertAdmin(r) \/ AssignRole(r)
              \/ Invite(r) \/ AnswerBootstrap(r) \/ Cut(r)
  BY <1>0, <1>4, SecretOther
<1> QED
  BY <1>1, <1>2, <1>3, <1>4 DEF Next

Admitted(r) == At(r, "credentials") /\ job'[r].pc = "done"

\* Only the check itself admits a call.
LEMMA AdmittedStep ==
    ASSUME TypeInv, Next, NEW r \in Slot, Admitted(r)
    PROVE  CheckCredentials(r) /\ Admits(job[r].secret)
<1>0. job \in [Slot -> Job] /\ job[r] \in Job
  BY DEF TypeInv, TypeOK
<1>a. ~Told(job[r], job'[r])
  BY <1>0, ToldFields DEF Admitted, At
<1>1. ~(UpdateClient \/ DeleteRole \/ TakeGrant \/ TakeRole \/ Register)
  BY <1>a, WorldType
<1>2. PICK s \in Slot :
          \/ CreateClient(s) \/ RotateSecret(s) \/ WriteSecret(s) \/ TellSecret(s)
          \/ Call(s) \/ CheckCredentials(s)
          \/ Bootstrap(s) \/ FindEmail(s) \/ InsertPermissions(s) \/ FindRole(s)
          \/ InsertRole(s) \/ GrantPermissions(s) \/ InsertAdmin(s)
          \/ AssignRole(s) \/ Invite(s) \/ AnswerBootstrap(s)
          \/ Cut(s)
  BY <1>1 DEF Next
<1>3. s = r
  BY <1>a, <1>2, OthersSame, OthersTold DEF Told
<1>4. ~Free(r) /\ \A step \in Rest \cup Steps : At(r, step) => step = "credentials"
  BY DEF Admitted, At, Free, Rest
<1>5. ~ \/ CreateClient(r) \/ RotateSecret(r) \/ Call(r) \/ Bootstrap(r)
  BY <1>4 DEF CreateClient, RotateSecret, Call, Bootstrap
<1>6. ~ \/ WriteSecret(r) \/ TellSecret(r) \/ FindEmail(r) \/ InsertPermissions(r)
        \/ FindRole(r) \/ InsertRole(r) \/ GrantPermissions(r) \/ InsertAdmin(r)
        \/ AssignRole(r) \/ Invite(r) \/ AnswerBootstrap(r)
  BY DEF Admitted, At, WriteSecret, TellSecret, FindEmail, InsertPermissions, FindRole,
         InsertRole, GrantPermissions, InsertAdmin, AssignRole, Invite, AnswerBootstrap
<1>7. ~Cut(r)
  BY <1>0 DEF Cut, End, NoJob, Admitted
<1>8. CheckCredentials(r)
  BY <1>2, <1>3, <1>5, <1>6, <1>7
<1>9. Admits(job[r].secret)
  <2> SUFFICES ASSUME ~Admits(job[r].secret) PROVE FALSE
    OBVIOUS
  <2>1. End(r, "refused")
    BY <1>8 DEF CheckCredentials
  <2> QED
    BY <1>0, <2>1 DEF End, NoJob, Admitted
<1> QED
  BY <1>8, <1>9

\* Once a rotation has been answered, no call that begins with the secret it
\* found is admitted, although rotations overtake each other and write by id
\* alone.
THEOREM OldSecretsDieHolds == Spec => OldSecretsDie
<1>1. TypeInv /\ SecretInv /\ [Next]_vars =>
         [\A r \in Slot : Admitted(r) => job[r].cause]_vars
  <2> SUFFICES ASSUME TypeInv, SecretInv, Next, NEW r \in Slot, Admitted(r)
               PROVE  job[r].cause
    BY DEF Admitted
  <2>1. client.secret = job[r].secret /\ job[r].pc = "credentials"
    BY AdmittedStep DEF Admits, Admitted, At
  <2>2. client.secret \notin dead /\ Holds(job[r], client.secret, generated, dead)
    BY DEF SecretInv
  <2> QED
    BY <2>1, <2>2 DEF Holds
<1>2. [][\A r \in Slot : Admitted(r) => job[r].cause]_vars => OldSecretsDie
  BY DEF OldSecretsDie, Admitted
<1> QED
  BY <1>1, <1>2, TypeInit, SecretInit, TypeNext, SecretNext, PTL DEF Spec

\* The secret an operator is told is the client's, unless another rotation has
\* written since this one did.
THEOREM ToldSecretsWorkHolds == Spec => []ToldSecretsWork
<1>1. TypeInv /\ SecretInv => ToldSecretsWork
  BY DEF SecretInv, Holds, ToldSecretsWork, At
<1> QED
  BY <1>1, TypeInit, SecretInit, TypeNext, SecretNext, PTL DEF Spec
=============================================================================
