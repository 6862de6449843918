------------------------ MODULE Authorization_proofs ------------------------
(***************************************************************************)
(* Proofs about Authorization, for every set of clients, principals,       *)
(* roles, permissions, keys and slots.                                     *)
(***************************************************************************)
EXTENDS Authorization, SequenceTheorems, TLAPS

(* The position tells what else a slot holds.                              *)
LEMMA Shapes ==
    ASSUME NEW r \in Request
    PROVE  /\ r.pc \in {"attach", "delete", "insert"} => r \in RoleWrite
           /\ r.pc = "assign" => r \in Assignment
           /\ r.pc \in {"create", "defaults", "initial"} => r \in Creation
           /\ r.pc = "key" => r \in KeyCreation
           /\ r.pc \in {"client", "account", "scopes"} => r \in Check
  BY DEF Request, Idle, RoleWrite, Assignment, Creation, KeyCreation, Check

(* Moving on within a handler keeps what the slot holds.                   *)
LEMMA Moves ==
    ASSUME NEW r, NEW pc
    PROVE  /\ r \in RoleWrite /\ pc \in {"attach", "delete", "insert"}
                => [r EXCEPT !.pc = pc] \in RoleWrite
           /\ r \in Creation /\ pc \in {"create", "defaults", "initial"}
                => [r EXCEPT !.pc = pc] \in Creation
           /\ r \in Check /\ pc \in {"client", "account", "scopes"}
                => [r EXCEPT !.pc = pc] \in Check
  BY DEF RoleWrite, Creation, Check

LEMMA AnswerType ==
    ASSUME TypeOK, NEW p \in Slot, Answer(p)
    PROVE  req' \in [Slot -> Request]
  BY DEF TypeOK, Answer, Request

LEMMA StartType ==
    ASSUME TypeOK, NEW p \in Slot, NEW r \in Request, Start(p, r)
    PROVE  req' \in [Slot -> Request]
  BY DEF TypeOK, Start

LEMMA GotoType ==
    ASSUME TypeOK, NEW p \in Slot, NEW pc, Goto(p, pc),
           [req[p] EXCEPT !.pc = pc] \in Request
    PROVE  req' \in [Slot -> Request]
  BY DEF TypeOK, Goto

LEMMA HistoryType ==
    ASSUME TypeOK, Observe
    PROVE  /\ unseen' \in [Slot -> SUBSET Condition]
           /\ gap' \in [Slot -> BOOLEAN]
<1>1. unseen' \in [Slot -> SUBSET Condition]
  BY DEF TypeOK, Observe
<1>2. gap' \in [Slot -> BOOLEAN]
  <2>1. \A p \in Slot :
           (Checking(p)' /\ ((Checking(p) /\ gap[p]) \/ Met(p)' # Condition))
              \in BOOLEAN
    OBVIOUS
  <2> QED
    BY <2>1, Zenon DEF Observe
<1> QED
  BY <1>1, <1>2

-----------------------------------------------------------------------------
(* Type correctness *)

(* What the histories record apart.                                        *)
RowsOK ==
    /\ role \in [Role -> {"none", "on", "gone"}]
    /\ grants \in [Role -> SUBSET Permission]
    /\ presence \in [Principal -> {"none", "on", "off"}]
    /\ held \in [Principal -> SUBSET Role]
    /\ key \in [Key -> {NoKey} \cup Credential]
    /\ clientOn \in [Client -> BOOLEAN]

LEMMA RowsType == TypeOK => RowsOK
  BY DEF TypeOK, RowsOK

LEMMA TypeStep ==
    ASSUME TypeOK, RowsOK', req' \in [Slot -> Request], Observe
    PROVE  TypeOK'
<1>1. /\ unseen' \in [Slot -> SUBSET Condition]
      /\ gap' \in [Slot -> BOOLEAN]
  BY HistoryType
<1> QED
  BY <1>1 DEF TypeOK, RowsOK

LEMMA RowsKept == ASSUME RowsOK, UNCHANGED rows PROVE RowsOK'
  BY DEF RowsOK, rows

LEMMA TypeInit == Init => TypeOK
  BY DEF Init, TypeOK, Request

(* What the steps of the role handlers write.                              *)
LEMMA WriteType ==
    ASSUME NEW pc \in {"attach", "delete", "insert"}, NEW r \in Role,
           NEW P \in SUBSET Permission, NEW twice \in BOOLEAN
    PROVE  WriteOf(pc, r, P, twice) \in Request
<1>1. (twice /\ P # {}) \in BOOLEAN
  OBVIOUS
<1> DEFINE t == twice /\ P # {}
<1>2. t \in BOOLEAN
  BY <1>1
<1> HIDE DEF t
<1>3. [pc |-> pc, role |-> r, perms |-> P, twice |-> t] \in RoleWrite
  BY <1>2 DEF RoleWrite
<1> QED
  BY <1>3 DEF WriteOf, t, Request

LEMMA CreateRoleType ==
    ASSUME TypeOK, NEW p \in Slot, NEW c \in Client, NEW r \in Role,
           NEW P \in SUBSET Permission, NEW twice \in BOOLEAN,
           CreateRole(p, c, r, P, twice)
    PROVE  TypeOK'
<1>1. RowsOK'
  BY DEF CreateRole, TypeOK, RowsOK
<1>2. req' \in [Slot -> Request]
  <2>1. CASE P = {}
    BY <2>1 DEF CreateRole, TypeOK
  <2>2. CASE P # {}
    BY <2>2, WriteType, StartType DEF CreateRole
  <2> QED
    BY <2>1, <2>2
<1> QED
  BY <1>1, <1>2, TypeStep DEF CreateRole

LEMMA ReplaceBeginType ==
    ASSUME TypeOK, NEW p \in Slot, NEW c \in Client, NEW r \in Role,
           NEW P \in SUBSET Permission, NEW twice \in BOOLEAN,
           ReplaceBegin(p, c, r, P, twice)
    PROVE  TypeOK'
<1>1. WriteOf("delete", r, P, twice) \in Request
  BY WriteType
<1>2. req' \in [Slot -> Request]
  BY <1>1, StartType DEF ReplaceBegin
<1> QED
  BY <1>2, RowsType, RowsKept, TypeStep DEF ReplaceBegin

LEMMA DeleteRoleType ==
    ASSUME TypeOK, NEW c \in Client, NEW r \in Role,
           DeleteRole(c, r)
    PROVE  TypeOK'
<1>1. RowsOK'
  BY DEF DeleteRole, TypeOK, RowsOK
<1> QED
  BY <1>1, TypeStep DEF DeleteRole, TypeOK

LEMMA GrantTypes ==
    ASSUME TypeOK, NEW p \in Slot
    PROVE  /\ Attach(p) => TypeOK'
           /\ InsertGrants(p) => TypeOK'
           /\ DeleteGrants(p) => TypeOK'
<1> USE RowsType
<1>1. req[p] \in Request
  BY DEF TypeOK
<1>2. ASSUME NEW pc \in {"attach", "insert"}, Add(p, pc) PROVE TypeOK'
  <2>1. req[p] \in RoleWrite
    BY <1>1, <1>2, Shapes DEF Add
  <2>2. grants' \in [Role -> SUBSET Permission]
    BY <1>2, <2>1 DEF Add, TypeOK, RoleWrite
  <2>3. RowsOK'
    BY <1>2, <2>2 DEF Add, RowsOK
  <2> QED
    BY <1>2, <2>3, AnswerType, TypeStep DEF Add
<1>3. ASSUME DeleteGrants(p) PROVE TypeOK'
  <2>1. req[p] \in RoleWrite
    BY <1>1, <1>3, Shapes DEF DeleteGrants
  <2>2. RowsOK'
    BY <1>3, <2>1 DEF DeleteGrants, RowsOK, RoleWrite
  <2>3. [req[p] EXCEPT !.pc = "insert"] \in Request
    BY <2>1, Moves DEF Request
  <2>4. req' \in [Slot -> Request]
    BY <1>3, <2>3, AnswerType, GotoType DEF DeleteGrants
  <2> QED
    BY <1>3, <2>2, <2>4, TypeStep DEF DeleteGrants
<1> QED
  BY <1>2, <1>3 DEF Attach, InsertGrants

LEMMA AssignBeginType ==
    ASSUME TypeOK, NEW p \in Slot, NEW c \in Client, NEW x \in Principal,
           NEW r \in Role,
           AssignBegin(p, c, x, r)
    PROVE  TypeOK'
<1> USE RowsType
<1>1. [pc |-> "assign", who |-> x, role |-> r] \in Request
  BY DEF Request, Assignment
<1>2. req' \in [Slot -> Request]
  BY <1>1, StartType DEF AssignBegin
<1> QED
  BY <1>2, RowsKept, TypeStep DEF AssignBegin

LEMMA AssignType ==
    ASSUME TypeOK, NEW p \in Slot,
           Assign(p)
    PROVE  TypeOK'
<1> USE RowsType
<1>1. req[p] \in Assignment
  BY Shapes DEF Assign, TypeOK
<1>2. held' \in [Principal -> SUBSET Role]
  BY <1>1 DEF Assign, TypeOK, Assignment
<1>3. RowsOK'
  BY <1>2 DEF Assign, RowsOK
<1> QED
  BY <1>3, AnswerType, TypeStep DEF Assign

LEMMA UnassignType ==
    ASSUME TypeOK, NEW c \in Client, NEW x \in Principal, NEW r \in Role,
           Unassign(c, x, r)
    PROVE  TypeOK'
<1> USE RowsType
<1>1. RowsOK'
  BY DEF Unassign, RowsOK
<1> QED
  BY <1>1, TypeStep DEF Unassign, TypeOK

LEMMA CreateBeginType ==
    ASSUME TypeOK, NEW p \in Slot, NEW c \in Client, NEW x \in Principal,
           NEW R \in SUBSET Role, NEW twice \in BOOLEAN,
           CreateBegin(p, c, x, R, twice)
    PROVE  TypeOK'
<1> USE RowsType
<1> DEFINE t == twice /\ R # {}
<1>1. t \in BOOLEAN
  OBVIOUS
<1> HIDE DEF t
<1>2. [pc |-> "create", who |-> x, roles |-> R, twice |-> t] \in Request
  BY <1>1 DEF Request, Creation
<1>3. Start(p, [pc |-> "create", who |-> x, roles |-> R, twice |-> t])
  BY DEF CreateBegin, t
<1>4. req' \in [Slot -> Request]
  BY <1>2, <1>3, StartType
<1> QED
  BY <1>4, RowsKept, TypeStep DEF CreateBegin

LEMMA InsertRegisteredType ==
    ASSUME TypeOK, NEW p \in Slot, NEW x \in User,
           InsertRegistered(p, x)
    PROVE  TypeOK'
<1> USE RowsType
<1>1. [pc |-> "defaults", who |-> x, roles |-> {}, twice |-> FALSE]
         \in Request
  BY DEF Request, Creation, Principal
<1>2. req' \in [Slot -> Request]
  BY <1>1, StartType DEF InsertRegistered
<1>3. RowsOK'
  BY DEF InsertRegistered, RowsOK
<1> QED
  BY <1>2, <1>3, TypeStep DEF InsertRegistered

LEMMA InitialTypes ==
    ASSUME TypeOK, NEW p \in Slot
    PROVE  /\ InsertPrincipal(p) => TypeOK'
           /\ SelectDefaults(p) => TypeOK'
           /\ AssignInitial(p) => TypeOK'
<1> USE RowsType
<1>0. /\ req[p] \in Request
      /\ req[p].pc \in {"create", "defaults", "initial"} => req[p] \in Creation
  BY Shapes DEF TypeOK
<1>1. ASSUME InsertPrincipal(p) PROVE TypeOK'
  <2>1. req[p] \in Creation
    BY <1>0, <1>1 DEF InsertPrincipal
  <2>2. [req[p] EXCEPT !.pc = "initial"] \in Request
    BY <2>1, Moves DEF Request
  <2>3. req' \in [Slot -> Request]
    BY <1>1, <2>2, AnswerType, GotoType DEF InsertPrincipal
  <2>4. RowsOK'
    BY <1>1, <2>1 DEF InsertPrincipal, RowsOK, Creation
  <2> QED
    BY <1>1, <2>3, <2>4, TypeStep DEF InsertPrincipal
<1>2. ASSUME SelectDefaults(p) PROVE TypeOK'
  <2>1. req[p] \in Creation
    BY <1>0, <1>2 DEF SelectDefaults
  <2> DEFINE found == {d \in Default : OwnRole(d, ClientOf[req[p].who])}
  <2>2. found \in SUBSET Role
    BY IdAssumption
  <2> HIDE DEF found
  <2>3. \/ Answer(p)
        \/ req' = [req EXCEPT ![p].pc = "initial", ![p].roles = found]
    BY <1>2 DEF SelectDefaults, found
  <2>4. CASE Answer(p)
    BY <1>2, <2>4, AnswerType, RowsKept, TypeStep DEF SelectDefaults
  <2>5. CASE req' = [req EXCEPT ![p].pc = "initial", ![p].roles = found]
    <3>1. [req[p] EXCEPT !.pc = "initial", !.roles = found] \in Request
      BY <2>1, <2>2 DEF Request, Creation
    <3>2. req' \in [Slot -> Request]
      BY <2>5, <3>1 DEF TypeOK
    <3> QED
      BY <1>2, <3>2, RowsKept, TypeStep DEF SelectDefaults
  <2> QED
    BY <2>3, <2>4, <2>5
<1>3. ASSUME AssignInitial(p) PROVE TypeOK'
  <2>1. req[p] \in Creation
    BY <1>0, <1>3 DEF AssignInitial
  <2>2. held' \in [Principal -> SUBSET Role]
    BY <1>3, <2>1 DEF AssignInitial, TypeOK, Creation
  <2>3. RowsOK'
    BY <1>3, <2>2 DEF AssignInitial, RowsOK
  <2> QED
    BY <1>3, <2>3, AnswerType, TypeStep DEF AssignInitial
<1> QED
  BY <1>1, <1>2, <1>3

LEMMA SetAccountType ==
    ASSUME TypeOK, NEW c \in Client, NEW a \in Account, NEW b \in BOOLEAN,
           SetAccount(c, a, b)
    PROVE  TypeOK'
<1> USE RowsType
<1>1. RowsOK'
  BY DEF SetAccount, Switched, RowsOK, Principal
<1> QED
  BY <1>1, TypeStep DEF SetAccount, TypeOK

LEMMA SetClientType ==
    ASSUME TypeOK, NEW c \in Client, NEW b \in BOOLEAN,
           SetClient(c, b)
    PROVE  TypeOK'
<1> USE RowsType
<1>1. RowsOK'
  BY DEF SetClient, RowsOK
<1> QED
  BY <1>1, TypeStep DEF SetClient, TypeOK

LEMMA CreatePlainKeyType ==
    ASSUME TypeOK, NEW c \in Client, NEW k \in Key, NEW S \in ScopeLists,
           CreatePlainKey(c, k, S)
    PROVE  TypeOK'
<1> USE RowsType
<1>1. [state |-> "live", client |-> c, account |-> NoAccount, scopes |-> S]
         \in Credential
  BY DEF Credential
<1>2. RowsOK'
  BY <1>1 DEF CreatePlainKey, RowsOK
<1> QED
  BY <1>2, TypeStep DEF CreatePlainKey, TypeOK

LEMMA KeyBeginType ==
    ASSUME TypeOK, NEW p \in Slot, NEW c \in Client, NEW a \in Account,
           KeyBegin(p, c, a)
    PROVE  TypeOK'
<1> USE RowsType
<1>1. [pc |-> "key", who |-> a] \in Request
  BY DEF Request, KeyCreation
<1>2. req' \in [Slot -> Request]
  BY <1>1, StartType DEF KeyBegin
<1> QED
  BY <1>2, RowsKept, TypeStep DEF KeyBegin

LEMMA InsertKeyType ==
    ASSUME TypeOK, NEW p \in Slot, NEW k \in Key,
           InsertKey(p, k)
    PROVE  TypeOK'
<1> USE RowsType
<1>1. req[p] \in KeyCreation
  BY Shapes DEF InsertKey, TypeOK
<1>2. ClientOf[req[p].who] \in Client
  BY <1>1, OwnerAssumption DEF KeyCreation, Principal
<1>3. [state |-> "live", client |-> ClientOf[req[p].who],
       account |-> req[p].who, scopes |-> {}] \in Credential
  BY <1>1, <1>2 DEF Credential, KeyCreation
<1>4. RowsOK'
  BY <1>3 DEF InsertKey, RowsOK
<1> QED
  BY <1>4, AnswerType, TypeStep DEF InsertKey

LEMMA RevokeKeyType ==
    ASSUME TypeOK, NEW c \in Client, NEW k \in Key,
           RevokeKey(c, k)
    PROVE  TypeOK'
<1> USE RowsType
<1>1. [key[k] EXCEPT !.state = "revoked"] \in Credential
  BY DEF RevokeKey, TypeOK, Credential
<1>2. RowsOK'
  BY <1>1 DEF RevokeKey, RowsOK
<1> QED
  BY <1>2, TypeStep DEF RevokeKey, TypeOK

LEMMA ExpireKeyType ==
    ASSUME TypeOK, NEW k \in Key,
           ExpireKey(k)
    PROVE  TypeOK'
<1> USE RowsType
<1>1. key[k] \in Credential
  BY DEF ExpireKey, TypeOK, NoKey
<1>2. [key[k] EXCEPT !.state = "expired"] \in Credential
  BY <1>1 DEF Credential
<1>3. RowsOK'
  BY <1>2 DEF ExpireKey, RowsOK
<1> QED
  BY <1>3, TypeStep DEF ExpireKey, TypeOK

(* A key that is found has a row.                                          *)
LEMMA UsableKeys ==
    ASSUME TypeOK, NEW k \in Key, Usable(k)
    PROVE  key[k] \in Credential
  BY DEF TypeOK, Usable, NoKey

LEMMA CheckOfType ==
    ASSUME NEW k \in Key, NEW c \in Client, NEW n \in Needed,
           NEW pc \in {"client", "account", "scopes"}
    PROVE  CheckOf(pc, k, c, n) \in Request
  BY DEF CheckOf, Request, Check

LEMMA AuthenticateBeginType ==
    ASSUME TypeOK, NEW p \in Slot, NEW k \in Key, NEW n \in Needed,
           AuthenticateBegin(p, k, n)
    PROVE  TypeOK'
<1>1. key[k].client \in Client
  BY UsableKeys DEF AuthenticateBegin, Credential
<1>2. CheckOf("client", k, key[k].client, n) \in Request
  BY <1>1, CheckOfType
<1>3. req' \in [Slot -> Request]
  BY <1>2, StartType DEF AuthenticateBegin
<1> QED
  BY <1>3, RowsType, RowsKept, TypeStep DEF AuthenticateBegin

LEMMA VerifyBeginType ==
    ASSUME TypeOK, NEW p \in Slot, NEW k \in Key, NEW c \in Client,
           NEW n \in Needed, VerifyBegin(p, k, c, n)
    PROVE  TypeOK'
<1>1. CheckOf(AfterClient(k), k, c, n) \in Request
  BY CheckOfType DEF AfterClient
<1>2. req' \in [Slot -> Request]
  BY <1>1, StartType DEF VerifyBegin
<1> QED
  BY <1>2, RowsType, RowsKept, TypeStep DEF VerifyBegin

LEMMA CheckTypes ==
    ASSUME TypeOK, NEW p \in Slot
    PROVE  /\ CheckClient(p) => TypeOK'
           /\ CheckAccount(p) => TypeOK'
           /\ Admit(p) \/ Refuse(p) \/ Abort(p) => TypeOK'
<1> USE RowsType
<1>3. ASSUME NEW pc \in {"account", "scopes"}, Goto(p, pc),
             req[p].pc \in {"client", "account"}
      PROVE  req' \in [Slot -> Request]
  <2>1. req[p] \in Check
    BY <1>3, Shapes DEF TypeOK
  <2>2. [req[p] EXCEPT !.pc = pc] \in Request
    BY <2>1, Moves DEF Request
  <2> QED
    BY <1>3, <2>2, GotoType
<1>4. ASSUME CheckClient(p) PROVE TypeOK'
  <2>1. AfterClient(req[p].key) \in {"account", "scopes"}
    BY DEF AfterClient
  <2>2. req' \in [Slot -> Request]
    BY <1>3, <1>4, <2>1 DEF CheckClient
  <2> QED
    BY <1>4, <2>2, RowsKept, TypeStep DEF CheckClient
<1>5. ASSUME CheckAccount(p) PROVE TypeOK'
  BY <1>3, <1>5, RowsKept, TypeStep DEF CheckAccount
<1>6. ASSUME Admit(p) \/ Refuse(p) \/ Abort(p) PROVE TypeOK'
  BY <1>6, AnswerType, RowsKept, TypeStep DEF Admit, Refuse, Abort
<1> QED
  BY <1>4, <1>5, <1>6

LEMMA TypeNext == ASSUME TypeOK, [Next]_vars PROVE TypeOK'
<1>1. ASSUME NEW p \in Slot, Begin(p) PROVE TypeOK'
  <2>1. ASSUME NEW c \in Managed, Manage(p, c) PROVE TypeOK'
    <3>1. c \in Client
      BY OwnerAssumption
    <3> QED
      BY <2>1, <3>1, CreateRoleType, ReplaceBeginType, AssignBeginType,
         CreateBeginType, KeyBeginType DEF Manage
  <2> QED
    BY <1>1, <2>1, InsertRegisteredType, AuthenticateBeginType,
       VerifyBeginType DEF Begin
<1>2. ASSUME NEW p \in Slot, Continue(p) PROVE TypeOK'
  BY <1>2, GrantTypes, AssignType, InitialTypes, InsertKeyType, CheckTypes
     DEF Continue
<1>3. ASSUME NEW p \in Slot, Abort(p) PROVE TypeOK'
  BY <1>3, CheckTypes
<1>4. ASSUME NEW c \in Managed, Single(c) PROVE TypeOK'
  <2>1. c \in Client
    BY OwnerAssumption
  <2> QED
    BY <1>4, <2>1, DeleteRoleType, UnassignType, SetAccountType, SetClientType,
       CreatePlainKeyType, RevokeKeyType DEF Single
<1>5. ASSUME NEW k \in Key, ExpireKey(k) PROVE TypeOK'
  BY <1>5, ExpireKeyType
<1>6. ASSUME UNCHANGED vars PROVE TypeOK'
  BY <1>6 DEF vars, rows, TypeOK, Checking
<1> QED
  BY <1>1, <1>2, <1>3, <1>4, <1>5, <1>6 DEF Next

(* The variables keep their types, for every value of the constants.       *)
THEOREM TypeCorrect == Spec => []TypeOK
  BY TypeInit, TypeNext, PTL DEF Spec

-----------------------------------------------------------------------------
(* Silos, and no grant or assignment left behind *)

(* What a handler has checked of what it is about to write: everything is  *)
(* of one client, and a principal it will assign to has its row, which is  *)
(* never deleted.                                                          *)
Claim(r, rows_of) ==
    /\ r.pc \in {"attach", "delete", "insert"} =>
          \A q \in r.perms : ClientOf[q] = ClientOf[r.role]
    /\ r.pc = "assign" => ClientOf[r.role] = ClientOf[r.who]
    /\ r.pc \in {"create", "defaults", "initial"} =>
          \A d \in r.roles : ClientOf[d] = ClientOf[r.who]
    /\ r.pc \in {"assign", "defaults", "initial"} => rows_of[r.who] # "none"

Claims == \A p \in Slot : Claim(req[p], presence)
Growing == \A x \in Principal : presence[x] # "none" => presence'[x] # "none"

SiloInv == TypeOK /\ Claims /\ Silo /\ NoOrphans

(* The principal of a claim is one.                                        *)
LEMMA ClaimKept ==
    ASSUME NEW r \in Request, Claim(r, presence), Growing
    PROVE  Claim(r, presence')
<1>1. r.pc \in {"assign", "defaults", "initial"} => r.who \in Principal
  BY Shapes DEF Assignment, Creation
<1> QED
  BY <1>1 DEF Claim, Growing

LEMMA SlotClaims ==
    ASSUME TypeOK, Claims, Growing, NEW p \in Slot, NEW r,
           req' = [req EXCEPT ![p] = r], Claim(r, presence')
    PROVE  Claims'
<1>1. ASSUME NEW s \in Slot PROVE Claim(req'[s], presence')
  <2>1. CASE s = p
    BY <2>1 DEF TypeOK
  <2>2. CASE s # p
    <3>1. req'[s] = req[s] /\ req[s] \in Request /\ Claim(req[s], presence)
      BY <2>2 DEF TypeOK, Claims
    <3> QED
      BY <3>1, ClaimKept
  <2> QED
    BY <2>1, <2>2
<1> QED
  BY <1>1 DEF Claims

LEMMA SameClaims ==
    ASSUME TypeOK, Claims, Growing, UNCHANGED req
    PROVE  Claims'
<1>1. ASSUME NEW s \in Slot PROVE Claim(req'[s], presence')
  BY ClaimKept DEF TypeOK, Claims
<1> QED
  BY <1>1 DEF Claims

LEMMA NoClaim ==
    ASSUME NEW r, NEW f,
           r.pc \in {"idle", "key", "client", "account", "scopes"}
    PROVE  Claim(r, f)
  BY DEF Claim

LEMMA AnswerClaims ==
    ASSUME TypeOK, Claims, Growing, NEW p \in Slot, Answer(p)
    PROVE  Claims'
<1>1. Claim(Idle, presence')
  BY NoClaim DEF Idle
<1> QED
  BY <1>1, SlotClaims DEF Answer

(* Moving on.                                                              *)
LEMMA GotoClaims ==
    ASSUME TypeOK, Claims, Growing, NEW p \in Slot, NEW pc, Goto(p, pc),
           Claim([req[p] EXCEPT !.pc = pc], presence')
    PROVE  Claims'
<1>1. req' = [req EXCEPT ![p] = [req[p] EXCEPT !.pc = pc]]
  BY DEF Goto
<1> QED
  BY <1>1, SlotClaims

LEMMA KeptRows == ASSUME Silo, NoOrphans, UNCHANGED rows
                  PROVE  Silo' /\ NoOrphans' /\ Growing
  BY DEF Silo, NoOrphans, rows, Growing

LEMMA SiloInit == Init => SiloInv
<1> SUFFICES ASSUME Init PROVE SiloInv
  OBVIOUS
<1>1. TypeOK
  BY TypeInit
<1>2. Claims
  BY NoClaim DEF Init, Claims, Idle
<1>3. Silo /\ NoOrphans
  BY DEF Init, Silo, NoOrphans
<1> QED
  BY <1>1, <1>2, <1>3 DEF SiloInv

(* The handlers' steps that only read.                                     *)
LEMMA ReadersSilo ==
    ASSUME SiloInv, NEW p \in Slot, UNCHANGED rows,
           \/ Answer(p)
           \/ \E r : req' = [req EXCEPT ![p] = r] /\ Claim(r, presence)
    PROVE  Claims' /\ Silo' /\ NoOrphans'
<1>1. Silo' /\ NoOrphans' /\ Growing /\ presence' = presence
  BY KeptRows DEF SiloInv, rows
<1>2. CASE Answer(p)
  BY <1>1, <1>2, AnswerClaims DEF SiloInv
<1>3. ASSUME NEW r, req' = [req EXCEPT ![p] = r], Claim(r, presence)
      PROVE  Claims'
  BY <1>1, <1>3, SlotClaims DEF SiloInv
<1> QED
  BY <1>1, <1>2, <1>3

LEMMA BeginSilo ==
    ASSUME SiloInv, NEW p \in Slot, NEW c \in Client
    PROVE  /\ \A r \in Role, P \in SUBSET Permission, twice \in BOOLEAN :
                  ReplaceBegin(p, c, r, P, twice) => Claims' /\ Silo' /\ NoOrphans'
           /\ \A x \in Principal, r \in Role :
                  AssignBegin(p, c, x, r) => Claims' /\ Silo' /\ NoOrphans'
           /\ \A x \in Principal, R \in SUBSET Role, twice \in BOOLEAN :
                  CreateBegin(p, c, x, R, twice) => Claims' /\ Silo' /\ NoOrphans'
           /\ \A a \in Account :
                  KeyBegin(p, c, a) => Claims' /\ Silo' /\ NoOrphans'
<1>1. ASSUME NEW r \in Role, NEW P \in SUBSET Permission,
             NEW twice \in BOOLEAN, ReplaceBegin(p, c, r, P, twice)
      PROVE  Claims' /\ Silo' /\ NoOrphans'
  <2>1. Claim(WriteOf("delete", r, P, twice), presence)
    BY <1>1 DEF ReplaceBegin, WriteOf, Claim, OwnRole, OwnPermissions
  <2> QED
    BY <1>1, <2>1, ReadersSilo DEF ReplaceBegin, Start
<1>2. ASSUME NEW x \in Principal, NEW r \in Role, AssignBegin(p, c, x, r)
      PROVE  Claims' /\ Silo' /\ NoOrphans'
  <2>1. Claim([pc |-> "assign", who |-> x, role |-> r], presence)
    BY <1>2 DEF AssignBegin, Claim, OwnRole, OwnPrincipal
  <2> QED
    BY <1>2, <2>1, ReadersSilo DEF AssignBegin, Start
<1>3. ASSUME NEW x \in Principal, NEW R \in SUBSET Role, NEW twice \in BOOLEAN,
             CreateBegin(p, c, x, R, twice)
      PROVE  Claims' /\ Silo' /\ NoOrphans'
  <2>1. Claim([pc |-> "create", who |-> x, roles |-> R,
               twice |-> twice /\ R # {}], presence)
    BY <1>3 DEF CreateBegin, Claim, OwnRole
  <2> QED
    BY <1>3, <2>1, ReadersSilo DEF CreateBegin, Start
<1>4. ASSUME NEW a \in Account, KeyBegin(p, c, a)
      PROVE  Claims' /\ Silo' /\ NoOrphans'
  <2>1. Claim([pc |-> "key", who |-> a], presence)
    BY NoClaim
  <2> QED
    BY <1>4, <2>1, ReadersSilo DEF KeyBegin, Start
<1> QED
  BY <1>1, <1>2, <1>3, <1>4

(* The checks of a key.                                                    *)
LEMMA CheckSilo ==
    ASSUME SiloInv, NEW p \in Slot
    PROVE  /\ \A k \in Key, n \in Needed :
                  AuthenticateBegin(p, k, n) => Claims' /\ Silo' /\ NoOrphans'
           /\ \A k \in Key, n \in Needed, c \in Client :
                  VerifyBegin(p, k, c, n) => Claims' /\ Silo' /\ NoOrphans'
           /\ CheckClient(p) => Claims' /\ Silo' /\ NoOrphans'
           /\ CheckAccount(p) => Claims' /\ Silo' /\ NoOrphans'
           /\ Admit(p) \/ Refuse(p) \/ Abort(p) => Claims' /\ Silo' /\ NoOrphans'
<1>1. ASSUME NEW pc \in {"client", "account", "scopes"}, NEW k, NEW c, NEW n
      PROVE  Claim(CheckOf(pc, k, c, n), presence)
  BY NoClaim DEF CheckOf
<1>2. \A k : AfterClient(k) \in {"account", "scopes"}
  BY DEF AfterClient
<1>3. ASSUME NEW k \in Key, NEW n \in Needed, AuthenticateBegin(p, k, n)
      PROVE  Claims' /\ Silo' /\ NoOrphans'
  BY <1>1, <1>3, ReadersSilo DEF AuthenticateBegin, Start
<1>4. ASSUME NEW k \in Key, NEW n \in Needed, NEW c \in Client,
             VerifyBegin(p, k, c, n)
      PROVE  Claims' /\ Silo' /\ NoOrphans'
  BY <1>1, <1>2, <1>4, ReadersSilo DEF VerifyBegin, Start
<1>5. ASSUME NEW pc \in {"account", "scopes"}, Goto(p, pc), UNCHANGED rows,
             req[p].pc \in {"client", "account"}
      PROVE  Claims' /\ Silo' /\ NoOrphans'
  <2>1. req[p] \in Check
    BY <1>5, Shapes DEF SiloInv, TypeOK
  <2>2. [req[p] EXCEPT !.pc = pc].pc = pc
    BY <2>1 DEF Check
  <2> DEFINE r == [req[p] EXCEPT !.pc = pc]
  <2>3. Claim(r, presence)
    <3> HIDE DEF r
    <3>1. r.pc = pc
      BY <2>2 DEF r
    <3> QED
      BY <3>1, NoClaim
  <2>4. req' = [req EXCEPT ![p] = [req[p] EXCEPT !.pc = pc]]
    BY <1>5 DEF Goto
  <2> QED
    BY <1>5, <2>3, <2>4, ReadersSilo
<1>6. CheckClient(p) => Claims' /\ Silo' /\ NoOrphans'
  BY <1>2, <1>5 DEF CheckClient
<1>7. CheckAccount(p) => Claims' /\ Silo' /\ NoOrphans'
  BY <1>5 DEF CheckAccount
<1>8. Admit(p) \/ Refuse(p) \/ Abort(p) => Claims' /\ Silo' /\ NoOrphans'
  BY ReadersSilo DEF Admit, Refuse, Abort
<1> QED
  BY <1>3, <1>4, <1>6, <1>7, <1>8

(* The steps that write what a role grants.                                *)
LEMMA GrantsSilo ==
    ASSUME SiloInv, NEW p \in Slot
    PROVE  /\ \A c \in Client, r \in Role, P \in SUBSET Permission,
                 twice \in BOOLEAN :
                  CreateRole(p, c, r, P, twice) => Claims' /\ Silo' /\ NoOrphans'
           /\ DeleteGrants(p) => Claims' /\ Silo' /\ NoOrphans'
           /\ Attach(p) => Claims' /\ Silo' /\ NoOrphans'
           /\ InsertGrants(p) => Claims' /\ Silo' /\ NoOrphans'
<1> USE DEF SiloInv
<1>1. ASSUME NEW c \in Client, NEW r \in Role, NEW P \in SUBSET Permission,
             NEW twice \in BOOLEAN, CreateRole(p, c, r, P, twice)
      PROVE  Claims' /\ Silo' /\ NoOrphans'
  <2>1. Growing
    BY <1>1 DEF CreateRole, Growing
  <2>2. Claim(WriteOf("attach", r, P, twice), presence')
    BY <1>1 DEF CreateRole, WriteOf, Claim, OwnPermissions
  <2>3. Claims'
    BY <1>1, <2>1, <2>2, SameClaims, SlotClaims DEF CreateRole, Start
  <2>4. Silo'
    BY <1>1 DEF CreateRole, Silo
  <2>5. NoOrphans'
    BY <1>1 DEF CreateRole, NoOrphans, TypeOK
  <2> QED
    BY <2>3, <2>4, <2>5
<1>2. ASSUME DeleteGrants(p)
      PROVE  Claims' /\ Silo' /\ NoOrphans'
  <2>1. req[p] \in RoleWrite
    BY <1>2, Shapes DEF DeleteGrants, TypeOK
  <2>2. Growing /\ presence' = presence
    BY <1>2 DEF DeleteGrants, Growing
  <2>3. Claim([req[p] EXCEPT !.pc = "insert"], presence')
    BY <1>2, <2>1 DEF DeleteGrants, Claims, Claim, RoleWrite
  <2>4. Claims'
    BY <1>2, <2>2, <2>3, AnswerClaims, GotoClaims DEF DeleteGrants
  <2>5. Silo'
    BY <1>2 DEF DeleteGrants, Silo, TypeOK
  <2>6. NoOrphans'
    BY <1>2 DEF DeleteGrants, NoOrphans, TypeOK
  <2> QED
    BY <2>4, <2>5, <2>6
<1>3. ASSUME NEW pc \in {"attach", "insert"}, Add(p, pc)
      PROVE  Claims' /\ Silo' /\ NoOrphans'
  <2>1. req[p] \in RoleWrite
    BY <1>3, Shapes DEF Add, TypeOK
  <2>2. Growing
    BY <1>3 DEF Add, Growing
  <2>3. Claims'
    BY <1>3, <2>2, AnswerClaims DEF Add
  <2>4. CASE ~Insertable(req[p])
    BY <1>3, <2>3, <2>4 DEF Add, Silo, NoOrphans
  <2>5. CASE Insertable(req[p])
    <3>1. /\ role[req[p].role] = "on"
          /\ \A q \in req[p].perms : ClientOf[q] = ClientOf[req[p].role]
      BY <1>3, <2>5 DEF Insertable, Referenced, Claims, Claim, Add
    <3>2. grants' = [grants EXCEPT ![req[p].role] = @ \cup req[p].perms]
      BY <1>3, <2>5 DEF Add
    <3>3. \A r \in Role : \A q \in grants'[r] : ClientOf[q] = ClientOf[r]
      BY <3>1, <3>2 DEF Silo, TypeOK
    <3>4. Silo'
      BY <1>3, <3>3 DEF Add, Silo
    <3>5. NoOrphans'
      BY <1>3, <3>1, <3>2 DEF Add, NoOrphans, TypeOK
    <3> QED
      BY <2>3, <3>4, <3>5
  <2> QED
    BY <2>4, <2>5
<1> QED
  BY <1>1, <1>2, <1>3 DEF Attach, InsertGrants

(* The steps that write what a principal holds.                            *)
LEMMA HeldSilo ==
    ASSUME SiloInv, NEW p \in Slot
    PROVE  /\ Assign(p) => Claims' /\ Silo' /\ NoOrphans'
           /\ AssignInitial(p) => Claims' /\ Silo' /\ NoOrphans'
<1> USE DEF SiloInv
<1>1. ASSUME NEW x \in Principal, NEW R \in SUBSET Role,
             UNCHANGED <<role, grants, presence, key>>, Answer(p),
             \/ held' = held
             \/ /\ held' = [held EXCEPT ![x] = @ \cup R]
                /\ Referenced(R)
                /\ \A r \in R : ClientOf[r] = ClientOf[x]
                /\ presence[x] # "none"
      PROVE  Claims' /\ Silo' /\ NoOrphans'
  <2>1. Growing
    BY <1>1 DEF Growing
  <2>2. Claims'
    BY <1>1, <2>1, AnswerClaims
  <2>3. Silo'
    BY <1>1 DEF Silo, TypeOK
  <2>4. NoOrphans'
    BY <1>1 DEF NoOrphans, TypeOK, Referenced
  <2> QED
    BY <2>2, <2>3, <2>4
<1>2. ASSUME Assign(p) PROVE Claims' /\ Silo' /\ NoOrphans'
  <2>1. req[p] \in Assignment
    BY <1>2, Shapes DEF Assign, TypeOK
  <2>2. /\ ClientOf[req[p].role] = ClientOf[req[p].who]
        /\ presence[req[p].who] # "none"
    BY <1>2 DEF Assign, Claims, Claim
  <2>3. req[p].who \in Principal /\ {req[p].role} \in SUBSET Role
    BY <2>1 DEF Assignment
  <2> QED
    BY <1>1, <1>2, <2>2, <2>3 DEF Assign
<1>3. ASSUME AssignInitial(p) PROVE Claims' /\ Silo' /\ NoOrphans'
  <2>1. req[p] \in Creation
    BY <1>3, Shapes DEF AssignInitial, TypeOK
  <2>2. /\ \A r \in req[p].roles : ClientOf[r] = ClientOf[req[p].who]
        /\ presence[req[p].who] # "none"
    BY <1>3 DEF AssignInitial, Claims, Claim
  <2>3. req[p].who \in Principal /\ req[p].roles \in SUBSET Role
    BY <2>1 DEF Creation
  <2> QED
    BY <1>1, <1>3, <2>2, <2>3 DEF AssignInitial
<1> QED
  BY <1>2, <1>3

(* New principals.                                                         *)
LEMMA PrincipalSilo ==
    ASSUME SiloInv, NEW p \in Slot
    PROVE  /\ InsertPrincipal(p) => Claims' /\ Silo' /\ NoOrphans'
           /\ \A u \in User :
                  InsertRegistered(p, u) => Claims' /\ Silo' /\ NoOrphans'
           /\ SelectDefaults(p) => Claims' /\ Silo' /\ NoOrphans'
<1> USE DEF SiloInv
<1>1. ASSUME InsertPrincipal(p) PROVE Claims' /\ Silo' /\ NoOrphans'
  <2>1. req[p] \in Creation
    BY <1>1, Shapes DEF InsertPrincipal, TypeOK
  <2>2. Growing
    BY <1>1 DEF InsertPrincipal, Growing, TypeOK
  <2>3. ASSUME Goto(p, "initial"),
               presence' = [presence EXCEPT ![req[p].who] = "on"]
        PROVE  Claims'
    <3>1. Claim([req[p] EXCEPT !.pc = "initial"], presence')
      BY <1>1, <2>1, <2>3 DEF InsertPrincipal, Claims, Claim, Creation, TypeOK
    <3> QED
      BY <2>2, <2>3, <3>1, GotoClaims
  <2>4. Claims'
    BY <1>1, <2>2, <2>3, AnswerClaims DEF InsertPrincipal
  <2>5. Silo'
    BY <1>1 DEF InsertPrincipal, Silo
  <2>6. NoOrphans'
    BY <1>1 DEF InsertPrincipal, NoOrphans, TypeOK
  <2> QED
    BY <2>4, <2>5, <2>6
<1>2. ASSUME NEW u \in User, InsertRegistered(p, u)
      PROVE  Claims' /\ Silo' /\ NoOrphans'
  <2>1. Growing
    BY <1>2 DEF InsertRegistered, Growing, TypeOK
  <2>2. Claim([pc |-> "defaults", who |-> u, roles |-> {}, twice |-> FALSE],
              presence')
    BY <1>2 DEF InsertRegistered, Claim, TypeOK, Principal
  <2>3. Claims'
    BY <1>2, <2>1, <2>2, SlotClaims DEF InsertRegistered, Start
  <2>4. Silo'
    BY <1>2 DEF InsertRegistered, Silo
  <2>5. NoOrphans'
    BY <1>2 DEF InsertRegistered, NoOrphans, TypeOK
  <2> QED
    BY <2>3, <2>4, <2>5
<1>3. ASSUME SelectDefaults(p) PROVE Claims' /\ Silo' /\ NoOrphans'
  <2> DEFINE found == {d \in Default : OwnRole(d, ClientOf[req[p].who])}
             r == [req[p] EXCEPT !.pc = "initial", !.roles = found]
  <2>1. req[p] \in Creation
    BY <1>3, Shapes DEF SelectDefaults, TypeOK
  <2>2. \A d \in found : ClientOf[d] = ClientOf[req[p].who]
    BY DEF OwnRole
  <2>3. presence[req[p].who] # "none"
    BY <1>3 DEF SelectDefaults, Claims, Claim
  <2>4. Answer(p) \/ req' = [req EXCEPT ![p].pc = "initial", ![p].roles = found]
    BY <1>3 DEF SelectDefaults
  <2> HIDE DEF found
  <2>5. Claim(r, presence)
    BY <2>1, <2>2, <2>3 DEF Claim, Creation
  <2>6. Answer(p) \/ req' = [req EXCEPT ![p] = r]
    BY <2>4
  <2> HIDE DEF r
  <2> QED
    BY <1>3, <2>5, <2>6, ReadersSilo DEF SelectDefaults
<1> QED
  BY <1>1, <1>2, <1>3

(* The handlers of one statement, and time.                                *)
LEMMA SingleSilo ==
    ASSUME SiloInv, NEW c \in Client
    PROVE  /\ Single(c) => Claims' /\ Silo' /\ NoOrphans'
           /\ \A k \in Key : ExpireKey(k) => Claims' /\ Silo' /\ NoOrphans'
<1> USE DEF SiloInv
<1>1. ASSUME NEW r \in Role, DeleteRole(c, r)
      PROVE  Claims' /\ Silo' /\ NoOrphans'
  <2>1. Claims'
    BY <1>1, SameClaims DEF DeleteRole, Growing
  <2>2. Silo'
    BY <1>1 DEF DeleteRole, Silo, TypeOK
  <2>3. NoOrphans'
    BY <1>1 DEF DeleteRole, NoOrphans, TypeOK
  <2> QED
    BY <2>1, <2>2, <2>3
<1>2. ASSUME NEW x \in Principal, NEW r \in Role, Unassign(c, x, r)
      PROVE  Claims' /\ Silo' /\ NoOrphans'
  <2>1. Claims'
    BY <1>2, SameClaims DEF Unassign, Growing
  <2>2. Silo' /\ NoOrphans'
    BY <1>2 DEF Unassign, Silo, NoOrphans, TypeOK
  <2> QED
    BY <2>1, <2>2
<1>3. ASSUME NEW a \in Account, NEW b \in BOOLEAN, SetAccount(c, a, b)
      PROVE  Claims' /\ Silo' /\ NoOrphans'
  <2>1. Growing
    BY <1>3 DEF SetAccount, Growing, OwnPrincipal, Switched, TypeOK
  <2>2. Claims'
    BY <1>3, <2>1, SameClaims DEF SetAccount
  <2>3. Silo'
    BY <1>3 DEF SetAccount, Silo
  <2>4. \A x \in Principal : presence'[x] = "none" => presence[x] = "none"
    BY <2>1 DEF Growing
  <2>5. NoOrphans'
    BY <1>3, <2>4 DEF SetAccount, NoOrphans
  <2> QED
    BY <2>2, <2>3, <2>5
<1>4. ASSUME NEW b \in BOOLEAN, SetClient(c, b)
      PROVE  Claims' /\ Silo' /\ NoOrphans'
  BY <1>4, SameClaims DEF SetClient, Growing, Silo, NoOrphans
<1>5. ASSUME UNCHANGED <<role, grants, presence, held, req>>,
             NEW k \in Key, NEW n, key' = [key EXCEPT ![k] = n],
             n # NoKey /\ n.account # NoAccount =>
                ClientOf[n.account] = n.client
      PROVE  Claims' /\ Silo' /\ NoOrphans'
  <2>1. Claims'
    BY <1>5, SameClaims DEF Growing
  <2>2. Silo'
    BY <1>5 DEF Silo, TypeOK
  <2>3. NoOrphans'
    BY <1>5 DEF NoOrphans
  <2> QED
    BY <2>1, <2>2, <2>3
<1>6. ASSUME NEW k \in Key, NEW S \in ScopeLists, CreatePlainKey(c, k, S)
      PROVE  Claims' /\ Silo' /\ NoOrphans'
  BY <1>5, <1>6 DEF CreatePlainKey
<1>7. ASSUME NEW k \in Key, NEW st, key[k] \in Credential,
             key' = [key EXCEPT ![k].state = st],
             UNCHANGED <<role, grants, presence, held, req>>
      PROVE  Claims' /\ Silo' /\ NoOrphans'
  <2> DEFINE n == [key[k] EXCEPT !.state = st]
  <2>1. n.account = key[k].account /\ n.client = key[k].client
    BY <1>7 DEF Credential
  <2>2. key[k] # NoKey
    BY <1>7 DEF Credential, NoKey
  <2>3. key[k].account # NoAccount => ClientOf[key[k].account] = key[k].client
    BY <2>2 DEF Silo
  <2>4. key' = [key EXCEPT ![k] = n]
    BY <1>7
  <2> HIDE DEF n
  <2> QED
    BY <1>5, <1>7, <2>1, <2>3, <2>4
<1>8. ASSUME NEW k \in Key, RevokeKey(c, k)
      PROVE  Claims' /\ Silo' /\ NoOrphans'
  BY <1>7, <1>8 DEF RevokeKey, TypeOK
<1>9. ASSUME NEW k \in Key, ExpireKey(k)
      PROVE  Claims' /\ Silo' /\ NoOrphans'
  <2>1. key[k] \in Credential
    BY <1>9 DEF ExpireKey, TypeOK, NoKey
  <2> QED
    BY <1>7, <1>9, <2>1 DEF ExpireKey
<1> QED
  BY <1>1, <1>2, <1>3, <1>4, <1>6, <1>8, <1>9 DEF Single

LEMMA InsertKeySilo ==
    ASSUME SiloInv, NEW p \in Slot, NEW k \in Key, InsertKey(p, k)
    PROVE  Claims' /\ Silo' /\ NoOrphans'
<1>1. Claims'
  BY AnswerClaims DEF SiloInv, InsertKey, Growing
<1>2. Silo'
  BY DEF SiloInv, InsertKey, Silo, TypeOK
<1>3. NoOrphans'
  BY DEF SiloInv, InsertKey, NoOrphans
<1> QED
  BY <1>1, <1>2, <1>3

LEMMA SiloNext == ASSUME SiloInv, [Next]_vars PROVE SiloInv'
<1> SUFFICES Claims' /\ Silo' /\ NoOrphans'
  BY TypeNext DEF SiloInv
<1>1. ASSUME NEW p \in Slot, Begin(p) PROVE Claims' /\ Silo' /\ NoOrphans'
  <2>1. ASSUME NEW c \in Managed, Manage(p, c)
        PROVE  Claims' /\ Silo' /\ NoOrphans'
    <3>1. c \in Client
      BY OwnerAssumption
    <3> QED
      BY <2>1, <3>1, GrantsSilo, BeginSilo DEF Manage
  <2> QED
    BY <1>1, <2>1, PrincipalSilo, CheckSilo DEF Begin
<1>2. ASSUME NEW p \in Slot, Continue(p) PROVE Claims' /\ Silo' /\ NoOrphans'
  BY <1>2, GrantsSilo, HeldSilo, PrincipalSilo, InsertKeySilo, CheckSilo
     DEF Continue
<1>3. ASSUME NEW p \in Slot, Abort(p) PROVE Claims' /\ Silo' /\ NoOrphans'
  BY <1>3, CheckSilo
<1>4. ASSUME NEW c \in Managed, Single(c) PROVE Claims' /\ Silo' /\ NoOrphans'
  <2>1. c \in Client
    BY OwnerAssumption
  <2> QED
    BY <1>4, <2>1, SingleSilo
<1>5. ASSUME NEW k \in Key, ExpireKey(k) PROVE Claims' /\ Silo' /\ NoOrphans'
  <2>1. \E c : c \in Client
    BY <1>5, OwnerAssumption DEF ExpireKey, SiloInv, TypeOK, Credential, NoKey
  <2> QED
    BY <1>5, <2>1, SingleSilo
<1>6. ASSUME UNCHANGED vars PROVE Claims' /\ Silo' /\ NoOrphans'
  <2>1. UNCHANGED rows /\ UNCHANGED req
    BY <1>6 DEF vars
  <2>2. Silo' /\ NoOrphans' /\ Growing
    BY <2>1, KeptRows DEF SiloInv
  <2> QED
    BY <2>1, <2>2, SameClaims DEF SiloInv
<1> QED
  BY <1>1, <1>2, <1>3, <1>4, <1>5, <1>6 DEF Next

(* Whatever handlers race, everything is per client: what a role grants,   *)
(* what a principal holds, and the account behind a key.                   *)
THEOREM SiloHolds == Spec => []Silo
<1>1. SiloInv => Silo
  BY DEF SiloInv
<1> QED
  BY <1>1, SiloInit, SiloNext, PTL DEF Spec

(* A role that was deleted, or not created yet, grants nothing and is held *)
(* by nobody, and a principal without a row holds nothing.                 *)
THEOREM NoOrphansHolds == Spec => []NoOrphans
<1>1. SiloInv => NoOrphans
  BY DEF SiloInv
<1> QED
  BY <1>1, SiloInit, SiloNext, PTL DEF Spec

-----------------------------------------------------------------------------
(* The check of a key *)

(* The row a check reads stays, and nothing changes whose it is.           *)
KeysKept ==
    \A k \in Key : key[k] # NoKey =>
        /\ key'[k] # NoKey
        /\ key'[k].client = key[k].client
        /\ key'[k].account = key[k].account

(* What a check in flight knows of that row.                               *)
Tied(r, keys) ==
    r.pc \in {"client", "account", "scopes"} =>
        /\ keys[r.key] # NoKey
        /\ keys[r.key].client = r.client
        /\ r.pc = "account" => keys[r.key].account # NoAccount

(* The histories against the present state, and what has been passed.      *)
History(p) ==
    Checking(p) =>
        /\ unseen[p] \cap Met(p) = {}
        /\ Met(p) # Condition => gap[p]
        /\ "key" \notin unseen[p]
        /\ req[p].pc # "client" => "client" \notin unseen[p]
        /\ req[p].pc = "scopes" => "account" \notin unseen[p]

FreshInv == TypeOK /\ \A p \in Slot : Tied(req[p], key) /\ History(p)

(* What a step does to one slot: nothing, or it leaves the checks, or it   *)
(* begins one, or it passes one of the conditions.                         *)
Moved(p) ==
    \/ req'[p] = req[p]
    \/ ~Checking(p)'
    \/ /\ ~Checking(p)
       /\ "key" \in Met(p)'
       /\ req'[p].pc # "client" => "client" \in Met(p)'
       /\ req'[p].pc = "scopes" => "account" \in Met(p)'
    \/ /\ Checking(p)
       /\ "client" \in Met(p) \/ req[p].pc # "client"
       /\ req'[p].pc = "scopes" => "account" \in Met(p)

LEMMA Conditions ==
    ASSUME NEW p
    PROVE  /\ "key" \in Met(p) <=> key[req[p].key].state = "live"
           /\ "client" \in Met(p) <=>
                 /\ key[req[p].key].client = req[p].client
                 /\ clientOn[key[req[p].key].client]
           /\ "account" \in Met(p) <=>
                 (key[req[p].key].account # NoAccount =>
                    presence[key[req[p].key].account] = "on")
           /\ "permission" \in Met(p) <=> PermitsKey(Scopes(req[p].key), req[p].need)
  BY DEF Met, Condition

LEMMA ConditionsNext ==
    ASSUME NEW p
    PROVE  /\ "key" \in Met(p)' <=> key'[req'[p].key].state = "live"
           /\ "client" \in Met(p)' <=>
                 /\ key'[req'[p].key].client = req'[p].client
                 /\ clientOn'[key'[req'[p].key].client]
           /\ "account" \in Met(p)' <=>
                 (key'[req'[p].key].account # NoAccount =>
                    presence'[key'[req'[p].key].account] = "on")
  BY DEF Met, Condition

LEMMA HistoryStep ==
    ASSUME FreshInv, Observe, NEW p \in Slot, Moved(p)
    PROVE  History(p)'
<1> SUFFICES ASSUME Checking(p)' PROVE History(p)'
  BY DEF History
<1> DEFINE before == IF Checking(p) THEN unseen[p] ELSE Condition
<1>1. unseen'[p] = before \ Met(p)'
  BY DEF Observe
<1>2. gap'[p] = (Checking(p)' /\ ((Checking(p) /\ gap[p]) \/ Met(p)' # Condition))
  BY DEF Observe
<1>3. unseen'[p] \cap Met(p)' = {}
  BY <1>1
<1>4. Met(p)' # Condition => gap'[p]
  BY <1>2
<1>5. History(p)
  BY DEF FreshInv
<1>6. /\ "key" \notin unseen'[p]
      /\ req'[p].pc # "client" => "client" \notin unseen'[p]
      /\ req'[p].pc = "scopes" => "account" \notin unseen'[p]
  <2>1. CASE req'[p] = req[p]
    <3>1. Checking(p)
      BY <2>1 DEF Checking
    <3> QED
      BY <1>1, <1>5, <2>1, <3>1 DEF History
  <2>2. CASE ~Checking(p) /\ req'[p] # req[p]
    BY <1>1, <2>2 DEF Moved
  <2>3. CASE Checking(p) /\ req'[p] # req[p]
    <3>1. /\ "client" \in Met(p) \/ req[p].pc # "client"
          /\ req'[p].pc = "scopes" => "account" \in Met(p)
      BY <2>3 DEF Moved
    <3>2. /\ "client" \notin unseen[p]
          /\ req'[p].pc = "scopes" => "account" \notin unseen[p]
          /\ "key" \notin unseen[p]
      BY <1>5, <2>3, <3>1 DEF History
    <3> QED
      BY <1>1, <2>3, <3>2
  <2> QED
    BY <2>1, <2>2, <2>3
<1> QED
  BY <1>3, <1>4, <1>6 DEF History

(* A row that is kept stays tied to the check.                             *)
LEMMA TiedKept ==
    ASSUME NEW r \in Request, Tied(r, key), KeysKept
    PROVE  Tied(r, key')
<1>1. r.pc \in {"client", "account", "scopes"} => r.key \in Key
  BY Shapes DEF Check
<1> QED
  BY <1>1 DEF Tied, KeysKept

(* A step of one slot.                                                     *)
LEMMA SlotFresh ==
    ASSUME FreshInv, KeysKept, Observe, NEW p \in Slot,
           \A s \in Slot : s # p => req'[s] = req[s],
           Moved(p), Tied(req'[p], key')
    PROVE  \A s \in Slot : Tied(req'[s], key') /\ History(s)'
<1>1. ASSUME NEW s \in Slot, s # p
      PROVE  Tied(req'[s], key') /\ Moved(s)
  BY <1>1, TiedKept DEF FreshInv, TypeOK, Moved
<1> QED
  BY <1>1, HistoryStep

LEMMA SameFresh ==
    ASSUME FreshInv, KeysKept, Observe, UNCHANGED req
    PROVE  \A s \in Slot : Tied(req'[s], key') /\ History(s)'
<1>1. ASSUME NEW s \in Slot
      PROVE  Tied(req'[s], key') /\ Moved(s)
  BY <1>1, TiedKept DEF FreshInv, TypeOK, Moved
<1> QED
  BY <1>1, HistoryStep

(* A slot that is not checking a key afterwards.                           *)
LEMMA OutsideFresh ==
    ASSUME FreshInv, KeysKept, Observe, NEW p \in Slot, NEW r,
           req' = [req EXCEPT ![p] = r],
           r.pc \notin {"client", "account", "scopes"}
    PROVE  \A s \in Slot : Tied(req'[s], key') /\ History(s)'
<1>1. req'[p] = r /\ \A s \in Slot : s # p => req'[s] = req[s]
  BY DEF FreshInv, TypeOK
<1>2. Moved(p) /\ Tied(req'[p], key')
  BY <1>1 DEF Moved, Checking, Tied
<1> QED
  BY <1>1, <1>2, SlotFresh

LEMMA AnswerFresh ==
    ASSUME FreshInv, KeysKept, Observe, NEW p \in Slot, Answer(p)
    PROVE  \A s \in Slot : Tied(req'[s], key') /\ History(s)'
<1>1. Idle.pc \notin {"client", "account", "scopes"}
  BY DEF Idle
<1> QED
  BY <1>1, OutsideFresh DEF Answer

LEMMA GotoFresh ==
    ASSUME TypeOK, NEW p \in Slot, NEW pc, Goto(p, pc)
    PROVE  /\ req'[p] = [req[p] EXCEPT !.pc = pc]
           /\ req'[p].pc = pc
           /\ \A s \in Slot : s # p => req'[s] = req[s]
<1>1. req'[p] = [req[p] EXCEPT !.pc = pc]
  BY DEF Goto, TypeOK
<1>2. ASSUME NEW r \in Request PROVE [r EXCEPT !.pc = pc].pc = pc
  BY DEF Request, Idle, RoleWrite, Assignment, Creation, KeyCreation, Check
<1>3. \A s \in Slot : s # p => req'[s] = req[s]
  BY DEF Goto, TypeOK
<1> QED
  BY <1>1, <1>2, <1>3 DEF TypeOK

LEMMA SameKeys == UNCHANGED key => KeysKept
  BY DEF KeysKept

LEMMA ManageFresh ==
    ASSUME FreshInv, NEW p \in Slot, NEW c \in Client, Manage(p, c)
    PROVE  \A s \in Slot : Tied(req'[s], key') /\ History(s)'
<1>1. KeysKept /\ Observe
  BY SameKeys DEF Manage, CreateRole, ReplaceBegin, AssignBegin, CreateBegin,
     KeyBegin, rows
<1>2. CASE UNCHANGED req
  BY <1>1, <1>2, SameFresh
<1>3. ASSUME NEW r, Start(p, r), r.pc \notin {"client", "account", "scopes"}
      PROVE  \A s \in Slot : Tied(req'[s], key') /\ History(s)'
  BY <1>1, <1>3, OutsideFresh DEF Start
<1>4. ASSUME NEW r \in Role, NEW P \in SUBSET Permission, NEW twice \in BOOLEAN,
             CreateRole(p, c, r, P, twice) \/ ReplaceBegin(p, c, r, P, twice)
      PROVE  \A s \in Slot : Tied(req'[s], key') /\ History(s)'
  <2>1. \A pc : WriteOf(pc, r, P, twice).pc = pc
    BY DEF WriteOf
  <2> QED
    BY <1>2, <1>3, <1>4, <2>1 DEF CreateRole, ReplaceBegin
<1>5. ASSUME NEW x \in Principal, NEW r \in Role, AssignBegin(p, c, x, r)
      PROVE  \A s \in Slot : Tied(req'[s], key') /\ History(s)'
  BY <1>3, <1>5 DEF AssignBegin
<1>6. ASSUME NEW x \in Principal, NEW R \in SUBSET Role, NEW twice \in BOOLEAN,
             CreateBegin(p, c, x, R, twice)
      PROVE  \A s \in Slot : Tied(req'[s], key') /\ History(s)'
  BY <1>3, <1>6 DEF CreateBegin
<1>7. ASSUME NEW a \in Account, KeyBegin(p, c, a)
      PROVE  \A s \in Slot : Tied(req'[s], key') /\ History(s)'
  BY <1>3, <1>7 DEF KeyBegin
<1> QED
  BY <1>4, <1>5, <1>6, <1>7 DEF Manage

(* The handlers that write roles, assignments, principals and keys.        *)
LEMMA HandlersFresh ==
    ASSUME FreshInv, NEW p \in Slot
    PROVE  /\ Attach(p) \/ DeleteGrants(p) \/ InsertGrants(p) \/ Assign(p)
              \/ InsertPrincipal(p) \/ SelectDefaults(p) \/ AssignInitial(p) =>
                 \A s \in Slot : Tied(req'[s], key') /\ History(s)'
           /\ \A u \in User : InsertRegistered(p, u) =>
                 \A s \in Slot : Tied(req'[s], key') /\ History(s)'
           /\ \A k \in Key : InsertKey(p, k) =>
                 \A s \in Slot : Tied(req'[s], key') /\ History(s)'
<1>1. ASSUME KeysKept, Observe, NEW pc, Goto(p, pc),
             pc \notin {"client", "account", "scopes"}
      PROVE  \A s \in Slot : Tied(req'[s], key') /\ History(s)'
  <2>1. Moved(p) /\ Tied(req'[p], key')
    BY <1>1, GotoFresh DEF FreshInv, Moved, Checking, Tied
  <2> QED
    BY <1>1, <2>1, GotoFresh, SlotFresh DEF FreshInv
<1>2. ASSUME Attach(p) \/ InsertGrants(p) \/ Assign(p) \/ AssignInitial(p)
      PROVE  \A s \in Slot : Tied(req'[s], key') /\ History(s)'
  BY <1>2, SameKeys, AnswerFresh
     DEF Attach, InsertGrants, Add, Assign, AssignInitial
<1>3. ASSUME DeleteGrants(p)
      PROVE  \A s \in Slot : Tied(req'[s], key') /\ History(s)'
  BY <1>1, <1>3, SameKeys, AnswerFresh DEF DeleteGrants
<1>4. ASSUME InsertPrincipal(p)
      PROVE  \A s \in Slot : Tied(req'[s], key') /\ History(s)'
  BY <1>1, <1>4, SameKeys, AnswerFresh DEF InsertPrincipal
<1>5. ASSUME SelectDefaults(p)
      PROVE  \A s \in Slot : Tied(req'[s], key') /\ History(s)'
  <2> DEFINE found == {d \in Default : OwnRole(d, ClientOf[req[p].who])}
             r == [req[p] EXCEPT !.pc = "initial", !.roles = found]
  <2>1. KeysKept /\ Observe
    BY <1>5, SameKeys DEF SelectDefaults, rows
  <2>2. req[p] \in Creation
    BY <1>5, Shapes DEF SelectDefaults, FreshInv, TypeOK
  <2>3. Answer(p) \/ req' = [req EXCEPT ![p].pc = "initial", ![p].roles = found]
    BY <1>5 DEF SelectDefaults
  <2> HIDE DEF found
  <2>4. r.pc = "initial"
    BY <2>2 DEF Creation
  <2>5. Answer(p) \/ req' = [req EXCEPT ![p] = r]
    BY <2>3
  <2> HIDE DEF r
  <2> QED
    BY <2>1, <2>4, <2>5, AnswerFresh, OutsideFresh
<1>6. ASSUME NEW u \in User, InsertRegistered(p, u)
      PROVE  \A s \in Slot : Tied(req'[s], key') /\ History(s)'
  <2> DEFINE r == [pc |-> "defaults", who |-> u, roles |-> {}, twice |-> FALSE]
  <2>1. req' = [req EXCEPT ![p] = r] /\ r.pc = "defaults"
    BY <1>6 DEF InsertRegistered, Start
  <2>2. KeysKept /\ Observe
    BY <1>6, SameKeys DEF InsertRegistered
  <2> HIDE DEF r
  <2> QED
    BY <2>1, <2>2, OutsideFresh
<1>7. ASSUME NEW k \in Key, InsertKey(p, k)
      PROVE  \A s \in Slot : Tied(req'[s], key') /\ History(s)'
  <2>1. KeysKept
    BY <1>7 DEF InsertKey, KeysKept, FreshInv, TypeOK
  <2> QED
    BY <1>7, <2>1, AnswerFresh DEF InsertKey
<1> QED
  BY <1>2, <1>3, <1>4, <1>5, <1>6, <1>7

(* The handlers of one statement, and time.                                *)
LEMMA SingleFresh ==
    ASSUME FreshInv, NEW c
    PROVE  /\ Single(c) => \A s \in Slot : Tied(req'[s], key') /\ History(s)'
           /\ \A k \in Key : ExpireKey(k) =>
                 \A s \in Slot : Tied(req'[s], key') /\ History(s)'
<1>1. ASSUME NEW k \in Key, NEW st, key[k] # NoKey,
             key' = [key EXCEPT ![k].state = st]
      PROVE  KeysKept
  <2>1. key[k] \in Credential
    BY <1>1 DEF FreshInv, TypeOK
  <2>2. [key[k] EXCEPT !.state = st] # NoKey
    BY <2>1 DEF Credential, NoKey
  <2> QED
    BY <1>1, <2>1, <2>2 DEF KeysKept, FreshInv, TypeOK, Credential
<1>2. ASSUME NEW k \in Key, NEW S, CreatePlainKey(c, k, S) PROVE KeysKept
  BY <1>2 DEF CreatePlainKey, KeysKept, FreshInv, TypeOK
<1>3. ASSUME NEW k \in Key, RevokeKey(c, k) \/ ExpireKey(k) PROVE KeysKept
  BY <1>1, <1>3 DEF RevokeKey, ExpireKey, NoKey
<1>4. ASSUME Single(c) PROVE KeysKept /\ Observe /\ UNCHANGED req
  BY <1>2, <1>3, <1>4, SameKeys
     DEF Single, DeleteRole, Unassign, SetAccount, SetClient, CreatePlainKey,
         RevokeKey
<1>5. ASSUME NEW k \in Key, ExpireKey(k)
      PROVE  KeysKept /\ Observe /\ UNCHANGED req
  BY <1>3, <1>5 DEF ExpireKey
<1> QED
  BY <1>4, <1>5, SameFresh

LEMMA StartCheckFresh ==
    ASSUME FreshInv, NEW p \in Slot, NEW k \in Key, NEW n \in Needed
    PROVE  /\ AuthenticateBegin(p, k, n) =>
                 \A s \in Slot : Tied(req'[s], key') /\ History(s)'
           /\ \A c \in Client : VerifyBegin(p, k, c, n) =>
                 \A s \in Slot : Tied(req'[s], key') /\ History(s)'
<1>1. ASSUME NEW pc \in {"client", "account", "scopes"}, NEW c \in Client,
             Usable(k), Start(p, CheckOf(pc, k, c, n)), UNCHANGED rows, Observe,
             key[k].client = c,
             pc # "client" => clientOn[c] /\ pc = AfterClient(k)
      PROVE  \A s \in Slot : Tied(req'[s], key') /\ History(s)'
  <2>1. KeysKept /\ key' = key /\ presence' = presence /\ clientOn' = clientOn
    BY <1>1, SameKeys DEF rows
  <2>2. /\ req'[p].pc = pc /\ req'[p].key = k /\ req'[p].client = c
        /\ \A s \in Slot : s # p => req'[s] = req[s]
    BY <1>1 DEF Start, CheckOf, FreshInv, TypeOK
  <2>3. key[k] # NoKey /\ key[k].state = "live"
    BY <1>1 DEF Usable, NoKey
  <2>4. /\ pc = "account" => key[k].account # NoAccount
        /\ pc = "scopes" => key[k].account = NoAccount
    BY <1>1 DEF AfterClient
  <2>5. Tied(req'[p], key')
    BY <1>1, <2>1, <2>2, <2>3, <2>4 DEF Tied
  <2>6. ~Checking(p)
    BY <1>1 DEF Start, Checking, Idle
  <2>7. "key" \in Met(p)'
    BY <2>1, <2>2, <2>3, ConditionsNext
  <2>8. pc # "client" => "client" \in Met(p)'
    BY <1>1, <2>1, <2>2, ConditionsNext
  <2>9. pc = "scopes" => "account" \in Met(p)'
    BY <2>1, <2>2, <2>4, ConditionsNext
  <2>10. Moved(p)
    BY <2>2, <2>6, <2>7, <2>8, <2>9 DEF Moved
  <2> QED
    BY <1>1, <2>1, <2>2, <2>5, <2>10, SlotFresh
<1>2. ASSUME AuthenticateBegin(p, k, n)
      PROVE  \A s \in Slot : Tied(req'[s], key') /\ History(s)'
  <2>1. key[k].client \in Client
    BY <1>2, UsableKeys DEF FreshInv, AuthenticateBegin, Credential
  <2> QED
    BY <1>1, <1>2, <2>1 DEF AuthenticateBegin
<1>3. ASSUME NEW c \in Client, VerifyBegin(p, k, c, n)
      PROVE  \A s \in Slot : Tied(req'[s], key') /\ History(s)'
  <2>1. AfterClient(k) \in {"account", "scopes"}
    BY DEF AfterClient
  <2> QED
    BY <1>1, <1>3, <2>1 DEF VerifyBegin, Audience
<1> QED
  BY <1>2, <1>3

LEMMA PassCheckFresh ==
    ASSUME FreshInv, NEW p \in Slot
    PROVE  /\ CheckClient(p) \/ CheckAccount(p) =>
                 \A s \in Slot : Tied(req'[s], key') /\ History(s)'
           /\ Admit(p) \/ Refuse(p) \/ Abort(p) =>
                 \A s \in Slot : Tied(req'[s], key') /\ History(s)'
<1>1. ASSUME NEW pc \in {"account", "scopes"}, Goto(p, pc), UNCHANGED rows,
             Observe, req[p].pc \in {"client", "account"},
             "client" \in Met(p) \/ req[p].pc # "client",
             pc = "scopes" => "account" \in Met(p),
             pc = "account" => key[req[p].key].account # NoAccount
      PROVE  \A s \in Slot : Tied(req'[s], key') /\ History(s)'
  <2>1. KeysKept /\ key' = key
    BY <1>1, SameKeys DEF rows
  <2>2. req[p] \in Check
    BY <1>1, Shapes DEF FreshInv, TypeOK
  <2>3. /\ req'[p].pc = pc
        /\ req'[p].key = req[p].key /\ req'[p].client = req[p].client
        /\ \A s \in Slot : s # p => req'[s] = req[s]
    <3>1. /\ req'[p] = [req[p] EXCEPT !.pc = pc] /\ req'[p].pc = pc
          /\ \A s \in Slot : s # p => req'[s] = req[s]
      BY <1>1, GotoFresh DEF FreshInv
    <3>2. /\ [req[p] EXCEPT !.pc = pc].key = req[p].key
          /\ [req[p] EXCEPT !.pc = pc].client = req[p].client
      BY <2>2 DEF Check
    <3> QED
      BY <3>1, <3>2
  <2>4. Tied(req[p], key)
    BY DEF FreshInv
  <2>5. Tied(req'[p], key')
    BY <1>1, <2>1, <2>3, <2>4 DEF Tied
  <2>6. Moved(p)
    BY <1>1, <2>3 DEF Moved, Checking
  <2> QED
    BY <1>1, <2>1, <2>3, <2>5, <2>6, SlotFresh
<1>2. ASSUME CheckClient(p)
      PROVE  \A s \in Slot : Tied(req'[s], key') /\ History(s)'
  <2>1. key[req[p].key].client = req[p].client
    BY <1>2 DEF FreshInv, Tied, CheckClient
  <2>2. "client" \in Met(p)
    BY <1>2, <2>1, Conditions DEF CheckClient
  <2>3. /\ AfterClient(req[p].key) \in {"account", "scopes"}
        /\ AfterClient(req[p].key) = "scopes" => "account" \in Met(p)
        /\ AfterClient(req[p].key) = "account" =>
              key[req[p].key].account # NoAccount
    BY Conditions DEF AfterClient
  <2> QED
    BY <1>1, <1>2, <2>2, <2>3 DEF CheckClient
<1>3. ASSUME CheckAccount(p)
      PROVE  \A s \in Slot : Tied(req'[s], key') /\ History(s)'
  <2>1. "account" \in Met(p)
    BY <1>3, Conditions DEF CheckAccount, Standing
  <2> QED
    BY <1>1, <1>3, <2>1 DEF CheckAccount
<1>4. ASSUME Admit(p) \/ Refuse(p) \/ Abort(p)
      PROVE  \A s \in Slot : Tied(req'[s], key') /\ History(s)'
  BY <1>4, SameKeys, AnswerFresh DEF Admit, Refuse, Abort, rows
<1> QED
  BY <1>2, <1>3, <1>4

LEMMA FreshInit == Init => FreshInv
<1> SUFFICES ASSUME Init PROVE FreshInv
  OBVIOUS
<1>1. \A p \in Slot : req[p].pc = "idle"
  BY DEF Init, Idle
<1> QED
  BY <1>1, TypeInit DEF FreshInv, Tied, History, Checking

LEMMA FreshNext == ASSUME FreshInv, [Next]_vars PROVE FreshInv'
<1> SUFFICES \A s \in Slot : Tied(req'[s], key') /\ History(s)'
  BY TypeNext DEF FreshInv
<1>1. ASSUME NEW p \in Slot, Begin(p)
      PROVE  \A s \in Slot : Tied(req'[s], key') /\ History(s)'
  <2>1. Managed \subseteq Client
    BY OwnerAssumption
  <2> QED
    BY <1>1, <2>1, ManageFresh, HandlersFresh, StartCheckFresh DEF Begin
<1>2. ASSUME NEW p \in Slot, Continue(p)
      PROVE  \A s \in Slot : Tied(req'[s], key') /\ History(s)'
  BY <1>2, HandlersFresh, PassCheckFresh DEF Continue
<1>3. ASSUME NEW p \in Slot, Abort(p)
      PROVE  \A s \in Slot : Tied(req'[s], key') /\ History(s)'
  BY <1>3, PassCheckFresh
<1>4. ASSUME NEW c \in Managed, Single(c)
      PROVE  \A s \in Slot : Tied(req'[s], key') /\ History(s)'
  BY <1>4, SingleFresh
<1>5. ASSUME NEW k \in Key, ExpireKey(k)
      PROVE  \A s \in Slot : Tied(req'[s], key') /\ History(s)'
  BY <1>5, SingleFresh
<1>6. ASSUME UNCHANGED vars
      PROVE  \A s \in Slot : Tied(req'[s], key') /\ History(s)'
  <2>1. \A s \in Slot : Met(s)' = Met(s)
    BY <1>6 DEF vars, rows, Met, PermitsKey, Permits, Scopes, PermissionsOf
  <2> QED
    BY <1>6, <2>1 DEF FreshInv, vars, rows, Tied, History, Checking
<1> QED
  BY <1>1, <1>2, <1>3, <1>4, <1>5, <1>6 DEF Next

LEMMA Pair ==
    ASSUME NEW S, NEW a \in S, NEW b \in S
    PROVE  <<a, b>> \in Seq(S) /\ Len(<<a, b>>) = 2
  OBVIOUS

(* A name of two parts, the second a star, is the resource's wildcard.     *)
LEMMA Wildcard ==
    ASSUME NEW n \in Name, NEW need, Len(n) = 2, n[1] = need[1], n[2] = "*"
    PROVE  n = <<need[1], "*">>
<1>1. n \in Seq(STRING) /\ Len(n) = 2
  BY DEF Name
<1>2. n[1] \in STRING /\ n[2] \in STRING
  BY <1>1, ElementOfSeq
<1>3. <<n[1], "*">> \in Seq(STRING) /\ Len(<<n[1], "*">>) = 2
  BY <1>2, Pair
<1>4. \A i \in 1 .. 2 : n[i] = <<n[1], "*">>[i]
  OBVIOUS
<1> QED
  BY <1>1, <1>3, <1>4, SeqEqual

(* What hasScope admits is what a user's permissions would permit, and the *)
(* third form for names of more than two parts, whatever the names.        *)
LEMMA KeyRule ==
    ASSUME NEW granted \in SUBSET Name, NEW need
    PROVE  HasScope(granted, need) <=> PermitsKey(granted, need)
<1>1. ASSUME NEW n \in granted, Len(n) > 1, n[1] = need[1], n[2] = "*"
      PROVE  PermitsKey(granted, need)
  <2>0. n \in Name
    BY <1>1
  <2>1. Len(n) \in Nat
    BY <2>0 DEF Name
  <2>2. CASE Len(n) = 2
    <3>1. n = <<need[1], "*">>
      BY <1>1, <2>0, <2>2, Wildcard
    <3>2. <<need[1], "*">> \in granted
      BY <1>1, <3>1
    <3> QED
      BY <3>2 DEF PermitsKey, Permits
  <2>3. CASE Len(n) > 2
    <3>1. \E s \in granted : Len(s) > 2 /\ s[1] = need[1] /\ s[2] = "*"
      BY <1>1, <2>3
    <3> QED
      BY <3>1 DEF PermitsKey
  <2>4. Len(n) > 1
    BY <1>1
  <2>5. \A l \in Nat : l > 1 => l = 2 \/ l > 2
    OBVIOUS
  <2>6. Len(n) = 2 \/ Len(n) > 2
    BY <2>1, <2>4, <2>5, Zenon
  <2> QED
    BY <2>2, <2>3, <2>6
<1>2. HasScope(granted, need) => PermitsKey(granted, need)
  BY <1>1 DEF HasScope, PermitsKey, Permits
<1>3. ASSUME <<need[1], "*">> \in granted PROVE HasScope(granted, need)
  <2> DEFINE s == <<need[1], "*">>
  <2>1. s[1] = need[1] /\ Len(s) > 1 /\ s[2] = "*"
    OBVIOUS
  <2> QED
    BY <1>3, <2>1 DEF HasScope
<1>4. ASSUME NEW n \in granted, Len(n) > 2, n[1] = need[1], n[2] = "*"
      PROVE  HasScope(granted, need)
  <2>1. Len(n) \in Nat
    BY DEF Name
  <2>2. Len(n) > 1
    BY <1>4, <2>1
  <2> QED
    BY <1>4, <2>2 DEF HasScope
<1>5. PermitsKey(granted, need) => HasScope(granted, need)
  BY <1>3, <1>4 DEF HasScope, PermitsKey, Permits
<1> QED
  BY <1>2, <1>5

(* "The same matching rules apply to user permissions, service account      *)
(* permissions and API key scopes", of the contract: so they do for names   *)
(* of at most two parts, the contract's own vocabulary.                     *)
THEOREM SameRules ==
    ASSUME NEW granted \in SUBSET Name, NEW need, \A n \in granted : Len(n) <= 2
    PROVE  HasScope(granted, need) <=> Permits(granted, need)
<1>1. \A n \in granted : ~(Len(n) > 2)
  <2> SUFFICES ASSUME NEW n \in granted PROVE ~(Len(n) > 2)
    OBVIOUS
  <2>1. Len(n) \in Nat
    BY DEF Name
  <2> QED
    BY <2>1
<1> QED
  BY <1>1, KeyRule DEF PermitsKey

(* What a key grants are names.                                            *)
LEMMA KeyNames ==
    ASSUME TypeOK, NEW k \in Key, key[k] \in Credential
    PROVE  Scopes(k) \in SUBSET Name
<1>1. CASE key[k].account = NoAccount
  BY <1>1, NameAssumption DEF Scopes, Credential
<1>2. CASE key[k].account # NoAccount
  <2>1. key[k].account \in Principal
    BY <1>2 DEF Credential, Principal
  <2>2. Scopes(k) \subseteq {NameOf[q] : q \in Permission}
    BY <1>2, <2>1 DEF Scopes, PermissionsOf, TypeOK
  <2>3. {NameOf[q] : q \in Permission} \subseteq Name
    BY NameAssumption
  <2> QED
    BY <2>2, <2>3
<1> QED
  BY <1>1, <1>2

LEMMA ScopesStep ==
    ASSUME FreshInv, NEW p \in Slot, req[p].pc = "scopes"
    PROVE  HasScope(Scopes(req[p].key), req[p].need) <=> "permission" \in Met(p)
<1>1. req[p].key \in Key
  BY Shapes DEF FreshInv, TypeOK, Check
<1>2. key[req[p].key] \in Credential
  BY <1>1 DEF FreshInv, TypeOK, Tied
<1>3. Scopes(req[p].key) \in SUBSET Name
  BY <1>1, <1>2, KeyNames DEF FreshInv
<1>4. HasScope(Scopes(req[p].key), req[p].need)
         <=> PermitsKey(Scopes(req[p].key), req[p].need)
  BY <1>3, KeyRule
<1> QED
  BY <1>4, Conditions

(* An admitted key met each condition at some time since its check began.  *)
THEOREM AdmittedFreshHolds == Spec => AdmittedFresh
<1>1. ASSUME FreshInv, NEW p \in Slot, Admit(p) PROVE unseen[p] = {}
  <2>1. req[p].pc = "scopes" /\ Checking(p)
    BY <1>1 DEF Admit, Checking
  <2>2. "permission" \in Met(p)
    BY <1>1, <2>1, ScopesStep DEF Admit
  <2>3. unseen[p] \subseteq {"key", "client", "account", "permission"}
    BY <1>1 DEF FreshInv, TypeOK, Condition
  <2> QED
    BY <1>1, <2>1, <2>2, <2>3 DEF FreshInv, History
<1>2. FreshInv /\ [Next]_vars =>
         [\A p \in Slot : Admit(p) => unseen[p] = {}]_vars
  BY <1>1
<1> QED
  BY <1>2, FreshInit, FreshNext, PTL DEF Spec, AdmittedFresh

(* A key that met all conditions ever since its check began is not         *)
(* refused.                                                                *)
THEOREM RefusedRightlyHolds == Spec => RefusedRightly
<1>1. ASSUME FreshInv, NEW p \in Slot, Refuse(p) PROVE gap[p]
  <2>1. Checking(p)
    BY <1>1 DEF Refuse, Checking
  <2>2. Tied(req[p], key)
    BY <1>1 DEF FreshInv
  <2>3. req[p].pc = "client" /\ ~clientOn[req[p].client] =>
           "client" \notin Met(p)
    BY Conditions
  <2>4. req[p].pc = "account" /\ ~Standing(key[req[p].key].account) =>
           "account" \notin Met(p)
    BY <2>2, Conditions DEF Tied, Standing
  <2>5. req[p].pc = "scopes" /\ ~HasScope(Scopes(req[p].key), req[p].need) =>
           "permission" \notin Met(p)
    BY <1>1, ScopesStep
  <2>6. Met(p) # Condition
    BY <1>1, <2>3, <2>4, <2>5 DEF Refuse, Condition
  <2> QED
    BY <1>1, <2>1, <2>6 DEF FreshInv, History
<1>2. FreshInv /\ [Next]_vars => [\A p \in Slot : Refuse(p) => gap[p]]_vars
  BY <1>1
<1> QED
  BY <1>2, FreshInit, FreshNext, PTL DEF Spec, RefusedRightly
=============================================================================
