------------------------ MODULE AccountTokens_proofs ------------------------
(* Proofs about AccountTokens, for any accounts, applications, passwords    *)
(* and requests, and any number of links and sessions.                      *)
EXTENDS AccountTokens, FiniteSetTheorems, TLAPS

Known(u, A) == A[u].origin # "none"

\* What a request carries at its position, in accounts A, tokens T and mailed
\* links M: an account that exists; a mailed link of that account and of the
\* purpose it is redeemed for; once checked, the account's own application; the
\* password of the row it read, and one to write over it.
Carries(r, A, T, M) ==
    /\ r.pc = "insert" =>
          /\ r.mode \in {"register", "invite", "oauth"}
          /\ r.mode = "register" => r.pw \in Password
    /\ r.pc \in {"link", "session", "rotate", "issue", "mail", "owner", "consume",
                 "write", "revoke", "apply"} => Known(r.user, A)
    /\ r.pc = "mail" => r.tok \in DOMAIN T
    /\ r.pc \in {"owner", "consume"} => r.mode \in {"reset", "verify"}
    /\ r.pc = "write" => r.mode \in {"reset", "verify", "change"}
    /\ r.pc \in {"owner", "consume", "write"} /\ r.mode # "change" =>
          /\ r.tok \in DOMAIN T /\ r.tok \in M
          /\ T[r.tok].user = r.user /\ T[r.tok].purpose = PurposeOf(r.mode)
          /\ r.mode = "reset" => r.pw \in Password
    /\ r.pc \in {"consume", "write"} => r.client = ClientOf[r.user]
    /\ r.pc = "write" /\ r.mode = "change" =>
          /\ r.tok = NoToken /\ r.pw \in Password
          /\ r.seen # NoPassword /\ r.current = r.seen

\* An account that does not exist is blank, and nothing belongs to it.
Rooted(A, T, S) ==
    /\ \A u \in User : ~Known(u, A) => A[u] = NoAccount
    /\ \A t \in DOMAIN T : Known(T[t].user, A)
    /\ \A i \in DOMAIN S : Known(S[i].user, A)

TypeInv ==
    /\ TypeOK
    /\ \A p \in Slot : Carries(req[p], account, token, mailed)
    /\ Rooted(account, token, session)

\* No account is ever taken away, nor its provider; no link changes hands.
Grows(A, B) == \A u \in User : Known(u, A) => Known(u, B)
Extends(T, U) ==
    /\ DOMAIN T \subseteq DOMAIN U
    /\ \A t \in DOMAIN T : U[t].user = T[t].user /\ U[t].purpose = T[t].purpose

\* Sessions, each of an account that had one before.
Rows(S) == \E n \in 0 .. MaxSessions : S \in [1 .. n -> Session]
Owned(S, R) == \A i \in DOMAIN R : \E k \in DOMAIN S : R[i].user = S[k].user

\* A request that is overtaken carries what it carried.
Others(p) ==
    \A q \in Slot : q # p =>
        req'[q] = req[q] \/ req'[q] = [req[q] EXCEPT !.overtaken = TRUE]

LEMMA Types ==
    ASSUME TypeInv
    PROVE  /\ account \in [User -> Account] /\ mailed \subseteq Issued
           /\ req \in [Slot -> Request] /\ writes \in [Issued -> Nat]
           /\ \A p \in Slot : req[p].user \in User
           /\ \A t \in Issued : t \in Nat /\ t # NoToken /\ token[t] \in Token
           /\ \A i \in Opened : i \in Nat /\ session[i] \in Session
                                /\ session[i].user \in User
<1>1. /\ account \in [User -> Account] /\ mailed \subseteq Issued
      /\ req \in [Slot -> Request] /\ writes \in [Issued -> Nat]
  BY DEF TypeInv, TypeOK
<1>2. \A p \in Slot : req[p].user \in User
  BY <1>1 DEF Request
<1>3. PICK n \in 0 .. MaxTokens : token \in [1 .. n -> Token]
  BY DEF TypeInv, TypeOK
<1>4. \A t \in Issued : t \in Nat /\ t # NoToken /\ token[t] \in Token
  BY <1>3, BoundAssumption DEF Issued, NoToken
<1>5. PICK k \in 0 .. MaxSessions : session \in [1 .. k -> Session]
  BY DEF TypeInv, TypeOK
<1>6. \A i \in Opened : i \in Nat /\ session[i] \in Session
  BY <1>5, BoundAssumption DEF Opened
<1>7. \A i \in Opened : session[i].user \in User
  BY <1>6 DEF Session
<1> QED
  BY <1>1, <1>2, <1>4, <1>6, <1>7

LEMMA SessionsTyped ==
    ASSUME TypeInv
    PROVE  Rows(session) /\ Owned(session, session)
<1>1. Rows(session)
  BY DEF TypeInv, TypeOK, Rows
<1>2. Owned(session, session)
  BY DEF Owned
<1> QED
  BY <1>1, <1>2

LEMMA IdleType == Idle \in Request
<1>1. AnyUser \in User
  BY UserAssumption DEF AnyUser
<1>2. ClientOf[AnyUser] \in Client
  BY <1>1, UserAssumption
<1>3. NoToken \in Nat
  BY DEF NoToken
<1> QED
  BY <1>1, <1>2, <1>3 DEF Idle, Request, Position, Mode

LEMMA IdleCarries ==
    ASSUME NEW A, NEW T, NEW M
    PROVE  Carries(Idle, A, T, M)
  BY DEF Carries, Idle

LEMMA CarriesOn ==
    ASSUME NEW r \in Request, NEW A, NEW B, NEW T, NEW U, NEW M, NEW N,
           Grows(A, B), Extends(T, U), M \subseteq N, Carries(r, A, T, M)
    PROVE  Carries(r, B, U, N)
<1>1. r.user \in User
  BY DEF Request
<1> QED
  BY <1>1 DEF Carries, Grows, Extends, Known

LEMMA Same ==
    /\ \A A : Grows(A, A)
    /\ \A T : Extends(T, T)
  BY DEF Grows, Extends

\* What every step has to show.
LEMMA TypeNext ==
    ASSUME TypeInv, NEW p,
           account' \in [User -> Account], Grows(account, account'),
           \E n \in 0 .. MaxTokens : token' \in [1 .. n -> Token],
           Extends(token, token'),
           mailed \subseteq mailed', mailed' \subseteq DOMAIN token',
           Rows(session'), writes' \in [DOMAIN token' -> Nat],
           Rooted(account', token', session'),
           req' \in [Slot -> Request], Others(p),
           p \in Slot => Carries(req'[p], account', token', mailed')
    PROVE  TypeInv'
<1>1. ASSUME NEW q \in Slot PROVE Carries(req'[q], account', token', mailed')
  <2>1. CASE q = p
    BY <2>1
  <2>2. CASE q # p
    <3>1. req[q] \in Request /\ Carries(req[q], account, token, mailed)
      BY Types DEF TypeInv
    <3>2. Carries(req[q], account', token', mailed')
      BY <3>1, CarriesOn
    <3>3. Carries([req[q] EXCEPT !.overtaken = TRUE], account', token', mailed')
      BY <3>1, <3>2 DEF Carries, Request
    <3> QED
      BY <2>2, <3>2, <3>3 DEF Others
  <2> QED
    BY <2>1, <2>2
<1>2. TypeOK'
  BY DEF TypeOK, Issued, Rows
<1>3. Rooted(account, token, session)'
  BY DEF Rooted, Known
<1>4. (\A q \in Slot : Carries(req[q], account, token, mailed))'
  BY <1>1 DEF Carries, Known
<1> QED
  BY <1>2, <1>3, <1>4 DEF TypeInv

\* Steps that touch only a request and sessions.
Becomes(p, r) == req' = [req EXCEPT ![p] = r]

LEMMA RequestMoves ==
    ASSUME TypeInv, NEW p \in Slot, NEW r \in Request, Becomes(p, r)
    PROVE  req' \in [Slot -> Request] /\ Others(p) /\ req'[p] = r
  BY Types DEF Becomes, Others

LEMMA TypeSessions ==
    ASSUME TypeInv, NEW p \in Slot, NEW r \in Request, Becomes(p, r),
           UNCHANGED <<account, token, mailed, writes>>,
           Rows(session'), \A i \in DOMAIN session' : Known(session'[i].user, account),
           Carries(r, account, token, mailed)
    PROVE  TypeInv'
<1>1. req' \in [Slot -> Request] /\ Others(p) /\ req'[p] = r
  BY RequestMoves
<1>2. /\ account' \in [User -> Account] /\ mailed' \subseteq DOMAIN token'
      /\ writes' \in [DOMAIN token' -> Nat]
      /\ \E n \in 0 .. MaxTokens : token' \in [1 .. n -> Token]
  BY DEF TypeInv, TypeOK, Issued
<1>3. Grows(account, account') /\ Extends(token, token') /\ mailed \subseteq mailed'
  BY Same
<1>4. Rooted(account', token', session')
  BY DEF TypeInv, Rooted
<1>5. Carries(req'[p], account', token', mailed')
  BY <1>1
<1> QED
  BY <1>1, <1>2, <1>3, <1>4, <1>5, TypeNext

LEMMA TypeMoves ==
    ASSUME TypeInv, NEW p \in Slot, NEW r \in Request, Becomes(p, r),
           UNCHANGED <<account, token, mailed, session, writes>>,
           Carries(r, account, token, mailed)
    PROVE  TypeInv'
<1>1. Rows(session')
  BY SessionsTyped
<1>2. \A i \in DOMAIN session' : Known(session'[i].user, account)
  BY DEF TypeInv, Rooted
<1> QED
  BY <1>1, <1>2, TypeSessions

\* Steps that write an account.
LEMMA TypeWrites ==
    ASSUME TypeInv, NEW p, req' \in [Slot -> Request], Others(p),
           NEW u \in User, NEW a \in Account, account' = [account EXCEPT ![u] = a],
           a.origin # "none",
           UNCHANGED <<token, mailed>>, Rows(session'), Owned(session, session'),
           writes' \in [DOMAIN token' -> Nat],
           p \in Slot => Carries(req'[p], account', token', mailed')
    PROVE  TypeInv'
<1>1. account \in [User -> Account]
  BY Types
<1>2. account' \in [User -> Account] /\ Grows(account, account')
  BY <1>1 DEF Grows, Known
<1>3. /\ mailed' \subseteq DOMAIN token'
      /\ \E n \in 0 .. MaxTokens : token' \in [1 .. n -> Token]
  BY DEF TypeInv, TypeOK, Issued
<1>4. Extends(token, token') /\ mailed \subseteq mailed'
  BY Same
<1>5. Rooted(account', token', session')
  <2>1. \A v \in User : account'[v] = IF v = u THEN a ELSE account[v]
    BY <1>1
  <2>2. \A v \in User : Known(v, account) => Known(v, account')
    BY <2>1 DEF Known
  <2>3. \A t \in DOMAIN token : token[t].user \in User
    BY Types DEF Issued, Token
  <2>4. \A i \in DOMAIN session : session[i].user \in User /\ Known(session[i].user, account)
    BY Types DEF Opened, TypeInv, Rooted
  <2> HIDE DEF Known
  <2>5. \A v \in User : ~Known(v, account') => account'[v] = NoAccount
    BY <2>1, <2>2 DEF TypeInv, Rooted, Known
  <2>6. \A i \in DOMAIN session' : Known(session'[i].user, account')
    BY <2>2, <2>4 DEF Owned
  <2> QED
    BY <2>2, <2>3, <2>5, <2>6 DEF TypeInv, Rooted
<1> QED
  BY <1>2, <1>3, <1>4, <1>5, TypeNext

-----------------------------------------------------------------------------
(* How requests and sessions move                                          *)

LEMMA Answering ==
    ASSUME NEW p \in Slot, Answer(p)
    PROVE  Becomes(p, Idle) /\ Idle \in Request
  BY IdleType DEF Answer, Becomes

LEMMA Going ==
    ASSUME TypeInv, NEW p \in Slot, NEW pc \in Position, Goto(p, pc)
    PROVE  /\ Becomes(p, [req[p] EXCEPT !.pc = pc])
           /\ [req[p] EXCEPT !.pc = pc] \in Request
<1>1. req[p] \in Request
  BY Types
<1> QED
  BY <1>1 DEF Goto, Becomes, Request

LEMMA BegunType ==
    ASSUME NEW pc \in Position, NEW mode \in Mode, NEW u \in User,
           NEW w \in Password \cup {NoPassword}
    PROVE  /\ Begun(pc, mode, u, w) \in Request
           /\ Begun(pc, mode, u, w).pc = pc /\ Begun(pc, mode, u, w).mode = mode
           /\ Begun(pc, mode, u, w).user = u /\ Begun(pc, mode, u, w).pw = w
           /\ Begun(pc, mode, u, w).client = ClientOf[u]
           /\ Begun(pc, mode, u, w).tok = NoToken
<1>1. ClientOf[u] \in Client
  BY UserAssumption
<1> QED
  BY <1>1, IdleType DEF Begun, Idle, Request

LEMMA Starting ==
    ASSUME NEW p \in Slot, NEW pc, NEW mode, NEW u, NEW w, StartWith(p, pc, mode, u, w)
    PROVE  Becomes(p, Begun(pc, mode, u, w)) /\ req[p] = Idle
  BY DEF StartWith, Becomes

LEMMA StartCarries ==
    ASSUME NEW pc \in Position, NEW mode \in Mode, NEW u \in User,
           NEW w \in Password \cup {NoPassword}, NEW A, NEW T, NEW M,
           pc \in {"insert", "link", "session", "rotate", "issue", "revoke"},
           pc = "insert" => mode \in {"invite", "oauth"} \/ (mode = "register" /\ w \in Password),
           pc # "insert" => Known(u, A)
    PROVE  Carries(Begun(pc, mode, u, w), A, T, M)
<1> DEFINE r == Begun(pc, mode, u, w)
<1>1. r.pc = pc /\ r.mode = mode /\ r.pw = w /\ r.user = u
  BY BegunType
<1> HIDE DEF r
<1>2. Carries(r, A, T, M)
  BY <1>1 DEF Carries
<1> QED
  BY <1>2 DEF r

\* A request that goes on while every login of an account is overtaken.
LEMMA Overtaking ==
    ASSUME TypeInv, NEW p \in Slot, NEW r \in Request, NEW u,
           req' = Overtake(u, [req EXCEPT ![p] = r]), r.pc # "session"
    PROVE  req' \in [Slot -> Request] /\ Others(p) /\ req'[p] = r
<1> DEFINE R == [req EXCEPT ![p] = r]
<1>1. R \in [Slot -> Request] /\ R[p] = r /\ \A q \in Slot : q # p => R[q] = req[q]
  BY Types
<1>2. req' = Overtake(u, R)
  OBVIOUS
<1> HIDE DEF R
<1>3. req' = [q \in Slot |-> IF R[q].pc = "session" /\ R[q].user = u
                             THEN [R[q] EXCEPT !.overtaken = TRUE] ELSE R[q]]
  BY <1>2 DEF Overtake
<1>4. \A q \in Slot : [R[q] EXCEPT !.overtaken = TRUE] \in Request
  BY <1>1 DEF Request
<1>5. req' \in [Slot -> Request] /\ req'[p] = r
  BY <1>1, <1>3, <1>4
<1>6. Others(p)
  BY <1>1, <1>3 DEF Others
<1> QED
  BY <1>5, <1>6

\* Rows that are only marked keep their number and their owners.
LEMMA Marking ==
    ASSUME TypeInv, NEW F \in [Opened -> Session], session' = F,
           \A i \in Opened : F[i].user = session[i].user
    PROVE  /\ Rows(session') /\ Owned(session, session') /\ Opened' = Opened
           /\ \A i \in Opened : session'[i] = F[i]
           /\ \A i \in DOMAIN session' : Known(session'[i].user, account)
<1>1. PICK n \in 0 .. MaxSessions : session \in [1 .. n -> Session]
  BY DEF TypeInv, TypeOK
<1>2. Opened = 1 .. n /\ DOMAIN session = Opened /\ DOMAIN session' = Opened
  BY <1>1 DEF Opened
<1>3. Rows(session')
  BY <1>2 DEF Rows
<1>4. Owned(session, session')
  BY <1>2 DEF Owned
<1>5. \A i \in DOMAIN session' : Known(session'[i].user, account)
  BY <1>2 DEF TypeInv, Rooted
<1> QED
  BY <1>2, <1>3, <1>4, <1>5 DEF Opened

\* The next row, after the ones there are.
LEMMA NextRow ==
    ASSUME TypeInv
    PROVE  \E n \in 0 .. MaxSessions :
              /\ Cardinality(Opened) = n /\ Opened = 1 .. n
              /\ session \in [1 .. n -> Session] /\ n \in Nat
              /\ \A i \in 1 .. n : i \in 1 .. n + 1 /\ i # n + 1
              /\ \A i \in 1 .. n + 1 : i \in 1 .. n \/ i = n + 1
<1> PICK n \in 0 .. MaxSessions : session \in [1 .. n -> Session]
  BY DEF TypeInv, TypeOK
<1>1. n \in Nat /\ Opened = 1 .. n
  BY BoundAssumption DEF Opened
<1>2. Cardinality(Opened) = n
  BY <1>1, FS_Interval
<1>3. /\ \A i \in 1 .. n : i \in 1 .. n + 1 /\ i # n + 1
      /\ \A i \in 1 .. n + 1 : i \in 1 .. n \/ i = n + 1
  BY <1>1
<1> QED
  BY <1>1, <1>2, <1>3

LEMMA Adding ==
    ASSUME TypeInv, NEW s \in Session, Known(s.user, account), Add(s)
    PROVE  /\ Rows(session')
           /\ \A i \in DOMAIN session' : Known(session'[i].user, account)
           /\ \A i \in Opened' : session'[i] = s \/ (i \in Opened /\ session'[i] = session[i])
<1> PICK n \in 0 .. MaxSessions :
       /\ Cardinality(Opened) = n /\ Opened = 1 .. n
       /\ session \in [1 .. n -> Session] /\ n \in Nat
       /\ \A i \in 1 .. n : i \in 1 .. n + 1 /\ i # n + 1
       /\ \A i \in 1 .. n + 1 : i \in 1 .. n \/ i = n + 1
  BY NextRow
<1>1. /\ n + 1 <= MaxSessions
      /\ session' = [i \in 1 .. n + 1 |-> IF i = n + 1 THEN s ELSE session[i]]
  BY DEF Add
<1>2. n + 1 \in 0 .. MaxSessions
  BY <1>1, BoundAssumption
<1>3. session' \in [1 .. n + 1 -> Session]
  BY <1>1
<1>4. \A i \in 1 .. n + 1 : session'[i] = s \/ (i \in 1 .. n /\ session'[i] = session[i])
  BY <1>1
<1>5. \A i \in 1 .. n : Known(session[i].user, account)
  BY DEF TypeInv, Rooted
<1> QED
  BY <1>2, <1>3, <1>4, <1>5 DEF Rows, Opened

\* Every session of the account is stale, for no reason yet.
LEMMA Outdating ==
    ASSUME TypeInv, NEW u, Outdate(u)
    PROVE  /\ Rows(session') /\ Owned(session, session') /\ Opened' = Opened
           /\ \A i \in DOMAIN session' : Known(session'[i].user, account)
           /\ \A i \in Opened : /\ session'[i].user = session[i].user
                                /\ session[i].user = u \/ session'[i] = session[i]
<1> DEFINE o(i) == [session[i] EXCEPT !.stale = TRUE, !.excuse = "none"]
           F == [i \in Opened |-> IF session[i].user = u /\ session[i].live
                                  THEN o(i) ELSE session[i]]
<1>1. \A i \in Opened : o(i) \in Session /\ o(i).user = session[i].user
  BY Types DEF Session
<1> HIDE DEF o
<1>2. /\ F \in [Opened -> Session]
      /\ \A i \in Opened : /\ F[i].user = session[i].user
                           /\ session[i].user = u \/ F[i] = session[i]
  BY <1>1, Types
<1>3. session' = F
  BY DEF Outdate, o
<1> HIDE DEF F
<1> QED
  BY <1>2, <1>3, Marking

-----------------------------------------------------------------------------
(* Type correctness, and what requests carry                               *)

LEMMA TypeInit == Init => TypeInv
<1> SUFFICES ASSUME Init PROVE TypeInv
  OBVIOUS
<1>1. 1 .. 0 = {} /\ 0 \in 0 .. MaxTokens /\ 0 \in 0 .. MaxSessions
  BY BoundAssumption
<1>2. /\ \E n \in 0 .. MaxTokens : token \in [1 .. n -> Token]
      /\ \E n \in 0 .. MaxSessions : session \in [1 .. n -> Session]
  <2>1. token \in [1 .. 0 -> Token] /\ session \in [1 .. 0 -> Session]
    BY <1>1 DEF Init
  <2> QED
    BY <1>1, <2>1
<1>3. NoAccount \in Account
  BY DEF NoAccount, Account, Origin
<1>4. account \in [User -> Account] /\ req \in [Slot -> Request]
  BY <1>3, IdleType DEF Init
<1>5. TypeOK
  BY <1>2, <1>4 DEF Init, TypeOK, Issued
<1>6. \A p \in Slot : Carries(req[p], account, token, mailed)
  BY IdleCarries DEF Init
<1>7. Rooted(account, token, session)
  BY DEF Init, Rooted
<1> QED
  BY <1>5, <1>6, <1>7 DEF TypeInv

\* An account that is active, or has a password, exists.
LEMMA Existing ==
    ASSUME TypeInv, NEW u \in User, account[u].active \/ account[u].pw # NoPassword
    PROVE  Known(u, account)
  BY DEF TypeInv, Rooted, NoAccount

\* The requests that begin with what StartCarries says.
LEMMA TypeStarts ==
    ASSUME TypeInv, NEW p \in Slot, NEW pc \in Position, NEW mode \in Mode, NEW u \in User,
           NEW w \in Password \cup {NoPassword}, StartWith(p, pc, mode, u, w),
           UNCHANGED <<account, token, mailed, session, writes>>,
           pc \in {"insert", "link", "session", "rotate", "issue", "revoke"},
           pc = "insert" => mode \in {"invite", "oauth"} \/ (mode = "register" /\ w \in Password),
           pc # "insert" => Known(u, account)
    PROVE  TypeInv'
<1>1. Becomes(p, Begun(pc, mode, u, w))
  BY Starting
<1>2. Begun(pc, mode, u, w) \in Request
  BY BegunType
<1>3. Carries(Begun(pc, mode, u, w), account, token, mailed)
  BY StartCarries
<1> QED
  BY <1>1, <1>2, <1>3, TypeMoves

LEMMA TypeChange ==
    ASSUME TypeInv, NEW p \in Slot, NEW u \in User, NEW w \in Password,
           NEW current \in Password, ChangeBegin(p, u, current, w)
    PROVE  TypeInv'
<1> DEFINE b == Begun("write", "change", u, w)
           r == [b EXCEPT !.seen = account[u].pw, !.current = current]
<1>1. Becomes(p, r) /\ UNCHANGED <<account, token, mailed, session, writes>>
  BY DEF ChangeBegin, Becomes
<1>2. /\ b \in Request /\ b.pc = "write" /\ b.mode = "change" /\ b.user = u /\ b.pw = w
      /\ b.client = ClientOf[u] /\ b.tok = NoToken
  BY BegunType DEF Position, Mode
<1>3. /\ account[u].pw = current /\ account[u].pw # NoPassword
      /\ Known(u, account)
  BY Existing DEF ChangeBegin, Authenticates
<1> HIDE DEF b
<1>4. /\ r \in Request /\ r.pc = "write" /\ r.mode = "change" /\ r.user = u /\ r.pw = w
      /\ r.client = ClientOf[u] /\ r.tok = NoToken /\ r.seen = account[u].pw
      /\ r.current = current
  BY <1>2, <1>3 DEF Request
<1> HIDE DEF r
<1>5. Carries(r, account, token, mailed)
  BY <1>3, <1>4 DEF Carries
<1> QED
  BY <1>1, <1>4, <1>5, TypeMoves

LEMMA TypeDeactivate ==
    ASSUME TypeInv, NEW p \in Slot, NEW u \in User, Deactivate(p, u)
    PROVE  TypeInv'
<1> DEFINE r == Begun("revoke", "deactivate", u, NoPassword)
           a == [account[u] EXCEPT !.active = FALSE]
<1>1. r \in Request /\ r.pc = "revoke"
  BY BegunType DEF Position, Mode
<1>2. Known(u, account) /\ account[u] \in Account
  BY Types DEF Deactivate, Exists, Known
<1>3. a \in Account /\ a.origin # "none"
  BY <1>2 DEF Account, Known
<1>4. account' = [account EXCEPT ![u] = a] /\ UNCHANGED <<token, mailed, writes>>
  BY DEF Deactivate
<1> HIDE DEF a
<1>5. Known(u, account')
  BY <1>3, <1>4, Types DEF Known
<1>6. Carries(r, account', token', mailed')
  BY <1>5, StartCarries DEF Position, Mode
<1>7. req' = Overtake(u, [req EXCEPT ![p] = r]) /\ Outdate(u)
  BY DEF Deactivate
<1> HIDE DEF r
<1>8. req' \in [Slot -> Request] /\ Others(p) /\ req'[p] = r
  BY <1>1, <1>7, Overtaking
<1>9. Rows(session') /\ Owned(session, session')
  BY <1>7, Outdating
<1>10. writes' \in [DOMAIN token' -> Nat] /\ Carries(req'[p], account', token', mailed')
  BY <1>4, <1>6, <1>8, Types DEF Issued
<1> QED
  BY <1>3, <1>4, <1>8, <1>9, <1>10, TypeWrites

LEMMA TypeRefreshBegin ==
    ASSUME TypeInv, NEW p \in Slot, NEW i \in Opened, RefreshBegin(p, i)
    PROVE  TypeInv'
<1> DEFINE u == session[i].user
           b == Begun("rotate", "refresh", u, NoPassword)
           r == [b EXCEPT !.rows = {i}]
<1>1. Becomes(p, r) /\ UNCHANGED <<account, token, mailed, session, writes>>
  BY DEF RefreshBegin, Becomes
<1>2. u \in User /\ i \in Nat /\ Known(u, account)
  BY Types DEF TypeInv, Rooted, Opened
<1> HIDE DEF u
<1>3. b \in Request /\ b.pc = "rotate" /\ b.user = u
  BY <1>2, BegunType DEF Position, Mode
<1> HIDE DEF b
<1>4. r \in Request /\ r.pc = "rotate" /\ r.user = u
  BY <1>2, <1>3 DEF Request
<1> HIDE DEF r
<1>5. Carries(r, account, token, mailed)
  BY <1>2, <1>4 DEF Carries
<1> QED
  BY <1>1, <1>4, <1>5, TypeMoves

LEMMA TypeRedeemBegin ==
    ASSUME TypeInv, NEW p \in Slot, NEW t \in Issued, NEW c \in Client,
           NEW mode \in {"reset", "verify"}, NEW w \in Password \cup {NoPassword},
           mode = "reset" => w \in Password, RedeemBegin(p, t, c, mode, w)
    PROVE  TypeInv'
<1> DEFINE r == [Idle EXCEPT !.pc = "owner", !.mode = mode, !.user = token[t].user,
                             !.client = c, !.tok = t, !.pw = w]
<1>1. Becomes(p, r)
  BY DEF RedeemBegin, Becomes
<1>2. token[t] \in Token /\ t \in Nat
  BY Types
<1>3. r \in Request
  BY <1>2, IdleType DEF Request, Token, Position, Mode
<1>4. /\ r.pc = "owner" /\ r.mode = mode /\ r.user = token[t].user
      /\ r.tok = t /\ r.pw = w
  BY DEF Idle
<1>5. t \in mailed /\ token[t].purpose = PurposeOf(mode)
  BY DEF RedeemBegin, Redeemable
<1>6. Known(token[t].user, account)
  BY DEF TypeInv, Rooted, Issued
<1> HIDE DEF r
<1>7. Carries(r, account, token, mailed)
  BY <1>4, <1>5, <1>6 DEF Carries, Issued
<1> QED
  BY <1>1, <1>3, <1>7, TypeMoves DEF RedeemBegin

LEMMA TypeBegin ==
    ASSUME TypeInv, NEW p \in Slot, Begin(p)
    PROVE  TypeInv'
<1>0. /\ \A pc \in {"insert", "link", "session", "issue"} : pc \in Position
      /\ \A m \in {"register", "invite", "oauth", "login", "exchange", "forgot",
                    "send"} : m \in Mode
      /\ NoPassword \in Password \cup {NoPassword}
      /\ \A w \in Password : w \in Password \cup {NoPassword}
  BY DEF Position, Mode
<1>1. ASSUME NEW u \in User, NEW w \in Password, RegisterBegin(p, u, w) PROVE TypeInv'
  BY <1>0, <1>1, TypeStarts DEF RegisterBegin
<1>2. ASSUME NEW u \in User, NEW w \in Password, LoginBegin(p, u, w) PROVE TypeInv'
  BY <1>0, <1>2, Existing, TypeStarts DEF LoginBegin, Start
<1>3. ASSUME NEW u \in User, InviteBegin(p, u) PROVE TypeInv'
  BY <1>0, <1>3, TypeStarts DEF InviteBegin, Start
<1>4. ASSUME NEW u \in User, CallbackBegin(p, u) PROVE TypeInv'
  BY <1>0, <1>4, Existing, TypeStarts DEF CallbackBegin, Start
<1>5. ASSUME NEW u \in User, ExchangeBegin(p, u) PROVE TypeInv'
  BY <1>0, <1>5, Existing, TypeStarts DEF ExchangeBegin, Start
<1>6. ASSUME NEW u \in User, NEW mode \in {"forgot", "send"}, RequestLink(p, u, mode)
      PROVE  TypeInv'
  BY <1>0, <1>6, Existing, TypeStarts DEF RequestLink, Start
<1>7. ASSUME NEW t \in Issued, NEW c \in Client,
             \/ \E w \in Password : RedeemBegin(p, t, c, "reset", w)
             \/ RedeemBegin(p, t, c, "verify", NoPassword)
      PROVE  TypeInv'
  BY <1>0, <1>7, TypeRedeemBegin
<1> QED
  BY <1>1, <1>2, <1>3, <1>4, <1>5, <1>6, <1>7, TypeChange, TypeDeactivate,
     TypeRefreshBegin DEF Begin

LEMMA TypeAnswers ==
    ASSUME TypeInv, NEW p \in Slot, Answer(p),
           UNCHANGED <<account, token, mailed, session, writes>>
    PROVE  TypeInv'
  BY Answering, IdleCarries, TypeMoves

LEMMA NewAccountType ==
    ASSUME NEW o \in {"register", "invite", "oauth", "seed"}, NEW w,
           o \in {"register", "seed"} => w \in Password
    PROVE  /\ NewAccount(o, w) \in Account /\ NewAccount(o, w).origin = o
           /\ NewAccount(o, w).verified =>
                 NewAccount(o, w).linked \/ NewAccount(o, w).origin = "seed"
<1> DEFINE a == NewAccount(o, w)
           x == IF o \in {"register", "seed"} THEN w ELSE NoPassword
           v == o \in {"oauth", "seed"}
           l == o = "oauth"
<1>1. a = [origin |-> o, active |-> TRUE, linked |-> l, pw |-> x, verified |-> v]
  BY DEF NewAccount
<1>2. /\ o \in Origin /\ x \in Password \cup {NoPassword}
      /\ v \in BOOLEAN /\ l \in BOOLEAN /\ (v => l \/ o = "seed")
  BY DEF Origin
<1> HIDE DEF a, x, v, l
<1>3. a \in Account
  BY <1>1, <1>2 DEF Account
<1>4. a.origin = o /\ a.verified = v /\ a.linked = l
  BY <1>1
<1>5. a.verified => a.linked \/ a.origin = "seed"
  BY <1>2, <1>4
<1> QED
  BY <1>3, <1>4, <1>5 DEF a

LEMMA TypeInsertUser ==
    ASSUME TypeInv, NEW p \in Slot, InsertUser(p)
    PROVE  TypeInv'
<1> DEFINE r == req[p]
           u == r.user
           a == NewAccount(r.mode, r.pw)
           b == Begun("session", r.mode, u, NoPassword)
<1>1. /\ r \in Request /\ u \in User /\ r.pc = "insert"
      /\ r.mode \in {"register", "invite", "oauth"}
      /\ r.mode = "register" => r.pw \in Password
  BY Types DEF InsertUser, TypeInv, Carries
<1>2. UNCHANGED <<token, mailed, session, writes>>
  BY DEF InsertUser
<1>3. CASE account' = [account EXCEPT ![u] = a]
           /\ \/ Becomes(p, b)
              \/ r.mode = "invite" /\ Goto(p, "issue")
              \/ Answer(p)
  <2>1. a \in Account /\ a.origin = r.mode
    BY <1>1, NewAccountType
  <2>2. account'[u] = a
    BY <1>1, <1>3, <2>1, Types
  <2> HIDE DEF a
  <2>3. Known(u, account')
    BY <1>1, <2>1, <2>2 DEF Known
  <2>4. \E s \in Request : Becomes(p, s) /\ Carries(s, account', token', mailed')
    <3>1. CASE Answer(p)
      BY <3>1, Answering, IdleCarries
    <3>2. CASE Becomes(p, b)
      <4>1. /\ "session" \in Position /\ r.mode \in Mode
            /\ NoPassword \in Password \cup {NoPassword}
        BY <1>1 DEF Position, Mode
      <4>2. b \in Request
        BY <1>1, <4>1, BegunType
      <4>3. Carries(b, account', token', mailed')
        BY <1>1, <2>3, <4>1, StartCarries
      <4> QED
        BY <3>2, <4>2, <4>3
    <3>3. CASE r.mode = "invite" /\ Goto(p, "issue")
      <4>1. Carries([r EXCEPT !.pc = "issue"], account', token', mailed')
        BY <1>1, <2>3, <3>3 DEF Carries, Request
      <4>2. "issue" \in Position
        BY DEF Position
      <4> QED
        BY <3>3, <4>1, <4>2, Going
    <3> QED
      BY <1>3, <3>1, <3>2, <3>3
  <2>5. req' \in [Slot -> Request] /\ Others(p) /\ Carries(req'[p], account', token', mailed')
    BY <2>4, RequestMoves
  <2>6. writes' \in [DOMAIN token' -> Nat]
    BY <1>2, Types DEF Issued
  <2>7. Rows(session') /\ Owned(session, session')
    BY <1>2, SessionsTyped
  <2> QED
    BY <1>1, <1>2, <1>3, <2>1, <2>5, <2>6, <2>7, TypeWrites
<1>4. CASE Answer(p) /\ UNCHANGED account
  BY <1>2, <1>4, TypeAnswers
<1> QED
  BY <1>3, <1>4 DEF InsertUser, Becomes

LEMMA TypeLinkProvider ==
    ASSUME TypeInv, NEW p \in Slot, LinkProvider(p)
    PROVE  TypeInv'
<1> DEFINE u == req[p].user
           a == [account[u] EXCEPT !.linked = TRUE, !.verified = TRUE]
<1>1. u \in User /\ Known(u, account) /\ account[u] \in Account
  BY Types DEF LinkProvider, TypeInv, Carries
<1>2. a \in Account /\ a.origin # "none"
  BY <1>1 DEF Account, Known
<1>3. account' = [account EXCEPT ![u] = a] /\ Answer(p)
      /\ UNCHANGED <<token, mailed, session, writes>>
  BY DEF LinkProvider
<1> HIDE DEF a
<1>4. req' \in [Slot -> Request] /\ Others(p) /\ Carries(req'[p], account', token', mailed')
  BY <1>3, Answering, RequestMoves, IdleCarries
<1>5. Rows(session') /\ Owned(session, session') /\ writes' \in [DOMAIN token' -> Nat]
  BY <1>3, SessionsTyped, Types DEF Issued
<1> QED
  BY <1>1, <1>2, <1>3, <1>4, <1>5, TypeWrites

LEMMA TypeSeedAdmin ==
    ASSUME TypeInv, NEW u \in User, NEW w \in Password, SeedAdmin(u, w)
    PROVE  TypeInv'
<1> DEFINE a == NewAccount("seed", w)
<1>1. a \in Account /\ a.origin # "none"
  BY NewAccountType
<1>2. account' = [account EXCEPT ![u] = a]
      /\ UNCHANGED <<token, mailed, session, req, writes>>
  BY DEF SeedAdmin
<1> HIDE DEF a
<1>3. Grows(account, account')
  BY <1>1, <1>2, Types DEF Grows, Known
<1>4. u \in Slot => Carries(req'[u], account', token', mailed')
  BY <1>2, <1>3, CarriesOn, Same, Types DEF TypeInv
<1>5. /\ req' \in [Slot -> Request] /\ Others(u) /\ writes' \in [DOMAIN token' -> Nat]
      /\ Rows(session') /\ Owned(session, session')
  BY <1>2, SessionsTyped, Types DEF Others, Issued
<1> QED
  BY <1>1, <1>2, <1>4, <1>5, TypeWrites

LEMMA TypeInsertSession ==
    ASSUME TypeInv, NEW p \in Slot, InsertSession(p)
    PROVE  TypeInv'
<1> DEFINE r == req[p]
           reached == ~r.overtaken \/ \E q \in Slot : Revoking(req[q], r.user)
           s == [user |-> r.user, live |-> TRUE, stale |-> r.overtaken,
                 excuse |-> IF reached THEN "none" ELSE "login"]
<1>1. r \in Request /\ Known(r.user, account)
  BY Types DEF InsertSession, TypeInv, Carries
<1>2. s \in Session /\ s.user = r.user
  BY <1>1 DEF Session, Request
<1>3. Add(s) /\ Answer(p) /\ UNCHANGED <<account, token, mailed, writes>>
  BY DEF InsertSession
<1> HIDE DEF s
<1>4. Rows(session') /\ \A i \in DOMAIN session' : Known(session'[i].user, account)
  BY <1>1, <1>2, <1>3, Adding
<1> QED
  BY <1>3, <1>4, Answering, IdleCarries, TypeSessions

\* A rotation consumes one live row and inserts the next.
Missed(i) ==
    /\ session[i].stale
    /\ \E q \in Slot : req[q].pc = "apply" /\ i \in req[q].rows
    /\ \A q \in Slot : ~Revoking(req[q], session[i].user)
Successor(i) ==
    [session[i] EXCEPT !.excuse = IF Missed(i) THEN "rotation" ELSE @]

LEMMA Rotating ==
    ASSUME TypeInv, NEW p \in Slot, Rotate(p), session' # session
    PROVE  /\ Rows(session')
           /\ \A i \in DOMAIN session' : Known(session'[i].user, account)
           /\ \E i \in Opened :
                 /\ session[i].live
                 /\ \A k \in Opened' :
                       \/ session'[k] = Successor(i)
                       \/ ~session'[k].live
                       \/ k \in Opened /\ session'[k] = session[k]
<1> PICK n \in 0 .. MaxSessions :
       /\ Cardinality(Opened) = n /\ Opened = 1 .. n
       /\ session \in [1 .. n -> Session] /\ n \in Nat
       /\ \A i \in 1 .. n : i \in 1 .. n + 1 /\ i # n + 1
       /\ \A i \in 1 .. n + 1 : i \in 1 .. n \/ i = n + 1
  BY NextRow
<1>1. PICK i \in Opened :
         /\ session[i].live /\ n + 1 <= MaxSessions
         /\ session' = [k \in 1 .. n + 1 |->
                           IF k = n + 1 THEN Successor(i)
                           ELSE IF k = i THEN Ended(session[i]) ELSE session[k]]
  BY DEF Rotate, Successor, Missed
<1>2. /\ Successor(i) \in Session /\ Successor(i).user = session[i].user
      /\ Ended(session[i]) \in Session /\ Ended(session[i]).user = session[i].user
      /\ ~Ended(session[i]).live
  <2>1. session[i] \in Session
    BY Types
  <2> HIDE DEF Missed
  <2> QED
    BY <2>1 DEF Successor, Ended, Session
<1> HIDE DEF Successor
<1>3. n + 1 \in 0 .. MaxSessions
  BY <1>1, BoundAssumption
<1>4. session' \in [1 .. n + 1 -> Session]
  BY <1>1, <1>2
<1>5. \A k \in 1 .. n + 1 : \/ session'[k] = Successor(i)
                            \/ ~session'[k].live /\ session'[k].user = session[i].user
                            \/ k \in 1 .. n /\ session'[k] = session[k]
  BY <1>1, <1>2
<1>6. \A k \in 1 .. n : Known(session[k].user, account)
  BY DEF TypeInv, Rooted
<1>7. \A k \in 1 .. n + 1 : Known(session'[k].user, account)
  BY <1>2, <1>5, <1>6
<1> QED
  BY <1>1, <1>3, <1>4, <1>5, <1>7 DEF Rows, Opened

LEMMA TypeRotate ==
    ASSUME TypeInv, NEW p \in Slot, Rotate(p)
    PROVE  TypeInv'
<1>1. Answer(p) /\ UNCHANGED <<account, token, mailed, writes>>
  BY DEF Rotate
<1>2. CASE session' = session
  BY <1>1, <1>2, TypeAnswers
<1>3. CASE session' # session
  BY <1>1, <1>3, Rotating, Answering, IdleCarries, TypeSessions
<1> QED
  BY <1>2, <1>3

\* The new link is the next one, live, and nobody has it.
LEMMA Issuing ==
    ASSUME TypeInv, NEW p \in Slot, IssueToken(p)
    PROVE  \E n \in Nat :
              /\ n + 1 \in 0 .. MaxTokens
              /\ Issued = 1 .. n
              /\ token \in [1 .. n -> Token] /\ token' \in [1 .. n + 1 -> Token]
              /\ writes \in [1 .. n -> Nat] /\ writes' \in [1 .. n + 1 -> Nat]
              /\ \A t \in 1 .. n : token'[t] = token[t] /\ writes'[t] = writes[t]
              /\ token'[n + 1] = [user |-> req[p].user,
                                  purpose |-> PurposeOf(req[p].mode), state |-> "live"]
              /\ writes'[n + 1] = 0
              /\ \A t \in 1 .. n : t \in 1 .. n + 1 /\ t # n + 1
              /\ \A t \in 1 .. n + 1 : t \in 1 .. n \/ t = n + 1
              /\ req' = [req EXCEPT ![p].pc = "mail", ![p].tok = n + 1]
<1> PICK n \in 0 .. MaxTokens : token \in [1 .. n -> Token]
  BY DEF TypeInv, TypeOK
<1> DEFINE new == [user |-> req[p].user, purpose |-> PurposeOf(req[p].mode),
                   state |-> "live"]
<1>1. n \in Nat /\ Issued = 1 .. n
  BY BoundAssumption DEF Issued
<1>2. Cardinality(Issued) = n
  BY <1>1, FS_Interval
<1>3. new \in Token
  BY Types DEF Token, Purpose, PurposeOf
<1>4. /\ n + 1 <= MaxTokens
      /\ token' = [i \in 1 .. n + 1 |-> IF i = n + 1 THEN new ELSE token[i]]
      /\ writes' = [i \in 1 .. n + 1 |-> IF i = n + 1 THEN 0 ELSE writes[i]]
      /\ req' = [req EXCEPT ![p].pc = "mail", ![p].tok = n + 1]
  BY <1>2 DEF IssueToken
<1> HIDE DEF new
<1>5. writes \in [1 .. n -> Nat]
  BY <1>1, Types
<1>6. /\ \A t \in 1 .. n : t \in 1 .. n + 1 /\ t # n + 1
      /\ \A t \in 1 .. n + 1 : t \in 1 .. n \/ t = n + 1
      /\ n + 1 \in 1 .. n + 1
  BY <1>1
<1>7. /\ token' \in [1 .. n + 1 -> Token] /\ token'[n + 1] = new
      /\ \A t \in 1 .. n : token'[t] = token[t]
  BY <1>3, <1>4, <1>6
<1>8. /\ writes' \in [1 .. n + 1 -> Nat] /\ writes'[n + 1] = 0
      /\ \A t \in 1 .. n : writes'[t] = writes[t]
  BY <1>4, <1>5, <1>6
<1>9. n + 1 \in 0 .. MaxTokens
  BY <1>1, <1>4, BoundAssumption
<1> QED
  BY <1>1, <1>4, <1>5, <1>6, <1>7, <1>8, <1>9 DEF new

LEMMA TypeIssueToken ==
    ASSUME TypeInv, NEW p \in Slot, IssueToken(p)
    PROVE  TypeInv'
<1> PICK n \in Nat :
       /\ n + 1 \in 0 .. MaxTokens
       /\ Issued = 1 .. n
       /\ token \in [1 .. n -> Token] /\ token' \in [1 .. n + 1 -> Token]
       /\ writes' \in [1 .. n + 1 -> Nat]
       /\ \A t \in 1 .. n : token'[t] = token[t]
       /\ token'[n + 1] = [user |-> req[p].user,
                           purpose |-> PurposeOf(req[p].mode), state |-> "live"]
       /\ \A t \in 1 .. n : t \in 1 .. n + 1 /\ t # n + 1
       /\ \A t \in 1 .. n + 1 : t \in 1 .. n \/ t = n + 1
       /\ req' = [req EXCEPT ![p].pc = "mail", ![p].tok = n + 1]
  BY Issuing
<1> DEFINE r == [req[p] EXCEPT !.pc = "mail", !.tok = n + 1]
<1>1. req[p] \in Request /\ req[p].pc = "issue" /\ Known(req[p].user, account)
  BY Types DEF IssueToken, TypeInv, Carries
<1>2. UNCHANGED <<account, mailed, session>>
  BY DEF IssueToken
<1>3. r \in Request /\ r.pc = "mail" /\ r.tok = n + 1 /\ r.user = req[p].user
  <2>1. n + 1 \in Nat /\ "mail" \in Position
    BY DEF Position
  <2> QED
    BY <1>1, <2>1 DEF Request
<1>4. Becomes(p, r)
  BY DEF Becomes
<1>5. DOMAIN token = 1 .. n /\ DOMAIN token' = 1 .. n + 1 /\ n + 1 \in 1 .. n + 1
  OBVIOUS
<1> HIDE DEF r
<1>6. Carries(r, account', token', mailed')
  <2>1. r.tok \in DOMAIN token'
    BY <1>3, <1>5
  <2>2. Known(r.user, account')
    BY <1>1, <1>2, <1>3
  <2> QED
    BY <1>3, <2>1, <2>2 DEF Carries
<1>7. /\ req' \in [Slot -> Request] /\ Others(p)
      /\ Carries(req'[p], account', token', mailed')
  <2>1. req' \in [Slot -> Request] /\ Others(p) /\ req'[p] = r
    BY <1>3, <1>4, RequestMoves
  <2> QED
    BY <1>6, <2>1
<1>8. Extends(token, token') /\ Grows(account, account') /\ mailed \subseteq mailed'
  BY <1>2, <1>5, Same DEF Extends
<1>9. Rooted(account', token', session')
  <2>1. \A t \in 1 .. n : Known(token'[t].user, account)
    BY <1>5 DEF TypeInv, Rooted
  <2>2. Known(token'[n + 1].user, account)
    BY <1>1
  <2>3. \A t \in 1 .. n + 1 : Known(token'[t].user, account)
    BY <2>1, <2>2
  <2> QED
    BY <1>2, <1>5, <2>3 DEF TypeInv, Rooted
<1>10. /\ mailed' \subseteq DOMAIN token'
       /\ account' \in [User -> Account] /\ Rows(session')
  BY <1>2, <1>5, Types, SessionsTyped
<1>11. /\ \E m \in 0 .. MaxTokens : token' \in [1 .. m -> Token]
       /\ writes' \in [DOMAIN token' -> Nat]
  BY <1>5
<1> QED
  BY <1>7, <1>8, <1>9, <1>10, <1>11, TypeNext

LEMMA TypeMail ==
    ASSUME TypeInv, NEW p \in Slot, MailSent(p) \/ MailFails(p)
    PROVE  TypeInv'
<1>1. CASE MailSent(p)
  <2>1. /\ mailed' = mailed \cup {req[p].tok} /\ Answer(p)
        /\ UNCHANGED <<account, token, session, writes>>
    BY <1>1 DEF MailSent
  <2>2. req[p].tok \in DOMAIN token
    BY <1>1 DEF MailSent, TypeInv, Carries
  <2>3. /\ req' \in [Slot -> Request] /\ Others(p)
        /\ Carries(req'[p], account', token', mailed')
    BY <2>1, Answering, RequestMoves, IdleCarries
  <2>4. /\ account' \in [User -> Account] /\ mailed' \subseteq DOMAIN token'
        /\ Rows(session')
        /\ writes' \in [DOMAIN token' -> Nat]
        /\ \E n \in 0 .. MaxTokens : token' \in [1 .. n -> Token]
    BY <2>1, <2>2, SessionsTyped DEF TypeInv, TypeOK, Issued
  <2>5. /\ Grows(account, account') /\ Extends(token, token') /\ mailed \subseteq mailed'
        /\ Rooted(account', token', session')
    BY <2>1, Same DEF TypeInv
  <2> QED
    BY <2>3, <2>4, <2>5, TypeNext
<1>2. CASE MailFails(p)
  BY <1>2, TypeAnswers DEF MailFails
<1> QED
  BY <1>1, <1>2

LEMMA TypeRedeemOwner ==
    ASSUME TypeInv, NEW p \in Slot, RedeemOwner(p)
    PROVE  TypeInv'
<1>0. UNCHANGED <<account, token, mailed, session, writes>>
  BY DEF RedeemOwner
<1>1. CASE Answer(p)
  BY <1>0, <1>1, TypeAnswers
<1>2. CASE OwnedByCaller(req[p].user, req[p].client) /\ Goto(p, "consume")
  <2>1. /\ req[p] \in Request /\ req[p].pc = "owner"
        /\ Carries(req[p], account, token, mailed)
    BY Types DEF TypeInv, RedeemOwner
  <2>2. Carries([req[p] EXCEPT !.pc = "consume"], account, token, mailed)
    BY <1>2, <2>1 DEF Carries, Request, OwnedByCaller
  <2>3. "consume" \in Position
    BY DEF Position
  <2> QED
    BY <1>0, <1>2, <2>2, <2>3, Going, TypeMoves
<1> QED
  BY <1>1, <1>2 DEF RedeemOwner

LEMMA TypeConsume ==
    ASSUME TypeInv, NEW p \in Slot, Consume(p)
    PROVE  TypeInv'
<1> DEFINE r == req[p]
<1>0. UNCHANGED <<account, mailed, session, writes>>
  BY DEF Consume
<1>1. CASE Answer(p) /\ UNCHANGED token
  BY <1>0, <1>1, TypeAnswers
<1>2. CASE /\ token' = [token EXCEPT ![r.tok].state = "used"]
           /\ Goto(p, "write")
  <2>1. r \in Request /\ r.pc = "consume" /\ Carries(r, account, token, mailed)
    BY Types DEF TypeInv, Consume
  <2>2. PICK n \in 0 .. MaxTokens : token \in [1 .. n -> Token]
    BY DEF TypeInv, TypeOK
  <2>3. /\ token' \in [1 .. n -> Token]
        /\ \A t \in 1 .. n : token'[t].user = token[t].user
                             /\ token'[t].purpose = token[t].purpose
    BY <1>2, <2>2 DEF Token
  <2>4. Extends(token, token') /\ DOMAIN token' = DOMAIN token
    BY <2>2, <2>3 DEF Extends
  <2>5. Carries(r, account', token', mailed')
    BY <1>0, <2>1, <2>4, CarriesOn, Same
  <2>6. Carries([r EXCEPT !.pc = "write"], account', token', mailed')
    BY <2>1, <2>5 DEF Carries, Request
  <2>7. "write" \in Position
    BY DEF Position
  <2>8. /\ req' \in [Slot -> Request] /\ Others(p)
        /\ Carries(req'[p], account', token', mailed')
    BY <1>2, <2>6, <2>7, Going, RequestMoves
  <2>9. /\ account' \in [User -> Account] /\ mailed' \subseteq DOMAIN token'
        /\ Rows(session')
        /\ writes' \in [DOMAIN token' -> Nat]
        /\ \E m \in 0 .. MaxTokens : token' \in [1 .. m -> Token]
    BY <1>0, <2>3, <2>4, SessionsTyped DEF TypeInv, TypeOK, Issued
  <2>10. Rooted(account', token', session')
    BY <1>0, <2>4 DEF TypeInv, Rooted, Extends
  <2>11. Grows(account, account') /\ mailed \subseteq mailed'
    BY <1>0, Same
  <2> QED
    BY <2>4, <2>8, <2>9, <2>10, <2>11, TypeNext
<1> QED
  BY <1>1, <1>2 DEF Consume

\* What a write does to the requests: its own goes on, logins are overtaken.
LEMMA Writing ==
    ASSUME TypeInv, NEW p \in Slot, WriteUser(p)
    PROVE  LET r == req[p]
           IN /\ req' \in [Slot -> Request] /\ Others(p)
              /\ IF r.mode = "verify"
                 THEN req'[p] = Idle /\ UNCHANGED session
                 ELSE /\ req'[p] = Begun("revoke", r.mode, r.user, NoPassword)
                      /\ Outdate(r.user)
              /\ Rows(session') /\ Owned(session, session')
<1> DEFINE r == req[p]
           b == Begun("revoke", r.mode, r.user, NoPassword)
<1>1. r \in Request /\ r.user \in User
  BY Types
<1>2. CASE r.mode = "verify"
  <2>1. Answer(p) /\ UNCHANGED session
    BY <1>2 DEF WriteUser
  <2> QED
    BY <1>2, <2>1, Answering, RequestMoves, SessionsTyped
<1>3. CASE r.mode # "verify"
  <2>1. /\ "revoke" \in Position /\ r.mode \in Mode
        /\ NoPassword \in Password \cup {NoPassword}
    BY <1>1 DEF Position, Request
  <2>2. b \in Request /\ b.pc = "revoke"
    BY <1>1, <2>1, BegunType
  <2>3. req' = Overtake(r.user, [req EXCEPT ![p] = b]) /\ Outdate(r.user)
    BY <1>3 DEF WriteUser
  <2> HIDE DEF b
  <2>4. req' \in [Slot -> Request] /\ Others(p) /\ req'[p] = b
    BY <2>2, <2>3, Overtaking
  <2>5. Rows(session') /\ Owned(session, session')
    BY <2>3, Outdating
  <2> QED
    BY <1>3, <2>3, <2>4, <2>5 DEF b
<1> QED
  BY <1>2, <1>3

\* What a write does to the account.
LEMMA WrittenType ==
    ASSUME NEW a \in Account, NEW mode \in {"reset", "verify", "change"},
           NEW w, mode # "verify" => w \in Password
    PROVE  /\ Written(a, mode, w) \in Account
           /\ Written(a, mode, w).origin = a.origin
           /\ Written(a, mode, w).verified => a.verified \/ mode # "change"
           /\ Written(a, mode, w).linked = a.linked
           /\ mode = "verify" => Written(a, mode, w).pw = a.pw
           /\ mode # "verify" => Written(a, mode, w).pw = w
<1>1. (a.verified \/ mode # "change") \in BOOLEAN
  BY DEF Account
<1> QED
  BY <1>1 DEF Written, Account

LEMMA TypeWriteUser ==
    ASSUME TypeInv, NEW p \in Slot, WriteUser(p)
    PROVE  TypeInv'
<1> DEFINE r == req[p]
           u == r.user
           a == Written(account[u], r.mode, r.pw)
           b == Begun("revoke", r.mode, u, NoPassword)
<1>1. /\ r \in Request /\ r.pc = "write" /\ Carries(r, account, token, mailed)
      /\ u \in User /\ account[u] \in Account
  BY Types DEF TypeInv, WriteUser
<1>2. /\ r.mode \in {"reset", "verify", "change"}
      /\ r.mode # "verify" => r.pw \in Password
      /\ Known(u, account)
  BY <1>1 DEF Carries
<1>3. a \in Account /\ a.origin # "none"
  <2>1. a \in Account /\ a.origin = account[u].origin
    BY <1>1, <1>2, WrittenType
  <2> HIDE DEF a
  <2> QED
    BY <1>2, <2>1 DEF Known
<1>4. account' = [account EXCEPT ![u] = a] /\ UNCHANGED <<token, mailed>>
  BY DEF WriteUser
<1> HIDE DEF a
<1>5. Known(u, account')
  BY <1>1, <1>3, <1>4, Types DEF Known
<1>6. Carries(req'[p], account', token', mailed')
  <2>1. CASE req'[p] = Idle
    BY <2>1, IdleCarries
  <2>2. CASE req'[p] = b
    <3>1. /\ "revoke" \in Position /\ r.mode \in Mode
          /\ NoPassword \in Password \cup {NoPassword}
      BY <1>1 DEF Position, Request
    <3>2. Carries(b, account', token', mailed')
      BY <1>1, <1>5, <3>1, StartCarries
    <3> QED
      BY <2>2, <3>2
  <2> QED
    BY <2>1, <2>2, Writing
<1>7. writes' \in [DOMAIN token' -> Nat]
  <2>1. writes \in [DOMAIN token -> Nat]
    BY Types DEF Issued
  <2>2. writes' = writes \/ (r.tok \in DOMAIN token /\ writes' = [writes EXCEPT ![r.tok] = @ + 1])
    BY <1>1, <1>2 DEF WriteUser, Carries
  <2> QED
    BY <1>4, <2>1, <2>2
<1> QED
  BY <1>1, <1>3, <1>4, <1>6, <1>7, Writing, TypeWrites

LEMMA TypeSnapshotAll ==
    ASSUME TypeInv, NEW p \in Slot, SnapshotAll(p)
    PROVE  TypeInv'
<1> DEFINE I == {i \in Opened : session[i].user = req[p].user}
           r == [req[p] EXCEPT !.pc = "apply", !.rows = I]
<1>1. /\ req[p] \in Request /\ req[p].pc = "revoke" /\ Known(req[p].user, account)
      /\ I \subseteq Nat
  BY Types DEF SnapshotAll, TypeInv, Carries
<1>2. Becomes(p, r) /\ UNCHANGED <<account, token, mailed, session, writes>>
  BY DEF SnapshotAll, Becomes
<1> HIDE DEF I
<1>3. r \in Request /\ r.pc = "apply" /\ r.user = req[p].user
  BY <1>1 DEF Request, Position
<1> HIDE DEF r
<1>4. Carries(r, account, token, mailed)
  BY <1>1, <1>3 DEF Carries
<1> QED
  BY <1>2, <1>3, <1>4, TypeMoves

LEMMA TypeApplyAll ==
    ASSUME TypeInv, NEW p \in Slot, ApplyAll(p)
    PROVE  TypeInv' /\ Opened' = Opened
           /\ \A i \in Opened : \/ ~session'[i].live
                                \/ i \notin req[p].rows /\ session'[i] = session[i]
<1> DEFINE F == [i \in Opened |-> IF i \in req[p].rows THEN Ended(session[i])
                                                       ELSE session[i]]
<1>1. \A i \in Opened : /\ Ended(session[i]) \in Session /\ ~Ended(session[i]).live
                        /\ Ended(session[i]).user = session[i].user
  BY Types DEF Ended, Session
<1>2. /\ F \in [Opened -> Session] /\ \A i \in Opened : F[i].user = session[i].user
      /\ \A i \in Opened : ~F[i].live \/ (i \notin req[p].rows /\ F[i] = session[i])
  BY <1>1, Types
<1>3. session' = F /\ Answer(p) /\ UNCHANGED <<account, token, mailed, writes>>
  BY DEF ApplyAll
<1> HIDE DEF F
<1>4. /\ Rows(session') /\ Opened' = Opened
      /\ \A i \in Opened : session'[i] = F[i]
      /\ \A i \in DOMAIN session' : Known(session'[i].user, account)
  BY <1>2, <1>3, Marking
<1>5. TypeInv'
  BY <1>3, <1>4, Answering, IdleCarries, TypeSessions
<1> QED
  BY <1>2, <1>4, <1>5

\* The rows that only a request which dies was about to revoke.
Cut(p, i) ==
    /\ Covers(req[p], session[i].user, i)
    /\ \A q \in Slot \ {p} : ~Covers(req[q], session[i].user, i)

LEMMA TypeAbort ==
    ASSUME TypeInv, NEW p \in Slot, Abort(p)
    PROVE  TypeInv' /\ Opened' = Opened
           /\ \A i \in Opened : /\ session'[i].user = session[i].user
                                /\ \/ session'[i].excuse # "none"
                                   \/ /\ session'[i] = session[i]
                                      /\ ~(session[i].stale /\ Cut(p, i))
<1> DEFINE o(i) == [session[i] EXCEPT !.excuse = "cut"]
           F == [i \in Opened |-> IF session[i].stale /\ Cut(p, i) THEN o(i) ELSE session[i]]
<1>1. session' = F /\ Answer(p) /\ UNCHANGED <<account, token, mailed, writes>>
  BY DEF Abort, Cut
<1>2. \A i \in Opened : o(i) \in Session /\ o(i).user = session[i].user /\ o(i).excuse = "cut"
  BY Types DEF Session
<1> HIDE DEF o, Cut
<1>3. /\ F \in [Opened -> Session] /\ \A i \in Opened : F[i].user = session[i].user
      /\ \A i \in Opened : \/ F[i].excuse # "none"
                           \/ F[i] = session[i] /\ ~(session[i].stale /\ Cut(p, i))
  BY <1>2, Types
<1> HIDE DEF F
<1>4. /\ Rows(session') /\ Opened' = Opened
      /\ \A i \in Opened : session'[i] = F[i]
      /\ \A i \in DOMAIN session' : Known(session'[i].user, account)
  BY <1>1, <1>3, Marking
<1>5. TypeInv'
  BY <1>1, <1>4, Answering, IdleCarries, TypeSessions
<1> QED
  BY <1>3, <1>4, <1>5

LEMMA TypeReactivate ==
    ASSUME TypeInv, NEW u \in User, Reactivate(u)
    PROVE  TypeInv'
<1> DEFINE a == [account[u] EXCEPT !.active = TRUE]
<1>1. account[u] \in Account /\ Known(u, account)
  BY Types DEF Reactivate, Exists, Known
<1>2. a \in Account /\ a.origin # "none"
  BY <1>1 DEF Account, Known
<1>3. account' = [account EXCEPT ![u] = a]
      /\ UNCHANGED <<token, mailed, session, req, writes>>
  BY DEF Reactivate
<1> HIDE DEF a
<1>4. /\ req' \in [Slot -> Request] /\ Others(u) /\ writes' \in [DOMAIN token' -> Nat]
      /\ Rows(session') /\ Owned(session, session')
  BY <1>3, SessionsTyped, Types DEF Others, Issued
<1>5. u \in Slot => Carries(req'[u], account', token', mailed')
  <2>1. Grows(account, account')
    BY <1>1, <1>2, <1>3, Types DEF Grows, Known
  <2> QED
    BY <1>3, <2>1, CarriesOn, Same, Types DEF TypeInv
<1> QED
  BY <1>2, <1>3, <1>4, <1>5, TypeWrites

LEMMA TypeExpire ==
    ASSUME TypeInv, NEW t \in Issued, Expire(t)
    PROVE  TypeInv'
<1>1. UNCHANGED <<account, mailed, session, req, writes>>
      /\ token' = [token EXCEPT ![t].state = "expired"]
  BY DEF Expire
<1>2. PICK n \in 0 .. MaxTokens : token \in [1 .. n -> Token]
  BY DEF TypeInv, TypeOK
<1>3. /\ token' \in [1 .. n -> Token]
      /\ \A k \in 1 .. n : token'[k].user = token[k].user
                           /\ token'[k].purpose = token[k].purpose
  BY <1>1, <1>2 DEF Token
<1>4. Extends(token, token') /\ DOMAIN token' = DOMAIN token
  BY <1>2, <1>3 DEF Extends
<1>5. /\ account' \in [User -> Account] /\ mailed' \subseteq DOMAIN token'
      /\ Rows(session')
      /\ writes' \in [DOMAIN token' -> Nat] /\ req' \in [Slot -> Request]
      /\ \E m \in 0 .. MaxTokens : token' \in [1 .. m -> Token]
  <2>1. \E m \in 0 .. MaxTokens : token' \in [1 .. m -> Token]
    BY <1>3
  <2> QED
    BY <1>1, <1>4, <2>1, Types, SessionsTyped DEF Issued
<1>6. Rooted(account', token', session')
  BY <1>1, <1>4 DEF TypeInv, Rooted, Extends
<1>7. /\ Grows(account, account') /\ mailed \subseteq mailed' /\ Others(t)
      /\ t \in Slot => Carries(req'[t], account', token', mailed')
  BY <1>1, <1>4, Same, CarriesOn, Types DEF Others, TypeInv
<1> QED
  BY <1>4, <1>5, <1>6, <1>7, TypeNext

LEMMA TypeStep == TypeInv /\ [Next]_vars => TypeInv'
<1> SUFFICES ASSUME TypeInv, [Next]_vars PROVE TypeInv'
  OBVIOUS
<1>1. ASSUME NEW p \in Slot, Begin(p) PROVE TypeInv'
  BY <1>1, TypeBegin
<1>2. ASSUME NEW p \in Slot, Continue(p) \/ Abort(p) PROVE TypeInv'
  BY <1>2, TypeInsertUser, TypeLinkProvider, TypeInsertSession, TypeRotate, TypeIssueToken,
     TypeMail, TypeRedeemOwner, TypeConsume, TypeWriteUser, TypeSnapshotAll, TypeApplyAll,
     TypeAbort DEF Continue
<1>3. ASSUME NEW u \in User, Reactivate(u) \/ \E w \in Password : SeedAdmin(u, w)
      PROVE  TypeInv'
  BY <1>3, TypeReactivate, TypeSeedAdmin
<1>4. ASSUME NEW t \in Issued, Expire(t) PROVE TypeInv'
  BY <1>4, TypeExpire
<1>5. CASE UNCHANGED vars
  <2>1. TypeOK' /\ Rooted(account, token, session)'
    BY <1>5 DEF vars, TypeInv, TypeOK, Issued, Rooted, Known
  <2>2. (\A p \in Slot : Carries(req[p], account, token, mailed))'
    BY <1>5 DEF vars, TypeInv
  <2> QED
    BY <2>1, <2>2 DEF TypeInv
<1> QED
  BY <1>1, <1>2, <1>3, <1>4, <1>5 DEF Next

\* At every moment every variable of AccountTokens has its type.
THEOREM TypeCorrect == Spec => []TypeOK
<1>1. TypeInv => TypeOK
  BY DEF TypeInv
<1> QED
  BY <1>1, TypeInit, TypeStep, PTL DEF Spec

-----------------------------------------------------------------------------
(* What steps do to requests, passwords and links                          *)

\* What a step leaves of an account that another property needs.
Stays(u) ==
    /\ account'[u].pw = account[u].pw /\ account'[u].verified = account[u].verified
    /\ account'[u].linked = account[u].linked /\ account'[u].origin = account[u].origin

\* A request begins where nothing has been taken or written yet.
LEMMA BeginMoves ==
    ASSUME TypeInv, NEW p \in Slot, Begin(p)
    PROVE  /\ UNCHANGED <<token, mailed, writes>>
           /\ \A u \in User : Stays(u)
           /\ req[p] = Idle /\ Others(p)
           /\ req'[p].pc # "write" \/ req'[p].tok = NoToken
<1>1. UNCHANGED <<token, mailed, writes>> /\ req[p] = Idle
  BY DEF Begin, RegisterBegin, LoginBegin, ChangeBegin, InviteBegin, CallbackBegin,
     ExchangeBegin, RefreshBegin, Deactivate, RequestLink, RedeemBegin, Start, StartWith
<1>2. \A u \in User : Stays(u)
  <2>1. CASE UNCHANGED account
    BY <2>1 DEF Stays
  <2>2. CASE \E u \in User : Deactivate(p, u)
    <3> PICK u \in User : Deactivate(p, u)
      BY <2>2
    <3>1. account' = [account EXCEPT ![u].active = FALSE] /\ account \in [User -> Account]
      BY Types DEF Deactivate
    <3>2. \A v \in User : account[v] \in Account
      BY <3>1
    <3> QED
      BY <3>1, <3>2 DEF Account, Stays
  <2> QED
    BY <2>1, <2>2 DEF Begin, RegisterBegin, LoginBegin, ChangeBegin, InviteBegin,
       CallbackBegin, ExchangeBegin, RefreshBegin, RequestLink, RedeemBegin
<1>3. Others(p) /\ (req'[p].pc # "write" \/ req'[p].tok = NoToken)
  <2>1. ASSUME NEW r, Becomes(p, r), r.pc # "write" \/ r.tok = NoToken
        PROVE  Others(p) /\ (req'[p].pc # "write" \/ req'[p].tok = NoToken)
    BY <2>1, Types DEF Becomes, Others
  <2>2. ASSUME NEW pc, NEW mode, NEW u, NEW w, StartWith(p, pc, mode, u, w)
        PROVE  \E r : Becomes(p, r) /\ (r.pc # "write" \/ r.tok = NoToken)
    <3>1. Begun(pc, mode, u, w).tok = NoToken
      BY DEF Begun, Idle
    <3> QED
      BY <2>2, <3>1, Starting
  <2>3. ASSUME NEW i \in Opened, RefreshBegin(p, i)
        PROVE  \E r : Becomes(p, r) /\ (r.pc # "write" \/ r.tok = NoToken)
    <3> DEFINE r == [Begun("rotate", "refresh", session[i].user, NoPassword)
                        EXCEPT !.rows = {i}]
    <3>1. Becomes(p, r)
      BY <2>3 DEF RefreshBegin, Becomes
    <3>2. r.pc = "rotate"
      BY DEF Begun, Idle
    <3> HIDE DEF r
    <3> QED
      BY <3>1, <3>2
  <2>4. ASSUME NEW u \in User, NEW current, NEW w, ChangeBegin(p, u, current, w)
        PROVE  \E r : Becomes(p, r) /\ (r.pc # "write" \/ r.tok = NoToken)
    <3> DEFINE r == [Begun("write", "change", u, w) EXCEPT
                        !.seen = account[u].pw, !.current = current]
    <3>1. Becomes(p, r)
      BY <2>4 DEF ChangeBegin, Becomes
    <3>2. r.tok = NoToken
      BY DEF Begun, Idle
    <3> HIDE DEF r
    <3> QED
      BY <3>1, <3>2
  <2>5. ASSUME NEW t \in Issued, NEW c \in Client, NEW mode, NEW w, RedeemBegin(p, t, c, mode, w)
        PROVE  \E r : Becomes(p, r) /\ (r.pc # "write" \/ r.tok = NoToken)
    <3> DEFINE r == [Idle EXCEPT !.pc = "owner", !.mode = mode, !.user = token[t].user,
                                 !.client = c, !.tok = t, !.pw = w]
    <3>1. Becomes(p, r)
      BY <2>5 DEF RedeemBegin, Becomes
    <3>2. r.pc = "owner"
      BY DEF Idle
    <3> HIDE DEF r
    <3> QED
      BY <3>1, <3>2
  <2>6. ASSUME NEW u \in User, Deactivate(p, u)
        PROVE  Others(p) /\ (req'[p].pc # "write" \/ req'[p].tok = NoToken)
    <3> DEFINE r == Begun("revoke", "deactivate", u, NoPassword)
    <3>1. r \in Request /\ r.pc = "revoke"
      BY BegunType DEF Position, Mode
    <3>2. req' = Overtake(u, [req EXCEPT ![p] = r])
      BY <2>6 DEF Deactivate
    <3> HIDE DEF r
    <3> QED
      BY <3>1, <3>2, Overtaking
  <2>7. \/ \E pc, mode, u, w : StartWith(p, pc, mode, u, w)
        \/ \E i \in Opened : RefreshBegin(p, i)
        \/ \E u \in User : \E current, w : ChangeBegin(p, u, current, w)
        \/ \E t \in Issued, c \in Client : \E mode, w : RedeemBegin(p, t, c, mode, w)
        \/ \E u \in User : Deactivate(p, u)
    BY DEF Begin, RegisterBegin, LoginBegin, InviteBegin, CallbackBegin, ExchangeBegin,
       RequestLink, Start
  <2> QED
    BY <2>1, <2>2, <2>3, <2>4, <2>5, <2>6, <2>7
<1> QED
  BY <1>1, <1>2, <1>3

\* Only a token that is consumed leads to a write.
LEMMA ContinueMoves ==
    ASSUME TypeInv, NEW p \in Slot, Continue(p) \/ Abort(p), ~WriteUser(p)
    PROVE  \E r : /\ Becomes(p, r)
                  /\ r.pc # "write" \/ (Consume(p) /\ r.tok = req[p].tok)
<1>1. req[p] \in Request
  BY Types
<1>2. ASSUME Answer(p) PROVE Becomes(p, Idle) /\ Idle.pc = "idle"
  BY <1>2 DEF Answer, Becomes, Idle
<1>3. ASSUME NEW pc, Goto(p, pc)
      PROVE  \E r : Becomes(p, r) /\ r.pc = pc /\ r.tok = req[p].tok
  <2> DEFINE r == [req[p] EXCEPT !.pc = pc]
  <2>1. Becomes(p, r) /\ r.pc = pc /\ r.tok = req[p].tok
    BY <1>1, <1>3 DEF Goto, Becomes, Request
  <2> QED
    BY <2>1
<1>4. ASSUME NEW t, req' = [req EXCEPT ![p].pc = "mail", ![p].tok = t]
      PROVE  \E r : Becomes(p, r) /\ r.pc = "mail"
  <2> DEFINE r == [req[p] EXCEPT !.pc = "mail", !.tok = t]
  <2>1. Becomes(p, r) /\ r.pc = "mail"
    BY <1>1, <1>4 DEF Becomes, Request
  <2> QED
    BY <2>1
<1>5. ASSUME NEW I, req' = [req EXCEPT ![p].pc = "apply", ![p].rows = I]
      PROVE  \E r : Becomes(p, r) /\ r.pc = "apply"
  <2> DEFINE r == [req[p] EXCEPT !.pc = "apply", !.rows = I]
  <2>1. Becomes(p, r) /\ r.pc = "apply"
    BY <1>1, <1>5 DEF Becomes, Request
  <2> QED
    BY <2>1
<1>6. ASSUME NEW mode, NEW u, NEW w, Becomes(p, Begun("session", mode, u, w))
      PROVE  \E r : Becomes(p, r) /\ r.pc = "session"
  <2>1. Begun("session", mode, u, w).pc = "session"
    BY DEF Begun, Idle
  <2> QED
    BY <1>6, <2>1
<1>7. \/ Answer(p)
      \/ \E pc \in {"issue", "consume"} : Goto(p, pc)
      \/ Consume(p) /\ Goto(p, "write")
      \/ \E mode, u, w : Becomes(p, Begun("session", mode, u, w))
      \/ \E t : req' = [req EXCEPT ![p].pc = "mail", ![p].tok = t]
      \/ \E I : req' = [req EXCEPT ![p].pc = "apply", ![p].rows = I]
  BY DEF Continue, Abort, InsertUser, LinkProvider, InsertSession, Rotate, IssueToken,
     MailSent, MailFails, RedeemOwner, Consume, SnapshotAll, ApplyAll, Becomes
<1> QED
  BY <1>2, <1>3, <1>4, <1>5, <1>6, <1>7

-----------------------------------------------------------------------------
(* A token leads to one write                                              *)

\* A request that has consumed the token and will write.
Took(r, t) == r.pc = "write" /\ r.tok = t

OnceInv ==
    /\ \A t \in Issued : writes[t] <= 1
    /\ \A t \in Issued : token[t].state # "used" =>
          writes[t] = 0 /\ \A p \in Slot : ~Took(req[p], t)
    /\ \A p \in Slot : \A t \in Issued : Took(req[p], t) => writes[t] = 0
    /\ \A p, q \in Slot : \A t \in Issued : Took(req[p], t) /\ Took(req[q], t) => p = q

LEMMA OnceInit == Init => OnceInv
  BY DEF Init, OnceInv, Issued

LEMMA OnceMove ==
    ASSUME OnceInv, Issued' = Issued, writes' = writes,
           \A t \in Issued : token'[t].state = "used" <=> token[t].state = "used",
           \A q \in Slot : \A t \in Issued : Took(req'[q], t) => Took(req[q], t)
    PROVE  OnceInv'
<1>1. /\ \A t \in Issued : writes'[t] <= 1
      /\ \A t \in Issued : token'[t].state # "used" =>
            writes'[t] = 0 /\ \A p \in Slot : ~Took(req'[p], t)
      /\ \A p \in Slot : \A t \in Issued : Took(req'[p], t) => writes'[t] = 0
      /\ \A p, q \in Slot : \A t \in Issued : Took(req'[p], t) /\ Took(req'[q], t) => p = q
  BY DEF OnceInv
<1> QED
  BY <1>1 DEF OnceInv, Took

LEMMA Untaken ==
    ASSUME TypeInv, NEW p \in Slot, Others(p), req'[p].pc # "write" \/ req'[p].tok = NoToken
    PROVE  \A q \in Slot : \A t \in Issued : Took(req'[q], t) => Took(req[q], t)
<1>1. \A t \in Issued : t # NoToken
  BY Types
<1>2. \A t \in Issued : ~Took(req'[p], t)
  BY <1>1 DEF Took
<1>3. ASSUME NEW q \in Slot, q # p, NEW t \in Issued PROVE Took(req'[q], t) => Took(req[q], t)
  <2>1. req[q] \in Request
    BY Types
  <2>2. [req[q] EXCEPT !.overtaken = TRUE].pc = req[q].pc
        /\ [req[q] EXCEPT !.overtaken = TRUE].tok = req[q].tok
    BY <2>1 DEF Request
  <2> QED
    BY <1>3, <2>2 DEF Others, Took
<1> QED
  BY <1>2, <1>3

LEMMA BecomesOthers ==
    ASSUME TypeInv, NEW p \in Slot, NEW r, Becomes(p, r)
    PROVE  Others(p) /\ req'[p] = r /\ \A q \in Slot : q # p => req'[q] = req[q]
  BY Types DEF Becomes, Others

LEMMA OnceIssue ==
    ASSUME TypeInv, OnceInv, NEW p \in Slot, IssueToken(p)
    PROVE  OnceInv'
<1> PICK n \in Nat :
       /\ Issued = 1 .. n
       /\ token' \in [1 .. n + 1 -> Token]
       /\ \A t \in 1 .. n : token'[t] = token[t] /\ writes'[t] = writes[t]
       /\ writes'[n + 1] = 0
       /\ \A t \in 1 .. n : t \in 1 .. n + 1 /\ t # n + 1
       /\ \A t \in 1 .. n + 1 : t \in 1 .. n \/ t = n + 1
       /\ req' = [req EXCEPT ![p].pc = "mail", ![p].tok = n + 1]
  BY Issuing
<1>1. Issued' = 1 .. n + 1
  BY DEF Issued
<1>2. \E r : Becomes(p, r) /\ r.pc # "write"
  <2>1. ~Consume(p) /\ ~WriteUser(p)
    BY DEF IssueToken, Consume, WriteUser
  <2> QED
    BY <2>1, ContinueMoves DEF Continue
<1>3. \A q \in Slot : \A t : Took(req'[q], t) => Took(req[q], t)
  <2>1. req'[p].pc # "write" /\ \A q \in Slot : q # p => req'[q] = req[q]
    BY <1>2, BecomesOthers
  <2> QED
    BY <2>1 DEF Took
<1>4. \A q \in Slot : \A t : Took(req[q], t) => t \in Issued \/ t = NoToken
  <2> SUFFICES ASSUME NEW q \in Slot, req[q].pc = "write"
               PROVE  req[q].tok \in Issued \/ req[q].tok = NoToken
    BY DEF Took
  <2>1. Carries(req[q], account, token, mailed)
    BY DEF TypeInv
  <2> QED
    BY <2>1 DEF Carries, Issued
<1>5. \A q \in Slot : ~Took(req'[q], n + 1)
  <2>1. n + 1 \notin Issued /\ n + 1 # NoToken
    BY DEF NoToken
  <2> QED
    BY <1>3, <1>4, <2>1
<1>6. /\ \A t \in 1 .. n : writes'[t] <= 1
      /\ \A t \in 1 .. n : token'[t].state # "used" =>
            writes'[t] = 0 /\ \A q \in Slot : ~Took(req'[q], t)
      /\ \A q \in Slot : \A t \in 1 .. n : Took(req'[q], t) => writes'[t] = 0
      /\ \A q, s \in Slot : \A t \in 1 .. n : Took(req'[q], t) /\ Took(req'[s], t) => q = s
  BY <1>3 DEF OnceInv
<1>7. /\ \A t \in Issued' : writes'[t] <= 1
      /\ \A t \in Issued' : token'[t].state # "used" =>
            writes'[t] = 0 /\ \A q \in Slot : ~Took(req'[q], t)
      /\ \A q \in Slot : \A t \in Issued' : Took(req'[q], t) => writes'[t] = 0
      /\ \A q, s \in Slot : \A t \in Issued' : Took(req'[q], t) /\ Took(req'[s], t) => q = s
  <2>1. 0 <= 1
    OBVIOUS
  <2> QED
    BY <1>1, <1>5, <1>6, <2>1
<1> QED
  BY <1>7 DEF OnceInv, Took

LEMMA OnceConsume ==
    ASSUME TypeInv, OnceInv, NEW p \in Slot, Consume(p)
    PROVE  OnceInv'
<1> DEFINE d == req[p].tok
<1>0. UNCHANGED <<account, mailed, session, writes>> /\ ~WriteUser(p)
  BY DEF Consume, WriteUser
<1>1. PICK r : Becomes(p, r) /\ (r.pc # "write" \/ r.tok = d)
  BY <1>0, ContinueMoves DEF Continue
<1>2. req'[p] = r /\ \A q \in Slot : q # p => req'[q] = req[q]
  BY <1>1, BecomesOthers
<1>3. CASE Answer(p) /\ UNCHANGED token
  <2>1. Issued' = Issued /\ Others(p) /\ req'[p].pc = "idle"
    BY <1>1, <1>3, Answering, RequestMoves DEF Issued, Idle
  <2> QED
    BY <1>0, <1>3, <2>1, Untaken, OnceMove
<1>4. CASE Consumable(d, req[p].mode) /\ token' = [token EXCEPT ![d].state = "used"]
  <2>1. d \in Issued /\ token[d].state = "live"
    BY <1>4 DEF TypeInv, Carries, Consume, Consumable, Redeemable, Issued
  <2>2. Issued' = Issued /\ token'[d].state = "used"
        /\ \A t \in Issued : t # d => token'[t] = token[t]
    <3>1. token[d] \in Token
      BY <2>1, Types
    <3> QED
      BY <1>4, <2>1, <3>1 DEF Issued, Token
  <2>3. writes[d] = 0 /\ \A q \in Slot : ~Took(req[q], d)
    BY <2>1 DEF OnceInv
  <2>4. \A q \in Slot : \A t : Took(req'[q], t) => Took(req[q], t) \/ (q = p /\ t = d)
    BY <1>1, <1>2 DEF Took
  <2> HIDE DEF d
  <2>5. /\ \A t \in Issued : writes'[t] <= 1
        /\ \A t \in Issued : token'[t].state # "used" =>
              writes'[t] = 0 /\ \A q \in Slot : ~Took(req'[q], t)
        /\ \A q \in Slot : \A t \in Issued : Took(req'[q], t) => writes'[t] = 0
        /\ \A q, s \in Slot : \A t \in Issued : Took(req'[q], t) /\ Took(req'[s], t) => q = s
    <3>1. ASSUME NEW t \in Issued PROVE writes'[t] <= 1
      BY <1>0 DEF OnceInv
    <3>2. ASSUME NEW t \in Issued, token'[t].state # "used", NEW q \in Slot
          PROVE  writes'[t] = 0 /\ ~Took(req'[q], t)
      <4>1. t # d /\ token[t].state # "used"
        BY <2>2, <3>2
      <4>2. writes[t] = 0 /\ ~Took(req[q], t)
        BY <3>2, <4>1 DEF OnceInv
      <4> QED
        BY <1>0, <2>4, <4>1, <4>2
    <3>3. ASSUME NEW t \in Issued, token'[t].state # "used" PROVE writes'[t] = 0
      <4>1. t # d /\ token[t].state # "used"
        BY <2>2, <3>3
      <4> QED
        BY <1>0, <3>3, <4>1 DEF OnceInv
    <3>4. ASSUME NEW q \in Slot, NEW t \in Issued, Took(req'[q], t)
          PROVE  writes'[t] = 0
      <4>1. CASE t = d
        BY <1>0, <2>3, <4>1
      <4>2. CASE t # d
        BY <1>0, <2>4, <3>4, <4>2 DEF OnceInv
      <4> QED
        BY <4>1, <4>2
    <3>5. ASSUME NEW q \in Slot, NEW s \in Slot, NEW t \in Issued,
                 Took(req'[q], t), Took(req'[s], t)
          PROVE  q = s
      <4>1. CASE t = d
        <5>1. q = p /\ s = p
          BY <2>3, <2>4, <3>5, <4>1
        <5> QED
          BY <5>1
      <4>2. CASE t # d
        <5>1. Took(req[q], t) /\ Took(req[s], t)
          BY <2>4, <3>5, <4>2
        <5> QED
          BY <5>1 DEF OnceInv
      <4> QED
        BY <4>1, <4>2
    <3> QED
      BY <3>1, <3>2, <3>3, <3>4, <3>5
  <2> QED
    BY <2>2, <2>5 DEF OnceInv, Took
<1> QED
  BY <1>3, <1>4 DEF Consume

LEMMA OnceWrite ==
    ASSUME TypeInv, OnceInv, NEW p \in Slot, WriteUser(p)
    PROVE  OnceInv'
<1> DEFINE d == req[p].tok
<1>1. UNCHANGED <<token, mailed>> /\ Issued' = Issued
  BY DEF WriteUser, Issued
<1>2. Others(p) /\ req'[p].pc # "write"
  <2>1. Begun("revoke", req[p].mode, req[p].user, NoPassword).pc = "revoke"
        /\ Idle.pc = "idle"
    BY DEF Begun, Idle
  <2> QED
    BY <2>1, Writing
<1>3. \A q \in Slot : \A t \in Issued : Took(req'[q], t) => Took(req[q], t)
  BY <1>2, Untaken
<1>4. CASE writes' = writes
  BY <1>1, <1>3, <1>4, OnceMove
<1>5. CASE d # NoToken /\ writes' = [writes EXCEPT ![d] = @ + 1]
  <2>1. d \in Issued /\ Took(req[p], d)
    BY <1>5 DEF TypeInv, Carries, WriteUser, Took, Issued
  <2>2. writes[d] = 0 /\ writes \in [Issued -> Nat] /\ token[d].state = "used"
    BY <2>1, Types DEF OnceInv
  <2>3. writes'[d] = 1 /\ \A t \in Issued : t # d => writes'[t] = writes[t]
    BY <1>5, <2>1, <2>2
  <2>4. \A q \in Slot : ~Took(req'[q], d)
    <3>1. ~Took(req'[p], d)
      BY <1>2 DEF Took
    <3> QED
      BY <1>3, <2>1, <3>1 DEF OnceInv
  <2> HIDE DEF d
  <2>5. \A t \in Issued : writes'[t] <= 1
    <3>1. \A t \in Issued : writes[t] <= 1
      BY DEF OnceInv
    <3> QED
      BY <2>3, <3>1
  <2>6. /\ \A t \in Issued : token'[t].state # "used" =>
              writes'[t] = 0 /\ \A q \in Slot : ~Took(req'[q], t)
        /\ \A q \in Slot : \A t \in Issued : Took(req'[q], t) => writes'[t] = 0
        /\ \A q, s \in Slot : \A t \in Issued : Took(req'[q], t) /\ Took(req'[s], t) => q = s
    BY <1>1, <1>3, <2>2, <2>3, <2>4 DEF OnceInv
  <2> QED
    BY <1>1, <2>5, <2>6 DEF OnceInv, Took
<1> QED
  BY <1>4, <1>5 DEF WriteUser

LEMMA OnceStep == TypeInv /\ OnceInv /\ [Next]_vars => OnceInv'
<1> SUFFICES ASSUME TypeInv, OnceInv, [Next]_vars PROVE OnceInv'
  OBVIOUS
<1>1. ASSUME NEW p \in Slot, Begin(p) PROVE OnceInv'
  <2>1. Others(p) /\ (req'[p].pc # "write" \/ req'[p].tok = NoToken)
    BY <1>1, BeginMoves
  <2>2. UNCHANGED <<token, writes>> /\ Issued' = Issued
    BY <1>1, BeginMoves DEF Issued
  <2> QED
    BY <2>1, <2>2, Untaken, OnceMove
<1>2. ASSUME NEW p \in Slot, Continue(p) \/ Abort(p) PROVE OnceInv'
  <2>1. CASE IssueToken(p)
    BY <2>1, OnceIssue
  <2>2. CASE Consume(p)
    BY <2>2, OnceConsume
  <2>3. CASE WriteUser(p)
    BY <2>3, OnceWrite
  <2>4. CASE ~IssueToken(p) /\ ~Consume(p) /\ ~WriteUser(p)
    <3>1. UNCHANGED <<token, writes>> /\ Issued' = Issued
      BY <1>2, <2>4 DEF Continue, Abort, InsertUser, LinkProvider, InsertSession, Rotate,
         MailSent, MailFails, RedeemOwner, SnapshotAll, ApplyAll, Issued
    <3>2. Others(p) /\ req'[p].pc # "write"
      BY <1>2, <2>4, ContinueMoves, BecomesOthers
    <3> QED
      BY <3>1, <3>2, Untaken, OnceMove
  <2> QED
    BY <2>1, <2>2, <2>3, <2>4
<1>3. ASSUME NEW u \in User, Reactivate(u) \/ \E w \in Password : SeedAdmin(u, w)
      PROVE  OnceInv'
  <2>1. UNCHANGED <<token, req, writes>> /\ Issued' = Issued
    BY <1>3 DEF Reactivate, SeedAdmin, Issued
  <2> QED
    BY <2>1, OnceMove DEF Took
<1>4. ASSUME NEW t \in Issued, Expire(t) PROVE OnceInv'
  <2>1. token[t] \in Token /\ token[t].state = "live"
    BY <1>4, Types DEF Expire
  <2>2. \A k \in Issued : token'[k].state = "used" <=> token[k].state = "used"
    BY <1>4, <2>1 DEF Expire, Token, Issued
  <2>3. Issued' = Issued /\ UNCHANGED <<req, writes>>
    BY <1>4 DEF Expire, Issued
  <2> QED
    BY <2>2, <2>3, OnceMove
<1>5. CASE UNCHANGED vars
  <2>1. UNCHANGED <<token, req, writes>> /\ Issued' = Issued
    BY <1>5 DEF vars, Issued
  <2> QED
    BY <2>1, OnceMove DEF Took
<1> QED
  BY <1>1, <1>2, <1>3, <1>4, <1>5 DEF Next

\* A token leads to at most one write of its account, for any number of requests
\* that resolved it before one of them consumed it.
THEOREM OneWritePerTokenHolds == Spec => []OneWritePerToken
<1>1. OnceInv => OneWritePerToken
  BY DEF OnceInv, OneWritePerToken
<1> QED
  BY <1>1, TypeInit, TypeStep, OnceInit, OnceStep, PTL DEF Spec

-----------------------------------------------------------------------------
(* Verified addresses, authorized passwords, links that survive strangers  *)

\* What a write of an account changes, and who makes it.
LEMMA WriteIs ==
    ASSUME TypeInv, NEW p \in Slot, WriteUser(p), NEW u \in User
    PROVE  /\ u # req[p].user => account'[u] = account[u]
           /\ account'[u].verified => account[u].verified \/ req[p].mode # "change"
           /\ account'[u].linked = account[u].linked
           /\ account'[u].origin = account[u].origin
           /\ account'[u].pw # account[u].pw => /\ u = req[p].user
                                                /\ req[p].mode \in {"reset", "change"}
           /\ req[p].pc = "write" /\ Carries(req[p], account, token, mailed)
<1> DEFINE r == req[p]
           a == Written(account[r.user], r.mode, r.pw)
<1>1. /\ r \in Request /\ r.pc = "write" /\ Carries(r, account, token, mailed)
      /\ r.user \in User /\ account[r.user] \in Account /\ account \in [User -> Account]
  BY Types DEF TypeInv, WriteUser
<1>2. /\ r.mode \in {"reset", "verify", "change"}
      /\ r.mode # "verify" => r.pw \in Password
  BY <1>1 DEF Carries
<1>3. /\ a.verified => account[r.user].verified \/ r.mode # "change"
      /\ a.linked = account[r.user].linked /\ a.origin = account[r.user].origin
      /\ r.mode = "verify" => a.pw = account[r.user].pw
  BY <1>1, <1>2, WrittenType
<1>4. account' = [account EXCEPT ![r.user] = a]
  BY DEF WriteUser
<1> HIDE DEF a
<1> QED
  BY <1>1, <1>2, <1>3, <1>4

\* An address that is verified without a link: somebody else vouches for it.
Vouched(a) == a.linked \/ a.origin = "seed"

\* The only other writes: of an account that did not exist, of its provider, and
\* of whether one is active.
LEMMA OtherWrites ==
    ASSUME TypeInv, [Next]_vars, NEW u \in User,
           \A p \in Slot : ~WriteUser(p)
    PROVE  /\ Known(u, account) => account'[u].pw = account[u].pw
           /\ account'[u].verified => account[u].verified \/ Vouched(account'[u])
           /\ Vouched(account[u]) => Vouched(account'[u])
<1> DEFINE Goal == /\ Known(u, account) => account'[u].pw = account[u].pw
                   /\ account'[u].verified => account[u].verified \/ Vouched(account'[u])
                   /\ Vouched(account[u]) => Vouched(account'[u])
<1>0. account \in [User -> Account] /\ account[u] \in Account
  BY Types
<1>1. ASSUME Stays(u) PROVE Goal
  BY <1>1 DEF Stays, Vouched
<1>2. CASE UNCHANGED account
  BY <1>1, <1>2 DEF Stays
<1>3. ASSUME NEW p \in Slot, Begin(p) PROVE Goal
  BY <1>1, <1>3, BeginMoves
<1>4. ASSUME NEW v \in User, NEW o \in {"register", "invite", "oauth", "seed"}, NEW w,
             o \in {"register", "seed"} => w \in Password,
             Insertable(v), account' = [account EXCEPT ![v] = NewAccount(o, w)]
      PROVE  Goal
  <2>1. CASE u # v
    BY <1>0, <1>1, <1>4, <2>1 DEF Stays
  <2>2. CASE u = v
    <3>1. account'[u] = NewAccount(o, w)
      BY <1>0, <1>4, <2>2
    <3>2. account'[u].verified => Vouched(account'[u])
      BY <1>4, <3>1, NewAccountType DEF Vouched
    <3>3. ~Known(u, account) /\ account[u] = NoAccount
      BY <1>4, <2>2 DEF Insertable, Exists, Known, TypeInv, Rooted
    <3>4. ~Vouched(account[u])
      BY <3>3 DEF Vouched, NoAccount
    <3> QED
      BY <3>2, <3>3, <3>4
  <2> QED
    BY <2>1, <2>2
<1>5. ASSUME NEW p \in Slot, InsertUser(p) PROVE Goal
  <2>1. /\ req[p].user \in User /\ req[p].mode \in {"register", "invite", "oauth"}
        /\ req[p].mode = "register" => req[p].pw \in Password
    BY <1>5, Types DEF InsertUser, TypeInv, Carries
  <2>2. \/ UNCHANGED account
        \/ /\ Insertable(req[p].user)
           /\ account' = [account EXCEPT ![req[p].user] = NewAccount(req[p].mode, req[p].pw)]
    BY <1>5 DEF InsertUser
  <2> QED
    BY <1>2, <1>4, <2>1, <2>2
<1>6. ASSUME NEW v \in User, NEW w \in Password, SeedAdmin(v, w) PROVE Goal
  BY <1>4, <1>6 DEF SeedAdmin
<1>7. ASSUME NEW p \in Slot, LinkProvider(p) PROVE Goal
  <2> DEFINE v == req[p].user
             a == [account[v] EXCEPT !.linked = TRUE, !.verified = TRUE]
  <2>1. account' = [account EXCEPT ![v] = a] /\ v \in User
    BY <1>7, Types DEF LinkProvider
  <2>2. a.linked /\ a.pw = account[v].pw
    BY <1>0, <2>1 DEF Account
  <2> HIDE DEF a, v
  <2>3. CASE u # v
    BY <1>0, <1>1, <2>1, <2>3 DEF Stays
  <2>4. CASE u = v
    BY <1>0, <2>1, <2>2, <2>4 DEF Vouched
  <2> QED
    BY <2>3, <2>4
<1>8. ASSUME NEW v \in User, Reactivate(v) PROVE Goal
  <2>1. account' = [account EXCEPT ![v].active = TRUE]
    BY <1>8 DEF Reactivate
  <2>2. Stays(u)
    BY <1>0, <2>1 DEF Account, Stays
  <2> QED
    BY <1>1, <2>2
<1>9. \/ UNCHANGED account
      \/ \E p \in Slot : Begin(p) \/ InsertUser(p) \/ LinkProvider(p)
      \/ \E v \in User : Reactivate(v) \/ \E w \in Password : SeedAdmin(v, w)
  BY DEF Next, Continue, Abort, InsertSession, Rotate, IssueToken, MailSent, MailFails,
     RedeemOwner, Consume, SnapshotAll, ApplyAll, Expire, vars
<1> QED
  BY <1>2, <1>3, <1>5, <1>6, <1>7, <1>8, <1>9

\* Links stay in the mailbox, used ones stay used, and only Consume uses one.
LEMMA LinksStay ==
    ASSUME TypeInv, [Next]_vars
    PROVE  /\ mailed \subseteq mailed'
           /\ \A t \in Issued : /\ token'[t].user = token[t].user
                                /\ token[t].state = "used" => token'[t].state = "used"
                                /\ token'[t].state = "used" /\ token[t].state # "used" =>
                                      \E p \in Slot : /\ Consume(p) /\ req[p].tok = t
                                                      /\ Goto(p, "write")
<1>0. ASSUME NEW p \in Slot, Begin(p) PROVE UNCHANGED <<token, mailed>>
  BY <1>0, BeginMoves
<1>1. mailed \subseteq mailed'
  <2>1. ASSUME NEW p \in Slot, Continue(p) PROVE mailed \subseteq mailed'
    BY <2>1 DEF Continue, InsertUser, LinkProvider, InsertSession, Rotate, IssueToken,
       MailSent, MailFails, RedeemOwner, Consume, WriteUser, SnapshotAll, ApplyAll
  <2>2. CASE UNCHANGED mailed
    BY <2>2
  <2>3. \/ UNCHANGED mailed
        \/ \E p \in Slot : Begin(p) \/ Continue(p)
    BY DEF Next, Abort, Reactivate, SeedAdmin, Expire, vars
  <2> QED
    BY <1>0, <2>1, <2>2, <2>3
<1> SUFFICES ASSUME NEW t \in Issued
             PROVE  /\ token'[t].user = token[t].user
                    /\ token[t].state = "used" => token'[t].state = "used"
                    /\ token'[t].state = "used" /\ token[t].state # "used" =>
                          \E p \in Slot : /\ Consume(p) /\ req[p].tok = t
                                          /\ Goto(p, "write")
  BY <1>1
<1>2. token[t] \in Token /\ Issued = DOMAIN token
  BY Types DEF Issued
<1>3. CASE UNCHANGED token
  BY <1>3
<1>4. ASSUME NEW p \in Slot, IssueToken(p) PROVE token'[t] = token[t]
  BY <1>4, Issuing
<1>5. ASSUME NEW k \in Issued, Expire(k)
      PROVE  /\ token'[t].user = token[t].user /\ token'[t].state # "used"
             \/ token'[t] = token[t]
  <2>1. token' = [token EXCEPT ![k].state = "expired"]
    BY <1>5 DEF Expire
  <2> QED
    BY <1>2, <1>5, <2>1 DEF Expire, Token
<1>6. ASSUME NEW p \in Slot, Consume(p), token' = [token EXCEPT ![req[p].tok].state = "used"],
             Goto(p, "write")
      PROVE  /\ token'[t].user = token[t].user
             /\ \/ token'[t] = token[t]
                \/ req[p].tok = t /\ token'[t].state = "used"
  BY <1>2, <1>6 DEF Token
<1>7. \/ UNCHANGED token
      \/ \E p \in Slot : IssueToken(p)
      \/ \E k \in Issued : Expire(k)
      \/ \E p \in Slot : /\ Consume(p) /\ Goto(p, "write")
                         /\ token' = [token EXCEPT ![req[p].tok].state = "used"]
  <2>1. ASSUME NEW p \in Slot, Continue(p)
        PROVE  \/ UNCHANGED token
               \/ IssueToken(p)
               \/ /\ Consume(p) /\ Goto(p, "write")
                  /\ token' = [token EXCEPT ![req[p].tok].state = "used"]
    BY <2>1 DEF Continue, InsertUser, LinkProvider, InsertSession, Rotate, MailSent,
       MailFails, RedeemOwner, Consume, WriteUser, SnapshotAll, ApplyAll
  <2>2. \/ UNCHANGED token
        \/ \E p \in Slot : Begin(p) \/ Continue(p)
        \/ \E k \in Issued : Expire(k)
    BY DEF Next, Abort, Reactivate, SeedAdmin, vars
  <2> QED
    BY <1>0, <2>1, <2>2
<1>8. ASSUME NEW k \in Issued, Expire(k), t = k PROVE token[t].state # "used"
  BY <1>8 DEF Expire
<1>9. ASSUME NEW k \in Issued, Expire(k)
      PROVE  /\ token'[t].user = token[t].user
             /\ token[t].state = "used" => token'[t].state = "used"
             /\ ~(token'[t].state = "used" /\ token[t].state # "used")
  <2>1. token' = [token EXCEPT ![k].state = "expired"]
    BY <1>9 DEF Expire
  <2> QED
    BY <1>2, <1>8, <1>9, <2>1 DEF Token
<1> QED
  BY <1>3, <1>4, <1>6, <1>7, <1>9

\* An address is verified only after a link that was delivered to its mailbox has
\* been redeemed, or a provider or the operator vouched for it, whatever happens to
\* links and account in between.
THEOREM VerifiedThroughMailboxHolds == Spec => []VerifiedThroughMailbox
<1>1. Init => VerifiedThroughMailbox
  BY DEF Init, NoAccount, VerifiedThroughMailbox
<1>2. ASSUME TypeInv, OnceInv, VerifiedThroughMailbox, [Next]_vars
      PROVE  VerifiedThroughMailbox'
  <2> SUFFICES ASSUME NEW u \in User, account'[u].verified
               PROVE  \/ Vouched(account'[u])
                      \/ \E t \in mailed' : token'[t].user = u /\ token'[t].state = "used"
    BY DEF VerifiedThroughMailbox, Vouched
  <2>1. \/ Vouched(account'[u])
        \/ \E t \in mailed : token[t].user = u /\ token[t].state = "used"
    <3>1. CASE \E p \in Slot : WriteUser(p)
      <4>1. PICK p \in Slot : WriteUser(p)
        BY <3>1
      <4>2. Vouched(account[u]) => Vouched(account'[u])
        BY <1>2, <4>1, WriteIs DEF Vouched
      <4>3. CASE account[u].verified
        BY <1>2, <4>2, <4>3 DEF VerifiedThroughMailbox, Vouched
      <4>4. CASE ~account[u].verified
        <5>1. /\ u = req[p].user /\ req[p].mode # "change"
              /\ req[p].pc = "write" /\ Carries(req[p], account, token, mailed)
          BY <1>2, <4>1, <4>4, WriteIs
        <5>2. req[p].tok \in mailed /\ token[req[p].tok].user = u /\ req[p].tok \in Issued
          BY <5>1 DEF Carries, Issued
        <5>3. token[req[p].tok].state = "used"
          BY <1>2, <5>1, <5>2 DEF OnceInv, Took
        <5> QED
          BY <5>2, <5>3
      <4> QED
        BY <4>3, <4>4
    <3>2. CASE \A p \in Slot : ~WriteUser(p)
      <4>1. /\ account'[u].verified => account[u].verified \/ Vouched(account'[u])
            /\ Vouched(account[u]) => Vouched(account'[u])
        BY <1>2, <3>2, OtherWrites
      <4> QED
        BY <1>2, <4>1 DEF VerifiedThroughMailbox, Vouched
    <3> QED
      BY <3>1, <3>2
  <2>2. mailed \subseteq Issued
    BY <1>2, Types
  <2> QED
    BY <1>2, <2>1, <2>2, LinksStay
<1> QED
  BY <1>1, <1>2, TypeInit, TypeStep, OnceInit, OnceStep, PTL DEF Spec

\* The password of an existing account changes only by a reset link mailed to it
\* and presented by its own application, or by a change whose caller presented the
\* password of the row it read.
THEOREM PasswordsAreAuthorizedHolds == Spec => PasswordsAreAuthorized
<1> DEFINE A == \A u \in User : Exists(u) /\ account'[u].pw # account[u].pw =>
                   \E p \in Slot :
                       LET r == req[p]
                       IN /\ WriteUser(p) /\ r.user = u /\ r.client = ClientOf[u]
                          /\ \/ /\ r.mode = "change"
                                /\ r.seen # NoPassword /\ r.current = r.seen
                             \/ /\ r.tok \in mailed
                                /\ token[r.tok].user = u
                                /\ token[r.tok].purpose = "password_reset"
<1>1. ASSUME TypeInv, [Next]_vars PROVE A
  <2> SUFFICES ASSUME NEW u \in User, Exists(u), account'[u].pw # account[u].pw
               PROVE  \E p \in Slot :
                       LET r == req[p]
                       IN /\ WriteUser(p) /\ r.user = u /\ r.client = ClientOf[u]
                          /\ \/ /\ r.mode = "change"
                                /\ r.seen # NoPassword /\ r.current = r.seen
                             \/ /\ r.tok \in mailed
                                /\ token[r.tok].user = u
                                /\ token[r.tok].purpose = "password_reset"
    OBVIOUS
  <2>1. PICK p \in Slot : WriteUser(p)
    BY <1>1, OtherWrites DEF Exists, Known
  <2>2. /\ u = req[p].user /\ req[p].mode \in {"reset", "change"}
        /\ req[p].pc = "write" /\ Carries(req[p], account, token, mailed)
    BY <1>1, <2>1, WriteIs
  <2>3. req[p].client = ClientOf[u]
    BY <2>2 DEF Carries
  <2>4. CASE req[p].mode = "change"
    BY <2>1, <2>2, <2>3, <2>4 DEF Carries
  <2>5. CASE req[p].mode = "reset"
    BY <2>1, <2>2, <2>3, <2>5 DEF Carries, PurposeOf
  <2> QED
    BY <2>2, <2>4, <2>5
<1>2. TypeInv /\ [Next]_vars => [A]_vars
  BY <1>1
<1>3. Spec => [][A]_vars
  BY <1>2, TypeInit, TypeStep, PTL DEF Spec
<1> QED
  BY <1>3 DEF PasswordsAreAuthorized

\* A link is used up only by a request of the account's own application that goes
\* on to write: what a stranger presents stays redeemable.
THEOREM TokensSurviveOthersHolds == Spec => TokensSurviveOthers
<1> DEFINE A == \A t \in Issued : token'[t].state = "used" /\ token[t].state # "used" =>
                   \E p \in Slot : /\ req[p].tok = t
                                   /\ req[p].client = ClientOf[token[t].user]
                                   /\ req'[p].pc = "write"
<1>1. ASSUME TypeInv, [Next]_vars PROVE A
  <2> SUFFICES ASSUME NEW t \in Issued, token'[t].state = "used", token[t].state # "used"
               PROVE  \E p \in Slot : /\ req[p].tok = t
                                      /\ req[p].client = ClientOf[token[t].user]
                                      /\ req'[p].pc = "write"
    OBVIOUS
  <2>1. PICK p \in Slot : Consume(p) /\ req[p].tok = t /\ Goto(p, "write")
    BY <1>1, LinksStay
  <2>2. req[p].pc = "consume" /\ Carries(req[p], account, token, mailed)
    BY <1>1, <2>1 DEF Consume, TypeInv
  <2>3. req[p].client = ClientOf[token[t].user]
    BY <2>1, <2>2 DEF Carries
  <2>4. req'[p].pc = "write"
    <3>1. req[p] \in Request /\ req \in [Slot -> Request]
      BY <1>1, Types
    <3> QED
      BY <2>1, <3>1 DEF Goto, Request
  <2> QED
    BY <2>1, <2>3, <2>4
<1>2. TypeInv /\ [Next]_vars => [A]_vars
  BY <1>1
<1>3. Spec => [][A]_vars
  BY <1>2, TypeInit, TypeStep, PTL DEF Spec
<1> QED
  BY <1>3 DEF TokensSurviveOthers

-----------------------------------------------------------------------------
(* A new password leaves no session                                        *)

\* A step of p leaves each live and stale row excused, about to be revoked, or as
\* it was and no matter of p's.
LEMMA RevokedBy ==
    ASSUME TypeInv, RevocationIsComplete, NEW p, Others(p),
           \A i \in Opened' : session'[i].live /\ session'[i].stale =>
               \/ session'[i].excuse # "none"
               \/ \E q \in Slot : Covers(req'[q], session'[i].user, i)
               \/ /\ i \in Opened /\ session'[i] = session[i]
                  /\ p \in Slot => ~Covers(req[p], session[i].user, i)
    PROVE  RevocationIsComplete'
<1> SUFFICES ASSUME NEW i \in Opened', session'[i].live, session'[i].stale
             PROVE  \/ session'[i].excuse # "none"
                    \/ \E q \in Slot : Covers(req'[q], session'[i].user, i)
  BY DEF RevocationIsComplete, Covers, Revoking
<1> SUFFICES ASSUME i \in Opened, session'[i] = session[i],
                    p \in Slot => ~Covers(req[p], session[i].user, i)
             PROVE  \/ session[i].excuse # "none"
                    \/ \E q \in Slot : Covers(req'[q], session[i].user, i)
  OBVIOUS
<1>1. \/ session[i].excuse # "none"
      \/ \E q \in Slot : Covers(req[q], session[i].user, i)
  BY DEF RevocationIsComplete
<1>2. ASSUME NEW q \in Slot, Covers(req[q], session[i].user, i)
      PROVE  Covers(req'[q], session[i].user, i)
  <2>1. q # p
    BY <1>2
  <2>2. req[q] \in Request
    BY Types
  <2>3. LET r == [req[q] EXCEPT !.overtaken = TRUE]
        IN r.pc = req[q].pc /\ r.user = req[q].user /\ r.rows = req[q].rows
    BY <2>2 DEF Request
  <2>4. /\ req'[q].pc = req[q].pc /\ req'[q].user = req[q].user
        /\ req'[q].rows = req[q].rows
    BY <2>1, <2>3 DEF Others
  <2> QED
    BY <1>2, <2>4 DEF Covers, Revoking
<1> QED
  BY <1>1, <1>2

\* Steps that touch no session, of a request that is not about to revoke.
LEMMA RevokedQuiet ==
    ASSUME TypeInv, RevocationIsComplete, NEW p, Others(p), UNCHANGED session,
           p \in Slot => req[p].pc \notin {"revoke", "apply"}
    PROVE  RevocationIsComplete'
<1>1. \A i \in Opened : p \in Slot => ~Covers(req[p], session[i].user, i)
  BY DEF Covers, Revoking
<1>2. Opened' = Opened
  BY DEF Opened
<1> QED
  BY <1>1, <1>2, RevokedBy

\* The request that outdates every session of an account will revoke them.
LEMMA RevokedOutdate ==
    ASSUME TypeInv, RevocationIsComplete, NEW p \in Slot, NEW u, Others(p), Outdate(u),
           req[p].pc \notin {"revoke", "apply"}, Revoking(req'[p], u)
    PROVE  RevocationIsComplete'
<1>1. /\ Opened' = Opened
      /\ \A i \in Opened : /\ session'[i].user = session[i].user
                           /\ session[i].user = u \/ session'[i] = session[i]
  BY Outdating
<1>2. \A i \in Opened : ~Covers(req[p], session[i].user, i)
  BY DEF Covers, Revoking
<1>3. \A i \in Opened : session[i].user = u => Covers(req'[p], session'[i].user, i)
  BY <1>1 DEF Covers
<1> QED
  BY <1>1, <1>2, <1>3, RevokedBy

\* A login that is overtaken is reached by an UPDATE that has not begun, or excused.
LEMMA RevokedInsertSession ==
    ASSUME TypeInv, RevocationIsComplete, NEW p \in Slot, InsertSession(p)
    PROVE  RevocationIsComplete'
<1> DEFINE r == req[p]
           reached == ~r.overtaken \/ \E q \in Slot : Revoking(req[q], r.user)
           s == [user |-> r.user, live |-> TRUE, stale |-> r.overtaken,
                 excuse |-> IF reached THEN "none" ELSE "login"]
<1>1. /\ r \in Request /\ r.pc = "session" /\ Known(r.user, account)
      /\ Add(s) /\ Answer(p)
  BY Types DEF InsertSession, TypeInv, Carries
<1>2. /\ s \in Session /\ s.user = r.user /\ (s.stale <=> r.overtaken)
      /\ s.excuse = "none" => reached
  BY <1>1 DEF Session, Request
<1> HIDE DEF s
<1>3. \A i \in Opened' : session'[i] = s \/ (i \in Opened /\ session'[i] = session[i])
  BY <1>1, <1>2, Adding
<1>4. Others(p) /\ \A q \in Slot : q # p => req'[q] = req[q]
  BY <1>1, Types DEF Answer, Others
<1>5. \A i \in Opened : ~Covers(req[p], session[i].user, i)
  BY <1>1 DEF Covers, Revoking
<1>6. ASSUME s.stale, s.excuse = "none", NEW i
      PROVE  \E q \in Slot : Covers(req'[q], s.user, i)
  <2>1. PICK q \in Slot : Revoking(req[q], r.user)
    BY <1>2, <1>6
  <2>2. q # p
    BY <1>1, <2>1 DEF Revoking
  <2> QED
    BY <1>2, <1>4, <2>1, <2>2 DEF Covers
<1> QED
  BY <1>3, <1>4, <1>5, <1>6, RevokedBy

\* The successor is reached by whatever would have reached its predecessor, except
\* by an UPDATE under way, which excuses it.
LEMMA RevokedRotate ==
    ASSUME TypeInv, RevocationIsComplete, NEW p \in Slot, Rotate(p)
    PROVE  RevocationIsComplete'
<1>1. req[p].pc = "rotate" /\ Answer(p)
  BY DEF Rotate
<1>2. Others(p) /\ \A q \in Slot : q # p => req'[q] = req[q]
  BY <1>1, Types DEF Answer, Others
<1>3. CASE session' = session
  BY <1>1, <1>2, <1>3, RevokedQuiet
<1>4. CASE session' # session
  <2> PICK i \in Opened :
         /\ session[i].live
         /\ \A k \in Opened' : \/ session'[k] = Successor(i)
                               \/ ~session'[k].live
                               \/ k \in Opened /\ session'[k] = session[k]
    BY <1>4, Rotating
  <2> DEFINE s == Successor(i)
  <2>1. /\ s.user = session[i].user /\ s.stale = session[i].stale
        /\ IF Missed(i) THEN s.excuse = "rotation" ELSE s.excuse = session[i].excuse
    <3>1. session[i] \in Session
      BY Types
    <3> HIDE DEF Missed
    <3> QED
      BY <3>1 DEF Successor, Session
  <2> HIDE DEF s
  <2>2. ASSUME s.stale, s.excuse = "none", NEW k
        PROVE  \E q \in Slot : Covers(req'[q], s.user, k)
    <3>1. ~Missed(i) /\ session[i].stale /\ session[i].excuse = "none"
      BY <2>1, <2>2
    <3>2. PICK q \in Slot : Covers(req[q], session[i].user, i)
      BY <3>1 DEF RevocationIsComplete
    <3>3. PICK o \in Slot : Revoking(req[o], session[i].user)
      BY <3>1, <3>2 DEF Missed, Covers
    <3>4. o # p
      BY <1>1, <3>3 DEF Revoking
    <3> QED
      BY <1>2, <2>1, <3>3, <3>4 DEF Covers
  <2>3. \A k \in Opened : ~Covers(req[p], session[k].user, k)
    BY <1>1 DEF Covers, Revoking
  <2>4. \A k \in Opened' : session'[k].live /\ session'[k].stale =>
            \/ session'[k].excuse # "none"
            \/ \E q \in Slot : Covers(req'[q], session'[k].user, k)
            \/ /\ k \in Opened /\ session'[k] = session[k]
               /\ p \in Slot => ~Covers(req[p], session[k].user, k)
    <3> SUFFICES ASSUME NEW k \in Opened', session'[k].live, session'[k].stale
                 PROVE  \/ session'[k].excuse # "none"
                        \/ \E q \in Slot : Covers(req'[q], session'[k].user, k)
                        \/ /\ k \in Opened /\ session'[k] = session[k]
                           /\ p \in Slot => ~Covers(req[p], session[k].user, k)
      OBVIOUS
    <3>1. CASE session'[k] = s
      BY <2>2, <3>1
    <3>2. CASE k \in Opened /\ session'[k] = session[k]
      BY <2>3, <3>2
    <3> QED
      BY <3>1, <3>2 DEF s
  <2> QED
    BY <1>2, <2>4, RevokedBy
<1> QED
  BY <1>3, <1>4

\* The snapshot has every row the request was about to revoke.
LEMMA RevokedSnapshotAll ==
    ASSUME TypeInv, RevocationIsComplete, NEW p \in Slot, SnapshotAll(p)
    PROVE  RevocationIsComplete'
<1> DEFINE I == {i \in Opened : session[i].user = req[p].user}
<1>1. /\ req' = [req EXCEPT ![p].pc = "apply", ![p].rows = I]
      /\ UNCHANGED session /\ req[p].pc = "revoke"
  BY DEF SnapshotAll
<1> HIDE DEF I
<1>2. req'[p].pc = "apply" /\ req'[p].user = req[p].user /\ req'[p].rows = I
  BY <1>1, Types DEF Request
<1>3. Others(p) /\ Opened' = Opened
  BY <1>1, Types DEF Others, Opened
<1>4. \A i \in Opened : Covers(req[p], session[i].user, i) =>
                           Covers(req'[p], session[i].user, i)
  BY <1>1, <1>2 DEF Covers, Revoking, I
<1> QED
  BY <1>1, <1>3, <1>4, RevokedBy

LEMMA RevokedApplyAll ==
    ASSUME TypeInv, RevocationIsComplete, NEW p \in Slot, ApplyAll(p)
    PROVE  RevocationIsComplete'
<1>1. /\ Opened' = Opened
      /\ \A i \in Opened : \/ ~session'[i].live
                           \/ i \notin req[p].rows /\ session'[i] = session[i]
  BY TypeApplyAll
<1>2. req[p].pc = "apply" /\ Answer(p)
  BY DEF ApplyAll
<1>3. Others(p)
  BY <1>2, Types DEF Answer, Others
<1>4. \A i \in Opened : i \notin req[p].rows => ~Covers(req[p], session[i].user, i)
  BY <1>2 DEF Covers, Revoking
<1> QED
  BY <1>1, <1>3, <1>4, RevokedBy

\* A request that dies before it revoked excuses the rows that were its alone.
LEMMA RevokedAbort ==
    ASSUME TypeInv, RevocationIsComplete, NEW p \in Slot, Abort(p)
    PROVE  RevocationIsComplete'
<1>1. /\ Opened' = Opened
      /\ \A i \in Opened : /\ session'[i].user = session[i].user
                           /\ \/ session'[i].excuse # "none"
                              \/ /\ session'[i] = session[i]
                                 /\ ~(session[i].stale /\ Cut(p, i))
  BY TypeAbort
<1>2. Answer(p)
  BY DEF Abort
<1>3. Others(p) /\ \A q \in Slot : q # p => req'[q] = req[q]
  BY <1>2, Types DEF Answer, Others
<1>4. \A i \in Opened : ~Cut(p, i) =>
          \/ ~Covers(req[p], session[i].user, i)
          \/ \E q \in Slot : Covers(req'[q], session[i].user, i)
  BY <1>3 DEF Cut
<1> QED
  BY <1>1, <1>3, <1>4, RevokedBy

LEMMA RevokedStep == TypeInv /\ RevocationIsComplete /\ [Next]_vars => RevocationIsComplete'
<1> SUFFICES ASSUME TypeInv, RevocationIsComplete, [Next]_vars PROVE RevocationIsComplete'
  OBVIOUS
<1>1. ASSUME NEW p \in Slot, Begin(p) PROVE RevocationIsComplete'
  <2>0. req[p] = Idle /\ Others(p)
    BY <1>1, BeginMoves
  <2>1. Others(p) /\ req[p].pc = "idle"
    BY <2>0 DEF Idle
  <2>2. CASE UNCHANGED session
    BY <2>1, <2>2, RevokedQuiet
  <2>3. ASSUME NEW u \in User, Deactivate(p, u) PROVE RevocationIsComplete'
    <3> DEFINE r == Begun("revoke", "deactivate", u, NoPassword)
    <3>1. r \in Request /\ r.pc = "revoke" /\ r.user = u
      BY BegunType DEF Position, Mode
    <3>2. req' = Overtake(u, [req EXCEPT ![p] = r]) /\ Outdate(u)
      BY <2>3 DEF Deactivate
    <3> HIDE DEF r
    <3>3. Revoking(req'[p], u)
      BY <3>1, <3>2, Overtaking DEF Revoking
    <3> QED
      BY <2>1, <3>2, <3>3, RevokedOutdate
  <2> QED
    BY <1>1, <2>2, <2>3 DEF Begin, RegisterBegin, LoginBegin, ChangeBegin, InviteBegin,
       CallbackBegin, ExchangeBegin, RefreshBegin, RequestLink, RedeemBegin
<1>2. ASSUME NEW p \in Slot, Continue(p), UNCHANGED session,
             req[p].pc \notin {"revoke", "apply"}, ~WriteUser(p)
      PROVE  RevocationIsComplete'
  BY <1>2, ContinueMoves, BecomesOthers, RevokedQuiet
<1>3. ASSUME NEW p \in Slot, WriteUser(p) PROVE RevocationIsComplete'
  <2> DEFINE r == req[p]
  <2>1. r \in Request /\ r.pc = "write" /\ Others(p) /\ r.user \in User
    BY <1>3, Writing, Types DEF WriteUser
  <2>2. CASE r.mode = "verify"
    BY <1>3, <2>1, <2>2, Writing, RevokedQuiet
  <2>3. CASE r.mode # "verify"
    <3>1. req'[p] = Begun("revoke", r.mode, r.user, NoPassword) /\ Outdate(r.user)
      BY <1>3, <2>3, Writing
    <3>2. Revoking(req'[p], r.user)
      BY <3>1 DEF Revoking, Begun, Idle
    <3> QED
      BY <2>1, <3>1, <3>2, RevokedOutdate
  <2> QED
    BY <2>2, <2>3
<1>4. ASSUME NEW p \in Slot, Continue(p)
      PROVE  \/ InsertSession(p) \/ Rotate(p) \/ WriteUser(p) \/ SnapshotAll(p) \/ ApplyAll(p)
             \/ UNCHANGED session /\ req[p].pc \notin {"revoke", "apply"}
  BY <1>4 DEF Continue, InsertUser, LinkProvider, IssueToken, MailSent, MailFails,
     RedeemOwner, Consume
<1>5. ASSUME NEW p \in Slot, Continue(p) PROVE RevocationIsComplete'
  BY <1>2, <1>3, <1>4, <1>5, RevokedInsertSession, RevokedRotate, RevokedSnapshotAll,
     RevokedApplyAll
<1>6. CASE UNCHANGED <<session, req>>
  BY <1>6 DEF RevocationIsComplete, Covers, Revoking, Opened
<1> QED
  BY <1>1, <1>5, <1>6, RevokedAbort DEF Next, Reactivate, SeedAdmin, Expire, vars

\* After a reset, a change or a deactivation no live session is left of before it
\* that nobody is about to revoke, except by a login or a rotation that overlapped
\* it or a request that died, for any number of them.
THEOREM RevocationIsCompleteHolds == Spec => []RevocationIsComplete
<1>1. Init => RevocationIsComplete
  BY DEF Init, RevocationIsComplete, Opened
<1> QED
  BY <1>1, TypeInit, TypeStep, RevokedStep, PTL DEF Spec
=============================================================================
