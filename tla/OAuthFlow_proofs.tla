-------------------------- MODULE OAuthFlow_proofs --------------------------
(* Proofs about OAuthFlow, for any users, providers, applications and       *)
(* requests, any lives of states and codes, and any bounds.                 *)
EXTENDS OAuthFlow, FiniteSetTheorems, TLAPS

Callback == {"nonce", "provider", "find", "create", "assign", "link", "store"}
Exchange == {"consume", "load", "insert"}

\* What a request carries at its position, in states T and codes C: a state that
\* exists, or a code and a caller that may redeem it.
Carries(r, T, C) ==
    /\ r.pc \in Callback => r.txn \in DOMAIN T
    /\ r.pc \in Exchange =>
          /\ r.code \in DOMAIN C
          /\ \A by \in r.by : Redeems(C[r.code].bind, by)

\* A code is bound as the state it came from was.
Sealed(T, C) ==
    \A c \in DOMAIN C : C[c].txn \in DOMAIN T /\ C[c].bind = T[C[c].txn].bind

TypeInv ==
    /\ TypeOK
    /\ \A p \in Slot : Carries(req[p], txn, code)
    /\ Sealed(txn, code)

-----------------------------------------------------------------------------
(* Appending to the states and codes                                       *)

LEMMA AppendIs ==
    ASSUME NEW n \in Nat, NEW f, NEW v, DOMAIN f = 1 .. n
    PROVE  /\ Cardinality(DOMAIN f) = n
           /\ Append1(f, v) = [i \in 1 .. n + 1 |-> IF i = n + 1 THEN v ELSE f[i]]
<1>1. Cardinality(1 .. n) = n
  BY FS_Interval
<1> QED
  BY <1>1 DEF Append1

LEMMA AppendOne ==
    ASSUME NEW S, NEW n \in Nat, NEW f \in [1 .. n -> S], NEW v \in S
    PROVE  /\ Cardinality(DOMAIN f) = n
           /\ Append1(f, v) \in [1 .. n + 1 -> S]
           /\ Append1(f, v)[n + 1] = v
           /\ \A i \in 1 .. n : Append1(f, v)[i] = f[i]
<1>1. Cardinality(DOMAIN f) = n
  <2>1. DOMAIN f = 1 .. n
    OBVIOUS
  <2> QED
    BY <2>1, FS_Interval
<1>2. Append1(f, v) = [i \in 1 .. n + 1 |-> IF i = n + 1 THEN v ELSE f[i]]
  BY <1>1 DEF Append1
<1>3. \A i \in 1 .. n + 1 : (IF i = n + 1 THEN v ELSE f[i]) \in S
  BY SMT
<1>4. n + 1 \in 1 .. n + 1 /\ \A i \in 1 .. n : i \in 1 .. n + 1 /\ i # n + 1
  BY SMT
<1> QED
  BY <1>1, <1>2, <1>3, <1>4

\* What was there before stays as it is.
Extends(f, g) == DOMAIN f \subseteq DOMAIN g /\ \A i \in DOMAIN f : g[i] = f[i]

LEMMA ExtendsItself == ASSUME NEW f PROVE Extends(f, f)
  BY DEF Extends

LEMMA AppendExtends ==
    ASSUME NEW S, NEW n \in Nat, NEW f \in [1 .. n -> S], NEW v \in S
    PROVE  Extends(f, Append1(f, v))
<1> DEFINE g == Append1(f, v)
<1>1. /\ Cardinality(DOMAIN f) = n
      /\ g \in [1 .. n + 1 -> S]
      /\ g[n + 1] = v
      /\ \A i \in 1 .. n : g[i] = f[i]
  BY ONLY AppendOne, n \in Nat, f \in [1 .. n -> S], v \in S
<1> HIDE DEF g
<1>2. DOMAIN f = 1 .. n /\ DOMAIN g = 1 .. n + 1
  BY <1>1
<1>3. 1 .. n \subseteq 1 .. n + 1
  BY SMT
<1>4. Extends(f, g)
  BY <1>1, <1>2, <1>3 DEF Extends
<1> QED
  BY <1>4 DEF g

LEMMA CarriesOn ==
    ASSUME NEW r, NEW T, NEW T2, NEW C, NEW C2, Extends(T, T2), Extends(C, C2),
           Carries(r, T, C)
    PROVE  Carries(r, T2, C2)
  BY DEF Carries, Extends

LEMMA CarriesNothing ==
    ASSUME NEW r, NEW T, NEW C, r.pc = "idle"
    PROVE  Carries(r, T, C)
  BY DEF Carries, Callback, Exchange

LEMMA IdleType == Idle \in Request
<1>1. AnyUser \in User
  BY SetAssumption DEF AnyUser
<1> QED
  BY <1>1 DEF Idle, Request, Position

\* One request moves to r.
Becomes(p, r) == req' = [req EXCEPT ![p] = r]

LEMMA RequestStep ==
    ASSUME TypeInv, NEW p \in Slot, NEW r \in Request, Becomes(p, r),
           Extends(txn, txn'), Extends(code, code'), Carries(r, txn', code')
    PROVE  /\ req' \in [Slot -> Request]
           /\ \A q \in Slot : Carries(req'[q], txn', code')
<1>1. req \in [Slot -> Request]
  BY DEF TypeInv, TypeOK
<1>2. req'[p] = r /\ \A q \in Slot : q # p => req'[q] = req[q]
  BY <1>1 DEF Becomes
<1>3. \A q \in Slot : Carries(req[q], txn', code')
  BY CarriesOn DEF TypeInv
<1> QED
  BY <1>1, <1>2, <1>3 DEF Becomes

-----------------------------------------------------------------------------
(* Type correctness, and what requests carry                               *)

LEMMA TypeInit == Init => TypeInv
<1> SUFFICES ASSUME Init PROVE TypeInv
  OBVIOUS
<1> USE BoundAssumption
<1>1. /\ \E n \in 0 .. MaxStates : txn \in [1 .. n -> Txn]
      /\ \E n \in 0 .. MaxCodes : code \in [1 .. n -> Code]
      /\ DOMAIN txn = {} /\ DOMAIN code = {}
  <2>1. 1 .. 0 = {} /\ 0 \in 0 .. MaxStates /\ 0 \in 0 .. MaxCodes
    BY SMT
  <2>2. txn \in [1 .. 0 -> Txn] /\ code \in [1 .. 0 -> Code]
    BY <2>1 DEF Init
  <2> QED
    BY <2>1, <2>2 DEF Init
<1>2. /\ marker \in [Txns -> Nat] /\ passed \in [Txns -> Nat]
      /\ opened \in [Codes -> Nat] /\ kept \subseteq Codes
  BY <1>1 DEF Init, Txns, Codes
<1>3. account \in [User -> Account]
  <2>1. Absent \in Account /\ PasswordAccount \in Account
    BY DEF Account, Absent, PasswordAccount
  <2> QED
    BY <2>1 DEF Init
<1>4. req \in [Slot -> Request] /\ \A p \in Slot : Carries(req[p], txn, code)
  BY IdleType, CarriesNothing DEF Init, Idle
<1>5. Sealed(txn, code)
  BY <1>1 DEF Sealed
<1>6. now \in 0 .. MaxTime
  BY DEF Init
<1> QED
  BY <1>1, <1>2, <1>3, <1>4, <1>5, <1>6 DEF TypeInv, TypeOK

\* A request that ends, whatever else happens.
LEMMA AnswerType ==
    ASSUME TypeInv, NEW p \in Slot, Answer(p), Extends(txn, txn'), Extends(code, code')
    PROVE  /\ req' \in [Slot -> Request]
           /\ \A q \in Slot : Carries(req'[q], txn', code')
<1>1. Becomes(p, Idle) /\ Idle \in Request
  BY IdleType DEF Becomes, Answer
<1>2. Carries(Idle, txn', code')
  BY CarriesNothing DEF Idle
<1> QED
  BY <1>1, <1>2, RequestStep

\* A request that goes on with what it carries.
LEMMA GotoType ==
    ASSUME TypeInv, NEW p \in Slot, NEW pc \in Position, Goto(p, pc),
           Carries([req[p] EXCEPT !.pc = pc], txn', code'),
           Extends(txn, txn'), Extends(code, code')
    PROVE  /\ req' \in [Slot -> Request]
           /\ \A q \in Slot : Carries(req'[q], txn', code')
<1>1. req[p] \in Request
  BY DEF TypeInv, TypeOK
<1>2. [req[p] EXCEPT !.pc = pc] \in Request
  BY <1>1 DEF Request
<1>3. Becomes(p, [req[p] EXCEPT !.pc = pc])
  BY DEF Becomes, Goto
<1> QED
  BY <1>2, <1>3, RequestStep

\* A step that adds neither state nor code.
LEMMA TypeSame ==
    ASSUME TypeInv, UNCHANGED <<txn, code>>,
           marker' \in [Txns -> Nat], passed' \in [Txns -> Nat],
           opened' \in [Codes -> Nat], kept' \subseteq Codes,
           account' \in [User -> Account], now' \in 0 .. MaxTime,
           req' \in [Slot -> Request],
           \A q \in Slot : Carries(req'[q], txn', code')
    PROVE  TypeInv'
<1>1. TypeOK'
  BY DEF TypeInv, TypeOK, Txns, Codes
<1>2. Sealed(txn, code)'
  BY DEF TypeInv, Sealed
<1> QED
  BY <1>1, <1>2 DEF TypeInv

LEMMA TypeInitiate ==
    ASSUME TypeInv, NEW b \in Binding, NEW provider \in Provider, Initiate(b, provider)
    PROVE  TypeInv' /\ Extends(txn, txn') /\ Extends(code, code')
<1> USE BoundAssumption
<1> PICK n \in 0 .. MaxStates : txn \in [1 .. n -> Txn]
  BY DEF TypeInv, TypeOK
<1> DEFINE t == [bind |-> b, provider |-> provider, iat |-> now]
<1>0. TypeOK /\ n \in Nat /\ Txns = 1 .. n
  BY DEF TypeInv, Txns
<1>1. t \in Txn
  BY <1>0 DEF TypeOK, Txn
<1>2. txn' = Append1(txn, t)
  BY DEF Initiate
<1> HIDE DEF t
<1>3. /\ Cardinality(DOMAIN txn) = n
      /\ txn' \in [1 .. n + 1 -> Txn]
  BY <1>0, <1>1, <1>2, AppendOne
<1>4. Extends(txn, txn')
  BY ONLY <1>0, <1>1, <1>2, txn \in [1 .. n -> Txn], AppendExtends
<1>5. n + 1 \in 0 .. MaxStates
  BY <1>0, <1>3 DEF Initiate, Txns
<1>6. marker \in [1 .. n -> Nat] /\ passed \in [1 .. n -> Nat]
  BY <1>0 DEF TypeOK
<1>7. marker' \in [1 .. n + 1 -> Nat]
  <2>1. marker' = Append1(marker, 0)
    BY DEF Initiate
  <2> QED
    BY <1>0, <1>6, <2>1, AppendOne
<1>8. passed' \in [1 .. n + 1 -> Nat]
  <2>1. passed' = Append1(passed, 0)
    BY DEF Initiate
  <2> QED
    BY <1>0, <1>6, <2>1, AppendOne
<1>9. Txns' = 1 .. n + 1
  BY <1>3 DEF Txns
<1>10. UNCHANGED <<code, kept, account, req, now, opened>>
  BY DEF Initiate
<1>11. TypeOK'
  BY <1>0, <1>3, <1>5, <1>7, <1>8, <1>9, <1>10 DEF TypeOK, Codes
<1>12. Extends(code, code')
  BY <1>10, ExtendsItself
<1>13. \A q \in Slot : Carries(req'[q], txn', code')
  BY <1>4, <1>10, <1>12, CarriesOn DEF TypeInv
<1>14. Sealed(txn, code)'
  BY <1>4, <1>10 DEF TypeInv, Sealed, Extends
<1> QED
  BY <1>4, <1>11, <1>12, <1>13, <1>14 DEF TypeInv

LEMMA TypeStoreCode ==
    ASSUME TypeInv, NEW p \in Slot, StoreCode(p)
    PROVE  TypeInv' /\ Extends(txn, txn') /\ Extends(code, code')
<1> USE BoundAssumption
<1> PICK n \in 0 .. MaxCodes : code \in [1 .. n -> Code]
  BY DEF TypeInv, TypeOK
<1> DEFINE r == req[p]
           c == [user |-> r.user, txn |-> r.txn, bind |-> BindingOf(r.txn),
                 exp |-> now + CodeLife]
<1>0. TypeOK /\ n \in Nat /\ Codes = 1 .. n
  BY DEF TypeInv, Codes
<1>1. r \in Request /\ r.pc = "store" /\ r.txn \in DOMAIN txn
  BY <1>0 DEF TypeInv, TypeOK, StoreCode, Carries, Callback
<1>2. c \in Code
  <2>1. txn[r.txn] \in Txn
    BY <1>0, <1>1 DEF TypeOK
  <2>2. r.user \in User /\ r.txn \in Nat
    BY <1>1 DEF Request
  <2>3. txn[r.txn].bind \in Binding
    BY <2>1 DEF Txn
  <2>4. now + CodeLife \in Nat
    BY <1>0, TimeAssumption DEF TypeOK
  <2> QED
    BY <2>2, <2>3, <2>4 DEF Code, BindingOf
<1>3. code' = Append1(code, c)
  BY DEF StoreCode
<1>4. c.txn \in DOMAIN txn /\ c.bind = txn[c.txn].bind
  BY <1>1 DEF BindingOf
<1>5. Answer(p) /\ kept' = kept \cup {Cardinality(Codes) + 1}
      /\ opened' = Append1(opened, 0) /\ Cardinality(Codes) < MaxCodes
      /\ UNCHANGED <<txn, marker, account, now, passed>>
  BY DEF StoreCode
<1> HIDE DEF c, r
<1>6. Cardinality(DOMAIN code) = n /\ code' \in [1 .. n + 1 -> Code]
      /\ code'[n + 1] = c /\ \A i \in 1 .. n : code'[i] = code[i]
  <2>1. /\ Cardinality(DOMAIN code) = n
        /\ Append1(code, c) \in [1 .. n + 1 -> Code]
        /\ Append1(code, c)[n + 1] = c
        /\ \A i \in 1 .. n : Append1(code, c)[i] = code[i]
    <3>0. n \in Nat
      BY <1>0
    <3>1. Cardinality(DOMAIN code) = n
      BY ONLY <3>0, <1>2, code \in [1 .. n -> Code], AppendOne
    <3>2. Append1(code, c) \in [1 .. n + 1 -> Code]
      BY ONLY <3>0, <1>2, code \in [1 .. n -> Code], AppendOne
    <3>3. Append1(code, c)[n + 1] = c
      BY ONLY <3>0, <1>2, code \in [1 .. n -> Code], AppendOne
    <3>4. \A i \in 1 .. n : Append1(code, c)[i] = code[i]
      <4> SUFFICES ASSUME NEW i \in 1 .. n PROVE Append1(code, c)[i] = code[i]
        OBVIOUS
      <4>1. i \in 1 .. n + 1 /\ i # n + 1
        BY ONLY <3>0, i \in 1 .. n
      <4> QED
        BY ONLY <3>1, <4>1 DEF Append1
    <3> QED
      BY ONLY <3>1, <3>2, <3>3, <3>4
  <2> QED
    BY <1>3, <2>1
<1>7. Extends(code, code')
  BY ONLY <1>0, <1>2, <1>3, code \in [1 .. n -> Code], AppendExtends
<1>8. Extends(txn, txn')
  BY <1>5, ExtendsItself
<1>9. n + 1 \in 0 .. MaxCodes
  BY <1>0, <1>5, <1>6 DEF Codes
<1>10. opened' \in [1 .. n + 1 -> Nat]
  <2>1. opened \in [1 .. n -> Nat]
    BY <1>0 DEF TypeOK
  <2> QED
    BY ONLY <1>0, <1>5, <2>1, AppendOne
<1>11. Codes' = 1 .. n + 1 /\ kept' \subseteq 1 .. n + 1
  <2>1. Codes' = 1 .. n + 1
    BY <1>6 DEF Codes
  <2>2. kept \subseteq 1 .. n
    BY <1>0 DEF TypeOK
  <2>3. 1 .. n \subseteq 1 .. n + 1 /\ n + 1 \in 1 .. n + 1
    BY SMT
  <2> QED
    BY <1>5, <1>6, <2>1, <2>2, <2>3 DEF Codes
<1>12. /\ req' \in [Slot -> Request]
       /\ \A q \in Slot : Carries(req'[q], txn', code')
  BY <1>5, <1>7, <1>8, AnswerType
<1>13. TypeOK'
  <2>1. \E k \in 0 .. MaxCodes : code' \in [1 .. k -> Code]
    BY <1>6, <1>9
  <2>2. opened' \in [Codes' -> Nat] /\ kept' \subseteq Codes'
    BY <1>10, <1>11
  <2> QED
    BY <1>0, <1>5, <1>12, <2>1, <2>2 DEF TypeOK, Txns
<1>14. Sealed(txn, code)'
  <2> SUFFICES ASSUME NEW k \in 1 .. n + 1
               PROVE  code'[k].txn \in DOMAIN txn /\ code'[k].bind = txn[code'[k].txn].bind
    BY <1>5, <1>6 DEF Sealed
  <2>1. k \in 1 .. n \/ k = n + 1
    BY SMT
  <2>2. CASE k \in 1 .. n
    BY <1>6, <2>2 DEF TypeInv, Sealed
  <2>3. CASE k = n + 1
    BY <1>4, <1>6, <2>3
  <2> QED
    BY <2>1, <2>2, <2>3
<1> QED
  BY <1>7, <1>8, <1>12, <1>13, <1>14 DEF TypeInv

\* The steps of requests that add neither state nor code, and the rest.
LEMMA TypeConsumeNonce ==
    ASSUME TypeInv, NEW p \in Slot, ConsumeNonce(p)
    PROVE  TypeInv'
<1> DEFINE s == req[p].txn
<1>1. TypeOK /\ s \in Txns /\ req[p].pc = "nonce" /\ req[p] \in Request
  BY DEF TypeInv, TypeOK, ConsumeNonce, Carries, Callback, Txns
<1>2. UNCHANGED <<txn, code, kept, account, now, opened>>
  BY DEF ConsumeNonce
<1>3. Extends(txn, txn') /\ Extends(code, code')
  BY <1>2, ExtendsItself
<1>4. /\ req' \in [Slot -> Request]
      /\ \A q \in Slot : Carries(req'[q], txn', code')
  <2>1. CASE Goto(p, "provider")
    <3>1. "provider" \in Position
      BY DEF Position
    <3>2. Carries([req[p] EXCEPT !.pc = "provider"], txn', code')
      BY <1>1, <1>2 DEF Carries, Callback, Exchange, Txns, Request
    <3> QED
      BY <1>3, <2>1, <3>1, <3>2, GotoType
  <2>2. CASE Answer(p)
    BY <1>3, <2>2, AnswerType
  <2> QED
    BY <2>1, <2>2 DEF ConsumeNonce
<1>5. marker' \in [Txns -> Nat] /\ passed' \in [Txns -> Nat]
  <2>1. marker \in [Txns -> Nat] /\ passed \in [Txns -> Nat] /\ now \in Nat
    BY <1>1 DEF TypeOK
  <2>2. now + MarkerLife \in Nat
    BY <2>1, TimeAssumption DEF MarkerLife
  <2>3. CASE /\ marker' = [marker EXCEPT ![s] = now + MarkerLife]
             /\ passed' = [passed EXCEPT ![s] = @ + 1]
    BY <1>1, <2>1, <2>2, <2>3
  <2>4. CASE UNCHANGED <<marker, passed>>
    BY <2>1, <2>4
  <2> QED
    BY <2>3, <2>4 DEF ConsumeNonce
<1>6. /\ opened' \in [Codes -> Nat] /\ kept' \subseteq Codes
      /\ account' \in [User -> Account] /\ now' \in 0 .. MaxTime
  BY <1>1, <1>2 DEF TypeOK
<1> QED
  BY <1>2, <1>4, <1>5, <1>6, TypeSame

\* Steps that only move a request.
LEMMA TypeMoves ==
    ASSUME TypeInv, UNCHANGED <<txn, marker, code, kept, account, now, passed, opened>>,
           req' \in [Slot -> Request],
           \A q \in Slot : Carries(req'[q], txn', code')
    PROVE  TypeInv'
<1>1. TypeOK' /\ Sealed(txn, code)'
  BY DEF TypeInv, TypeOK, Txns, Codes, Sealed
<1> QED
  BY <1>1 DEF TypeInv

LEMMA TypeBegin ==
    ASSUME TypeInv, NEW p \in Slot, Begin(p)
    PROVE  TypeInv'
<1>0. UNCHANGED <<txn, marker, code, kept, account, now, passed, opened>>
  BY DEF Begin, CallbackBegin, ExchangeBegin
<1>1. Extends(txn, txn') /\ Extends(code, code')
  BY <1>0, ExtendsItself
<1>2. TypeOK /\ now \in Nat /\ Idle \in Request
  <2>1. TypeOK /\ now \in 0 .. MaxTime
    BY DEF TypeInv, TypeOK
  <2> QED
    BY <2>1, IdleType, BoundAssumption
<1>3. \E r \in Request : Becomes(p, r) /\ Carries(r, txn', code')
  <2>1. CASE \E s \in Txns : CallbackBegin(p, s)
    <3> PICK s \in Txns : CallbackBegin(p, s)
      BY <2>1
    <3> DEFINE r == [Idle EXCEPT !.pc = "nonce", !.txn = s, !.at = now]
    <3>1. s \in Nat
      BY <1>2 DEF TypeOK, Txns
    <3>2. r \in Request
      BY <1>2, <3>1 DEF Request, Position
    <3>3. Becomes(p, r)
      BY DEF CallbackBegin, Start, Becomes
    <3>4. Carries(r, txn', code')
      BY <1>0 DEF Carries, Callback, Exchange, Txns, Idle
    <3> QED
      BY <3>2, <3>3, <3>4
  <2>2. CASE \E c \in Codes, by \in Binding : ExchangeBegin(p, c, by)
    <3> PICK c \in Codes, by \in Binding : ExchangeBegin(p, c, by)
      BY <2>2
    <3> DEFINE r == [Idle EXCEPT !.pc = "consume", !.code = c,
                                 !.user = code[c].user, !.by = {by}]
    <3>1. c \in Nat /\ code[c].user \in User
      <4> PICK n \in 0 .. MaxCodes : code \in [1 .. n -> Code]
        BY <1>2 DEF TypeOK
      <4>1. c \in 1 .. n
        BY DEF Codes
      <4>2. code[c] \in Code /\ c \in Nat
        BY <4>1
      <4> QED
        BY <4>2 DEF Code
    <3>2. r \in Request
      BY <1>2, <3>1 DEF Request, Position
    <3>3. Becomes(p, r)
      BY DEF ExchangeBegin, Start, Becomes
    <3>4. Carries(r, txn', code')
      BY <1>0 DEF Carries, Callback, Exchange, Codes, Idle, ExchangeBegin
    <3> QED
      BY <3>2, <3>3, <3>4
  <2> QED
    BY <2>1, <2>2 DEF Begin
<1>4. /\ req' \in [Slot -> Request]
      /\ \A q \in Slot : Carries(req'[q], txn', code')
  BY <1>1, <1>3, RequestStep
<1> QED
  BY <1>0, <1>4, TypeMoves

LEMMA TypeProviderAnswers ==
    ASSUME TypeInv, NEW p \in Slot, ProviderAnswers(p)
    PROVE  TypeInv'
<1>0. UNCHANGED <<txn, marker, code, kept, account, now, passed, opened>>
  BY DEF ProviderAnswers
<1>1. Extends(txn, txn') /\ Extends(code, code')
  BY <1>0, ExtendsItself
<1>2. CASE Answer(p)
  BY <1>0, <1>1, <1>2, AnswerType, TypeMoves
<1>3. CASE \E i \in Identity, u \in User :
             req' = [req EXCEPT ![p].pc = "find", ![p].who = {i}, ![p].user = u]
  <2> PICK i \in Identity, u \in User :
             req' = [req EXCEPT ![p].pc = "find", ![p].who = {i}, ![p].user = u]
    BY <1>3
  <2> DEFINE r == [req[p] EXCEPT !.pc = "find", !.who = {i}, !.user = u]
  <2>1. req[p] \in Request /\ req[p].pc = "provider" /\ req[p].txn \in DOMAIN txn
    BY DEF TypeInv, TypeOK, ProviderAnswers, Carries, Callback
  <2>2. r \in Request
    BY <2>1 DEF Request, Position
  <2>3. Becomes(p, r)
    BY DEF Becomes
  <2>4. Carries(r, txn', code')
    BY <1>0, <2>1 DEF Carries, Callback, Exchange, Request
  <2> QED
    BY <1>0, <1>1, <2>2, <2>3, <2>4, RequestStep, TypeMoves
<1> QED
  BY <1>2, <1>3 DEF ProviderAnswers

LEMMA TypeFindUser ==
    ASSUME TypeInv, NEW p \in Slot, FindUser(p)
    PROVE  TypeInv'
<1>0. UNCHANGED <<txn, marker, code, kept, account, now, passed, opened>>
  BY DEF FindUser
<1>1. Extends(txn, txn') /\ Extends(code, code')
  BY <1>0, ExtendsItself
<1>2. \/ Answer(p)
      \/ \E pc \in {"create", "link", "store"} : Goto(p, pc)
  BY DEF FindUser
<1>3. CASE Answer(p)
  BY <1>0, <1>1, <1>3, AnswerType, TypeMoves
<1>4. ASSUME NEW pc \in {"create", "link", "store"}, Goto(p, pc) PROVE TypeInv'
  <2>1. req[p] \in Request /\ req[p].pc = "find" /\ Carries(req[p], txn, code)
    BY DEF TypeInv, TypeOK, FindUser
  <2>2. Carries([req[p] EXCEPT !.pc = pc], txn', code') /\ pc \in Position
    BY <1>0, <2>1 DEF Carries, Callback, Exchange, Request, Position
  <2> QED
    BY <1>0, <1>1, <1>4, <2>2, GotoType, TypeMoves
<1> QED
  BY <1>2, <1>3, <1>4

\* Steps that write an account.
LEMMA TypeWrites ==
    ASSUME TypeInv, UNCHANGED <<txn, marker, code, kept, now, passed, opened>>,
           NEW u \in User, NEW a \in Account,
           account' = [account EXCEPT ![u] = a],
           req' \in [Slot -> Request],
           \A q \in Slot : Carries(req'[q], txn', code')
    PROVE  TypeInv'
<1>1. account \in [User -> Account]
  BY DEF TypeInv, TypeOK
<1>2. account' \in [User -> Account]
  BY <1>1
<1>3. TypeOK' /\ Sealed(txn, code)'
  BY <1>2 DEF TypeInv, TypeOK, Txns, Codes, Sealed
<1> QED
  BY <1>2, <1>3 DEF TypeInv

LEMMA TypeCreateUser ==
    ASSUME TypeInv, NEW p \in Slot, CreateUser(p)
    PROVE  TypeInv'
<1>0. UNCHANGED <<txn, marker, code, kept, now, passed, opened>>
  BY DEF CreateUser
<1>1. Extends(txn, txn') /\ Extends(code, code')
  BY <1>0, ExtendsItself
<1>2. req[p] \in Request /\ req[p].pc = "create" /\ Carries(req[p], txn, code)
  BY DEF TypeInv, TypeOK, CreateUser
<1> DEFINE u == req[p].user
           a == [Absent EXCEPT !.exists = TRUE, !.active = TRUE, !.link = req[p].who]
<1>3. CASE account' = [account EXCEPT ![u] = a] /\ Goto(p, "assign")
  <2>1. u \in User /\ a \in Account
    BY <1>2 DEF Request, Account, Absent
  <2>2. Carries([req[p] EXCEPT !.pc = "assign"], txn', code') /\ "assign" \in Position
    BY <1>0, <1>2 DEF Carries, Callback, Exchange, Request, Position
  <2>3. /\ req' \in [Slot -> Request]
        /\ \A q \in Slot : Carries(req'[q], txn', code')
    BY <1>1, <1>3, <2>2, GotoType
  <2> HIDE DEF a, u
  <2> QED
    BY <1>0, <1>3, <2>1, <2>3, TypeWrites
<1>4. CASE Answer(p) /\ UNCHANGED account
  BY <1>0, <1>1, <1>4, AnswerType, TypeMoves
<1> QED
  BY <1>3, <1>4 DEF CreateUser

LEMMA TypeAssignRoles ==
    ASSUME TypeInv, NEW p \in Slot, AssignRoles(p)
    PROVE  TypeInv'
<1>0. UNCHANGED <<txn, marker, code, kept, now, passed, opened>> /\ Goto(p, "store")
  BY DEF AssignRoles
<1>1. Extends(txn, txn') /\ Extends(code, code')
  BY <1>0, ExtendsItself
<1>2. req[p] \in Request /\ req[p].pc = "assign" /\ Carries(req[p], txn, code)
  BY DEF TypeInv, TypeOK, AssignRoles
<1> DEFINE u == req[p].user
           a == [account[u] EXCEPT !.roles = TRUE]
<1>3. u \in User /\ account[u] \in Account
  BY <1>2 DEF Request, TypeInv, TypeOK
<1>4. a \in Account
  BY <1>3 DEF Account
<1>5. account' = [account EXCEPT ![u] = a]
  BY DEF AssignRoles
<1>6. Carries([req[p] EXCEPT !.pc = "store"], txn', code') /\ "store" \in Position
  BY <1>0, <1>2 DEF Carries, Callback, Exchange, Request, Position
<1>7. /\ req' \in [Slot -> Request]
      /\ \A q \in Slot : Carries(req'[q], txn', code')
  BY <1>0, <1>1, <1>6, GotoType
<1> HIDE DEF a, u
<1> QED
  BY <1>0, <1>3, <1>4, <1>5, <1>7, TypeWrites

LEMMA TypeLinkUser ==
    ASSUME TypeInv, NEW p \in Slot, LinkUser(p)
    PROVE  TypeInv'
<1>0. UNCHANGED <<txn, marker, code, kept, now, passed, opened>> /\ Goto(p, "store")
  BY DEF LinkUser
<1>1. Extends(txn, txn') /\ Extends(code, code')
  BY <1>0, ExtendsItself
<1>2. req[p] \in Request /\ req[p].pc = "link" /\ Carries(req[p], txn, code)
  BY DEF TypeInv, TypeOK, LinkUser
<1> DEFINE u == req[p].user
           a == [account[u] EXCEPT !.link = req[p].who]
<1>3. u \in User /\ account[u] \in Account
  BY <1>2 DEF Request, TypeInv, TypeOK
<1>4. a \in Account
  BY <1>2, <1>3 DEF Account, Request
<1>5. account' = [account EXCEPT ![u] = a]
  BY DEF LinkUser
<1>6. Carries([req[p] EXCEPT !.pc = "store"], txn', code') /\ "store" \in Position
  BY <1>0, <1>2 DEF Carries, Callback, Exchange, Request, Position
<1>7. /\ req' \in [Slot -> Request]
      /\ \A q \in Slot : Carries(req'[q], txn', code')
  BY <1>0, <1>1, <1>6, GotoType
<1> HIDE DEF a, u
<1> QED
  BY <1>0, <1>3, <1>4, <1>5, <1>7, TypeWrites

LEMMA TypeSetActive ==
    ASSUME TypeInv, NEW u \in User, NEW flag \in BOOLEAN, SetActive(u, flag)
    PROVE  TypeInv'
<1>0. UNCHANGED <<txn, marker, code, kept, req, now, passed, opened>>
  BY DEF SetActive
<1>1. account[u] \in Account
  BY DEF TypeInv, TypeOK
<1> DEFINE a == [account[u] EXCEPT !.active = account[u].exists /\ flag]
<1>2. a \in Account
  <2>1. (account[u].exists /\ flag) \in BOOLEAN
    BY <1>1 DEF Account
  <2> QED
    BY <1>1, <2>1 DEF Account
<1>3. account' = [account EXCEPT ![u] = a]
  BY DEF SetActive
<1>4. /\ req' \in [Slot -> Request]
      /\ \A q \in Slot : Carries(req'[q], txn', code')
  BY <1>0 DEF TypeInv, TypeOK
<1> HIDE DEF a
<1> QED
  BY <1>0, <1>2, <1>3, <1>4, TypeWrites

LEMMA TypeExchange ==
    ASSUME TypeInv, NEW p \in Slot,
           ConsumeCode(p) \/ LoadUser(p) \/ InsertSession(p)
    PROVE  TypeInv'
<1>0. UNCHANGED <<txn, marker, code, account, now, passed>>
  BY DEF ConsumeCode, LoadUser, InsertSession
<1>1. Extends(txn, txn') /\ Extends(code, code')
  BY <1>0, ExtendsItself
<1>2. /\ req[p] \in Request /\ req[p].pc \in Exchange /\ Carries(req[p], txn, code)
      /\ req[p].code \in Codes
  BY DEF TypeInv, TypeOK, ConsumeCode, LoadUser, InsertSession, Carries, Exchange, Codes
<1>3. /\ req' \in [Slot -> Request]
      /\ \A q \in Slot : Carries(req'[q], txn', code')
  <2>1. Answer(p) \/ \E pc \in {"load", "insert"} : Goto(p, pc)
    BY DEF ConsumeCode, LoadUser, InsertSession
  <2>2. ASSUME NEW pc \in {"load", "insert"}
        PROVE  Carries([req[p] EXCEPT !.pc = pc], txn', code') /\ pc \in Position
    BY <1>0, <1>2 DEF Carries, Callback, Exchange, Request, Position
  <2> QED
    BY <1>1, <2>1, <2>2, AnswerType, GotoType
<1>4. opened' \in [Codes -> Nat]
  <2>1. opened \in [Codes -> Nat]
    BY DEF TypeInv, TypeOK
  <2>2. CASE UNCHANGED opened
    BY <2>1, <2>2
  <2>3. CASE opened' = [opened EXCEPT ![req[p].code] = @ + 1]
    BY <1>2, <2>1, <2>3
  <2> QED
    BY <2>2, <2>3 DEF ConsumeCode, LoadUser, InsertSession
<1>5. kept' \subseteq Codes
  BY DEF TypeInv, TypeOK, ConsumeCode, LoadUser, InsertSession
<1>6. /\ marker' \in [Txns -> Nat] /\ passed' \in [Txns -> Nat]
      /\ account' \in [User -> Account] /\ now' \in 0 .. MaxTime
  BY <1>0 DEF TypeInv, TypeOK
<1> QED
  BY <1>0, <1>3, <1>4, <1>5, <1>6, TypeSame

LEMMA TypeStep == TypeInv /\ [Next]_vars => TypeInv'
<1> SUFFICES ASSUME TypeInv, [Next]_vars PROVE TypeInv'
  OBVIOUS
<1>1. ASSUME NEW b \in Binding, NEW provider \in Provider, Initiate(b, provider)
      PROVE  TypeInv'
  BY <1>1, TypeInitiate
<1>2. ASSUME NEW p \in Slot, Begin(p) PROVE TypeInv'
  BY <1>2, TypeBegin
<1>3. ASSUME NEW p \in Slot, Continue(p) PROVE TypeInv'
  BY <1>3, TypeConsumeNonce, TypeProviderAnswers, TypeFindUser, TypeCreateUser,
     TypeAssignRoles, TypeLinkUser, TypeStoreCode, TypeExchange DEF Continue
<1>4. ASSUME NEW p \in Slot, Abort(p) PROVE TypeInv'
  <2>1. /\ UNCHANGED <<txn, marker, code, kept, account, now, passed, opened>>
        /\ Answer(p)
    BY <1>4 DEF Abort
  <2>2. Extends(txn, txn') /\ Extends(code, code')
    BY <2>1, ExtendsItself
  <2> QED
    BY <2>1, <2>2, AnswerType, TypeMoves
<1>5. ASSUME NEW u \in User, NEW flag \in BOOLEAN, SetActive(u, flag) PROVE TypeInv'
  BY <1>5, TypeSetActive
<1>6. CASE Tick
  <2>1. UNCHANGED <<txn, marker, code, kept, account, req, passed, opened>>
    BY <1>6 DEF Tick
  <2>2. now' \in 0 .. MaxTime
    BY <1>6, BoundAssumption DEF Tick, TypeInv, TypeOK
  <2> QED
    BY <2>1, <2>2 DEF TypeInv, TypeOK, Txns, Codes, Sealed
<1>7. CASE UNCHANGED vars
  BY <1>7 DEF vars, TypeInv, TypeOK, Txns, Codes, Sealed
<1> QED
  BY <1>1, <1>2, <1>3, <1>4, <1>5, <1>6, <1>7 DEF Next

\* At every moment every variable of OAuthFlow has its type.
THEOREM TypeCorrect == Spec => []TypeOK
<1>1. TypeInv => TypeOK
  BY DEF TypeInv
<1> QED
  BY <1>1, TypeInit, TypeStep, PTL DEF Spec

\* Every session that is about to be inserted belongs to the transaction the
\* application initiated: the code carries what the state sealed, and nobody
\* gets past ExchangeBegin without it.
THEOREM SessionsMatchTransactionsHolds == Spec => []SessionsMatchTransactions
<1>1. ASSUME TypeInv PROVE SessionsMatchTransactions
  <2> SUFFICES ASSUME NEW p \in Slot, req[p].pc = "insert", NEW by \in req[p].by
               PROVE  LET b == txn[code[req[p].code].txn].bind
                      IN /\ by.app = b.app /\ by.redirect = b.redirect
                         /\ by.challenge = b.challenge \/ b.challenge = NoChallenge
    BY DEF SessionsMatchTransactions
  <2>1. req[p].code \in DOMAIN code /\ Redeems(code[req[p].code].bind, by)
    BY <1>1 DEF TypeInv, Carries, Exchange
  <2>2. code[req[p].code].bind = txn[code[req[p].code].txn].bind
    BY <1>1, <2>1 DEF TypeInv, Sealed
  <2> QED
    BY <2>1, <2>2 DEF Redeems
<1> QED
  BY <1>1, TypeInit, TypeStep, PTL DEF Spec

-----------------------------------------------------------------------------
(* A state completes one callback                                          *)

\* Between the check of a state's age and its nonce a request is at most Lag
\* ticks old; a state that was used has a marker that outlives every request
\* that may still come with it.
Timely(r, T, t) ==
    r.pc = "nonce" => /\ T[r.txn].iat + Away <= r.at
                      /\ r.at <= T[r.txn].iat + StateLife
                      /\ r.at <= t /\ t <= r.at + Lag

Remembered(s) ==
    /\ passed[s] <= 1
    /\ passed[s] = 1 => marker[s] >= txn[s].iat + Away + StateLife

NonceInv ==
    /\ \A p \in Slot : Timely(req[p], txn, now)
    /\ \A s \in Txns : Remembered(s)

\* What the arithmetic needs of the types.
LEMMA Numbers ==
    ASSUME TypeInv
    PROVE  /\ now \in Nat /\ req \in [Slot -> Request]
           /\ \A s \in Txns : txn[s].iat \in Nat /\ marker[s] \in Nat /\ passed[s] \in Nat
           /\ \A p \in Slot : req[p].at \in Nat
           /\ \A p \in Slot : req[p].pc = "nonce" => req[p].txn \in Txns
<1>1. TypeOK
  BY DEF TypeInv
<1>2. now \in Nat
  <2>1. now \in 0 .. MaxTime
    BY <1>1 DEF TypeOK
  <2> QED
    BY <2>1, BoundAssumption
<1>3. \A s \in Txns : txn[s].iat \in Nat /\ marker[s] \in Nat /\ passed[s] \in Nat
  <2> SUFFICES ASSUME NEW s \in Txns
               PROVE  txn[s].iat \in Nat /\ marker[s] \in Nat /\ passed[s] \in Nat
    OBVIOUS
  <2>1. txn[s] \in Txn /\ marker[s] \in Nat /\ passed[s] \in Nat
    BY <1>1 DEF TypeOK, Txns
  <2> QED
    BY <2>1 DEF Txn
<1>4. \A p \in Slot : req[p].at \in Nat
  BY <1>1 DEF TypeOK, Request
<1>5. \A p \in Slot : req[p].pc = "nonce" => req[p].txn \in Txns
  BY DEF TypeInv, Carries, Callback, Txns
<1> QED
  BY <1>1, <1>2, <1>3, <1>4, <1>5 DEF TypeOK

\* Whatever goes on from, or ends at, a position goes to another one, and only
\* the exchange's own steps lead to where a session is inserted.
LEMMA Leaves ==
    ASSUME TypeInv, NEW p \in Slot, Continue(p) \/ Abort(p)
    PROVE  /\ \E r : Becomes(p, r) /\ r.pc # "nonce"
           /\ \/ \E r : Becomes(p, r) /\ r.pc \notin {"load", "insert"}
              \/ ConsumeCode(p) \/ LoadUser(p) \/ InsertSession(p)
<1>1. req[p] \in Request
  BY DEF TypeInv, TypeOK
<1>2. ASSUME Answer(p)
      PROVE  \E r : Becomes(p, r) /\ r.pc \notin {"nonce", "load", "insert"}
  <2>1. Becomes(p, Idle) /\ Idle.pc = "idle"
    BY <1>2 DEF Answer, Becomes, Idle
  <2> QED
    BY <2>1
<1>3. ASSUME NEW pc, Goto(p, pc) PROVE \E r : Becomes(p, r) /\ r.pc = pc
  <2>1. Becomes(p, [req[p] EXCEPT !.pc = pc])
    BY <1>3 DEF Goto, Becomes
  <2>2. [req[p] EXCEPT !.pc = pc].pc = pc
    BY <1>1 DEF Request
  <2> QED
    BY <2>1, <2>2
<1>4. ASSUME NEW i, NEW u, req' = [req EXCEPT ![p].pc = "find", ![p].who = {i}, ![p].user = u]
      PROVE  \E r : Becomes(p, r) /\ r.pc = "find"
  <2> DEFINE r == [req[p] EXCEPT !.pc = "find", !.who = {i}, !.user = u]
  <2>1. Becomes(p, r)
    BY <1>4 DEF Becomes
  <2>2. r.pc = "find"
    BY <1>1 DEF Request
  <2> QED
    BY <2>1, <2>2
<1>5. \/ Answer(p)
      \/ \E pc \in {"provider", "create", "link", "store", "assign"} : Goto(p, pc)
      \/ \E i, u : req' = [req EXCEPT ![p].pc = "find", ![p].who = {i}, ![p].user = u]
      \/ /\ ConsumeCode(p) \/ LoadUser(p) \/ InsertSession(p)
         /\ \E pc \in {"load", "insert"} : Goto(p, pc)
  <2>1. ASSUME ConsumeNonce(p) PROVE Answer(p) \/ Goto(p, "provider")
    BY <2>1 DEF ConsumeNonce
  <2>2. ASSUME ProviderAnswers(p)
        PROVE  \/ Answer(p)
               \/ \E i, u : req' = [req EXCEPT ![p].pc = "find", ![p].who = {i}, ![p].user = u]
    BY <2>2 DEF ProviderAnswers
  <2>3. ASSUME FindUser(p)
        PROVE  Answer(p) \/ \E pc \in {"create", "link", "store"} : Goto(p, pc)
    BY <2>3 DEF FindUser
  <2>4. ASSUME CreateUser(p) \/ AssignRoles(p) \/ LinkUser(p) \/ StoreCode(p) \/ Abort(p)
        PROVE  Answer(p) \/ \E pc \in {"assign", "store"} : Goto(p, pc)
    BY <2>4 DEF CreateUser, AssignRoles, LinkUser, StoreCode, Abort
  <2>5. ASSUME ConsumeCode(p) \/ LoadUser(p) \/ InsertSession(p)
        PROVE  Answer(p) \/ \E pc \in {"load", "insert"} : Goto(p, pc)
    BY <2>5 DEF ConsumeCode, LoadUser, InsertSession
  <2> QED
    BY <2>1, <2>2, <2>3, <2>4, <2>5 DEF Continue
<1> QED
  BY <1>2, <1>3, <1>4, <1>5

LEMMA NonceNext ==
    ASSUME \A q \in Slot : Timely(req'[q], txn', now'), \A q \in Txns' : Remembered(q)'
    PROVE  NonceInv'
<1>1. (\A q \in Slot : Timely(req[q], txn, now))'
  BY DEF Timely
<1>2. (\A q \in Txns : Remembered(q))'
  OBVIOUS
<1> QED
  BY <1>1, <1>2 DEF NonceInv

\* What was remembered stays so where nothing of it moves.
LEMMA RememberedSame ==
    ASSUME NonceInv, UNCHANGED <<txn, marker, passed>>
    PROVE  \A q \in Txns' : Remembered(q)'
  BY DEF NonceInv, Remembered, Txns

LEMMA MarkerOutlives ==
    ASSUME NEW iat \in Nat, NEW at \in Nat, NEW t \in Nat, NEW m \in Nat,
           iat + Away <= at, at <= iat + StateLife, at <= t, t <= at + Lag,
           m >= iat + Away + StateLife
    PROVE  m # 0 /\ t <= m
<1>1. StateLife \in Nat /\ StateLife > 0 /\ Away \in Nat /\ Lag \in Nat /\ Lag <= Away
  BY TimeAssumption
<1> QED
  BY <1>1

\* A request that is not on its way to the nonce, where nothing else moves.
LEMMA NonceMove ==
    ASSUME TypeInv, NonceInv, NEW p \in Slot, NEW r, Becomes(p, r), r.pc # "nonce",
           UNCHANGED <<txn, now>>
    PROVE  \A q \in Slot : Timely(req'[q], txn', now')
<1> SUFFICES ASSUME NEW q \in Slot PROVE Timely(req'[q], txn', now')
  OBVIOUS
<1>1. req'[q] = (IF q = p THEN r ELSE req[q])
  BY Numbers DEF Becomes
<1> QED
  BY <1>1 DEF NonceInv, Timely

LEMMA NonceConsume ==
    ASSUME TypeInv, NonceInv, NEW p \in Slot, ConsumeNonce(p)
    PROVE  NonceInv'
<1> DEFINE s == req[p].txn
<1>0. UNCHANGED <<txn, code, kept, account, now, opened>>
  BY DEF ConsumeNonce
<1>1. \E r : Becomes(p, r) /\ r.pc # "nonce"
  BY Leaves DEF Continue
<1>2. \A q \in Slot : Timely(req'[q], txn', now')
  BY <1>0, <1>1, NonceMove
<1>3. s \in Txns /\ Timely(req[p], txn, now) /\ Remembered(s) /\ req[p].pc = "nonce"
  BY Numbers DEF NonceInv, ConsumeNonce
<1>4. \A q \in Txns : Remembered(q)'
  <2>1. CASE UNCHANGED <<marker, passed>>
    BY <1>0, <2>1 DEF NonceInv, Remembered, Txns
  <2>2. CASE /\ ~Marked(s)
             /\ marker' = [marker EXCEPT ![s] = now + MarkerLife]
             /\ passed' = [passed EXCEPT ![s] = @ + 1]
    <3>1. /\ now \in Nat /\ req[p].at \in Nat
          /\ txn[s].iat \in Nat /\ marker[s] \in Nat /\ passed[s] \in Nat
          /\ marker \in [Txns -> Nat] /\ passed \in [Txns -> Nat]
      BY <1>3, Numbers DEF TypeInv, TypeOK
    <3>2. /\ txn[s].iat + Away <= req[p].at /\ req[p].at <= txn[s].iat + StateLife
          /\ req[p].at <= now /\ now <= req[p].at + Lag
      BY <1>3 DEF Timely
    <3>3. passed[s] <= 1 /\ (passed[s] = 1 => marker[s] >= txn[s].iat + Away + StateLife)
      BY <1>3 DEF Remembered
    <3>4. passed[s] = 0
      <4>1. ~(marker[s] # 0 /\ now <= marker[s])
        BY <2>2 DEF Marked
      <4>2. passed[s] = 1 => marker[s] # 0 /\ now <= marker[s]
        BY <3>1, <3>2, <3>3, MarkerOutlives
      <4>3. passed[s] \in Nat /\ passed[s] <= 1
        BY <3>1, <3>3
      <4> HIDE DEF s
      <4> QED
        BY <4>1, <4>2, <4>3
    <3>5. now + MarkerLife >= txn[s].iat + Away + StateLife
      BY <3>1, <3>2, TimeAssumption DEF MarkerLife
    <3>6. marker'[s] = now + MarkerLife /\ passed'[s] = 1
      BY <1>3, <2>2, <3>1, <3>4
    <3>7. \A q \in Txns : q # s => marker'[q] = marker[q] /\ passed'[q] = passed[q]
      BY <2>2, <3>1
    <3> HIDE DEF s
    <3> QED
      BY <1>0, <3>5, <3>6, <3>7 DEF NonceInv, Remembered
  <2> QED
    BY <2>1, <2>2 DEF ConsumeNonce
<1>5. Txns' = Txns
  BY <1>0 DEF Txns
<1> QED
  BY <1>2, <1>4, <1>5, NonceNext

LEMMA NonceInitiate ==
    ASSUME TypeInv, NonceInv, NEW b \in Binding, NEW provider \in Provider,
           Initiate(b, provider)
    PROVE  NonceInv'
<1> USE BoundAssumption
<1> PICK n \in 0 .. MaxStates : txn \in [1 .. n -> Txn]
  BY DEF TypeInv, TypeOK
<1>0. /\ n \in Nat /\ Txns = 1 .. n /\ TypeOK
      /\ UNCHANGED <<code, kept, account, req, now, opened>>
  BY DEF TypeInv, Txns, Initiate
<1>1. Extends(txn, txn') /\ TypeInv'
  BY TypeInitiate
<1>2. marker \in [1 .. n -> Nat] /\ passed \in [1 .. n -> Nat] /\ 0 \in Nat
  BY <1>0 DEF TypeOK
<1>3. marker' = Append1(marker, 0) /\ passed' = Append1(passed, 0)
  BY DEF Initiate
<1>4. Extends(marker, marker')
  <2>1. Extends(marker, Append1(marker, 0))
    BY ONLY <1>0, <1>2, AppendExtends
  <2> QED
    BY <1>3, <2>1
<1>5. /\ Cardinality(DOMAIN passed) = n
      /\ DOMAIN Append1(passed, 0) = 1 .. n + 1
      /\ Append1(passed, 0)[n + 1] = 0
      /\ \A i \in 1 .. n : Append1(passed, 0)[i] = passed[i]
  <2>1. DOMAIN passed = 1 .. n /\ n \in Nat
    BY <1>0, <1>2
  <2>2. /\ Cardinality(DOMAIN passed) = n
        /\ Append1(passed, 0) = [i \in 1 .. n + 1 |-> IF i = n + 1 THEN 0 ELSE passed[i]]
    BY ONLY <2>1, AppendIs
  <2>3. n + 1 \in 1 .. n + 1 /\ \A i \in 1 .. n : i \in 1 .. n + 1 /\ i # n + 1
    BY <2>1
  <2> QED
    BY <2>2, <2>3
<1>6. \A q \in Slot : Timely(req'[q], txn', now')
  <2> SUFFICES ASSUME NEW q \in Slot PROVE Timely(req'[q], txn', now')
    OBVIOUS
  <2>1. req[q].pc = "nonce" => txn'[req[q].txn] = txn[req[q].txn]
    BY <1>1, Numbers DEF Extends, Txns
  <2> QED
    BY <1>0, <2>1 DEF NonceInv, Timely
<1>7. \A s \in Txns' : Remembered(s)'
  <2>0. TypeOK'
    BY <1>1 DEF TypeInv
  <2>1. DOMAIN passed' = Txns' /\ DOMAIN passed' = 1 .. n + 1
    BY <1>3, <1>5, <2>0 DEF TypeOK
  <2>2. ASSUME NEW s \in 1 .. n PROVE Remembered(s)'
    BY <1>0, <1>1, <1>2, <1>3, <1>4, <1>5, <2>2 DEF NonceInv, Remembered, Extends, Txns
  <2>3. Remembered(n + 1)'
    BY <1>3, <1>5 DEF Remembered
  <2>4. \A s \in 1 .. n + 1 : s \in 1 .. n \/ s = n + 1
    BY <1>0
  <2> QED
    BY <2>1, <2>2, <2>3, <2>4
<1> QED
  BY <1>6, <1>7, NonceNext

LEMMA NonceBegin ==
    ASSUME TypeInv, NonceInv, NEW p \in Slot, Begin(p)
    PROVE  NonceInv'
<1>0. UNCHANGED <<txn, marker, code, kept, account, now, passed, opened>>
  BY DEF Begin, CallbackBegin, ExchangeBegin
<1>1. \A q \in Slot : Timely(req'[q], txn', now')
  <2>1. CASE \E s \in Txns : CallbackBegin(p, s)
    <3> PICK s \in Txns : CallbackBegin(p, s)
      BY <2>1
    <3> DEFINE r == [Idle EXCEPT !.pc = "nonce", !.txn = s, !.at = now]
    <3>1. req' = [req EXCEPT ![p] = r] /\ now <= txn[s].iat + StateLife
          /\ now >= txn[s].iat + Away
      BY DEF CallbackBegin, Start, Fresh
    <3>2. r.txn = s /\ r.at = now
      BY DEF Idle
    <3>3. now \in Nat /\ txn[s].iat \in Nat /\ Lag \in Nat /\ Away \in Nat
      BY Numbers, TimeAssumption
    <3>4. Timely(r, txn, now)
      BY <3>1, <3>2, <3>3 DEF Timely
    <3>5. ASSUME NEW q \in Slot PROVE Timely(req'[q], txn, now)
      <4>1. req'[q] = (IF q = p THEN r ELSE req[q])
        BY <3>1, Numbers
      <4> HIDE DEF r
      <4> QED
        BY <3>4, <4>1 DEF NonceInv
    <3> QED
      BY <1>0, <3>5 DEF Timely
  <2>2. CASE \E c \in Codes, by \in Binding : ExchangeBegin(p, c, by)
    <3> PICK c \in Codes, by \in Binding : ExchangeBegin(p, c, by)
      BY <2>2
    <3> DEFINE r == [Idle EXCEPT !.pc = "consume", !.code = c,
                                 !.user = code[c].user, !.by = {by}]
    <3>1. Becomes(p, r) /\ r.pc # "nonce"
      BY DEF ExchangeBegin, Start, Becomes, Idle
    <3> HIDE DEF r
    <3> QED
      BY <1>0, <3>1, NonceMove
  <2> QED
    BY <2>1, <2>2 DEF Begin
<1> QED
  BY <1>0, <1>1, RememberedSame, NonceNext

LEMMA NonceStep == TypeInv /\ NonceInv /\ [Next]_vars => NonceInv'
<1> SUFFICES ASSUME TypeInv, NonceInv, [Next]_vars PROVE NonceInv'
  OBVIOUS
<1>1. ASSUME NEW b \in Binding, NEW provider \in Provider, Initiate(b, provider)
      PROVE  NonceInv'
  BY <1>1, NonceInitiate
<1>2. ASSUME NEW p \in Slot, Begin(p) PROVE NonceInv'
  BY <1>2, NonceBegin
<1>3. ASSUME NEW p \in Slot, Continue(p) \/ Abort(p) PROVE NonceInv'
  <2>1. CASE ConsumeNonce(p)
    BY <2>1, NonceConsume
  <2>2. CASE ~ConsumeNonce(p)
    <3>1. UNCHANGED <<txn, marker, now, passed>>
      BY <1>3, <2>2 DEF Continue, Abort, ProviderAnswers, FindUser, CreateUser,
         AssignRoles, LinkUser, StoreCode, ConsumeCode, LoadUser, InsertSession
    <3>2. \A q \in Slot : Timely(req'[q], txn', now')
      BY <1>3, <3>1, Leaves, NonceMove
    <3> QED
      BY <3>1, <3>2, RememberedSame, NonceNext
  <2> QED
    BY <2>1, <2>2
<1>4. ASSUME NEW u \in User, NEW flag \in BOOLEAN, SetActive(u, flag) PROVE NonceInv'
  BY <1>4 DEF SetActive, NonceInv, Timely, Remembered, Txns
<1>5. CASE Tick
  <2>1. UNCHANGED <<txn, marker, code, kept, account, req, passed, opened>>
        /\ now' = now + 1
    BY <1>5 DEF Tick
  <2>2. ASSUME NEW q \in Slot PROVE Timely(req'[q], txn', now')
    <3> SUFFICES ASSUME req[q].pc = "nonce" PROVE Timely(req[q], txn', now')
      BY <2>1 DEF Timely
    <3>1. now < req[q].at + Lag /\ Timely(req[q], txn, now)
      BY <1>5 DEF Tick, NonceInv
    <3>2. now \in Nat /\ req[q].at \in Nat /\ Lag \in Nat
      BY Numbers, TimeAssumption
    <3> QED
      BY <2>1, <3>1, <3>2 DEF Timely
  <2> QED
    BY <2>1, <2>2, RememberedSame, NonceNext
<1>6. CASE UNCHANGED vars
  BY <1>6 DEF vars, NonceInv, Timely, Remembered, Txns
<1> QED
  BY <1>1, <1>2, <1>3, <1>4, <1>5, <1>6 DEF Next

\* A state completes at most one callback, over any length of time: the marker
\* is forgotten, but a request that could still use the state then was checked
\* too long ago, whatever the lives and the time spent at the provider, as long
\* as no request waits longer for Redis than a browser is away (Lag <= Away).
THEOREM StatesPassOnceHolds == Spec => []StatesPassOnce
<1>1. Init => NonceInv
  BY CarriesNothing DEF Init, NonceInv, Timely, Txns, Idle
<1>2. NonceInv => StatesPassOnce
  BY DEF NonceInv, Remembered, StatesPassOnce
<1> QED
  BY <1>1, <1>2, TypeInit, TypeStep, NonceStep, PTL DEF Spec

-----------------------------------------------------------------------------
(* A code opens one session                                                *)

\* A request that has taken the code out of Redis.
Took(r, c) == r.pc \in {"load", "insert"} /\ r.code = c

\* While a code is in Redis nobody has taken it; one request takes it, and only
\* that one opens a session for it.
OnceInv ==
    /\ \A c \in Codes : opened[c] <= 1
    /\ \A c \in kept : opened[c] = 0 /\ \A p \in Slot : ~Took(req[p], c)
    /\ \A p \in Slot : \A c \in Codes : Took(req[p], c) => opened[c] = 0
    /\ \A p, q \in Slot : \A c \in Codes : Took(req[p], c) /\ Took(req[q], c) => p = q

LEMMA OnceInit == Init => OnceInv
  BY DEF Init, OnceInv, Took, Codes, Idle

\* A request that did not take the code, where no code moves.
LEMMA OnceMove ==
    ASSUME TypeInv, OnceInv, NEW p \in Slot, NEW r, Becomes(p, r),
           r.pc \notin {"load", "insert"}, UNCHANGED <<code, kept, opened>>
    PROVE  OnceInv'
<1>1. \A q \in Slot : req'[q] = IF q = p THEN r ELSE req[q]
  BY Numbers DEF Becomes
<1>2. \A q \in Slot : \A c : Took(req'[q], c) => Took(req[q], c)
  BY <1>1 DEF Took
<1>3. Codes' = Codes
  BY DEF Codes
<1>4. /\ \A c \in Codes : opened'[c] <= 1
      /\ \A c \in kept' : opened'[c] = 0 /\ \A q \in Slot : ~Took(req'[q], c)
      /\ \A q \in Slot : \A c \in Codes : Took(req'[q], c) => opened'[c] = 0
      /\ \A q, s \in Slot : \A c \in Codes : Took(req'[q], c) /\ Took(req'[s], c) => q = s
  BY <1>2 DEF OnceInv
<1> QED
  BY <1>3, <1>4 DEF OnceInv, Took

LEMMA OnceSame ==
    ASSUME OnceInv, UNCHANGED <<code, kept, opened, req>>
    PROVE  OnceInv'
  BY DEF OnceInv, Codes, Took

LEMMA OnceStore ==
    ASSUME TypeInv, OnceInv, NEW p \in Slot, StoreCode(p)
    PROVE  OnceInv'
<1> USE BoundAssumption
<1> PICK n \in 0 .. MaxCodes : code \in [1 .. n -> Code]
  BY DEF TypeInv, TypeOK
<1>0. /\ n \in Nat /\ Codes = 1 .. n /\ TypeOK /\ TypeInv'
      /\ Answer(p) /\ kept' = kept \cup {Cardinality(Codes) + 1}
      /\ opened' = Append1(opened, 0)
  BY TypeStoreCode DEF TypeInv, Codes, StoreCode
<1>1. opened \in [1 .. n -> Nat] /\ kept \subseteq 1 .. n
  BY <1>0 DEF TypeOK
<1>2. /\ Cardinality(DOMAIN opened) = n
      /\ opened' = [i \in 1 .. n + 1 |-> IF i = n + 1 THEN 0 ELSE opened[i]]
  <2>1. DOMAIN opened = 1 .. n /\ n \in Nat
    BY <1>0, <1>1
  <2>2. /\ Cardinality(DOMAIN opened) = n
        /\ Append1(opened, 0) = [i \in 1 .. n + 1 |-> IF i = n + 1 THEN 0 ELSE opened[i]]
    BY ONLY <2>1, AppendIs
  <2> QED
    BY <1>0, <2>2
<1>3. Codes' = 1 .. n + 1
  <2>1. opened' \in [Codes' -> Nat]
    BY <1>0 DEF TypeInv, TypeOK
  <2> QED
    BY <1>2, <2>1
<1>4. kept' = kept \cup {n + 1}
  BY <1>0, <1>1, <1>2
<1>5. \A q \in Slot : req'[q] = IF q = p THEN Idle ELSE req[q]
  BY <1>0, Numbers DEF Answer
<1>6. \A q \in Slot : \A c : Took(req'[q], c) => Took(req[q], c)
  BY <1>5 DEF Took, Idle
<1>7. \A q \in Slot : \A c : Took(req[q], c) => c \in 1 .. n
  BY <1>0 DEF Took, TypeInv, Carries, Exchange, Codes
<1>8. /\ \A i \in 1 .. n + 1 : i = n + 1 \/ i \in 1 .. n
      /\ n + 1 \notin 1 .. n /\ \A i \in 1 .. n : i \in 1 .. n + 1
      /\ opened'[n + 1] = 0 /\ \A i \in 1 .. n : opened'[i] = opened[i]
  <2>1. /\ \A i \in 1 .. n + 1 : i = n + 1 \/ i \in 1 .. n
        /\ n + 1 \notin 1 .. n /\ \A i \in 1 .. n : i \in 1 .. n + 1 /\ i # n + 1
        /\ n + 1 \in 1 .. n + 1
    BY <1>0
  <2> QED
    BY <1>2, <2>1
<1>9. /\ \A c \in 1 .. n + 1 : opened'[c] <= 1
      /\ \A c \in kept' : opened'[c] = 0 /\ \A q \in Slot : ~Took(req'[q], c)
      /\ \A q \in Slot : \A c \in 1 .. n + 1 : Took(req'[q], c) => opened'[c] = 0
      /\ \A q, s \in Slot : \A c \in 1 .. n + 1 : Took(req'[q], c) /\ Took(req'[s], c) => q = s
  <2>1. \A c \in 1 .. n : opened[c] <= 1
    BY <1>0 DEF OnceInv
  <2>2. \A c \in 1 .. n + 1 : opened'[c] <= 1
    BY <1>8, <2>1
  <2> QED
    BY <1>0, <1>1, <1>4, <1>6, <1>7, <1>8, <2>2 DEF OnceInv
<1> QED
  BY <1>3, <1>9 DEF OnceInv, Took

LEMMA OnceExchange ==
    ASSUME TypeInv, OnceInv, NEW p \in Slot,
           ConsumeCode(p) \/ LoadUser(p) \/ InsertSession(p)
    PROVE  OnceInv'
<1> DEFINE d == req[p].code
<1>0. /\ UNCHANGED code /\ Codes' = Codes /\ d \in Codes /\ req[p] \in Request
      /\ opened \in [Codes -> Nat] /\ req \in [Slot -> Request]
  BY DEF ConsumeCode, LoadUser, InsertSession, Codes, TypeInv, TypeOK, Carries, Exchange
<1>1. PICK pc \in {"idle", "load", "insert"} :
         /\ \A q \in Slot : q # p => req'[q] = req[q]
         /\ req'[p].pc = pc /\ (pc # "idle" => req'[p].code = d)
         /\ ConsumeCode(p) => pc # "insert" /\ (pc = "load" => d \in kept)
         /\ InsertSession(p) => pc = "idle"
  <2>1. ASSUME Answer(p) PROVE req'[p].pc = "idle" /\ \A q \in Slot : q # p => req'[q] = req[q]
    BY <1>0, <2>1 DEF Answer, Idle
  <2>2. ASSUME NEW pc \in {"load", "insert"}, Goto(p, pc)
        PROVE  /\ req'[p].pc = pc /\ req'[p].code = d
               /\ \A q \in Slot : q # p => req'[q] = req[q]
    BY <1>0, <2>2 DEF Goto, Request
  <2>3. CASE ConsumeCode(p)
    <3>1. req[p].pc = "consume" /\ (Answer(p) \/ (Goto(p, "load") /\ d \in kept))
      BY <2>3 DEF ConsumeCode, Taken, Alive
    <3>2. ~InsertSession(p)
      BY <3>1 DEF InsertSession
    <3> QED
      BY <2>1, <2>2, <3>1, <3>2
  <2>4. CASE LoadUser(p)
    <3>1. req[p].pc = "load" /\ (Answer(p) \/ Goto(p, "insert"))
      BY <2>4 DEF LoadUser
    <3>2. ~InsertSession(p) /\ ~ConsumeCode(p)
      BY <3>1 DEF InsertSession, ConsumeCode
    <3> QED
      BY <2>1, <2>2, <3>1, <3>2
  <2>5. CASE InsertSession(p)
    <3>1. req[p].pc = "insert" /\ Answer(p)
      BY <2>5 DEF InsertSession
    <3>2. ~ConsumeCode(p)
      BY <3>1 DEF ConsumeCode
    <3> QED
      BY <2>1, <3>1, <3>2
  <2> QED
    BY <2>3, <2>4, <2>5
<1>2. \A q \in Slot : \A c : q # p => (Took(req'[q], c) <=> Took(req[q], c))
  BY <1>1 DEF Took
<1>3. \A c : Took(req'[p], c) => c = d /\ pc # "idle"
  BY <1>1 DEF Took
<1> HIDE DEF d
<1>4. CASE ConsumeCode(p)
  <2>1. kept' = kept \ {d} /\ UNCHANGED opened
    BY <1>4 DEF ConsumeCode, d
  <2>2. \A c : Took(req'[p], c) => c = d /\ d \in kept
    BY <1>1, <1>3, <1>4
  <2>3. /\ \A c \in Codes : opened'[c] <= 1
        /\ \A c \in kept' : opened'[c] = 0 /\ \A q \in Slot : ~Took(req'[q], c)
        /\ \A q \in Slot : \A c \in Codes : Took(req'[q], c) => opened'[c] = 0
        /\ \A q, s \in Slot : \A c \in Codes : Took(req'[q], c) /\ Took(req'[s], c) => q = s
    <3>1. ASSUME NEW c \in Codes PROVE opened'[c] <= 1
      BY <2>1 DEF OnceInv
    <3>2. ASSUME NEW c \in kept' PROVE opened'[c] = 0
      BY <2>1 DEF OnceInv
    <3>3. ASSUME NEW c \in kept', NEW q \in Slot PROVE ~Took(req'[q], c)
      <4>1. c # d /\ ~Took(req[q], c)
        BY <2>1 DEF OnceInv
      <4> QED
        BY <1>2, <2>2, <4>1
    <3>4. ASSUME NEW q \in Slot, NEW c \in Codes, Took(req'[q], c) PROVE opened'[c] = 0
      BY <1>2, <2>1, <2>2, <3>4 DEF OnceInv
    <3>5. ASSUME NEW q \in Slot, NEW s \in Slot, NEW c \in Codes,
                 Took(req'[q], c), Took(req'[s], c)
          PROVE  q = s
      <4>1. CASE c = d /\ d \in kept
        <5>1. ~Took(req[q], c) /\ ~Took(req[s], c)
          BY <4>1 DEF OnceInv
        <5> QED
          BY <1>2, <3>5, <5>1
      <4>2. CASE ~ (c = d /\ d \in kept)
        <5>1. q # p /\ s # p
          BY <2>2, <3>5, <4>2
        <5>2. Took(req[q], c) /\ Took(req[s], c)
          BY <1>2, <3>5, <5>1
        <5> QED
          BY <5>2 DEF OnceInv
      <4> QED
        BY <4>1, <4>2
    <3> QED
      BY <3>1, <3>2, <3>3, <3>4, <3>5
  <2> QED
    BY <1>0, <2>3 DEF OnceInv, Took
<1>5. CASE LoadUser(p)
  <2>1. UNCHANGED <<kept, opened>> /\ Took(req[p], d)
    BY <1>5 DEF LoadUser, Took, d
  <2>2. \A q \in Slot : \A c : Took(req'[q], c) => Took(req[q], c)
    BY <1>2, <1>3, <2>1
  <2>3. /\ \A c \in Codes : opened'[c] <= 1
        /\ \A c \in kept' : opened'[c] = 0 /\ \A q \in Slot : ~Took(req'[q], c)
        /\ \A q \in Slot : \A c \in Codes : Took(req'[q], c) => opened'[c] = 0
        /\ \A q, s \in Slot : \A c \in Codes : Took(req'[q], c) /\ Took(req'[s], c) => q = s
    BY <2>1, <2>2 DEF OnceInv
  <2> QED
    BY <1>0, <2>3 DEF OnceInv, Took
<1>6. CASE InsertSession(p)
  <2>1. UNCHANGED kept /\ opened' = [opened EXCEPT ![d] = @ + 1] /\ Took(req[p], d)
    BY <1>6 DEF InsertSession, Took, d
  <2>2. opened[d] = 0 /\ d \notin kept
    BY <1>0, <2>1 DEF OnceInv
  <2>3. opened'[d] = 1 /\ \A c \in Codes : c # d => opened'[c] = opened[c]
    BY <1>0, <2>1, <2>2
  <2>4. \A c : ~Took(req'[p], c)
    BY <1>1, <1>3, <1>6
  <2>5. \A q \in Slot : ~Took(req'[q], d)
    BY <1>0, <1>2, <2>1, <2>4 DEF OnceInv
  <2>6. \A q \in Slot : \A c : Took(req'[q], c) => Took(req[q], c)
    BY <1>2, <2>4
  <2>7. kept \subseteq Codes
    BY DEF TypeInv, TypeOK
  <2>8. \A c \in Codes : opened'[c] <= 1
    <3>1. \A c \in Codes : opened[c] <= 1
      BY DEF OnceInv
    <3> QED
      BY <2>3, <3>1
  <2>9. /\ \A c \in kept' : opened'[c] = 0 /\ \A q \in Slot : ~Took(req'[q], c)
        /\ \A q \in Slot : \A c \in Codes : Took(req'[q], c) => opened'[c] = 0
        /\ \A q, s \in Slot : \A c \in Codes : Took(req'[q], c) /\ Took(req'[s], c) => q = s
    BY <2>1, <2>2, <2>3, <2>5, <2>6, <2>7 DEF OnceInv
  <2> QED
    BY <1>0, <2>8, <2>9 DEF OnceInv, Took
<1> QED
  BY <1>4, <1>5, <1>6

LEMMA OnceStep == TypeInv /\ OnceInv /\ [Next]_vars => OnceInv'
<1> SUFFICES ASSUME TypeInv, OnceInv, [Next]_vars PROVE OnceInv'
  OBVIOUS
<1>1. ASSUME NEW b \in Binding, NEW provider \in Provider, Initiate(b, provider)
      PROVE  OnceInv'
  BY <1>1, OnceSame DEF Initiate
<1>2. ASSUME NEW p \in Slot, Begin(p) PROVE OnceInv'
  <2>1. \E r : Becomes(p, r) /\ r.pc \notin {"load", "insert"}
    <3>1. ASSUME NEW s \in Txns, CallbackBegin(p, s)
          PROVE  \E r : Becomes(p, r) /\ r.pc \notin {"load", "insert"}
      <4> DEFINE r == [Idle EXCEPT !.pc = "nonce", !.txn = s, !.at = now]
      <4>1. Becomes(p, r) /\ r.pc = "nonce"
        BY <3>1 DEF CallbackBegin, Start, Becomes, Idle
      <4> QED
        BY <4>1
    <3>2. ASSUME NEW c \in Codes, NEW by \in Binding, ExchangeBegin(p, c, by)
          PROVE  \E r : Becomes(p, r) /\ r.pc \notin {"load", "insert"}
      <4> DEFINE r == [Idle EXCEPT !.pc = "consume", !.code = c,
                                   !.user = code[c].user, !.by = {by}]
      <4>1. Becomes(p, r) /\ r.pc = "consume"
        BY <3>2 DEF ExchangeBegin, Start, Becomes, Idle
      <4> QED
        BY <4>1
    <3> QED
      BY <1>2, <3>1, <3>2 DEF Begin
  <2>2. UNCHANGED <<code, kept, opened>>
    BY <1>2 DEF Begin, CallbackBegin, ExchangeBegin
  <2> QED
    BY <2>1, <2>2, OnceMove
<1>3. ASSUME NEW p \in Slot, Continue(p) \/ Abort(p) PROVE OnceInv'
  <2>1. CASE StoreCode(p)
    BY <2>1, OnceStore
  <2>2. CASE ConsumeCode(p) \/ LoadUser(p) \/ InsertSession(p)
    BY <2>2, OnceExchange
  <2>3. CASE ~(StoreCode(p) \/ ConsumeCode(p) \/ LoadUser(p) \/ InsertSession(p))
    <3>1. UNCHANGED <<code, kept, opened>>
      BY <1>3, <2>3 DEF Continue, Abort, ConsumeNonce, ProviderAnswers, FindUser,
         CreateUser, AssignRoles, LinkUser
    <3>2. \E r : Becomes(p, r) /\ r.pc \notin {"load", "insert"}
      BY <1>3, <2>3, Leaves
    <3> QED
      BY <3>1, <3>2, OnceMove
  <2> QED
    BY <2>1, <2>2, <2>3
<1>4. ASSUME NEW u \in User, NEW flag \in BOOLEAN, SetActive(u, flag) PROVE OnceInv'
  BY <1>4, OnceSame DEF SetActive
<1>5. CASE Tick
  BY <1>5, OnceSame DEF Tick
<1>6. CASE UNCHANGED vars
  BY <1>6, OnceSame DEF vars
<1> QED
  BY <1>1, <1>2, <1>3, <1>4, <1>5, <1>6 DEF Next

\* A code opens at most one session, for any number of exchanges that resolved
\* it before one of them took it out of Redis.
THEOREM CodesOpenOnceHolds == Spec => []CodesOpenOnce
<1>1. OnceInv => CodesOpenOnce
  BY DEF OnceInv, CodesOpenOnce
<1> QED
  BY <1>1, TypeInit, TypeStep, OnceInit, OnceStep, PTL DEF Spec

\* Nobody but the application a code was issued for, under the redirect_uri it
\* was issued for, takes it out of Redis.
THEOREM CodesSurviveOthersHolds == Spec => CodesSurviveOthers
<1> DEFINE Own(c) ==
        \E p \in Slot : /\ req[p].pc = "consume" /\ req[p].code = c
                        /\ \A by \in req[p].by :
                              /\ by.app = code[c].bind.app
                              /\ by.redirect = code[c].bind.redirect
           A == \A c \in kept \ kept' : now <= code[c].exp => Own(c)
<1>1. ASSUME TypeInv, [Next]_vars PROVE A
  <2> SUFFICES ASSUME NEW c \in kept \ kept' PROVE Own(c)
    OBVIOUS
  <2>1. \E p \in Slot : ConsumeCode(p)
    <3>1. Next /\ kept' # kept
      BY <1>1 DEF vars
    <3>2. \A p \in Slot : StoreCode(p) => c \in kept'
      BY DEF StoreCode
    <3> QED
      BY <3>1, <3>2 DEF Next, Initiate, Begin, Continue, Abort, SetActive, Tick,
         CallbackBegin, ConsumeNonce, ProviderAnswers, FindUser, CreateUser,
         AssignRoles, LinkUser, ExchangeBegin, LoadUser, InsertSession
  <2> PICK p \in Slot : ConsumeCode(p)
    BY <2>1
  <2>2. req[p].pc = "consume" /\ req[p].code = c
    BY DEF ConsumeCode
  <2>3. \A by \in req[p].by : Redeems(code[c].bind, by)
    BY <1>1, <2>2 DEF TypeInv, Carries, Exchange
  <2> QED
    BY <2>2, <2>3 DEF Redeems
<1>2. TypeInv /\ [Next]_vars => [A]_vars
  BY <1>1
<1>3. Spec => [][A]_vars
  BY <1>2, TypeInit, TypeStep, PTL DEF Spec
<1> QED
  BY <1>3 DEF CodesSurviveOthers
=============================================================================
