-------------------------- MODULE LoginGuard_proofs --------------------------
(***************************************************************************)
(* Proofs about LoginGuard and the AuditTrail in it, for every set of      *)
(* addresses, accounts and requests, every window and allowance, every     *)
(* page size and retention.                                                *)
(***************************************************************************)
EXTENDS LoginGuard, FiniteSetTheorems, WellFoundedInduction, TLAPS

-----------------------------------------------------------------------------
(* The limiters *)

Ticks == 0 .. MaxTime + 1

(* What k let through from tick t on.                                      *)
Since(k, t) == passed[k][now + 1] - passed[k][t]

Running(k) == count[k].n # 0
Began(k) == count[k].ends - Window
Counted(k) == IF count[k].n <= Allowance(k) THEN count[k].n ELSE Allowance(k)

(* What the failures so far may have let through.                          *)
Excess(k) == faults * Allowance(k)

(* A counter is on exactly while its window is.                            *)
Clock(k) ==
    /\ ~Running(k) => count[k].ends = 0
    /\ Running(k) => /\ Window <= count[k].ends
                     /\ now < count[k].ends /\ count[k].ends <= now + Window

(* The history grows from tick to tick and stops growing now.              *)
Grows(k) ==
    /\ \A t, u \in Ticks : t <= u => passed[k][t] <= passed[k][u]
    /\ \A t \in Ticks : t > now => passed[k][t] = passed[k][now + 1]

(* The first request of a window is let through in the tick the window     *)
(* begins, so that less than an allowance is left of it one window later.  *)
Bounded(k) ==
    \A t \in Ticks :
        IF Running(k)
        THEN /\ t > now - Window =>
                   Since(k, t) < Excess(k) + Allowance(k) + Counted(k)
             /\ t >= Began(k) => Since(k, t) <= Excess(k) + Counted(k)
             /\ t > Began(k) => Since(k, t) < Excess(k) + Counted(k)
        ELSE /\ t > now - Window => Since(k, t) < Excess(k) + Allowance(k)
             /\ t >= now => Since(k, t) <= Excess(k)

(* What a counter counts it has let through, up to the allowance.          *)
Justified(k) == Running(k) => Since(k, Began(k)) >= Counted(k)

Sound(k) == Clock(k) /\ Grows(k) /\ Bounded(k) /\ Justified(k)

(* A request under way knows whom it tries.                                *)
Traced == \A w \in Writer : pc[w] # "idle" => from[w] \in AccountKey

GuardInv == TypeOK /\ Traced /\ \A k \in Counter : Sound(k)

LEMMA Numbers ==
    /\ Window \in Nat /\ Window >= 1 /\ MaxTime \in Nat
    /\ MaxFaults \in Nat /\ MaxRows \in Nat /\ Retention \in Nat
    /\ Limit \in Nat /\ Limit >= 1
  BY GuardAssumption, TrailAssumption

LEMMA AllowanceType ==
    ASSUME NEW k \in Counter
    PROVE  Allowance(k) \in Nat /\ Allowance(k) >= 1
  BY GuardAssumption DEF Allowance

(* A failure more is worth an allowance more.                              *)
LEMMA OneMore ==
    ASSUME NEW f \in Nat, NEW a \in Nat
    PROVE  f * a \in Nat /\ (f + 1) * a = f * a + a
  OBVIOUS

LEMMA ExcessGrows ==
    ASSUME TypeOK, NEW k \in Counter
    PROVE  /\ Excess(k) \in Nat
           /\ faults' = faults => Excess(k)' = Excess(k)
           /\ faults' = faults + 1 => Excess(k)' = Excess(k) + Allowance(k)
<1> DEFINE a == Allowance(k)
<1>1. faults \in Nat /\ a \in Nat
  BY AllowanceType, Numbers DEF TypeOK
<1>2. faults * a \in Nat /\ (faults + 1) * a = faults * a + a
  BY <1>1, OneMore
<1>3. Excess(k) = faults * a /\ Excess(k)' = faults' * a
  BY DEF Excess
<1> QED
  BY <1>2, <1>3

LEMMA CountType ==
    ASSUME TypeOK, NEW k \in Counter
    PROVE  /\ now \in Nat /\ now <= MaxTime /\ now + 1 \in Ticks /\ now \in Ticks
           /\ count[k].n \in Nat /\ count[k].ends \in Nat
           /\ \A t \in Ticks : passed[k][t] \in Nat /\ t \in Nat
<1>1. now \in Nat /\ now <= MaxTime
  BY Numbers DEF TypeOK, TrailTypeOK, Time
<1>2. now + 1 \in Ticks /\ now \in Ticks
  BY <1>1, Numbers DEF Ticks
<1>3. count[k] \in [n : Nat, ends : 0 .. MaxTime + Window]
  BY DEF TypeOK
<1>4. passed[k] \in [Ticks -> Nat]
  BY DEF TypeOK, Ticks
<1>5. count[k].n \in Nat /\ count[k].ends \in Nat
  BY <1>3, Numbers
<1>6. \A t \in Ticks : passed[k][t] \in Nat
  BY <1>4
<1>7. \A t \in Ticks : t \in Nat
  BY Numbers DEF Ticks
<1> QED
  BY <1>1, <1>2, <1>5, <1>6, <1>7

LEMMA CountedType ==
    ASSUME TypeOK, NEW k \in Counter
    PROVE  /\ Counted(k) \in Nat /\ Counted(k) <= Allowance(k)
           /\ Running(k) => Counted(k) >= 1
  BY CountType, AllowanceType DEF Counted, Running

(* A request let through now is one of those since any tick up to now.     *)
LEMMA SinceGrows ==
    ASSUME TypeOK, NEW k \in Counter, Grows(k), now' = now,
           \A t \in Ticks : passed'[k][t] =
              IF t > now THEN passed[k][t] + 1 ELSE passed[k][t]
    PROVE  /\ \A t \in Ticks :
                 /\ t <= now => Since(k, t)' = Since(k, t) + 1
                 /\ t > now => Since(k, t)' = 0
           /\ Grows(k)'
<1>1. /\ now \in Nat /\ now + 1 \in Ticks
      /\ \A t \in Ticks : passed[k][t] \in Nat /\ t \in Nat
  BY CountType
<1>2. passed'[k][now + 1] = passed[k][now + 1] + 1
  BY <1>1
<1>3. ASSUME NEW t \in Ticks
      PROVE /\ t <= now => Since(k, t)' = Since(k, t) + 1
            /\ t > now => Since(k, t)' = 0
  <2>1. passed[k][t] \in Nat /\ passed[k][now + 1] \in Nat /\ t \in Nat
    BY <1>1
  <2>2. t > now => passed[k][t] = passed[k][now + 1]
    BY DEF Grows
  <2> QED
    BY <1>1, <1>2, <2>1, <2>2 DEF Since
<1>4. Grows(k)'
  <2>1. ASSUME NEW t \in Ticks, NEW u \in Ticks, t <= u
        PROVE  passed'[k][t] <= passed'[k][u]
    <3>1. passed[k][t] <= passed[k][u]
      BY <2>1 DEF Grows
    <3> QED
      BY <1>1, <2>1, <3>1
  <2>2. ASSUME NEW t \in Ticks, t > now PROVE passed'[k][t] = passed'[k][now + 1]
    BY <1>1, <1>2, <2>2 DEF Grows
  <2> QED
    BY <2>1, <2>2 DEF Grows
<1> QED
  BY <1>3, <1>4

LEMMA SinceType ==
    ASSUME TypeOK, NEW k \in Counter, NEW t \in Ticks
    PROVE  /\ Since(k, t) \in Int
           /\ Grows(k) /\ t > now => Since(k, t) = 0
           /\ Grows(k) => Since(k, t) >= 0
<1>1. /\ passed[k][t] \in Nat /\ passed[k][now + 1] \in Nat
      /\ t \in Nat /\ now \in Nat /\ now + 1 \in Ticks
  BY CountType
<1>2. Grows(k) /\ t > now => passed[k][t] = passed[k][now + 1]
  BY DEF Grows
<1>3. Grows(k) /\ t <= now => passed[k][t] <= passed[k][now + 1]
  BY <1>1 DEF Grows
<1> QED
  BY <1>1, <1>2, <1>3 DEF Since

(* A counter that a step leaves alone.                                     *)
LEMMA Untouched ==
    ASSUME TypeOK, NEW k \in Counter, Sound(k),
           passed'[k] = passed[k], count'[k] = count[k], now' = now,
           faults' \in {faults, faults + 1}
    PROVE  Sound(k)'
<1>1. Clock(k)' /\ Grows(k)'
  BY DEF Sound, Clock, Grows, Running
<1>2. /\ Running(k)' = Running(k) /\ Began(k)' = Began(k)
      /\ Counted(k)' = Counted(k)
      /\ \A t : Since(k, t)' = Since(k, t)
  BY DEF Running, Began, Counted, Since, Allowance
<1>3. /\ Excess(k) \in Nat /\ Allowance(k) \in Nat
      /\ Excess(k)' = Excess(k) \/ Excess(k)' = Excess(k) + Allowance(k)
  BY ExcessGrows, AllowanceType
<1>4. Counted(k) \in Nat
  BY CountedType
<1>7. Bounded(k)'
  <2> SUFFICES ASSUME NEW t \in Ticks
               PROVE
        IF Running(k)
        THEN /\ t > now - Window =>
                   Since(k, t) < Excess(k)' + Allowance(k) + Counted(k)
             /\ t >= Began(k) => Since(k, t) <= Excess(k)' + Counted(k)
             /\ t > Began(k) => Since(k, t) < Excess(k)' + Counted(k)
        ELSE /\ t > now - Window => Since(k, t) < Excess(k)' + Allowance(k)
             /\ t >= now => Since(k, t) <= Excess(k)'
    BY <1>2 DEF Bounded, Allowance
  <2> DEFINE E == Excess(k)
             E1 == Excess(k)'
             A == Allowance(k)
             C == Counted(k)
             S == Since(k, t)
  <2>1. /\ E \in Nat /\ A \in Nat /\ C \in Nat /\ S \in Int
        /\ E1 = E \/ E1 = E + A
    BY <1>3, <1>4, SinceType
  <2>2. IF Running(k)
        THEN /\ t > now - Window => S < E + A + C
             /\ t >= Began(k) => S <= E + C
             /\ t > Began(k) => S < E + C
        ELSE /\ t > now - Window => S < E + A
             /\ t >= now => S <= E
    BY DEF Sound, Bounded
  <2> HIDE DEF E, E1, A, C, S
  <2>3. IF Running(k)
        THEN /\ t > now - Window => S < E1 + A + C
             /\ t >= Began(k) => S <= E1 + C
             /\ t > Began(k) => S < E1 + C
        ELSE /\ t > now - Window => S < E1 + A
             /\ t >= now => S <= E1
    BY <2>1, <2>2
  <2> QED
    BY <2>3 DEF E, E1, A, C, S
<1>8. Justified(k)'
  BY <1>2 DEF Sound, Justified
<1> QED
  BY <1>1, <1>7, <1>8 DEF Sound
LEMMA IncrementedIs ==
    ASSUME TypeOK, NEW k \in Counter, Clock(k)
    PROVE  LET c == Incremented(count[k]) IN
           /\ c \in [n : Nat, ends : 0 .. MaxTime + Window]
           /\ c.n = count[k].n + 1
           /\ Running(k) => c.ends = count[k].ends
           /\ ~Running(k) => c.ends = now + Window
<1>1. /\ now \in Nat /\ now <= MaxTime /\ count[k].n \in Nat /\ count[k].ends \in Nat
      /\ Window \in Nat /\ Window >= 1 /\ MaxTime \in Nat
  BY CountType, Numbers
<1>2. count[k] \in [n : Nat, ends : 0 .. MaxTime + Window]
  BY DEF TypeOK
<1>3. count[k].ends \in 0 .. MaxTime + Window
  BY <1>2
<1>4. Incremented(count[k]).n = count[k].n + 1
  BY DEF Incremented
<1>5. /\ Running(k) => Incremented(count[k]).ends = count[k].ends
      /\ ~Running(k) => Incremented(count[k]).ends = now + Window
  BY <1>1 DEF Incremented, Clock
<1>6. now + Window \in 0 .. MaxTime + Window
  BY <1>1
<1>7. Incremented(count[k]) \in [n : Nat, ends : 0 .. MaxTime + Window]
  BY <1>1, <1>3, <1>6 DEF Incremented
<1> QED
  BY <1>4, <1>5, <1>7

(* One more, up to a cap.                                                  *)
LEMMA Capped ==
    ASSUME NEW n \in Nat, NEW a \in Nat, NEW c, NEW d,
           c = (IF n <= a THEN n ELSE a), d = (IF n + 1 <= a THEN n + 1 ELSE a)
    PROVE  d \in Nat /\ d >= c /\ d <= c + 1
  OBVIOUS

(* A request let through: within the allowance, or by a failure.           *)
LEMMA LetThrough ==
    ASSUME TypeOK, NEW k \in Counter, Sound(k), now' = now,
           \A t \in Ticks : passed'[k][t] =
              IF t > now THEN passed[k][t] + 1 ELSE passed[k][t],
           \/ count'[k] = Incremented(count[k]) /\ faults' = faults
              /\ count[k].n + 1 <= Allowance(k)
           \/ count'[k] = Incremented(count[k]) /\ faults' = faults + 1
           \/ count'[k] = count[k] /\ faults' = faults + 1
    PROVE  Sound(k)'
<1> DEFINE A == Allowance(k)
           C == Counted(k)
           C1 == Counted(k)'
           E == Excess(k)
           E1 == Excess(k)'
           B == Began(k)
           B1 == Began(k)'
           R == Running(k)
           R1 == Running(k)'
<1>1. /\ now \in Nat /\ now \in Ticks /\ Window \in Nat /\ Window >= 1
      /\ count[k].n \in Nat /\ count[k].ends \in Nat
      /\ A \in Nat /\ A >= 1 /\ E \in Nat /\ C \in Nat /\ C <= A
      /\ \A t \in Ticks : t \in Nat
  BY CountType, Numbers, AllowanceType, ExcessGrows, CountedType
<1>2. Clock(k) /\ Grows(k) /\ Bounded(k) /\ Justified(k)
  BY DEF Sound
<1>3. \/ faults' = faults /\ E1 = E
      \/ faults' = faults + 1 /\ E1 = E + A
  BY ExcessGrows
<1>f. faults \in Int
  BY Numbers DEF TypeOK
<1>4. ASSUME R
      PROVE  /\ R1 /\ B1 = B /\ C1 \in Nat /\ C1 >= C /\ C1 <= C + 1 /\ C >= 1
             /\ E1 + C1 > E + C /\ E1 >= E
             /\ B \in Ticks /\ B <= now /\ Clock(k)'
  <2>1. /\ B \in Ticks /\ B <= now /\ C >= 1
    <3>1. /\ Window <= count[k].ends /\ now < count[k].ends
          /\ count[k].ends <= now + Window
      BY <1>2, <1>4 DEF Clock
    <3>2. B \in Nat /\ B <= now
      BY <1>1, <3>1 DEF Began
    <3>3. now <= MaxTime
      BY CountType
    <3> QED
      BY <1>1, <1>4, <3>2, <3>3, CountedType, Numbers DEF Ticks
  <2>2. CASE count'[k] = count[k] /\ faults' = faults + 1
    <3>1. R1 /\ B1 = B /\ C1 = C
      BY <1>4, <2>2 DEF Running, Began, Counted
    <3>2. Clock(k)'
      BY <1>2, <2>2 DEF Clock, Running
    <3>3. E1 = E + A
      BY <1>3, <1>f, <2>2
    <3> HIDE DEF A, C, C1, E, E1
    <3> QED
      BY <1>1, <2>1, <3>1, <3>2, <3>3
  <2>3. CASE count'[k] = Incremented(count[k])
    <3> DEFINE n == count[k].n
               n1 == count'[k].n
    <3>1. n1 = n + 1 /\ count'[k].ends = count[k].ends
      BY <1>2, <1>4, <2>3, IncrementedIs
    <3>2. R1 /\ B1 = B
      BY <1>1, <3>1 DEF Running, Began
    <3>3. Clock(k)'
      BY <1>2, <1>4, <3>1, <3>2 DEF Clock
    <3>4. C = IF n <= A THEN n ELSE A
      BY DEF Counted
    <3>5. C1 = IF n1 <= A THEN n1 ELSE A
      BY DEF Counted
    <3>6. /\ faults' = faults => n1 <= A /\ E1 = E
          /\ faults' # faults => E1 = E + A
      BY <1>3, <1>f, <2>3, <3>1
    <3> HIDE DEF A, C, C1, E, E1, n, n1
    <3>7. n \in Nat
      BY <1>1 DEF n
    <3>8. C1 \in Nat /\ C1 >= C /\ C1 <= C + 1
      BY <1>1, <3>1, <3>4, <3>5, <3>7, Capped
    <3>9. E1 + C1 > E + C /\ E1 >= E
      <4>1. CASE faults' = faults
        BY <1>1, <3>1, <3>4, <3>5, <3>6, <3>7, <4>1
      <4>2. CASE faults' # faults
        BY <1>1, <3>6, <3>8, <4>2
      <4> QED
        BY <4>1, <4>2
    <3> QED
      BY <2>1, <3>2, <3>3, <3>8, <3>9
  <2> QED
    BY <2>2, <2>3
<1>5. ASSUME ~R, R1
      PROVE  B1 = now /\ C1 = 1 /\ E1 >= E /\ E1 \in Nat /\ Clock(k)'
  <2>1. count'[k] = Incremented(count[k])
    BY <1>5 DEF Running
  <2>2. count[k].n = 0
    BY <1>5 DEF Running
  <2>3. count'[k].n = 1 /\ count'[k].ends = now + Window
    BY <1>1, <1>2, <1>5, <2>1, <2>2, IncrementedIs
  <2>4. B1 = now
    BY <1>1, <2>3 DEF Began
  <2>5. C1 = 1
    BY <1>1, <2>3 DEF Counted
  <2>6. Clock(k)'
    BY <1>1, <1>5, <2>3 DEF Clock
  <2> HIDE DEF A, C, C1, E, E1
  <2> QED
    BY <1>1, <1>3, <2>4, <2>5, <2>6
<1>6. ASSUME ~R, ~R1 PROVE E1 = E + A /\ Clock(k)'
  <2>1. count'[k] # Incremented(count[k])
    <3>1. Incremented(count[k]).n # 0
      BY <1>1, <1>2, IncrementedIs
    <3> QED
      BY <1>6, <3>1 DEF Running
  <2>2. count'[k] = count[k] /\ faults' = faults + 1
    BY <2>1
  <2>3. Clock(k)'
    BY <1>2, <2>2 DEF Clock, Running
  <2> QED
    BY <1>3, <1>f, <2>2, <2>3
<1>7. /\ \A t \in Ticks : /\ t <= now => Since(k, t)' = Since(k, t) + 1
                          /\ t > now => Since(k, t)' = 0
      /\ Grows(k)'
  BY <1>2, SinceGrows
<1> HIDE DEF A, C, C1, E, E1, B, B1, R, R1
<1>8. Bounded(k)'
  <2>1. ASSUME NEW t \in Ticks
        PROVE
        IF R1
        THEN /\ t > now - Window => Since(k, t)' < E1 + A + C1
             /\ t >= B1 => Since(k, t)' <= E1 + C1
             /\ t > B1 => Since(k, t)' < E1 + C1
        ELSE /\ t > now - Window => Since(k, t)' < E1 + A
             /\ t >= now => Since(k, t)' <= E1
    <3> DEFINE S == Since(k, t)
               S1 == Since(k, t)'
    <3>1. /\ t \in Nat /\ S \in Int /\ (t <= now => S1 = S + 1)
          /\ (t > now => S1 = 0)
      BY <1>1, <1>7, SinceType
    <3>2. /\ R /\ t > now - Window => S < E + A + C
          /\ R /\ t >= B => S <= E + C
          /\ R /\ t > B => S < E + C
          /\ ~R /\ t > now - Window => S < E + A
          /\ ~R /\ t >= now => S <= E
      BY <1>2 DEF Bounded, E, A, C, B, R
    <3> HIDE DEF S, S1
    <3>3. CASE R
      <4>1. /\ R1 /\ B1 = B /\ C1 \in Nat /\ C1 >= C /\ C >= 1 /\ B <= now
            /\ E1 + C1 > E + C /\ E1 >= E /\ B \in Nat
        BY <1>1, <1>4, <3>3
      <4>2. E1 \in Nat /\ E \in Nat /\ A \in Nat /\ C \in Nat /\ now \in Nat
        BY <1>1, <1>3
      <4>3. /\ t > now - Window => S < E + A + C
            /\ t >= B => S <= E + C
            /\ t > B => S < E + C
        BY <3>2, <3>3
      <4>4. S1 <= 0 \/ S1 = S + 1
        BY <3>1, <4>2
      <4>5. t > now - Window => S1 < E1 + A + C1
        BY <3>1, <4>1, <4>2, <4>3, <4>4
      <4>6. t >= B => S1 <= E1 + C1
        BY <3>1, <4>1, <4>2, <4>3, <4>4
      <4>7. t > B => S1 < E1 + C1
        BY <3>1, <4>1, <4>2, <4>3, <4>4
      <4> QED
        BY <4>1, <4>5, <4>6, <4>7 DEF S1
    <3>4. CASE ~R /\ R1
      <4>1. /\ B1 = now /\ C1 = 1 /\ E1 >= E /\ E1 \in Nat
        BY <1>5, <3>4
      <4>2. E \in Nat /\ A \in Nat /\ now \in Nat /\ Window \in Nat /\ Window >= 1
        BY <1>1
      <4>3. /\ t > now - Window => S < E + A
            /\ t >= now => S <= E
        BY <3>2, <3>4
      <4>4. t > now - Window => S1 < E1 + A + C1
        BY <3>1, <4>1, <4>2, <4>3
      <4>5. t >= B1 => S1 <= E1 + C1
        BY <3>1, <4>1, <4>2, <4>3
      <4>6. t > B1 => S1 < E1 + C1
        BY <3>1, <4>1, <4>2
      <4> QED
        BY <3>4, <4>4, <4>5, <4>6 DEF S1
    <3>5. CASE ~R /\ ~R1
      <4>1. E1 = E + A
        BY <1>6, <3>5
      <4>2. E \in Nat /\ A \in Nat /\ A >= 1 /\ now \in Nat
        BY <1>1
      <4>3. /\ t > now - Window => S < E + A
            /\ t >= now => S <= E
        BY <3>2, <3>5
      <4>4. t > now - Window => S1 < E1 + A
        BY <3>1, <4>1, <4>2, <4>3
      <4>5. t >= now => S1 <= E1
        BY <3>1, <4>1, <4>2, <4>3
      <4> QED
        BY <3>5, <4>4, <4>5 DEF S1
    <3> QED
      BY <3>3, <3>4, <3>5
  <2>2. (now - Window)' = now - Window
    BY Numbers
  <2> QED
    BY <2>1, <2>2 DEF Bounded, E1, A, C1, B1, R1
<1>9. Justified(k)'
  <2>1. ASSUME R1 PROVE (Since(k, Began(k)))' >= C1
    <3>1. CASE R
      <4>1. /\ B1 = B /\ C1 \in Nat /\ C1 <= C + 1 /\ B \in Ticks /\ B <= now
        BY <1>4, <3>1
      <4>2. PICK b \in Ticks : b = B
        BY <4>1
      <4>3. Since(k, b) >= C /\ Since(k, b) \in Int
        BY <1>2, <3>1, <4>2, SinceType DEF Justified, R, B, C
      <4>4. Since(k, b)' = Since(k, b) + 1
        BY <1>7, <4>1, <4>2
      <4>5. (Since(k, Began(k)))' = Since(k, b)'
        BY <4>1, <4>2 DEF Since, B1
      <4> QED
        BY <1>1, <4>1, <4>3, <4>4, <4>5
    <3>2. CASE ~R
      <4>1. B1 = now /\ C1 = 1
        BY <1>5, <2>1, <3>2
      <4>2. PICK b \in Ticks : b = now
        BY <1>1
      <4>3. Since(k, b) >= 0 /\ Since(k, b) \in Int
        BY <1>2, SinceType
      <4>4. Since(k, b)' = Since(k, b) + 1
        BY <1>1, <1>7, <4>2
      <4>5. (Since(k, Began(k)))' = Since(k, b)'
        BY <4>1, <4>2 DEF Since, B1
      <4> QED
        BY <4>1, <4>3, <4>4, <4>5
    <3> QED
      BY <3>1, <3>2
  <2> QED
    BY <2>1 DEF Justified, R1, C1
<1>10. Clock(k)'
  BY <1>4, <1>5, <1>6
<1> QED
  BY <1>7, <1>8, <1>9, <1>10 DEF Sound

(* A request turned away: the counter had counted its whole allowance.     *)
LEMMA TurnedAway ==
    ASSUME TypeOK, NEW k \in Counter, Sound(k), now' = now, faults' = faults,
           passed'[k] = passed[k], count'[k] = Incremented(count[k]),
           count'[k].n > Allowance(k)
    PROVE  Sound(k)' /\ Running(k) /\ Counted(k) = Allowance(k)
<1>1. Clock(k) /\ Grows(k) /\ Bounded(k) /\ Justified(k)
  BY DEF Sound
<1>2. count[k].n \in Nat /\ Allowance(k) \in Nat /\ Allowance(k) >= 1
  BY CountType, AllowanceType
<1>3. count'[k].n = count[k].n + 1
  BY <1>1, IncrementedIs
<1>4. Running(k) /\ Counted(k) = Allowance(k)
  BY <1>2, <1>3 DEF Running, Counted
<1>5. count'[k].ends = count[k].ends
  BY <1>1, <1>4, IncrementedIs
<1>6. Running(k)' /\ Counted(k)' = Counted(k) /\ Began(k)' = Began(k)
  BY <1>2, <1>3, <1>4, <1>5 DEF Running, Counted, Began
<1>7. Excess(k)' = Excess(k) /\ \A t \in Ticks : Since(k, t)' = Since(k, t)
  BY DEF Since, Excess
<1>8. Clock(k)' /\ Grows(k)'
  BY <1>1, <1>4, <1>5, <1>6 DEF Clock, Grows
<1>9. Bounded(k)'
  <2>1. ASSUME NEW t \in Ticks
        PROVE  /\ t > now - Window =>
                     Since(k, t) < Excess(k) + Allowance(k) + Counted(k)
               /\ t >= Began(k) => Since(k, t) <= Excess(k) + Counted(k)
               /\ t > Began(k) => Since(k, t) < Excess(k) + Counted(k)
    BY <1>1, <1>4 DEF Bounded
  <2> QED
    BY <1>6, <1>7, <2>1 DEF Bounded
<1>10. Justified(k)'
  <2>1. Since(k, Began(k)) >= Counted(k)
    BY <1>1, <1>4 DEF Justified
  <2>2. (Since(k, Began(k)))' = Since(k, Began(k))
    BY <1>6 DEF Since
  <2> QED
    BY <1>6, <2>1, <2>2 DEF Justified
<1> QED
  BY <1>4, <1>8, <1>9, <1>10 DEF Sound

(* The counter is lost.                                                    *)
LEMMA Forgotten ==
    ASSUME TypeOK, NEW k \in Counter, Sound(k), now' = now,
           faults' = faults + 1, passed'[k] = passed[k],
           count'[k] = [n |-> 0, ends |-> 0]
    PROVE  Sound(k)'
<1> DEFINE A == Allowance(k)
           C == Counted(k)
           E == Excess(k)
           B == Began(k)
<1>1. Clock(k) /\ Grows(k) /\ Bounded(k)
  BY DEF Sound
<1>2. ~Running(k)' /\ Clock(k)' /\ Justified(k)'
  BY DEF Running, Clock, Justified
<1>3. Grows(k)'
  BY <1>1 DEF Grows
<1>4. /\ A \in Nat /\ A >= 1 /\ E \in Nat /\ C \in Nat /\ C <= A
      /\ Excess(k)' = E + A /\ now \in Nat /\ Window \in Nat
  BY AllowanceType, CountedType, ExcessGrows, CountType, Numbers
<1>5. ASSUME NEW t \in Ticks
      PROVE  /\ t > now - Window => Since(k, t)' < Excess(k)' + A
             /\ t >= now => Since(k, t)' <= Excess(k)'
  <2> DEFINE S == Since(k, t)
  <2>1. Since(k, t)' = S /\ S \in Int /\ t \in Nat
    BY SinceType, CountType DEF Since
  <2>2. CASE Running(k)
    <3>1. /\ t > now - Window => S < E + A + C
          /\ t >= B => S <= E + C
      BY <1>1, <2>2 DEF Bounded
    <3>2. B \in Int /\ B <= now
      BY <1>1, <1>4, <2>2, CountType DEF Clock, Began
    <3> HIDE DEF A, B, C, E, S
    <3>3. t > now - Window => S < E + A + A
      BY <1>4, <2>1, <3>1
    <3>4. t >= now => S <= E + A
      BY <1>4, <2>1, <3>1, <3>2
    <3> QED
      BY <1>4, <2>1, <3>3, <3>4
  <2>3. CASE ~Running(k)
    <3>1. /\ t > now - Window => S < E + A
          /\ t >= now => S <= E
      BY <1>1, <2>3 DEF Bounded
    <3> HIDE DEF A, E, S
    <3> QED
      BY <1>4, <2>1, <3>1
  <2> QED
    BY <2>2, <2>3
<1>6. Bounded(k)'
  BY <1>2, <1>5 DEF Bounded
<1> QED
  BY <1>2, <1>3, <1>6 DEF Sound

(* A tick on: a window may come to its end.                                *)
LEMMA TickedOn ==
    ASSUME TypeOK, NEW k \in Counter, Sound(k), now < MaxTime,
           now' = now + 1, faults' = faults, passed'[k] = passed[k],
           count'[k] = IF count[k].ends = now + 1 THEN [n |-> 0, ends |-> 0]
                                                  ELSE count[k]
    PROVE  Sound(k)'
<1> DEFINE A == Allowance(k)
           C == Counted(k)
           E == Excess(k)
           B == Began(k)
<1>1. Clock(k) /\ Grows(k) /\ Bounded(k) /\ Justified(k)
  BY DEF Sound
<1>2. /\ A \in Nat /\ A >= 1 /\ E \in Nat /\ C \in Nat /\ C <= A
      /\ Excess(k)' = E /\ now \in Nat /\ Window \in Nat /\ Window >= 1
      /\ count[k].ends \in Nat
  BY AllowanceType, CountedType, ExcessGrows, CountType, Numbers
<1>3. now + 2 \in Ticks /\ now + 1 \in Ticks /\ now' + 1 = now + 2
  BY <1>2, Numbers DEF Ticks
<1>4. passed[k][now + 2] = passed[k][now + 1]
  BY <1>1, <1>2, <1>3 DEF Grows
<1>5. \A t \in Ticks : Since(k, t)' = Since(k, t)
  BY <1>3, <1>4 DEF Since
<1>6. Grows(k)'
  <2>1. ASSUME NEW t \in Ticks, t > now + 1
        PROVE  passed[k][t] = passed[k][now + 2]
    <3>1. t > now
      BY <1>2, <2>1, CountType
    <3> QED
      BY <1>1, <1>4, <2>1, <3>1 DEF Grows
  <2> QED
    BY <1>1, <1>3, <2>1 DEF Grows
<1>7. ASSUME NEW t \in Ticks
      PROVE  /\ t \in Nat /\ Since(k, t) \in Int
             /\ t > now => Since(k, t) = 0
  BY <1>1, SinceType, CountType
<1>8. CASE ~Running(k)
  <2>1. count'[k] = count[k]
    BY <1>1, <1>2, <1>8 DEF Clock
  <2>2. ~Running(k)' /\ Clock(k)' /\ Justified(k)'
    BY <1>1, <1>8, <2>1 DEF Running, Clock, Justified
  <2>3. ASSUME NEW t \in Ticks
        PROVE  /\ t > now + 1 - Window => Since(k, t) < E + A
               /\ t >= now + 1 => Since(k, t) <= E
    <3>1. t > now - Window => Since(k, t) < E + A
      BY <1>1, <1>8 DEF Bounded
    <3> HIDE DEF A, E
    <3> QED
      BY <1>2, <1>7, <3>1
  <2>4. Bounded(k)'
    BY <1>2, <1>5, <2>2, <2>3 DEF Bounded
  <2> QED
    BY <1>6, <2>2, <2>4 DEF Sound
<1>9. CASE Running(k) /\ count[k].ends = now + 1
  <2>1. count'[k] = [n |-> 0, ends |-> 0]
    BY <1>9
  <2>2. ~Running(k)' /\ Clock(k)' /\ Justified(k)'
    BY <2>1 DEF Running, Clock, Justified
  <2>3. ASSUME NEW t \in Ticks
        PROVE  /\ t > now + 1 - Window => Since(k, t) < E + A
               /\ t >= now + 1 => Since(k, t) <= E
    <3>1. t > B => Since(k, t) < E + C
      BY <1>1, <1>9 DEF Bounded
    <3>2. B = now + 1 - Window
      BY <1>2, <1>9 DEF Began
    <3> HIDE DEF A, B, C, E
    <3> QED
      BY <1>2, <1>7, <3>1, <3>2
  <2>4. Bounded(k)'
    BY <1>2, <1>5, <2>2, <2>3 DEF Bounded
  <2> QED
    BY <1>6, <2>2, <2>4 DEF Sound
<1>10. CASE Running(k) /\ count[k].ends # now + 1
  <2>1. count'[k] = count[k]
    BY <1>10
  <2>2. Running(k)' /\ Counted(k)' = C /\ Began(k)' = B
    BY <1>10, <2>1 DEF Running, Counted, Began
  <2>3. Clock(k)'
    BY <1>1, <1>2, <1>10, <2>1, <2>2 DEF Clock
  <2>4. B \in Ticks
    <3>1. B \in Nat /\ B <= now
      BY <1>1, <1>2, <1>10 DEF Clock, Began
    <3> QED
      BY <1>2, <3>1, Numbers DEF Ticks
  <2>5. Justified(k)'
    <3>1. Since(k, B) >= C
      BY <1>1, <1>10 DEF Justified
    <3>2. (Since(k, Began(k)))' = Since(k, B)
      BY <1>3, <1>4, <2>2 DEF Since
    <3> QED
      BY <2>2, <3>1, <3>2 DEF Justified
  <2>6. ASSUME NEW t \in Ticks
        PROVE  /\ t > now + 1 - Window => Since(k, t) < E + A + C
               /\ t >= B => Since(k, t) <= E + C
               /\ t > B => Since(k, t) < E + C
    <3>1. /\ t > now - Window => Since(k, t) < E + A + C
          /\ t >= B => Since(k, t) <= E + C
          /\ t > B => Since(k, t) < E + C
      BY <1>1, <1>10 DEF Bounded
    <3> HIDE DEF A, B, C, E
    <3> QED
      BY <1>2, <1>7, <3>1
  <2>7. Bounded(k)'
    BY <1>2, <1>5, <2>2, <2>6 DEF Bounded
  <2> QED
    BY <1>6, <2>3, <2>5, <2>7 DEF Sound
<1> QED
  BY <1>8, <1>9, <1>10

-----------------------------------------------------------------------------
(* The audit trail *)

Known == rows \cup ({insert[w] : w \in Writer} \ {NoRow})

(* Ids are given in the order of the time stamps.                          *)
Ordered ==
    /\ \A x \in Known : x.id <= stamped /\ x.at <= now
    /\ \A x, y \in Known : /\ x.id = y.id => x = y
                           /\ x.at < y.at => x.id < y.id

(* The reader has yet to come to what is older than its cursor, and is     *)
(* owed nothing else that the cleanup has left.                            *)
Underway ==
    reading # None =>
        /\ reading.before <= now
        /\ \A x \in Known : x.at < reading.before => x.id < reading.last
        /\ \A x \in reading.owed : \/ x \in rows /\ x.at < reading.before
                                   \/ x.at < now - Retention

(* A row is under way only while its request waits for it.                 *)
AwaitedRows == \A w \in Writer : pc[w] # "auditing" => insert[w] = NoRow

TrailInv == IsFiniteSet(rows) /\ Ordered /\ Underway /\ AwaitedRows

-----------------------------------------------------------------------------
(* Numbers in order *)

LEMMA NatMin ==
    ASSUME NEW T \in SUBSET Nat, T # {}
    PROVE  \E m \in T : \A j \in T : m <= j
<1> DEFINE R == OpToRel(<, Nat)
<1>1. IsWellFoundedOn(R, Nat)
  BY NatLessThanWellFounded
<1>2. \A x, y \in Nat : x < y => <<x, y>> \in R
  BY DEF OpToRel
<1> HIDE DEF R
<1>3. PICK m \in T : \A j \in T : <<j, m>> \notin R
  BY <1>1, WFMin
<1>4. ASSUME NEW j \in T PROVE ~ (j < m)
  <2>1. j \in Nat /\ m \in Nat /\ <<j, m>> \notin R
    BY <1>3
  <2> QED
    BY <1>2, <2>1, Zenon
<1>5. \A j \in T : m <= j
  BY <1>4
<1> QED
  BY <1>5

LEMMA NatMax ==
    ASSUME NEW n \in Nat, NEW T \in SUBSET (0 .. n), T # {}
    PROVE  \E m \in T : \A j \in T : j <= m
<1> DEFINE U == {n - j : j \in T}
<1>1. U \in SUBSET Nat /\ U # {}
  <2>1. \A j \in T : j \in 0 .. n /\ n - j \in Nat
    OBVIOUS
  <2> QED
    BY <2>1
<1>2. PICK u \in U : \A j \in U : u <= j
  BY <1>1, NatMin
<1>3. PICK m \in T : u = n - m
  BY <1>2
<1>4. ASSUME NEW j \in T PROVE j <= m
  <2>1. n - j \in U
    OBVIOUS
  <2>2. n - m <= n - j
    BY <1>2, <1>3, <2>1
  <2> QED
    BY <2>2
<1> QED
  BY <1>4

LEMMA LeastOf ==
    ASSUME NEW T \in SUBSET Nat, T # {}
    PROVE  Min(T) \in T /\ \A j \in T : Min(T) <= j
<1>1. \E m \in T : \A j \in T : m <= j
  BY NatMin
<1> QED
  BY <1>1 DEF Min

-----------------------------------------------------------------------------
(* Pages *)

(* A set of rows told apart by their ids, as a page is taken of.           *)
Numbered(S) ==
    /\ S \in SUBSET Row /\ IsFiniteSet(S)
    /\ \A x, y \in S : x.id = y.id => x = y

Newer(S, x) == {y \in S : y.id > x.id}

LEMMA RowNumbers ==
    ASSUME NEW x \in Row
    PROVE  x.id \in 1 .. MaxRows /\ x.id \in Nat /\ x.at \in Nat /\ x.at <= MaxTime
  BY Numbers DEF Row, Time

LEMMA NewestIn ==
    ASSUME NEW S, NEW n
    PROVE  /\ Newest(S, n) \subseteq S
           /\ \A x \in S : x \in Newest(S, n) <=> Cardinality(Newer(S, x)) < n
  BY DEF Newest, Newer

LEMMA NewerFewer ==
    ASSUME NEW S, Numbered(S), NEW x \in S, NEW y \in S, x.id <= y.id
    PROVE  /\ IsFiniteSet(Newer(S, x)) /\ Newer(S, y) \subseteq Newer(S, x)
           /\ Cardinality(Newer(S, x)) \in Nat
           /\ Cardinality(Newer(S, y)) \in Nat
           /\ Cardinality(Newer(S, y)) <= Cardinality(Newer(S, x))
<1>1. /\ IsFiniteSet(S) /\ Newer(S, x) \subseteq S /\ Newer(S, y) \subseteq S
  BY DEF Numbered, Newer
<1>2. IsFiniteSet(Newer(S, x)) /\ IsFiniteSet(Newer(S, y))
  BY <1>1, FS_Subset
<1>3. Newer(S, y) \subseteq Newer(S, x)
  <2>1. ASSUME NEW z \in Newer(S, y) PROVE z \in Newer(S, x)
    <3>1. z \in S /\ z.id > y.id
      BY <2>1 DEF Newer
    <3>2. z.id \in Nat /\ y.id \in Nat /\ x.id \in Nat
      BY <3>1, RowNumbers DEF Numbered
    <3> QED
      BY <3>1, <3>2 DEF Newer
  <2> QED
    BY <2>1
<1> QED
  BY <1>2, <1>3, FS_Subset, FS_CardinalityType

(* Whoever is not on the page is older than all that are.                  *)
LEMMA NewestAreNewer ==
    ASSUME NEW S, Numbered(S), NEW n \in Nat,
           NEW x \in S \ Newest(S, n), NEW y \in Newest(S, n)
    PROVE  x.id < y.id
<1>1. y \in S /\ x \in S /\ x \in Row /\ y \in Row
  BY NewestIn DEF Numbered
<1>2. /\ Cardinality(Newer(S, y)) < n /\ ~ (Cardinality(Newer(S, x)) < n)
  BY <1>1, NewestIn
<1>3. x.id \in Nat /\ y.id \in Nat
  BY <1>1, RowNumbers
<1>4. ASSUME y.id <= x.id PROVE FALSE
  BY <1>1, <1>2, <1>4, NewerFewer
<1> QED
  BY <1>3, <1>4

(* A page that leaves anything out is full.                                *)
LEMMA ShortIsAll ==
    ASSUME NEW S, Numbered(S), NEW n \in Nat, n >= 1,
           Newest(S, n) # S
    PROVE  Cardinality(Newest(S, n)) = n
<1> DEFINE P == Newest(S, n)
           Out == {x.id : x \in S \ P}
           In == {x.id : x \in P}
<1>1. P \subseteq S /\ S \ P # {} /\ S \subseteq Row /\ IsFiniteSet(S)
  BY NewestIn DEF Numbered
<1>2. IsFiniteSet(P) /\ Cardinality(P) \in Nat
  BY <1>1, FS_Subset, FS_CardinalityType
<1>3. PICK z \in S \ P : \A x \in S \ P : x.id <= z.id
  <2>1. Out \in SUBSET (0 .. MaxRows) /\ Out # {}
    BY <1>1, RowNumbers, Numbers
  <2>2. PICK m \in Out : \A j \in Out : j <= m
    BY <2>1, Numbers, NatMax
  <2> QED
    BY <2>2
<1>4. Newer(S, z) = P
  <2>1. ASSUME NEW x \in Newer(S, z) PROVE x \in P
    <3>1. x \in S /\ x.id > z.id
      BY <2>1 DEF Newer
    <3>2. x.id \in Nat /\ z.id \in Nat
      BY <1>1, <1>3, <3>1, RowNumbers
    <3> QED
      BY <1>3, <3>1, <3>2
  <2>2. ASSUME NEW x \in P PROVE x \in Newer(S, z)
    <3>1. z.id < x.id
      BY <1>3, NewestAreNewer
    <3>2. x.id \in Nat /\ z.id \in Nat /\ x \in S
      BY <1>1, <1>3, RowNumbers
    <3> QED
      BY <3>1, <3>2 DEF Newer
  <2> QED
    BY <2>1, <2>2
<1>5. Cardinality(P) >= n
  BY <1>1, <1>2, <1>3, <1>4, NewestIn
<1>6. P # {}
  BY <1>5, FS_EmptySet
<1>7. PICK v \in P : \A x \in P : v.id <= x.id
  <2>1. In \in SUBSET Nat /\ In # {}
    BY <1>1, <1>6, RowNumbers
  <2>2. PICK m \in In : \A j \in In : m <= j
    BY <2>1, NatMin
  <2> QED
    BY <2>2
<1>8. Cardinality(Newer(S, v)) < n
  BY <1>1, <1>7, NewestIn
<1>9. P \ {v} = Newer(S, v)
  <2>1. ASSUME NEW x \in P, x # v PROVE x \in Newer(S, v)
    <3>1. x \in S /\ v \in S /\ x.id # v.id
      BY <1>1, <1>7, <2>1 DEF Numbered
    <3>2. x.id \in Nat /\ v.id \in Nat /\ v.id <= x.id
      BY <1>1, <1>7, <3>1, RowNumbers
    <3> QED
      BY <3>1, <3>2 DEF Newer
  <2>2. ASSUME NEW x \in Newer(S, v) PROVE x \in P /\ x # v
    <3>1. x \in S /\ x.id > v.id /\ v \in S
      BY <1>1, <1>7, <2>2 DEF Newer
    <3>2. x.id \in Nat /\ v.id \in Nat
      BY <1>1, <3>1, RowNumbers
    <3>3. x \in P
      <4>1. ASSUME x \notin P PROVE FALSE
        <5>1. x.id < v.id
          BY <3>1, <4>1, <1>7, NewestAreNewer
        <5> QED
          BY <3>1, <3>2, <5>1
      <4> QED
        BY <4>1
    <3> QED
      BY <3>1, <3>2, <3>3
  <2> QED
    BY <2>1, <2>2
<1>10. Cardinality(P \ {v}) = Cardinality(P) - 1
  BY <1>2, <1>7, FS_RemoveElement
<1> HIDE DEF P
<1>11. Cardinality(P) - 1 < n
  BY <1>8, <1>9, <1>10
<1> QED
  BY <1>2, <1>5, <1>11 DEF P

LEMMA KnownRows ==
    ASSUME TypeOK
    PROVE  Known \subseteq Row /\ rows \subseteq Known
  BY DEF TypeOK, TrailTypeOK, Known

(* What a page leaves of a reading.                                        *)
LEMMA PageType ==
    ASSUME TypeOK, NEW S \in SUBSET rows, NEW owed \in SUBSET Row,
           Show(Newest(S, Limit), owed)
    PROVE  LET P == Newest(S, Limit)
               b == Min({x.at : x \in P})
               l == Min({x.id : x \in P}) IN
           \/ Cardinality(P) # Limit /\ reading' = None
           \/ /\ Cardinality(P) = Limit
              /\ \E x \in P : x.at = b
              /\ \E x \in P : x.id = l
              /\ \A x \in P : b <= x.at
              /\ reading' # None /\ reading' \in Reading
              /\ reading'.before = b /\ reading'.last = l
              /\ reading'.owed = {x \in owed \ P : x.at # b}
<1> DEFINE P == Newest(S, Limit)
           At == {x.at : x \in P}
           Id == {x.id : x \in P}
           b == Min(At)
           l == Min(Id)
           o == {x \in owed \ P : x.at # b}
<1>1. P \subseteq S /\ P \subseteq rows /\ P \subseteq Row
  BY NewestIn DEF TypeOK, TrailTypeOK
<1>2. CASE Cardinality(P) # Limit
  BY <1>2 DEF Show, NextBefore
<1>3. CASE Cardinality(P) = Limit
  <2>1. P # {}
    BY <1>3, FS_EmptySet, Numbers
  <2>2. At \in SUBSET Nat /\ At # {} /\ Id \in SUBSET Nat /\ Id # {}
    BY <1>1, <2>1, RowNumbers
  <2>3. b \in At /\ (\A j \in At : b <= j) /\ l \in Id
    BY <2>2, LeastOf
  <2>4. (\E x \in P : x.at = b) /\ (\E x \in P : x.id = l) /\ \A x \in P : b <= x.at
    BY <2>3
  <2>5. b \in Time /\ l \in 1 .. MaxRows
    BY <1>1, <2>4 DEF Row
  <2>6. NextBefore(P) = b
    BY <1>3 DEF NextBefore
  <2>7. b # None
    BY <2>5, NoneAssumption
  <2>8. reading' = [before |-> b, last |-> l, owed |-> o]
    BY <2>6, <2>7 DEF Show
  <2>9. o \in SUBSET Row
    OBVIOUS
  <2> HIDE DEF b, l, o
  <2>10. reading' \in Reading
    BY <2>5, <2>8, <2>9 DEF Reading
  <2>11. reading' # None
    BY <2>10, NoneAssumption
  <2>12. reading'.before = b /\ reading'.last = l /\ reading'.owed = o
    BY <2>8
  <2> QED
    BY <1>3, <2>4, <2>10, <2>11, <2>12 DEF b, l, o
<1> QED
  BY <1>2, <1>3

LEMMA Shown ==
    ASSUME TypeOK, Ordered, IsFiniteSet(rows), NEW S \in SUBSET rows,
           NEW owed \in SUBSET Row, Show(Newest(S, Limit), owed),
           UNCHANGED <<now, stamped, insert, rows>>,
           \A x \in owed : x \in S \/ x.at < now - Retention
    PROVE  /\ Underway'
           /\ reading' = None =>
                 \A x \in owed \ Newest(S, Limit) : x.at < now - Retention
<1> DEFINE P == Newest(S, Limit)
           b == Min({x.at : x \in P})
           l == Min({x.id : x \in P})
<1>1. /\ Known \subseteq Row /\ rows \subseteq Known /\ P \subseteq S
      /\ Known' = Known /\ Limit \in Nat /\ Limit >= 1 /\ now \in Nat
  BY KnownRows, NewestIn, Numbers DEF Known, TypeOK, TrailTypeOK, Time
<1>2. Numbered(S)
  <2>1. IsFiniteSet(S)
    BY FS_Subset
  <2> QED
    BY <1>1, <2>1 DEF Numbered, Ordered
<1>3. \/ Cardinality(P) # Limit /\ reading' = None
      \/ /\ Cardinality(P) = Limit
         /\ \E x \in P : x.at = b
         /\ \E x \in P : x.id = l
         /\ \A x \in P : b <= x.at
         /\ reading' # None /\ reading' \in Reading
         /\ reading'.before = b /\ reading'.last = l
         /\ reading'.owed = {x \in owed \ P : x.at # b}
  BY PageType
<1> HIDE DEF b, l
<1>4. CASE Cardinality(P) # Limit /\ reading' = None
  <2>1. P = S
    BY <1>1, <1>2, <1>4, ShortIsAll
  <2> QED
    BY <1>4, <2>1 DEF Underway
<1>5. CASE reading' # None
  <2>1. /\ reading'.before = b /\ reading'.last = l
        /\ reading'.owed = {x \in owed \ P : x.at # b}
        /\ \A x \in P : b <= x.at
    BY <1>3, <1>5
  <2>2. PICK y \in P : y.at = b
    BY <1>3, <1>5
  <2>3. PICK z \in P : z.id = l
    BY <1>3, <1>5
  <2>4. y \in Known /\ z \in Known /\ y \in Row /\ z \in Row /\ b <= z.at
    BY <1>1, <2>1
  <2>5. b <= now
    BY <2>2, <2>4 DEF Ordered
  <2>6. ASSUME NEW x \in Known, x.at < b PROVE x.id < l
    <3>1. x.at \in Nat /\ z.at \in Nat /\ b \in Nat
      BY <1>1, <2>2, <2>4, RowNumbers
    <3>2. x.at < z.at
      BY <2>4, <2>6, <3>1
    <3> QED
      BY <2>3, <2>4, <3>2 DEF Ordered
  <2>7. ASSUME NEW x \in owed \ P, x.at # b, ~ (x.at < now - Retention)
        PROVE  x \in rows /\ x.at < b
    <3>1. x \in S /\ x \in Known /\ x \in Row
      BY <1>1, <2>7
    <3>2. x.id < y.id
      BY <1>1, <1>2, <2>7, <3>1, NewestAreNewer
    <3>3. x.at \in Nat /\ y.at \in Nat /\ x.id \in Nat /\ y.id \in Nat
      BY <2>4, <3>1, RowNumbers
    <3>4. ~ (y.at < x.at)
      <4>1. y.at < x.at => y.id < x.id
        BY <2>4, <3>1 DEF Ordered
      <4> QED
        BY <3>2, <3>3, <4>1
    <3> QED
      BY <2>2, <2>7, <3>1, <3>3, <3>4
  <2>8. \A x \in reading'.owed : (x \in rows /\ x.at < b) \/ x.at < now - Retention
    BY <2>1, <2>7
  <2> QED
    BY <1>1, <1>5, <2>1, <2>5, <2>6, <2>8 DEF Underway
<1> QED
  BY <1>3, <1>4, <1>5

-----------------------------------------------------------------------------
(* Type correctness *)

LEMMA LimiterKey ==
    ASSUME TypeOK, Traced, NEW w \in Writer, pc[w] \in {"ip", "account"}
    PROVE  KeyOf(w) \in Counter
<1>1. from[w] \in AccountKey
  BY DEF Traced
<1> QED
  BY <1>1 DEF KeyOf, Counter, IpKey, AccountKey

LEMMA IncrementedType ==
    ASSUME TypeOK, NEW k \in Counter
    PROVE  /\ Incremented(count[k]) \in [n : Nat, ends : 0 .. MaxTime + Window]
           /\ [count EXCEPT ![k] = Incremented(@)] =
                 [count EXCEPT ![k] = Incremented(count[k])]
<1>1. /\ now \in Nat /\ now <= MaxTime /\ count[k].n \in Nat
      /\ Window \in Nat /\ Window >= 1 /\ MaxTime \in Nat
  BY CountType, Numbers
<1>2. count[k] \in [n : Nat, ends : 0 .. MaxTime + Window]
  BY DEF TypeOK
<1>3. count[k].ends \in 0 .. MaxTime + Window /\ now + Window \in 0 .. MaxTime + Window
  BY <1>1, <1>2
<1>4. Incremented(count[k]) \in [n : Nat, ends : 0 .. MaxTime + Window]
  BY <1>1, <1>3 DEF Incremented
<1> QED
  BY <1>4

LEMMA PassWrites ==
    ASSUME TypeOK, NEW w \in Writer, NEW k \in Counter, Pass(w, k)
    PROVE  /\ passed' \in [Counter -> [0 .. MaxTime + 1 -> Nat]]
           /\ \A t \in Ticks : passed'[k][t] =
                 IF t > now THEN passed[k][t] + 1 ELSE passed[k][t]
           /\ \A j \in Counter \ {k} : passed'[j] = passed[j]
           /\ pc' \in [Writer -> {"idle", "ip", "account", "judged", "auditing"}]
           /\ pc'[w] \in {"account", "judged"}
           /\ \A v \in Writer \ {w} : pc'[v] = pc[v]
           /\ UNCHANGED <<from, arrived>>
<1> DEFINE f == [t \in 0 .. MaxTime + 1 |->
                    IF t > now THEN passed[k][t] + 1 ELSE passed[k][t]]
           a == IF pc[w] = "ip" THEN "account" ELSE "judged"
<1>1. \A t \in Ticks : passed[k][t] \in Nat
  BY CountType
<1>2. f \in [Ticks -> Nat]
  BY <1>1 DEF Ticks
<1>3. \A t \in Ticks : f[t] = IF t > now THEN passed[k][t] + 1 ELSE passed[k][t]
  BY DEF Ticks
<1>4. passed' = [passed EXCEPT ![k] = f]
  BY DEF Pass
<1>5. a \in {"account", "judged"} /\ pc' = [pc EXCEPT ![w] = a]
      /\ UNCHANGED <<from, arrived>>
  BY DEF Pass, Goto
<1> HIDE DEF f, a
<1>6. passed \in [Counter -> [Ticks -> Nat]]
  BY DEF TypeOK, Ticks
<1>7. /\ passed' \in [Counter -> [Ticks -> Nat]] /\ passed'[k] = f
      /\ \A j \in Counter \ {k} : passed'[j] = passed[j]
  BY <1>2, <1>4, <1>6
<1>8. pc \in [Writer -> {"idle", "ip", "account", "judged", "auditing"}]
  BY DEF TypeOK
<1>9. /\ pc' \in [Writer -> {"idle", "ip", "account", "judged", "auditing"}]
      /\ pc'[w] = a /\ \A v \in Writer \ {w} : pc'[v] = pc[v]
  BY <1>5, <1>8
<1> QED
  BY <1>3, <1>5, <1>7, <1>9 DEF Ticks

LEMMA FinishWrites ==
    ASSUME TypeOK, NEW w \in Writer, Finish(w)
    PROVE  /\ pc' \in [Writer -> {"idle", "ip", "account", "judged", "auditing"}]
           /\ from' \in [Writer -> AccountKey \cup {None}]
           /\ pc'[w] = "idle" /\ UNCHANGED arrived
           /\ \A v \in Writer \ {w} : pc'[v] = pc[v] /\ from'[v] = from[v]
  BY DEF TypeOK, Finish

(* What the two limiters do, with their counter and with the request.      *)
LEMMA LimiterWrites ==
    ASSUME TypeOK, Traced, NEW w \in Writer, Limiter(w)
    PROVE  LET k == KeyOf(w) IN
           /\ k \in Counter /\ count'[k] = Incremented(count[k])
           /\ count' \in [Counter -> [n : Nat, ends : 0 .. MaxTime + Window]]
           /\ \A j \in Counter \ {k} : count'[j] = count[j]
           /\ \/ count'[k].n > Allowance(k) /\ Finish(w) /\ UNCHANGED passed
              \/ ~ (count'[k].n > Allowance(k)) /\ Pass(w, k)
           /\ UNCHANGED <<now, trail, faults>>
<1> DEFINE k == KeyOf(w)
           c == Incremented(count[k])
<1>1. k \in Counter
  BY LimiterKey DEF Limiter
<1>2. c \in [n : Nat, ends : 0 .. MaxTime + Window]
      /\ [count EXCEPT ![k] = Incremented(@)] = [count EXCEPT ![k] = c]
  BY <1>1, IncrementedType
<1>3. count' = [count EXCEPT ![k] = c]
  BY <1>2 DEF Limiter
<1>4. count \in [Counter -> [n : Nat, ends : 0 .. MaxTime + Window]]
  BY DEF TypeOK
<1>5. /\ \/ count'[k].n > Allowance(k) /\ Finish(w) /\ UNCHANGED passed
         \/ ~ (count'[k].n > Allowance(k)) /\ Pass(w, k)
      /\ UNCHANGED <<now, trail, faults>>
  BY DEF Limiter
<1> HIDE DEF c, k
<1>6. /\ count'[k] = c /\ \A j \in Counter \ {k} : count'[j] = count[j]
      /\ count' \in [Counter -> [n : Nat, ends : 0 .. MaxTime + Window]]
  BY <1>1, <1>2, <1>3, <1>4
<1> QED
  BY <1>1, <1>5, <1>6 DEF c, k

LEMMA FailOpenWrites ==
    ASSUME TypeOK, Traced, NEW w \in Writer, FailOpen(w)
    PROVE  LET k == KeyOf(w) IN
           /\ k \in Counter
           /\ count'[k] = count[k] \/ count'[k] = Incremented(count[k])
           /\ count' \in [Counter -> [n : Nat, ends : 0 .. MaxTime + Window]]
           /\ \A j \in Counter \ {k} : count'[j] = count[j]
           /\ Pass(w, k) /\ faults' = faults + 1 /\ faults < MaxFaults
           /\ UNCHANGED <<now, trail>>
<1> DEFINE k == KeyOf(w)
           c == Incremented(count[k])
<1>1. k \in Counter
  BY LimiterKey DEF FailOpen
<1>2. c \in [n : Nat, ends : 0 .. MaxTime + Window]
      /\ [count EXCEPT ![k] = Incremented(@)] = [count EXCEPT ![k] = c]
  BY <1>1, IncrementedType
<1>3. count' = count \/ count' = [count EXCEPT ![k] = c]
  BY <1>2 DEF FailOpen
<1>4. count \in [Counter -> [n : Nat, ends : 0 .. MaxTime + Window]]
  BY DEF TypeOK
<1>5. /\ Pass(w, k) /\ faults' = faults + 1 /\ faults < MaxFaults
      /\ UNCHANGED <<now, trail>>
  BY DEF FailOpen
<1> HIDE DEF c, k
<1>6. /\ count'[k] = count[k] \/ count'[k] = c
      /\ \A j \in Counter \ {k} : count'[j] = count[j]
      /\ count' \in [Counter -> [n : Nat, ends : 0 .. MaxTime + Window]]
  BY <1>1, <1>2, <1>3, <1>4
<1> QED
  BY <1>1, <1>5, <1>6 DEF c, k

LEMMA GuardInit == Init => GuardInv
<1> SUFFICES ASSUME Init PROVE GuardInv
  OBVIOUS
<1>1. TypeOK
  <2>1. TrailTypeOK
    BY Numbers DEF Init, TrailInit, TrailTypeOK, Time
  <2>2. 0 \in 0 .. MaxTime + Window
    BY Numbers
  <2> QED
    BY <2>1, <2>2, Numbers DEF Init, TypeOK
<1>2. Traced
  BY DEF Init, Traced
<1>3. ASSUME NEW k \in Counter PROVE Sound(k)
  <2>1. ~Running(k) /\ count[k].ends = 0 /\ now = 0
    BY DEF Init, TrailInit, Running
  <2>2. \A t \in Ticks : passed[k][t] = 0
    BY DEF Init, Ticks
  <2>3. Clock(k) /\ Justified(k)
    BY <2>1 DEF Clock, Justified
  <2>4. now + 1 \in Ticks
    BY <1>1, CountType
  <2>5. Grows(k)
    BY <2>2, <2>4 DEF Grows
  <2>6. \A t \in Ticks : Since(k, t) = 0
    BY <2>2, <2>4 DEF Since
  <2>7. Excess(k) \in Nat /\ Allowance(k) \in Nat /\ Allowance(k) >= 1
    BY <1>1, AllowanceType, ExcessGrows
  <2>8. 0 < Excess(k) + Allowance(k) /\ 0 <= Excess(k)
    BY <2>7
  <2>9. Bounded(k)
    BY <2>1, <2>6, <2>8 DEF Bounded
  <2> QED
    BY <2>3, <2>5, <2>9 DEF Sound
<1> QED
  BY <1>1, <1>2, <1>3 DEF GuardInv

LEMMA TypeStep ==
    ASSUME TypeOK, Traced, [Next]_vars
    PROVE  TypeOK'
<1>1. ASSUME NEW w \in Writer, Arrive(w) PROVE TypeOK'
  <2>1. PICK a \in AccountKey : from' = [from EXCEPT ![w] = a]
    BY <1>1 DEF Arrive
  <2>2. arrived' \in 0 .. MaxRows
    BY <1>1, Numbers DEF Arrive, TypeOK
  <2>3. pc' \in [Writer -> {"idle", "ip", "account", "judged", "auditing"}]
    BY <1>1 DEF Arrive, TypeOK
  <2> QED
    BY <1>1, <2>1, <2>2, <2>3 DEF Arrive, TypeOK, TrailTypeOK, trail, redis
<1>2. ASSUME NEW w \in Writer, Limiter(w) PROVE TypeOK'
  <2>1. /\ count' \in [Counter -> [n : Nat, ends : 0 .. MaxTime + Window]]
        /\ \/ Finish(w) /\ UNCHANGED passed
           \/ Pass(w, KeyOf(w))
        /\ KeyOf(w) \in Counter /\ UNCHANGED <<now, trail, faults>>
    BY <1>2, LimiterWrites
  <2>2. /\ pc' \in [Writer -> {"idle", "ip", "account", "judged", "auditing"}]
        /\ from' \in [Writer -> AccountKey \cup {None}]
        /\ passed' \in [Counter -> [0 .. MaxTime + 1 -> Nat]] /\ UNCHANGED arrived
    BY <2>1, FinishWrites, PassWrites DEF TypeOK
  <2> QED
    BY <2>1, <2>2 DEF TypeOK, TrailTypeOK, trail
<1>3. ASSUME NEW w \in Writer, FailOpen(w) PROVE TypeOK'
  <2>1. /\ count' \in [Counter -> [n : Nat, ends : 0 .. MaxTime + Window]]
        /\ Pass(w, KeyOf(w)) /\ KeyOf(w) \in Counter
        /\ faults' = faults + 1 /\ faults < MaxFaults /\ UNCHANGED <<now, trail>>
    BY <1>3, FailOpenWrites
  <2>2. /\ pc' \in [Writer -> {"idle", "ip", "account", "judged", "auditing"}]
        /\ passed' \in [Counter -> [0 .. MaxTime + 1 -> Nat]]
        /\ UNCHANGED <<from, arrived>>
    BY <2>1, PassWrites
  <2>3. faults' \in 0 .. MaxFaults
    BY <2>1, Numbers DEF TypeOK
  <2> QED
    BY <2>1, <2>2, <2>3 DEF TypeOK, TrailTypeOK, trail
<1>4. ASSUME NEW w \in Writer, Reject(w) PROVE TypeOK'
  BY <1>4, FinishWrites DEF Reject, TypeOK, TrailTypeOK, trail, redis
<1>5. ASSUME NEW w \in Writer, Judge(w) PROVE TypeOK'
  <2> DEFINE r == [id |-> stamped + 1, at |-> now]
  <2>1. /\ stamped < MaxRows /\ stamped' = stamped + 1
        /\ insert' = [insert EXCEPT ![w] = r] /\ UNCHANGED <<rows, reading>>
    BY <1>5 DEF Judge, BeginInsert
  <2>2. stamped' \in 0 .. MaxRows /\ stamped + 1 \in 1 .. MaxRows
    BY <2>1, Numbers DEF TypeOK, TrailTypeOK
  <2>3. r \in Row
    BY <2>2 DEF Row, TypeOK, TrailTypeOK
  <2> HIDE DEF r
  <2>4. insert' \in [Writer -> Row \cup {NoRow}]
    BY <2>1, <2>3 DEF TypeOK, TrailTypeOK
  <2>5. pc' \in [Writer -> {"idle", "ip", "account", "judged", "auditing"}]
        /\ UNCHANGED <<arrived, from, now, redis, passed>>
    BY <1>5 DEF Judge, Goto, TypeOK
  <2> QED
    BY <2>1, <2>2, <2>4, <2>5 DEF TypeOK, TrailTypeOK, redis
<1>6. ASSUME NEW w \in Writer, Answer(w) PROVE TypeOK'
  <2>1. /\ insert' = [insert EXCEPT ![w] = NoRow] /\ insert[w] # NoRow
        /\ rows' = rows \/ rows' = rows \cup {insert[w]}
        /\ UNCHANGED <<stamped, reading>>
    BY <1>6 DEF Answer, CommitInsert, FailInsert
  <2>2. insert' \in [Writer -> Row \cup {NoRow}] /\ rows' \in SUBSET Row
    BY <2>1 DEF TypeOK, TrailTypeOK
  <2>3. Finish(w) /\ UNCHANGED <<now, redis, passed>>
    BY <1>6 DEF Answer
  <2> QED
    BY <2>1, <2>2, <2>3, FinishWrites DEF TypeOK, TrailTypeOK, redis
<1>7. CASE LoseCounters
  <2>1. faults' \in 0 .. MaxFaults
    BY <1>7, Numbers DEF LoseCounters, TypeOK
  <2>2. 0 \in 0 .. MaxTime + Window
    BY Numbers
  <2> QED
    BY <1>7, <2>1, <2>2 DEF LoseCounters, TypeOK, TrailTypeOK, trail, requests
<1>8. CASE Tick
  <2>1. now' \in Time
    BY <1>8, Numbers DEF Tick, TypeOK, TrailTypeOK, Time
  <2>2. 0 \in 0 .. MaxTime + Window
    BY Numbers
  <2>3. count' \in [Counter -> [n : Nat, ends : 0 .. MaxTime + Window]]
    BY <1>8, <2>2 DEF Tick, TypeOK
  <2> QED
    BY <1>8, <2>1, <2>3 DEF Tick, TypeOK, TrailTypeOK, trail, requests
<1>9. CASE Cleanup
  BY <1>9 DEF Cleanup, CleanupExpiredAuditLogs, TypeOK, TrailTypeOK, redis, requests
<1>10. ASSUME NEW S \in SUBSET rows, NEW owed \in SUBSET Row,
              Show(Newest(S, Limit), owed), UNCHANGED <<now, stamped, insert, rows>>,
              UNCHANGED <<redis, requests, passed>>
       PROVE  TypeOK'
  <2>1. reading' \in Reading \cup {None}
    BY <1>10, PageType
  <2> QED
    BY <1>10, <2>1 DEF TypeOK, TrailTypeOK, redis, requests
<1>11. CASE Read
  <2>1. Promised \in SUBSET Row
    BY DEF Promised, TypeOK, TrailTypeOK
  <2> QED
    BY <1>10, <1>11, <2>1 DEF Read, StartReading
<1>12. CASE ReadOn
  <2>1. reading \in Reading
    BY <1>12 DEF ReadOn, NextPage, TypeOK, TrailTypeOK
  <2>2. reading.owed \in SUBSET Row
    BY <2>1 DEF Reading
  <2> QED
    BY <1>10, <1>12, <2>2 DEF ReadOn, NextPage, Page
<1>13. CASE UNCHANGED vars
  BY <1>13 DEF vars, trail, redis, requests, TypeOK, TrailTypeOK
<1> QED
  BY <1>1, <1>2, <1>3, <1>4, <1>5, <1>6, <1>7, <1>8, <1>9, <1>11, <1>12, <1>13
     DEF Next

LEMMA TracedStep ==
    ASSUME TypeOK, Traced, [Next]_vars
    PROVE  Traced'
<1>1. ASSUME NEW w \in Writer, Arrive(w) PROVE Traced'
  <2>1. PICK a \in AccountKey : from' = [from EXCEPT ![w] = a]
    BY <1>1 DEF Arrive
  <2> QED
    BY <1>1, <2>1 DEF Arrive, TypeOK, Traced
<1>2. ASSUME NEW w \in Writer, Finish(w) PROVE Traced'
  BY <1>2, FinishWrites DEF Traced
<1>3. ASSUME NEW w \in Writer, pc[w] # "idle",
             \A v \in Writer \ {w} : pc'[v] = pc[v], UNCHANGED from
      PROVE  Traced'
  BY <1>3 DEF Traced
<1>4. ASSUME NEW w \in Writer, Limiter(w) \/ FailOpen(w) PROVE Traced'
  <2>1. pc[w] # "idle"
    BY <1>4 DEF Limiter, FailOpen
  <2>2. KeyOf(w) \in Counter /\ (Finish(w) \/ Pass(w, KeyOf(w)))
    BY <1>4, LimiterWrites, FailOpenWrites
  <2> QED
    BY <1>2, <1>3, <2>1, <2>2, PassWrites
<1>5. ASSUME NEW w \in Writer, Judge(w) PROVE Traced'
  BY <1>3, <1>5 DEF Judge, Goto, TypeOK
<1>6. ASSUME NEW w \in Writer, Reject(w) \/ Answer(w) PROVE Traced'
  BY <1>2, <1>6 DEF Reject, Answer
<1>7. CASE LoseCounters \/ Read \/ ReadOn \/ Cleanup \/ Tick \/ UNCHANGED vars
  BY <1>7 DEF LoseCounters, Read, ReadOn, Cleanup, Tick, vars, requests, Traced
<1> QED
  BY <1>1, <1>4, <1>5, <1>6, <1>7 DEF Next

LEMMA SoundStep ==
    ASSUME GuardInv, [Next]_vars, NEW j \in Counter
    PROVE  Sound(j)'
<1>0. TypeOK /\ Traced /\ Sound(j)
  BY DEF GuardInv
<1>1. ASSUME UNCHANGED <<passed, count, now>>, faults' \in {faults, faults + 1}
      PROVE  Sound(j)'
  BY <1>0, <1>1, Untouched
<1>2. ASSUME NEW w \in Writer, Limiter(w) PROVE Sound(j)'
  <2> DEFINE k == KeyOf(w)
  <2>1. /\ k \in Counter /\ count'[k] = Incremented(count[k])
        /\ \A i \in Counter \ {k} : count'[i] = count[i]
        /\ \/ count'[k].n > Allowance(k) /\ Finish(w) /\ UNCHANGED passed
           \/ ~ (count'[k].n > Allowance(k)) /\ Pass(w, k)
        /\ now' = now /\ faults' = faults
    BY <1>0, <1>2, LimiterWrites
  <2>2. Sound(k) /\ Clock(k)
    BY <2>1 DEF GuardInv, Sound
  <2> HIDE DEF k
  <2>3. \A i \in Counter \ {k} : passed'[i] = passed[i]
    BY <1>0, <2>1, PassWrites
  <2>4. CASE j # k
    BY <1>0, <2>1, <2>3, <2>4, Untouched
  <2>5. CASE j = k /\ count'[k].n > Allowance(k)
    BY <1>0, <2>1, <2>2, <2>5, TurnedAway
  <2>6. CASE j = k /\ ~ (count'[k].n > Allowance(k))
    <3>1. /\ count'[j] = Incremented(count[j]) /\ ~ (count'[j].n > Allowance(j))
          /\ Pass(w, j) /\ now' = now /\ faults' = faults /\ Clock(j)
      BY <2>1, <2>2, <2>6
    <3>2. count[j].n + 1 <= Allowance(j)
      <4>1. count'[j].n = count[j].n + 1 /\ count[j].n \in Nat
        BY <1>0, <3>1, IncrementedIs, CountType
      <4> QED
        BY <3>1, <4>1, AllowanceType
    <3>3. \A t \in Ticks : passed'[j][t] =
             IF t > now THEN passed[j][t] + 1 ELSE passed[j][t]
      BY <1>0, <3>1, PassWrites
    <3> QED
      BY <1>0, <3>1, <3>2, <3>3, LetThrough
  <2> QED
    BY <2>4, <2>5, <2>6
<1>3. ASSUME NEW w \in Writer, FailOpen(w) PROVE Sound(j)'
  <2> DEFINE k == KeyOf(w)
  <2>1. /\ k \in Counter
        /\ count'[k] = count[k] \/ count'[k] = Incremented(count[k])
        /\ \A i \in Counter \ {k} : count'[i] = count[i]
        /\ Pass(w, k) /\ faults' = faults + 1 /\ now' = now
    BY <1>0, <1>3, FailOpenWrites
  <2>2. Sound(k)
    BY <2>1 DEF GuardInv
  <2> HIDE DEF k
  <2>3. /\ \A i \in Counter \ {k} : passed'[i] = passed[i]
        /\ \A t \in Ticks : passed'[k][t] =
              IF t > now THEN passed[k][t] + 1 ELSE passed[k][t]
    BY <1>0, <2>1, PassWrites
  <2>4. CASE j # k
    BY <1>0, <2>1, <2>3, <2>4, Untouched
  <2>5. CASE j = k
    BY <1>0, <2>1, <2>2, <2>3, <2>5, LetThrough
  <2> QED
    BY <2>4, <2>5
<1>4. CASE LoseCounters
  <2>1. /\ count'[j] = [n |-> 0, ends |-> 0] /\ faults' = faults + 1
        /\ UNCHANGED <<now, passed>>
    BY <1>4 DEF LoseCounters
  <2> QED
    BY <1>0, <2>1, Forgotten
<1>5. CASE Tick
  <2>1. /\ now < MaxTime /\ now' = now + 1 /\ faults' = faults /\ UNCHANGED passed
        /\ count'[j] = IF count[j].ends = now + 1 THEN [n |-> 0, ends |-> 0]
                                                  ELSE count[j]
    BY <1>5 DEF Tick
  <2> QED
    BY <1>0, <2>1, TickedOn
<1>6. CASE \/ Read \/ ReadOn \/ Cleanup \/ UNCHANGED vars
           \/ \E w \in Writer : Arrive(w) \/ Reject(w) \/ Judge(w) \/ Answer(w)
  <2>1. UNCHANGED <<passed, count, now, faults>>
    BY <1>6 DEF Read, ReadOn, Cleanup, Arrive, Reject, Judge, Answer, vars, redis,
       StartReading, NextPage, CleanupExpiredAuditLogs
  <2> QED
    BY <1>1, <2>1
<1> QED
  BY <1>2, <1>3, <1>4, <1>5, <1>6 DEF Next

LEMMA GuardInvHolds == Spec => []GuardInv
<1>1. GuardInv /\ [Next]_vars => GuardInv'
  <2> SUFFICES ASSUME GuardInv, [Next]_vars PROVE GuardInv'
    OBVIOUS
  <2>1. TypeOK' /\ Traced'
    BY TypeStep, TracedStep DEF GuardInv
  <2>2. \A k \in Counter : Sound(k)'
    BY SoundStep
  <2> QED
    BY <2>1, <2>2 DEF GuardInv
<1> QED
  BY <1>1, GuardInit, PTL DEF Spec

(* The guard's state and the trail's have their types.                     *)
THEOREM TypeCorrect == Spec => []TypeOK
<1>1. GuardInv => TypeOK
  BY DEF GuardInv
<1> QED
  BY <1>1, GuardInvHolds, PTL

LEMMA EarliestIs ==
    ASSUME TypeOK
    PROVE  /\ Earliest \in Ticks /\ Earliest > now - Window
           /\ \A t \in Ticks : t > now - Window => Earliest <= t
<1>1. now \in Nat /\ now <= MaxTime /\ Window \in Nat /\ Window >= 1 /\ MaxTime \in Nat
  BY Numbers DEF TypeOK, TrailTypeOK, Time
<1> QED
  BY <1>1 DEF Earliest, Ticks

(* Whatever the requests do and whenever Redis fails, no window sees two   *)
(* allowances, and one more for each failure.                              *)
THEOREM AllowancesHold == Spec => []AllowanceHolds
<1>1. GuardInv => AllowanceHolds
  <2>1. ASSUME GuardInv, NEW k \in Counter
        PROVE  PassedLately(k) < (2 + faults) * Allowance(k)
    <3> DEFINE A == Allowance(k)
               C == Counted(k)
               E == Excess(k)
               S == Since(k, Earliest)
    <3>1. TypeOK /\ Bounded(k)
      BY <2>1 DEF GuardInv, Sound
    <3>2. /\ A \in Nat /\ E \in Nat /\ C \in Nat /\ C <= A
          /\ Earliest \in Ticks /\ Earliest > now - Window /\ faults \in Nat
      <4>1. A \in Nat
        BY AllowanceType
      <4>2. E \in Nat
        BY <3>1, ExcessGrows
      <4>3. C \in Nat /\ C <= A
        BY <3>1, CountedType
      <4>4. Earliest \in Ticks /\ Earliest > now - Window
        BY <3>1, EarliestIs
      <4>5. faults \in Nat
        BY <3>1 DEF TypeOK
      <4> QED
        BY <4>1, <4>2, <4>3, <4>4, <4>5
    <3>3. S < E + A + C \/ S < E + A
      BY <3>1, <3>2 DEF Bounded
    <3>4. S \in Int
      BY <3>1, <3>2, SinceType
    <3>5. (2 + faults) * A = E + A + A
      <4>1. (faults + 1) * A = faults * A + A /\ (faults + 1 + 1) * A = (faults + 1) * A + A
        BY <3>2, OneMore
      <4>2. faults + 1 + 1 = 2 + faults /\ faults * A \in Nat
        BY <3>2, OneMore
      <4>3. E = faults * A
        BY DEF Excess
      <4> QED
        BY <4>1, <4>2, <4>3
    <3>6. PassedLately(k) = S
      BY DEF PassedLately, Since
    <3> HIDE DEF A, C, E, S
    <3>7. S < E + A + A
      BY <3>2, <3>3, <3>4
    <3> QED
      BY <3>5, <3>6, <3>7 DEF A
  <2> QED
    BY <2>1 DEF AllowanceHolds
<1> QED
  BY <1>1, GuardInvHolds, PTL

-----------------------------------------------------------------------------
(* The trail, step by step *)

LEMMA TrailFirst == Init => TrailInv
<1> SUFFICES ASSUME Init PROVE TrailInv
  OBVIOUS
<1>1. rows = {} /\ Known = {} /\ reading = None /\ \A w \in Writer : insert[w] = NoRow
  BY DEF Init, TrailInit, Known
<1>2. IsFiniteSet(rows)
  BY <1>1, FS_EmptySet
<1> QED
  BY <1>1, <1>2 DEF TrailInv, Ordered, Underway, AwaitedRows

(* A step that adds no row of its own.                                     *)
LEMMA KnownShrinks ==
    ASSUME TypeOK, TypeOK', Ordered, Underway, Known' \subseteq Known,
           stamped' = stamped, reading' = reading,
           now' = now \/ now' = now + 1,
           \A x \in rows : x \in rows' \/ x.at < now - Retention
    PROVE  Ordered' /\ Underway'
<1>1. now \in Nat /\ now' \in Nat /\ Retention \in Nat /\ now <= now'
  BY Numbers DEF TypeOK, TrailTypeOK, Time
<1>2. \A x \in Known : x \in Row /\ x.at \in Nat
  BY KnownRows, RowNumbers
<1>3. Ordered'
  <2>1. ASSUME NEW x \in Known' PROVE x.id <= stamped /\ x.at <= now'
    <3>1. x \in Known /\ x.at \in Nat /\ x.at <= now /\ x.id <= stamped
      BY <1>2, <2>1 DEF Ordered
    <3> QED
      BY <1>1, <3>1
  <2>2. ASSUME NEW x \in Known', NEW y \in Known'
        PROVE  (x.id = y.id => x = y) /\ (x.at < y.at => x.id < y.id)
    BY <2>2 DEF Ordered
  <2> QED
    BY <2>1, <2>2 DEF Ordered
<1>4. Underway'
  <2> SUFFICES ASSUME reading # None PROVE Underway'
    BY DEF Underway
  <2>1. reading \in Reading /\ reading.before \in Nat /\ reading.before <= now
    BY Numbers DEF TypeOK, TrailTypeOK, Reading, Time, Underway
  <2>2. reading.before <= now'
    BY <1>1, <2>1
  <2>3. \A x \in Known' : x.at < reading.before => x.id < reading.last
    BY DEF Underway
  <2>4. ASSUME NEW x \in reading.owed
        PROVE  (x \in rows' /\ x.at < reading.before) \/ x.at < now' - Retention
    <3>1. (x \in rows /\ x.at < reading.before) \/ x.at < now - Retention
      BY DEF Underway
    <3>2. (x \in rows' /\ x.at < reading.before) \/ x.at < now - Retention
      BY <3>1
    <3>3. x.at \in Nat
      BY <2>1, RowNumbers DEF Reading
    <3> QED
      BY <1>1, <3>2, <3>3
  <2> QED
    BY <2>2, <2>3, <2>4 DEF Underway
<1> QED
  BY <1>3, <1>4

LEMMA JudgeOrders ==
    ASSUME TypeOK, Ordered, Underway, NEW w \in Writer, BeginInsert(w),
           now' = now
    PROVE  Ordered' /\ Underway'
<1> DEFINE r == [id |-> stamped + 1, at |-> now]
<1>1. /\ stamped' = stamped + 1 /\ insert' = [insert EXCEPT ![w] = r]
      /\ UNCHANGED <<rows, reading>> /\ stamped < MaxRows
  BY DEF BeginInsert
<1>2. r.id = stamped + 1 /\ r.at = now
  OBVIOUS
<1>3. stamped \in Nat /\ now \in Nat
  BY Numbers DEF TypeOK, TrailTypeOK, Time
<1>4. insert \in [Writer -> Row \cup {NoRow}]
  BY DEF TypeOK, TrailTypeOK
<1> HIDE DEF r
<1>5. Known' \subseteq Known \cup {r}
  BY <1>1, <1>4 DEF Known
<1>6. \A x \in Known : /\ x.id \in Nat /\ x.at \in Nat
                       /\ x.id <= stamped /\ x.at <= now
  BY KnownRows, RowNumbers DEF Ordered
<1>7. Ordered'
  <2>1. ASSUME NEW x \in Known' PROVE x.id <= stamped' /\ x.at <= now
    <3>1. CASE x \in Known
      BY <1>1, <1>3, <1>6, <3>1
    <3>2. CASE x = r
      BY <1>1, <1>2, <1>3, <3>2
    <3> QED
      BY <1>5, <3>1, <3>2
  <2>2. ASSUME NEW x \in Known', NEW y \in Known'
        PROVE  (x.id = y.id => x = y) /\ (x.at < y.at => x.id < y.id)
    <3>1. CASE x \in Known /\ y \in Known
      BY <3>1 DEF Ordered
    <3>2. CASE x \in Known /\ y = r
      <4>1. x.id < y.id
        BY <1>2, <1>3, <1>6, <3>2
      <4> QED
        BY <1>2, <1>3, <1>6, <3>2, <4>1
    <3>3. CASE x = r /\ y \in Known
      <4>1. y.id < x.id /\ y.at <= x.at
        BY <1>2, <1>3, <1>6, <3>3
      <4> QED
        BY <1>2, <1>3, <1>6, <3>3, <4>1
    <3>4. CASE x = r /\ y = r
      BY <1>2, <1>3, <3>4
    <3> QED
      BY <1>5, <3>1, <3>2, <3>3, <3>4
  <2> QED
    BY <2>1, <2>2 DEF Ordered
<1>8. Underway'
  <2> SUFFICES ASSUME reading # None PROVE Underway'
    BY <1>1 DEF Underway
  <2>1. /\ reading.before <= now
        /\ \A x \in Known : x.at < reading.before => x.id < reading.last
        /\ \A x \in reading.owed : \/ x \in rows /\ x.at < reading.before
                                   \/ x.at < now - Retention
    BY DEF Underway
  <2>2. reading.before \in Nat
    BY Numbers DEF TypeOK, TrailTypeOK, Reading, Time
  <2>3. ~ (r.at < reading.before)
    BY <1>2, <1>3, <2>1, <2>2
  <2>4. \A x \in Known' : x.at < reading.before => x.id < reading.last
    BY <1>5, <2>1, <2>3
  <2> QED
    BY <1>1, <2>1, <2>4 DEF Underway
<1> QED
  BY <1>7, <1>8

LEMMA TrailStep ==
    ASSUME GuardInv, TypeOK', TrailInv, [Next]_vars
    PROVE  TrailInv'
<1>0. /\ TypeOK /\ IsFiniteSet(rows) /\ Ordered /\ Underway /\ AwaitedRows
      /\ insert \in [Writer -> Row \cup {NoRow}]
  BY DEF GuardInv, TrailInv, TypeOK, TrailTypeOK
<1>1. ASSUME UNCHANGED <<now, trail>>,
             \/ UNCHANGED pc
             \/ \E w \in Writer : pc[w] # "auditing" /\
                   \A v \in Writer \ {w} : pc'[v] = pc[v]
      PROVE  TrailInv'
  <2>1. UNCHANGED <<now, stamped, insert, rows, reading>>
    BY <1>1 DEF trail
  <2>2. Known' = Known
    BY <2>1 DEF Known
  <2>3. Ordered' /\ Underway'
    BY <1>0, <2>1, <2>2, KnownShrinks
  <2>4. AwaitedRows'
    BY <1>0, <1>1, <2>1 DEF AwaitedRows
  <2> QED
    BY <1>0, <2>1, <2>3, <2>4 DEF TrailInv
<1>2. ASSUME NEW w \in Writer, Limiter(w) \/ FailOpen(w) PROVE TrailInv'
  <2>1. /\ UNCHANGED <<now, trail>> /\ pc[w] # "auditing"
        /\ KeyOf(w) \in Counter /\ (Finish(w) \/ Pass(w, KeyOf(w)))
    BY <1>2, LimiterWrites, FailOpenWrites DEF GuardInv, Limiter, FailOpen
  <2>2. \A v \in Writer \ {w} : pc'[v] = pc[v]
    BY <1>0, <2>1, FinishWrites, PassWrites
  <2> QED
    BY <1>1, <2>1, <2>2
<1>3. ASSUME NEW w \in Writer, Arrive(w) \/ Reject(w) PROVE TrailInv'
  <2>1. UNCHANGED <<now, trail>> /\ pc[w] # "auditing"
    BY <1>3 DEF Arrive, Reject
  <2>2. \A v \in Writer \ {w} : pc'[v] = pc[v]
    BY <1>0, <1>3, FinishWrites DEF Arrive, Reject, TypeOK
  <2> QED
    BY <1>1, <2>1, <2>2
<1>4. ASSUME NEW w \in Writer, Judge(w) PROVE TrailInv'
  <2>1. /\ BeginInsert(w) /\ now' = now /\ pc' = [pc EXCEPT ![w] = "auditing"]
    BY <1>4 DEF Judge, Goto
  <2>2. Ordered' /\ Underway'
    BY <1>0, <2>1, JudgeOrders
  <2>3. IsFiniteSet(rows')
    BY <1>0, <2>1 DEF BeginInsert
  <2>4. ASSUME NEW v \in Writer, pc'[v] # "auditing" PROVE insert'[v] = NoRow
    <3>1. v # w
      BY <1>0, <2>1, <2>4 DEF TypeOK
    <3>2. pc'[v] = pc[v] /\ insert'[v] = insert[v]
      BY <1>0, <2>1, <3>1 DEF TypeOK, BeginInsert
    <3> QED
      BY <1>0, <2>4, <3>2 DEF AwaitedRows
  <2> QED
    BY <2>2, <2>3, <2>4 DEF TrailInv, AwaitedRows
<1>5. ASSUME NEW w \in Writer, Answer(w) PROVE TrailInv'
  <2>1. /\ insert' = [insert EXCEPT ![w] = NoRow] /\ insert[w] # NoRow
        /\ rows' = rows \/ rows' = rows \cup {insert[w]}
        /\ UNCHANGED <<now, stamped, reading>> /\ Finish(w)
    BY <1>5 DEF Answer, CommitInsert, FailInsert
  <2>2. /\ insert'[w] = NoRow
        /\ \A v \in Writer \ {w} : insert'[v] = insert[v] /\ pc'[v] = pc[v]
    BY <1>0, <2>1, FinishWrites
  <2>3. Known' \subseteq Known
    <3>1. {insert'[v] : v \in Writer} \ {NoRow} \subseteq Known
      BY <2>2 DEF Known
    <3>2. rows' \subseteq Known
      BY <2>1 DEF Known
    <3> QED
      BY <3>1, <3>2 DEF Known
  <2>4. Ordered' /\ Underway'
    BY <1>0, <2>1, <2>3, KnownShrinks
  <2>5. IsFiniteSet(rows')
    BY <1>0, <2>1, FS_AddElement
  <2>6. AwaitedRows'
    BY <1>0, <2>2 DEF AwaitedRows
  <2> QED
    BY <2>4, <2>5, <2>6 DEF TrailInv
<1>6. CASE LoseCounters
  BY <1>1, <1>6 DEF LoseCounters, requests
<1>7. CASE Tick
  <2>1. now' = now + 1 /\ UNCHANGED <<stamped, insert, rows, reading, pc>>
    BY <1>7 DEF Tick, trail, requests
  <2>2. Known' = Known
    BY <2>1 DEF Known
  <2>3. Ordered' /\ Underway'
    BY <1>0, <2>1, <2>2, KnownShrinks
  <2> QED
    BY <1>0, <2>1, <2>3 DEF TrailInv, AwaitedRows
<1>8. CASE Cleanup
  <2>1. /\ rows' = {x \in rows : x.at >= now - Retention}
        /\ UNCHANGED <<now, stamped, insert, reading, pc>>
    BY <1>8 DEF Cleanup, CleanupExpiredAuditLogs, requests
  <2>2. Known' \subseteq Known
    BY <2>1 DEF Known
  <2>3. ASSUME NEW x \in rows PROVE x \in rows' \/ x.at < now - Retention
    <3>1. x.at \in Nat /\ now \in Nat /\ Retention \in Nat
      BY <1>0, KnownRows, RowNumbers, Numbers DEF TypeOK, TrailTypeOK, Time
    <3> QED
      BY <2>1, <3>1
  <2>4. Ordered' /\ Underway'
    BY <1>0, <2>1, <2>2, <2>3, KnownShrinks
  <2>5. IsFiniteSet(rows')
    <3>1. rows' \subseteq rows
      BY <2>1
    <3> QED
      BY <1>0, <3>1, FS_Subset
  <2> QED
    BY <1>0, <2>1, <2>4, <2>5 DEF TrailInv, AwaitedRows
<1>9. ASSUME NEW S \in SUBSET rows, NEW owed \in SUBSET Row,
             Show(Newest(S, Limit), owed), UNCHANGED <<now, stamped, insert, rows>>,
             UNCHANGED pc, \A x \in owed : x \in S \/ x.at < now - Retention
      PROVE  TrailInv'
  <2>1. Underway'
    BY <1>0, <1>9, Shown
  <2>2. Ordered'
    <3>1. Known' = Known
      BY <1>9 DEF Known
    <3> QED
      BY <1>0, <1>9, <3>1 DEF Ordered
  <2> QED
    BY <1>0, <1>9, <2>1, <2>2 DEF TrailInv, AwaitedRows
<1>10. CASE Read
  <2>1. Promised = rows
    BY <1>0 DEF Promised, AwaitedRows
  <2>2. rows \in SUBSET Row
    BY <1>0 DEF TypeOK, TrailTypeOK
  <2> QED
    BY <1>9, <1>10, <2>1, <2>2 DEF Read, StartReading, requests
<1>11. CASE ReadOn
  <2> DEFINE S == {x \in rows : x.at < reading.before}
  <2>1. /\ reading # None /\ Show(Newest(S, Limit), reading.owed)
        /\ UNCHANGED <<now, stamped, insert, rows, pc>>
    BY <1>11 DEF ReadOn, NextPage, Page, requests
  <2>2. reading.owed \in SUBSET Row
    BY <1>0, <2>1 DEF TypeOK, TrailTypeOK, Reading
  <2>3. \A x \in reading.owed : x \in S \/ x.at < now - Retention
    BY <1>0, <2>1 DEF Underway
  <2> QED
    BY <1>9, <2>1, <2>2, <2>3
<1>12. CASE UNCHANGED vars
  BY <1>1, <1>12 DEF vars, requests
<1> QED
  BY <1>2, <1>3, <1>4, <1>5, <1>6, <1>7, <1>8, <1>10, <1>11, <1>12 DEF Next

LEMMA TrailInvHolds == Spec => [](GuardInv /\ TrailInv)
<1>1. GuardInv /\ TrailInv /\ GuardInv' /\ [Next]_vars => TrailInv'
  BY TrailStep DEF GuardInv
<1>2. Spec => []GuardInv
  BY GuardInvHolds
<1> QED
  BY <1>1, <1>2, TrailFirst, PTL DEF Spec

(* A reader who follows the cursor never meets a row again: every page is  *)
(* older than the last row of the page before.                             *)
THEOREM PagesOnlyGoBack == Spec => PagesGoBack
<1> DEFINE A == reading # None /\ reading' # reading =>
                   \A x \in Page(reading.before) : x.id < reading.last
<1>1. GuardInv /\ TrailInv => A
  <2>1. ASSUME TrailInv, reading # None, NEW x \in Page(reading.before)
        PROVE  x.id < reading.last
    <3>1. x \in rows /\ x.at < reading.before
      BY NewestIn DEF Page
    <3> QED
      BY <2>1, <3>1 DEF TrailInv, Underway, Known
  <2> QED
    BY <2>1
<1>2. Spec => [][A]_<<now, trail>>
  BY <1>1, TrailInvHolds, PTL
<1> QED
  BY <1>2 DEF PagesGoBack

(* The reader that comes to the end has seen every row of a request that   *)
(* was answered before it began, but for the two exceptions.               *)
THEOREM HistoryShown == Spec => HistoryIsShown
<1> DEFINE A == reading # None /\ reading' = None =>
                   \A x \in reading.owed \ Page(reading.before) :
                       x.at < now - Retention
<1>1. ASSUME GuardInv, TrailInv, [Next]_vars PROVE A
  <2> SUFFICES ASSUME reading # None, reading' = None
               PROVE  \A x \in reading.owed \ Page(reading.before) :
                         x.at < now - Retention
    OBVIOUS
  <2> DEFINE S == {x \in rows : x.at < reading.before}
  <2>1. ReadOn
    BY <1>1 DEF Next, Arrive, Limiter, FailOpen, Reject, Judge, Answer,
       LoseCounters, Read, Cleanup, Tick, vars, trail, StartReading,
       CleanupExpiredAuditLogs, BeginInsert, CommitInsert, FailInsert
  <2>2. /\ Show(Newest(S, Limit), reading.owed)
        /\ UNCHANGED <<now, stamped, insert, rows>>
    BY <2>1 DEF ReadOn, NextPage, Page
  <2>3. /\ TypeOK /\ Ordered /\ IsFiniteSet(rows) /\ Underway
    BY <1>1 DEF GuardInv, TrailInv
  <2>4. reading.owed \in SUBSET Row
    BY <2>3 DEF TypeOK, TrailTypeOK, Reading
  <2>5. \A x \in reading.owed : x \in S \/ x.at < now - Retention
    BY <2>3 DEF Underway
  <2> QED
    BY <2>2, <2>3, <2>4, <2>5, Shown DEF Page
<1>2. GuardInv /\ TrailInv /\ [Next]_vars => [A]_<<now, trail>>
  BY <1>1
<1>3. Spec => [][A]_<<now, trail>>
  BY <1>2, TrailInvHolds, PTL DEF Spec
<1> QED
  BY <1>3 DEF HistoryIsShown

(* A counter turns away only after it has let through an allowance, the    *)
(* window's own: trying on after a refusal keeps nobody out for longer.    *)
THEOREM RefusalsHaveCause == Spec => RefusedForCause
<1> DEFINE A == \A w \in Writer :
                   pc[w] \in {"ip", "account"} /\ pc'[w] = "idle" =>
                       PassedLately(KeyOf(w)) >= Allowance(KeyOf(w))
<1>1. ASSUME GuardInv, TrailInv, [Next]_vars PROVE A
  <2> SUFFICES ASSUME NEW w \in Writer, pc[w] \in {"ip", "account"}, pc'[w] = "idle"
               PROVE  PassedLately(KeyOf(w)) >= Allowance(KeyOf(w))
    OBVIOUS
  <2> DEFINE k == KeyOf(w)
  <2>0. TypeOK /\ Traced
    BY <1>1 DEF GuardInv
  <2>1. Limiter(w)
    <3>1. ASSUME NEW v \in Writer, v # w,
                 \/ Arrive(v) \/ Limiter(v) \/ FailOpen(v) \/ Reject(v)
                 \/ Judge(v) \/ Answer(v)
          PROVE  pc'[w] = pc[w]
      <4>1. CASE Limiter(v) \/ FailOpen(v)
        <5>1. KeyOf(v) \in Counter /\ (Finish(v) \/ Pass(v, KeyOf(v)))
          BY <2>0, <4>1, LimiterWrites, FailOpenWrites
        <5> QED
          BY <2>0, <3>1, <5>1, PassWrites, FinishWrites
      <4>2. CASE Reject(v) \/ Answer(v)
        BY <2>0, <3>1, <4>2, FinishWrites DEF Reject, Answer
      <4>3. CASE Arrive(v) \/ Judge(v)
        BY <2>0, <3>1, <4>3 DEF Arrive, Judge, Goto, TypeOK
      <4> QED
        BY <3>1, <4>1, <4>2, <4>3
    <3>2. CASE LoseCounters \/ Read \/ ReadOn \/ Cleanup \/ Tick \/ UNCHANGED vars
      BY <3>2 DEF LoseCounters, Read, ReadOn, Cleanup, Tick, vars, requests
    <3>3. ~ FailOpen(w)
      <4>1. FailOpen(w) => KeyOf(w) \in Counter /\ Pass(w, KeyOf(w))
        BY <2>0, FailOpenWrites
      <4>2. FailOpen(w) => pc'[w] \in {"account", "judged"}
        BY <2>0, <4>1, PassWrites
      <4> QED
        BY <4>2
    <3>4. ~ (Arrive(w) \/ Reject(w) \/ Judge(w))
      BY DEF Arrive, Reject, Judge
    <3>5. ~ Answer(w)
      BY <1>1 DEF Answer, CommitInsert, FailInsert, TrailInv, AwaitedRows
    <3> QED
      BY <1>1, <3>1, <3>2, <3>3, <3>4, <3>5 DEF Next
  <2>2. /\ k \in Counter /\ count'[k] = Incremented(count[k])
        /\ count'[k].n > Allowance(k) /\ UNCHANGED passed
        /\ UNCHANGED <<now, faults>>
    <3>1. /\ k \in Counter /\ count'[k] = Incremented(count[k])
          /\ \/ count'[k].n > Allowance(k) /\ UNCHANGED passed
             \/ Pass(w, k)
          /\ UNCHANGED <<now, trail, faults>>
      BY <2>0, <2>1, LimiterWrites
    <3>2. ~ Pass(w, k)
      <4>1. k \in Counter
        BY <3>1
      <4> HIDE DEF k
      <4>2. Pass(w, k) => pc'[w] \in {"account", "judged"}
        BY <2>0, <4>1, PassWrites
      <4> QED
        BY <4>2
    <3> QED
      BY <3>1, <3>2
  <2> HIDE DEF k
  <2>3. Sound(k)
    BY <1>1, <2>2 DEF GuardInv
  <2>4. Running(k) /\ Counted(k) = Allowance(k)
    BY <2>0, <2>2, <2>3, TurnedAway
  <2>5. Since(k, Began(k)) >= Allowance(k)
    BY <2>3, <2>4 DEF Sound, Justified
  <2>6. Began(k) \in Ticks /\ Began(k) > now - Window
    <3>1. /\ now \in Nat /\ now <= MaxTime /\ count[k].ends \in Nat
          /\ Window \in Nat /\ MaxTime \in Nat
      BY <2>0, <2>2, CountType, Numbers
    <3>2. Window <= count[k].ends /\ now < count[k].ends /\ count[k].ends <= now + Window
      BY <2>3, <2>4 DEF Sound, Clock
    <3> QED
      BY <3>1, <3>2 DEF Began, Ticks
  <2>7. Earliest \in Ticks /\ Earliest <= Began(k)
    BY <2>0, <2>6, EarliestIs
  <2>8. passed[k][Earliest] <= passed[k][Began(k)]
    BY <2>3, <2>6, <2>7 DEF Sound, Grows
  <2>9. /\ passed[k][Earliest] \in Nat /\ passed[k][Began(k)] \in Nat
        /\ passed[k][now + 1] \in Nat /\ Allowance(k) \in Nat
    BY <2>0, <2>2, <2>6, <2>7, CountType, AllowanceType
  <2>10. PassedLately(k) >= Allowance(k)
    BY <2>5, <2>8, <2>9 DEF PassedLately, Since
  <2> QED
    BY <2>10 DEF k
<1>2. GuardInv /\ TrailInv /\ [Next]_vars => [A]_vars
  BY <1>1
<1>3. Spec => [][A]_vars
  BY <1>2, TrailInvHolds, PTL DEF Spec
<1> QED
  BY <1>3 DEF RefusedForCause
=============================================================================
