------------------------------ MODULE Sessions ------------------------------
(***************************************************************************)
(* What the refresh-token component promises, without rows, races, clocks  *)
(* or operation ids.  A login begins a chain of tokens.  The chain has one *)
(* usable token, which renewal exchanges for a new one; once the chain has *)
(* no usable token it never has one again.                                 *)
(***************************************************************************)
EXTENDS Naturals

VARIABLES
    count,   \* tokens ever issued, numbered 1..count
    login,   \* the first token of the chain each token belongs to
    usable   \* the tokens that can still be renewed
avars == <<count, login, usable>>

Extended(l) ==
    [t \in 1..(count + 1) |-> IF t = count + 1 THEN l ELSE login[t]]

AInit ==
    /\ count \in Nat
    /\ login = [t \in 1..count |-> t]
    /\ usable = {}

Begin ==
    /\ count' = count + 1
    /\ login' = Extended(count + 1)
    /\ usable' = usable \cup {count + 1}

Renew ==
    \E t \in usable :
        /\ count' = count + 1
        /\ login' = Extended(login[t])
        /\ usable' = (usable \ {t}) \cup {count + 1}

End ==
    /\ usable' \subseteq usable
    /\ UNCHANGED <<count, login>>

ANext == Begin \/ Renew \/ End

ASpec == AInit /\ [][ANext]_avars

(* A login is worth one session.                                           *)
OneEach == \A a, b \in usable : login[a] = login[b] => a = b

(* Ended sessions are not resumed: a chain without a usable token stays    *)
(* without one.                                                            *)
EndedStaysEnded ==
    [][\A l \in 1..count :
        (\A t \in usable : login[t] # l) => (\A t \in usable' : login'[t] # l)]_avars
=============================================================================
