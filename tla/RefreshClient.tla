---------------------------- MODULE RefreshClient ----------------------------
(***************************************************************************)
(* A consumer that keeps one session alive through the SDK, the connection *)
(* it calls the platform over, and the platform of RefreshTokens.          *)
(*                                                                         *)
(* The consumer follows the contract: it serializes its refreshes, makes a *)
(* fresh operation id for each, and while the result is ambiguous repeats  *)
(* the call with the same token and the same id.  A call is ambiguous when *)
(* the SDK's timeout fires, the connection fails or the body is cut off    *)
(* (AuthTransportError).  A 500 is an AuthApiError, which must not be       *)
(* repeated: the call is over, its id is not used again, the token stays   *)
(* stored, and a later refresh has an id of its own.                       *)
(* A platform slot serves one connection; it does not notice that its      *)
(* consumer has gone.                                                      *)
(*                                                                         *)
(*   Refresh, Resend -> Arrive -> Serve ... -> Receive                     *)
(*                  \-> LoseRequest, LoseReply, Crash -> GiveUp -> Resend  *)
(*                  \-> ServerError -> Receive                             *)
(***************************************************************************)
EXTENDS RefreshTokens

CONSTANTS
    Timeout,     \* requestTimeoutMs, in ticks
    Delay,       \* bound: ticks a request takes from sending to its answer
    MaxFailures  \* bound: what is lost, fails early or is answered by a 5xx

ASSUME ClientAssumption ==
    /\ Timeout \in Nat /\ Delay \in Nat /\ MaxFailures \in Nat
    /\ Slot # {} /\ MaxTokens # 0

VARIABLES
    held,     \* the refresh token the consumer has stored
    call,     \* the consumer's refresh under way
    wire,     \* per slot: the connection to it
    outcome,  \* per operation id: what became of its refresh
    failures, \* what failed so far
    overtaken \* history: was a call given up while its request was under way?
cvars == <<held, call, wire, outcome, failures, overtaken>>
allvars == <<vars, cvars>>

Call == [state : {"none", "waiting", "ambiguous"}, tok : Nat,
         op : Op \cup {NoOp}, slot : Slot, since : Nat]

(* pair is the new token of an answer, NoToken for a 401; "failed" is an   *)
(* answer that makes the SDK throw AuthApiError.                           *)
Wire == [state : {"free", "sent", "open", "answered", "failed"}, tok : Nat,
         op : Op \cup {NoOp}, since : Nat, pair : Nat]

Outcome == {"unused", "open", "pair", "ended", "error"}

ClientTypeOK ==
    /\ TypeOK
    /\ held \in 0..issued
    /\ call \in Call
    /\ wire \in [Slot -> Wire]
    /\ outcome \in [Op -> Outcome]
    /\ failures \in 0..MaxFailures
    /\ overtaken \in BOOLEAN

Free == [state |-> "free", tok |-> NoToken, op |-> NoOp, since |-> 0,
         pair |-> NoToken]

NoCall == [state |-> "none", tok |-> NoToken, op |-> NoOp,
           slot |-> CHOOSE p \in Slot : TRUE, since |-> 0]

Owner == AnyUser

(* The consumer has signed in and stored its first token.                  *)
ClientInit ==
    /\ active = [u \in User |-> TRUE]
    /\ issued = 1
    /\ row = [t \in 1..1 |-> NewRow(Owner, 1, 0)]
    /\ stored = {1}
    /\ req = [p \in Slot |-> Idle]
    /\ now = 0
    /\ held = 1
    /\ call = NoCall
    /\ wire = [p \in Slot |-> Free]
    /\ outcome = [op \in Op |-> "unused"]
    /\ failures = 0
    /\ overtaken = FALSE

-----------------------------------------------------------------------------
(* The consumer and the SDK *)

Send(p, tok, op) ==
    /\ wire[p] = Free
    /\ call' = [state |-> "waiting", tok |-> tok, op |-> op, slot |-> p,
                since |-> now]
    /\ wire' = [wire EXCEPT ![p] = [Free EXCEPT !.state = "sent", !.tok = tok,
                                               !.op = op, !.since = now]]

Refresh(p) ==
    /\ call.state = "none"
    /\ held # NoToken
    /\ \E op \in Op :
          /\ outcome[op] = "unused"
          /\ Send(p, held, op)
          /\ outcome' = [outcome EXCEPT ![op] = "open"]
    /\ UNCHANGED <<vars, held, failures, overtaken>>

ResendOp_Fresh == CHOOSE op \in Op : op # call.op
ResendOp == call.op

Resend(p) ==
    /\ call.state = "ambiguous"
    /\ Send(p, call.tok, ResendOp)
    /\ UNCHANGED <<vars, held, outcome, failures, overtaken>>

Awaited_Any(p) == TRUE
Awaited(p) == call.state = "waiting" /\ call.slot = p

Fail ==
    /\ failures < MaxFailures
    /\ failures' = failures + 1

Unfinished(p) == wire[p].state \in {"sent", "open"}

Ambiguous_WithoutTimer(p) == Unfinished(p) /\ Fail

(* Nothing is left to wait for, the timer fires, or the call fails early.  *)
Ambiguous(p) ==
    \/ wire[p].state = "free" /\ UNCHANGED failures
    \/ Unfinished(p) /\ now >= call.since + Timeout /\ UNCHANGED failures
    \/ Unfinished(p) /\ Fail

(* The SDK throws AuthTransportError.                                      *)
GiveUp ==
    /\ call.state = "waiting"
    /\ Ambiguous(call.slot)
    /\ call' = [call EXCEPT !.state = "ambiguous"]
    /\ overtaken' = (overtaken \/ Unfinished(call.slot))
    /\ UNCHANGED <<vars, held, wire, outcome>>

Answered(p) == wire[p].state \in {"answered", "failed"}

(* What an answer says of the operation: only a 401 ends the session.      *)
Verdict(w) == IF w.state = "failed" THEN "error"
              ELSE IF w.pair = NoToken THEN "ended" ELSE "pair"

(* The token stored after an answer: the pair's, none after a 401, and the *)
(* one that was refreshed after an AuthApiError.                           *)
TokenAfter(w) == IF w.state = "failed" THEN held ELSE w.pair

Receive(p) ==
    /\ Answered(p)
    /\ Awaited(p)
    /\ held' = TokenAfter(wire[p])
    /\ outcome' = [outcome EXCEPT ![call.op] = Verdict(wire[p])]
    /\ call' = NoCall
    /\ wire' = [wire EXCEPT ![p] = Free]
    /\ UNCHANGED <<vars, failures, overtaken>>

(* An answer to a call that was given up goes nowhere.                     *)
Discard(p) ==
    /\ Answered(p)
    /\ ~Awaited(p)
    /\ wire' = [wire EXCEPT ![p] = Free]
    /\ UNCHANGED <<vars, held, call, outcome, failures, overtaken>>

-----------------------------------------------------------------------------
(* The connection and the platform *)

Arrive(p) ==
    LET w == wire[p]
    IN /\ w.state = "sent"
       /\ RefreshBegin(p, w.tok, w.op, ClientOf[Owner])
       /\ wire' = [wire EXCEPT ![p].state = "open"]
       /\ UNCHANGED <<held, call, outcome, failures, overtaken>>

(* The handler answers with the pair it prepared only if it inserted it.   *)
Pair == IF issued' > issued THEN issued' ELSE NoToken

(* A step of the handler; its last one answers.                            *)
Serve(p) ==
    /\ Continue(p)
    /\ wire' = IF req'[p] = Idle
                  THEN [wire EXCEPT ![p].state = "answered",
                                    ![p].pair = Pair]
                  ELSE wire
    /\ UNCHANGED <<held, call, outcome, failures, overtaken>>

LoseRequest(p) ==
    /\ Fail
    /\ wire[p].state = "sent"
    /\ wire' = [wire EXCEPT ![p] = Free]
    /\ UNCHANGED <<vars, held, call, outcome, overtaken>>

LoseReply(p) ==
    /\ Fail
    /\ Answered(p)
    /\ wire' = [wire EXCEPT ![p] = Free]
    /\ UNCHANGED <<vars, held, call, outcome, overtaken>>

(* The process that serves the request dies, and its connection with it.   *)
Crash(p) ==
    /\ Fail
    /\ Abort(p)
    /\ wire' = [wire EXCEPT ![p] = Free]
    /\ UNCHANGED <<held, call, outcome, overtaken>>

(* The platform lives and answers by an error: before the handler reads    *)
(* the token (the client's lookup fails), in place of one of its steps, or *)
(* after a commit whose acknowledgement the database's connection lost.    *)
ServerError(p) ==
    /\ Fail
    /\ \/ wire[p].state = "sent" /\ UNCHANGED vars
       \/ Abort(p)
       \/ wire[p].state = "answered" /\ wire[p].pair # NoToken /\ UNCHANGED vars
    /\ wire' = [wire EXCEPT ![p].state = "failed", ![p].pair = NoToken]
    /\ UNCHANGED <<held, call, outcome, overtaken>>

(* Nobody dawdles: a request is answered within Delay, the SDK waits no    *)
(* longer than Timeout, and the consumer repeats at once.                  *)
ClientTick ==
    /\ Tick
    /\ \A p \in Slot : wire[p].state # "free" => now < wire[p].since + Delay
    /\ call.state = "waiting" => now < call.since + Timeout
    /\ call.state # "ambiguous"
    /\ UNCHANGED cvars

Consume == \E p \in Slot : Refresh(p) \/ Resend(p) \/ Receive(p) \/ Discard(p)
Serving == \E p \in Slot : Arrive(p) \/ Serve(p)
Losing == \E p \in Slot : LoseRequest(p) \/ LoseReply(p) \/ Crash(p)
                               \/ ServerError(p)

ClientNext == Consume \/ GiveUp \/ Serving \/ Losing \/ ClientTick

ClientSpec == ClientInit /\ [][ClientNext]_allvars

(* Requests reach the platform, handlers run to their end, answers arrive, *)
(* and the SDK's timer fires.                                              *)
FairClientSpec ==
    /\ ClientSpec
    /\ WF_allvars(GiveUp)
    /\ \A p \in Slot :
          /\ WF_allvars(Resend(p))
          /\ WF_allvars(Receive(p))
          /\ WF_allvars(Discard(p))
          /\ WF_allvars(Arrive(p))
          /\ WF_allvars(Serve(p))

-----------------------------------------------------------------------------
(* Properties *)

(* Why the platform may take the consumer for a thief, all the same: an    *)
(* operation that redeemed t was answered by an error and is not repeated; *)
(* t is presented after the grace period; or an abandoned request of the   *)
(* consumer's own was still under way beside its successor.                *)
Dropped(t) == row[t].op # NoOp /\ outcome[row[t].op] = "error"
Late(t) == row[t].op # NoOp /\ row[t].at + Grace < now
Excused(t) == overtaken \/ Dropped(t) \/ Late(t)

(* Whatever is lost, dies or is repeated, and whatever the timeouts are,   *)
(* the platform revokes the family of a consumer that follows the contract *)
(* for no other reason.                                                    *)
NeverSignedOutEverywhere ==
    \A p \in Slot : req[p].mode = "replay" => Excused(req[p].tok)

(* A 401 ends a refresh, and the session with it, only if one of these     *)
(* reasons has cost the session or the token had expired.                  *)
RefreshSucceeds ==
    [][held' = NoToken /\ held # NoToken =>
          Excused(held) \/ row[held].exp <= now]_allvars

(* Every refresh ends: with a new pair, with the session, or with an error *)
(* that leaves the session to a later refresh.                             *)
RefreshEnds == call.state = "waiting" ~> call.state = "none"

(* "Ignore stale responses": however calls overtake each other, a pair the *)
(* consumer stores was issued after the one it replaces.                   *)
PairsAdvance ==
    [][held' # held /\ held' # NoToken =>
          held' > held]_allvars

-----------------------------------------------------------------------------
(* A statement of the repository's documents, true of some timeouts        *)

(* "A transient response loss no longer signs the user out everywhere when *)
(* the consumer retries correctly": unless the platform answers a redeemed *)
(* operation by an error or works on an abandoned request.                 *)
LossSignsNobodyOut ==
    \A p \in Slot : req[p].mode = "replay" => overtaken \/ Dropped(req[p].tok)
=============================================================================
