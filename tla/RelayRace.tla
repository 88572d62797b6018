----------------------------- MODULE RelayRace -----------------------------
(***************************************************************************)
(* dialFastestRelay and drainLateSessions (main.go).                       *)
(*                                                                         *)
(* The caller launches one goroutine per relay address of the discovery    *)
(* record.  A racer asks its relay for an invitation and joins the session *)
(* it names; it reports on a channel buffered for every racer.  The caller *)
(* takes the first report that carries a connection, cancels the others    *)
(* and leaves a goroutine behind that closes the sessions still to come.   *)
(***************************************************************************)
EXTENDS Naturals, Integers, Sequences, FiniteSets

CONSTANT Relays    \* the entries of relayAddresses

ASSUME RelaysAssumption == IsFiniteSet(Relays)

VARIABLES
  racer,     \* what the goroutine of each address is doing
  session,   \* the relay session a racer joined, if any
  results,   \* the buffered channel; an entry stands for that racer's result
  pc,        \* where dialFastestRelay is
  received,  \* its loop counter i
  outcome,   \* what it returned
  late,      \* results drainLateSessions has still to take
  ctxDone    \* whether the caller's context is cancelled

vars == <<racer, session, results, pc, received, outcome, late, ctxDone>>

(***************************************************************************)
(* "dialInvite" and "dialJoin" are inside DialContext, which a cancelled   *)
(* context aborts.  "waitInvite" and "waitJoin" are the exchanges after    *)
(* it, which only their own deadline ends.                                 *)
(***************************************************************************)
Busy == {"dialInvite", "waitInvite", "dialJoin", "waitJoin"}

Running == {a \in Relays : racer[a] \in Busy}
Started == {a \in Relays : racer[a] \in Busy \cup {"reported"}}

(* The buffer of results: len(relayAddresses). *)
Capacity_Small == 1
Capacity == Cardinality(Relays)

Init ==
  /\ racer = [a \in Relays |-> "unseen"]
  /\ session = [a \in Relays |-> "none"]
  /\ results = << >>
  /\ pc = "launch"
  /\ received = 0
  /\ outcome = "none"
  /\ late = 0
  /\ ctxDone = FALSE

-----------------------------------------------------------------------------
(* raceCtx ends with the caller's context, with the explicit cancel of a   *)
(* win and with the deferred cancel of every other return.                 *)
RaceCancelled == ctxDone \/ pc = "returned"

(* An address that does not parse is skipped; any other gets a goroutine. *)
Launch(a) ==
  /\ pc = "launch"
  /\ racer[a] = "unseen"
  /\ \E next \in {"skipped", "dialInvite"} : racer' = [racer EXCEPT ![a] = next]
  /\ UNCHANGED <<session, results, pc, received, outcome, late, ctxDone>>

LaunchDone ==
  /\ pc = "launch"
  /\ \A a \in Relays : racer[a] # "unseen"
  /\ IF Started = {}
       THEN pc' = "returned" /\ outcome' = "error"
       ELSE pc' = "collect" /\ UNCHANGED outcome
  /\ UNCHANGED <<racer, session, results, received, late, ctxDone>>

(* The calls of a racer that succeed and are followed by another. *)
RacerAdvances(a) ==
  /\ \/ /\ racer[a] = "dialInvite" /\ ~RaceCancelled
        /\ racer' = [racer EXCEPT ![a] = "waitInvite"]
     \/ /\ racer[a] = "waitInvite"
        /\ racer' = [racer EXCEPT ![a] = "dialJoin"]
     \/ /\ racer[a] = "dialJoin" /\ ~RaceCancelled
        /\ racer' = [racer EXCEPT ![a] = "waitJoin"]
  /\ UNCHANGED <<session, results, pc, received, outcome, late, ctxDone>>

(* The send on results: it blocks when the buffer is full. *)
Report(a) ==
  /\ Len(results) < Capacity
  /\ results' = Append(results, a)
  /\ racer' = [racer EXCEPT ![a] = "reported"]

RacerFails(a) ==
  /\ racer[a] \in Busy
  /\ Report(a)
  /\ UNCHANGED <<session, pc, received, outcome, late, ctxDone>>

RacerJoins(a) ==
  /\ racer[a] = "waitJoin"
  /\ session' = [session EXCEPT ![a] = "open"]
  /\ Report(a)
  /\ UNCHANGED <<pc, received, outcome, late, ctxDone>>

-----------------------------------------------------------------------------
(* The number of results drainLateSessions is told to expect. *)
LateCount_OffByOne == Cardinality(Started) - received
LateCount_Short == IF received = 0 THEN 0 ELSE Cardinality(Started) - received - 1
LateCount == Cardinality(Started) - received - 1

(* The loop ends without a session once every started racer has failed. *)
AllFailed(n) == n = Cardinality(Started)

CollectFailure ==
  /\ pc = "collect"
  /\ results # << >>
  /\ session[Head(results)] = "none"
  /\ results' = Tail(results)
  /\ received' = received + 1
  /\ IF AllFailed(received + 1)
       THEN pc' = "returned" /\ outcome' = "error"
       ELSE UNCHANGED <<pc, outcome>>
  /\ UNCHANGED <<racer, session, late, ctxDone>>

(* Takes the winner but leaves it in the channel. *)
CollectWinner_Peek ==
  /\ pc = "collect"
  /\ results # << >>
  /\ session[Head(results)] # "none"
  /\ session' = [session EXCEPT ![Head(results)] = "returned"]
  /\ pc' = "returned"
  /\ outcome' = "conn"
  /\ late' = LateCount + 1
  /\ UNCHANGED <<racer, received, results, ctxDone>>

CollectWinner ==
  /\ pc = "collect"
  /\ results # << >>
  /\ session[Head(results)] # "none"
  /\ results' = Tail(results)
  /\ session' = [session EXCEPT ![Head(results)] = "returned"]
  /\ pc' = "returned"
  /\ outcome' = "conn"
  /\ late' = LateCount
  /\ UNCHANGED <<racer, received, ctxDone>>

(* select chooses freely between a ready result and a cancelled context. *)
CollectCancelled ==
  /\ pc = "collect"
  /\ ctxDone
  /\ pc' = "returned"
  /\ outcome' = "error"
  /\ UNCHANGED <<racer, session, results, received, late, ctxDone>>

(* One turn of drainLateSessions. *)
MoreToDrain == late > 0

CloseLate_Forgets(a) == session
CloseLate(a) ==
  IF session[a] # "none" THEN [session EXCEPT ![a] = "closed"] ELSE session

DrainLateSession ==
  /\ MoreToDrain
  /\ results # << >>
  /\ results' = Tail(results)
  /\ session' = CloseLate(Head(results))
  /\ late' = late - 1
  /\ UNCHANGED <<racer, pc, received, outcome, ctxDone>>

CancelContext ==
  /\ ~ctxDone
  /\ ctxDone' = TRUE
  /\ UNCHANGED <<racer, session, results, pc, received, outcome, late>>

-----------------------------------------------------------------------------
RacerStep(a) == RacerAdvances(a) \/ RacerFails(a) \/ RacerJoins(a)
Collect == CollectFailure \/ CollectWinner \/ CollectCancelled

(* dialFastestRelay has returned and nothing it left behind can move. *)
Finished ==
  /\ pc = "returned"
  /\ Running = {}
  /\ late = 0
  /\ UNCHANGED vars

Next ==
  \/ \E a \in Relays : Launch(a)
  \/ LaunchDone
  \/ \E a \in Relays : RacerStep(a)
  \/ Collect
  \/ DrainLateSession
  \/ CancelContext
  \/ Finished

Spec == Init /\ [][Next]_vars

(***************************************************************************)
(* Every call of a racer has a deadline (15 s for an invitation, 10 s for  *)
(* a join), and goroutines are scheduled fairly.  Nothing makes the caller *)
(* cancel its context.                                                     *)
(***************************************************************************)
Fairness ==
  /\ \A a \in Relays : WF_vars(Launch(a)) /\ WF_vars(RacerStep(a))
  /\ WF_vars(LaunchDone)
  /\ WF_vars(Collect)
  /\ WF_vars(DrainLateSession)

FairSpec == Spec /\ Fairness

-----------------------------------------------------------------------------
(* The values the variables take; late never runs below zero. *)
TypeOK ==
  /\ racer \in [Relays -> Busy \cup {"unseen", "skipped", "reported"}]
  /\ session \in [Relays -> {"none", "open", "closed", "returned"}]
  /\ results \in Seq(Relays)
  /\ pc \in {"launch", "collect", "returned"}
  /\ received \in Nat
  /\ outcome \in {"none", "conn", "error"}
  /\ late \in Nat
  /\ ctxDone \in BOOLEAN

(***************************************************************************)
(* The quota started-i-1 given to drainLateSessions is exactly the number  *)
(* of results that are queued or still to be sent: it neither leaves a     *)
(* result behind nor waits for one that never comes.                       *)
(***************************************************************************)
DrainQuotaExact ==
  outcome = "conn" => late = Len(results) + Cardinality(Running)

(***************************************************************************)
(* When the drain is over after a win, the only session left of the race   *)
(* is the one dialFastestRelay returned ("Late winners are closed rather   *)
(* than leaked").                                                          *)
(***************************************************************************)
LateSessionsClosed ==
  (outcome = "conn" /\ late = 0) => \A a \in Relays : session[a] # "open"

(* The session handed to the caller is never closed behind its back by     *)
(* drainLateSessions, and no second session is handed over.                *)
WinnerKept ==
  [][ \A a \in Relays : session[a] = "returned" =>
        /\ session'[a] = "returned"
        /\ \A b \in Relays \ {a} : session'[b] # "returned" ]_vars

(* dialFastestRelay returns, whichever racers fail, and every racer ends:  *)
(* its send never blocks, even when dialFastestRelay has returned on a     *)
(* cancelled context and nobody receives any more.                         *)
RaceEnds ==
  /\ <>(pc = "returned")
  /\ \A a \in Relays : racer[a] \in Busy ~> racer[a] = "reported"

(* After a win all racers end and every other session they joined, however *)
(* late, is closed.                                                        *)
LateSessionsEventuallyClosed ==
  outcome = "conn" ~>
    (Running = {} /\ \A a \in Relays : session[a] # "open")
=============================================================================
