-------------------------- MODULE RelayRaceProofs --------------------------
(***************************************************************************)
(* Proofs about RelayRace for every finite set of relay addresses.  The    *)
(* inductive invariant counts the results of the race and follows every    *)
(* joined session to the channel entry that still carries it.              *)
(***************************************************************************)
EXTENDS RelayRace, FiniteSetTheorems, SequenceTheorems, TLAPS

(* While results are collected, every started racer is counted once. *)
Counted ==
  pc # "returned" =>
    received + Len(results) + Cardinality(Running) = Cardinality(Started)

(* How the place of dialFastestRelay, its result and the drain go together. *)
Phases ==
  /\ pc # "returned" <=> outcome = "none"
  /\ outcome # "conn" => late = 0

(* An entry of the channel belongs to one racer that is done. *)
ChannelEntries ==
  \A i \in 1..Len(results) :
    /\ racer[results[i]] = "reported"
    /\ session[results[i]] \in {"none", "open"}
    /\ \A j \in 1..Len(results) : results[i] = results[j] => i = j

(* An open session is still in the channel, unless the race was given up. *)
OpenIsQueued ==
  outcome # "error" =>
    \A a \in Relays : session[a] = "open" =>
      \E i \in 1..Len(results) : results[i] = a

(* Only a racer that is done has a session. *)
SessionOfReported ==
  \A a \in Relays : racer[a] # "reported" => session[a] = "none"

(* At most one session was returned, and only by a win. *)
OneReturned ==
  /\ outcome # "conn" => \A a \in Relays : session[a] # "returned"
  /\ \A a, b \in Relays :
       session[a] = "returned" /\ session[b] = "returned" => a = b

IInv ==
  /\ TypeOK
  /\ Counted
  /\ Phases
  /\ DrainQuotaExact
  /\ ChannelEntries
  /\ OpenIsQueued
  /\ SessionOfReported
  /\ OneReturned

(***************************************************************************)
(* No goroutine of the race waits for something that cannot come.  A racer *)
(* that is done finds room on the channel, whoever still receives from it; *)
(* the loop of dialFastestRelay and drainLateSessions wait on the channel  *)
(* only while a result is in it or a racer has still to send one.          *)
(***************************************************************************)
NobodyWaitsInVain ==
  /\ \A a \in Running : Len(results) < Capacity
  /\ (pc = "collect" \/ late > 0) => (results # << >> \/ Running # {})

(* The loop goes on only while a started racer has not been received. *)
Awaited ==
  /\ pc = "launch" => received = 0
  /\ pc = "collect" => received < Cardinality(Started)

(***************************************************************************)
(* A measure of how far the race has come: the call a racer is in, and the *)
(* part of dialFastestRelay.                                               *)
(***************************************************************************)
RacerStage(s) ==
  CASE s = "unseen" -> 0
    [] s = "dialInvite" -> 1
    [] s = "waitInvite" -> 2
    [] s = "dialJoin" -> 3
    [] s = "waitJoin" -> 4
    [] OTHER -> 5

DialStage(s) == CASE s = "launch" -> 0 [] s = "collect" -> 1 [] OTHER -> 2

(* Something of the race comes further: a racer, the loop, the drain, or   *)
(* the caller, who can cancel the context once.                            *)
Advances ==
  \/ \E a \in Relays : RacerStage(racer'[a]) > RacerStage(racer[a])
  \/ DialStage(pc') > DialStage(pc)
  \/ received' > received
  \/ late' < late
  \/ ctxDone' # ctxDone

(* Nothing of it falls back; the quota of the drain is set by the return.  *)
NeverBack ==
  /\ \A a \in Relays : RacerStage(racer'[a]) >= RacerStage(racer[a])
  /\ DialStage(pc') >= DialStage(pc)
  /\ received' >= received
  /\ pc' = pc => late' <= late
  /\ ctxDone => ctxDone'

(* Every step brings the race further and nothing of it back: no address   *)
(* is tried twice, and no result is received twice.                        *)
OnlyForward == [][ Advances /\ NeverBack ]_vars

-----------------------------------------------------------------------------
(* The sets the counting is about are finite. *)
LEMMA FiniteRacers ==
  /\ IsFiniteSet(Running) /\ Cardinality(Running) \in Nat
  /\ IsFiniteSet(Started) /\ Cardinality(Started) \in Nat
<1>1. Running \in SUBSET Relays /\ Started \in SUBSET Relays
  BY DEF Running, Started
<1>2. QED
  BY <1>1, RelaysAssumption, FS_Subset, FS_CardinalityType

(* What receiving from the channel leaves in it. *)
LEMMA Received ==
  ASSUME results \in Seq(Relays), results # << >>
  PROVE  /\ Head(results) \in Relays
         /\ Head(results) = results[1]
         /\ Tail(results) \in Seq(Relays)
         /\ Len(results) \in Nat \ {0}
         /\ Len(Tail(results)) = Len(results) - 1
         /\ \A i \in 1..Len(Tail(results)) : Tail(results)[i] = results[i + 1]
  OBVIOUS

(* What sending on the channel adds to it. *)
LEMMA Sent ==
  ASSUME results \in Seq(Relays), NEW a \in Relays
  PROVE  /\ Append(results, a) \in Seq(Relays)
         /\ Len(Append(results, a)) = Len(results) + 1
         /\ \A i \in 1..Len(results) : Append(results, a)[i] = results[i]
         /\ Append(results, a)[Len(results) + 1] = a
  BY AppendProperties

(* A racer that reports leaves Running by one and Started as it is. *)
LEMMA ReportCounts ==
  ASSUME TypeOK, NEW a \in Relays, racer[a] \in Busy,
         racer' = [racer EXCEPT ![a] = "reported"]
  PROVE  /\ Cardinality(Running') = Cardinality(Running) - 1
         /\ Started' = Started
<1>1. Running' = Running \ {a} /\ a \in Running
  BY DEF TypeOK, Running, Busy
<1>2. Started' = Started
  BY DEF TypeOK, Started, Busy
<1>3. QED
  BY <1>1, <1>2, FiniteRacers, FS_RemoveElement

(* The initial state satisfies the invariant. *)
LEMMA InitInvariant == Init => IInv
<1> SUFFICES ASSUME Init PROVE IInv
  OBVIOUS
<1>1. Running = {} /\ Started = {}
  BY DEF Init, Running, Started, Busy
<1>2. Cardinality({}) = 0
  BY FS_EmptySet
<1>3. TypeOK
  <2>1. results \in Seq(Relays)
    BY EmptySeq DEF Init
  <2>2. QED
    BY <2>1 DEF Init, TypeOK, Busy
<1>4. Counted
  BY <1>1, <1>2 DEF Init, Counted
<1>5. QED
  BY <1>3, <1>4 DEF Init, IInv, Phases, DrainQuotaExact, ChannelEntries,
     OpenIsQueued, SessionOfReported, OneReturned

(* Launching a racer adds it to Running and to Started. *)
LEMMA LaunchInvariant ==
  ASSUME IInv, NEW a \in Relays, Launch(a)
  PROVE  IInv'
<1> USE DEF Launch
<1>1. TypeOK'
  BY DEF IInv, TypeOK, Busy
<1>2. /\ UNCHANGED <<session, results, pc, received, outcome, late, ctxDone>>
      /\ pc = "launch" /\ outcome = "none"
  BY DEF IInv, Phases
<1>3. Counted'
  <2>1. received + Len(results) + Cardinality(Running) = Cardinality(Started)
    BY DEF IInv, Counted
  <2>2. received \in Nat /\ Len(results) \in Nat
    BY DEF IInv, TypeOK
  <2>3. CASE racer' = [racer EXCEPT ![a] = "skipped"]
    <3>1. Running' = Running /\ Started' = Started
      BY <2>3 DEF IInv, TypeOK, Running, Started, Busy
    <3>2. QED
      BY <1>2, <2>1, <3>1 DEF Counted
  <2>4. CASE racer' = [racer EXCEPT ![a] = "dialInvite"]
    <3>1. /\ Running' = Running \cup {a} /\ a \notin Running
          /\ Started' = Started \cup {a} /\ a \notin Started
      BY <2>4 DEF IInv, TypeOK, Running, Started, Busy
    <3>2. /\ Cardinality(Running') = Cardinality(Running) + 1
          /\ Cardinality(Started') = Cardinality(Started) + 1
      BY <3>1, FiniteRacers, FS_AddElement
    <3>3. QED
      BY <1>2, <2>1, <2>2, <3>2, FiniteRacers DEF Counted
  <2>5. QED
    BY <2>3, <2>4
<1>4. ChannelEntries'
  <2>1. \A i \in 1..Len(results) : racer'[results[i]] = racer[results[i]]
    BY DEF IInv, ChannelEntries, TypeOK
  <2>2. QED
    BY <1>2, <2>1 DEF IInv, ChannelEntries
<1>5. SessionOfReported'
  BY <1>2 DEF IInv, SessionOfReported, TypeOK
<1>6. QED
  BY <1>1, <1>2, <1>3, <1>4, <1>5
     DEF IInv, Phases, DrainQuotaExact, OpenIsQueued, OneReturned

(* The steps that neither report nor receive. *)
LEMMA LaunchDoneInvariant ==
  ASSUME IInv, LaunchDone
  PROVE  IInv'
<1> USE DEF LaunchDone
<1>1. /\ UNCHANGED <<racer, session, results, received, late, ctxDone>>
      /\ Running' = Running /\ Started' = Started
  BY DEF Running, Started
<1>2. TypeOK'
  BY DEF IInv, TypeOK
<1>3. QED
  BY <1>1, <1>2 DEF IInv, Counted, Phases, DrainQuotaExact, ChannelEntries,
     OpenIsQueued, SessionOfReported, OneReturned

(* A step of a racer inside its attempt. *)
LEMMA RacerAdvancesInvariant ==
  ASSUME IInv, NEW a \in Relays, RacerAdvances(a)
  PROVE  IInv'
<1> USE DEF RacerAdvances
<1>1. /\ UNCHANGED <<session, results, pc, received, outcome, late, ctxDone>>
      /\ racer[a] \in Busy
      /\ \E next \in Busy : racer' = [racer EXCEPT ![a] = next]
  BY DEF Busy
<1>2. Running' = Running /\ Started' = Started
  BY <1>1 DEF IInv, TypeOK, Running, Started
<1>3. TypeOK'
  BY <1>1 DEF IInv, TypeOK
<1>4. \A b \in Relays : racer'[b] = "reported" <=> racer[b] = "reported"
  BY <1>1 DEF IInv, TypeOK, Busy
<1>5. ChannelEntries' /\ SessionOfReported'
  BY <1>1, <1>4 DEF IInv, TypeOK, ChannelEntries, SessionOfReported
<1>6. QED
  BY <1>1, <1>2, <1>3, <1>5
     DEF IInv, Counted, Phases, DrainQuotaExact, OpenIsQueued, OneReturned

(* A racer's report, with or without a session.                            *)
LEMMA ReportInvariant ==
  ASSUME IInv, NEW a \in Relays, racer[a] \in Busy, Report(a),
         \/ session' = session
         \/ session' = [session EXCEPT ![a] = "open"],
         UNCHANGED <<pc, received, outcome, late, ctxDone>>
  PROVE  IInv'
<1> USE DEF Report
<1>1. racer[a] # "reported" /\ session[a] = "none"
  BY DEF IInv, SessionOfReported, Busy
<1>2. TypeOK'
  BY Sent DEF IInv, TypeOK
<1>3. results \in Seq(Relays) /\ Len(results) \in Nat
  BY DEF IInv, TypeOK
<1>4. Len(results') = Len(results) + 1
  BY <1>3, Sent
<1>5. Cardinality(Running') = Cardinality(Running) - 1 /\ Started' = Started
  BY ReportCounts DEF IInv
<1>6. Counted' /\ DrainQuotaExact'
  <2>1. received \in Nat /\ late \in Nat /\ Counted /\ DrainQuotaExact
    BY DEF IInv, TypeOK
  <2>2. Counted'
    BY <1>3, <1>4, <1>5, <2>1, FiniteRacers DEF Counted
  <2>3. DrainQuotaExact'
    BY <1>3, <1>4, <1>5, <2>1, FiniteRacers DEF DrainQuotaExact
  <2>4. QED
    BY <2>2, <2>3
<1>7. \A i \in 1..Len(results) : results[i] # a /\ results'[i] = results[i]
  BY <1>1, <1>3, Sent DEF IInv, ChannelEntries
<1>8. results'[Len(results) + 1] = a
  BY <1>3, Sent
<1>9. ChannelEntries'
  <2>1. \A i \in 1..Len(results') :
          /\ i = Len(results) + 1 \/ i \in 1..Len(results)
          /\ results'[i] \in Relays
    BY <1>2, <1>3, <1>4 DEF TypeOK
  <2>2. \A i \in 1..Len(results') :
          /\ racer'[results'[i]] = "reported"
          /\ session'[results'[i]] \in {"none", "open"}
    BY <1>1, <1>3, <1>7, <1>8, <2>1 DEF IInv, ChannelEntries, TypeOK
  <2>3. \A i, j \in 1..Len(results') : results'[i] = results'[j] => i = j
    BY <1>3, <1>7, <1>8, <2>1 DEF IInv, ChannelEntries
  <2>4. QED
    BY <2>2, <2>3 DEF ChannelEntries
<1>10. OpenIsQueued'
  BY <1>3, <1>4, <1>7, <1>8 DEF IInv, OpenIsQueued, TypeOK
<1>11. SessionOfReported'
  BY DEF IInv, SessionOfReported, TypeOK
<1>12. OneReturned'
  BY DEF IInv, OneReturned, TypeOK
<1>13. QED
  BY <1>2, <1>6, <1>9, <1>10, <1>11, <1>12 DEF IInv, Phases

-----------------------------------------------------------------------------
(* Receiving the first result: what the invariant says of the others.      *)
LEMMA ReceiveKeeps ==
  ASSUME IInv, results # << >>, results' = Tail(results), racer' = racer,
         \A b \in Relays \ {Head(results)} : session'[b] = session[b]
  PROVE  /\ ChannelEntries'
         /\ \A b \in Relays \ {Head(results)} :
              (outcome # "error" /\ session'[b] = "open") =>
                \E i \in 1..Len(results') : results'[i] = b
<1>1. /\ results \in Seq(Relays)
      /\ Head(results) = results[1]
      /\ Len(results) \in Nat \ {0}
      /\ Len(results') = Len(results) - 1
      /\ \A i \in 1..Len(results') : results'[i] = results[i + 1]
  BY Received DEF IInv, TypeOK
<1>2. \A i \in 1..Len(results') :
        /\ i + 1 \in 1..Len(results)
        /\ results'[i] \in Relays \ {Head(results)}
  BY <1>1 DEF IInv, ChannelEntries
<1>3. ChannelEntries'
  BY <1>1, <1>2 DEF IInv, ChannelEntries
<1>4. ASSUME NEW b \in Relays \ {Head(results)},
             outcome # "error", session'[b] = "open"
      PROVE  \E i \in 1..Len(results') : results'[i] = b
  <2>1. PICK k \in 1..Len(results) : results[k] = b
    BY <1>4 DEF IInv, OpenIsQueued
  <2>2. k - 1 \in 1..Len(results') /\ results'[k - 1] = b
    BY <1>1, <1>4, <2>1
  <2>3. QED
    BY <2>2
<1>5. QED
  BY <1>3, <1>4

(* A failed racer is received: one result less is outstanding. *)
LEMMA CollectFailureInvariant ==
  ASSUME IInv, CollectFailure
  PROVE  IInv'
<1> USE DEF CollectFailure
<1>1. /\ Head(results) \in Relays /\ results' \in Seq(Relays)
      /\ Len(results) \in Nat /\ Len(results') = Len(results) - 1
  BY Received DEF IInv, TypeOK
<1>2. TypeOK'
  BY <1>1 DEF IInv, TypeOK
<1>3. Running' = Running /\ Started' = Started
  BY DEF Running, Started
<1>4. outcome = "none" /\ late = 0 /\ outcome' # "conn"
  BY DEF IInv, Phases
<1>5. Counted'
  <2>1. received \in Nat /\ Counted
    BY DEF IInv, TypeOK
  <2>2. QED
    BY <1>1, <1>3, <2>1, FiniteRacers DEF Counted
<1>6. ChannelEntries' /\ OpenIsQueued'
  BY ReceiveKeeps, <1>1, <1>4 DEF OpenIsQueued
<1>7. QED
  BY <1>2, <1>4, <1>5, <1>6
     DEF IInv, Phases, DrainQuotaExact, SessionOfReported, OneReturned

(* The first success is received: the quota of the drain is set. *)
LEMMA CollectWinnerInvariant ==
  ASSUME IInv, CollectWinner
  PROVE  IInv'
<1> USE DEF CollectWinner
<1>1. /\ Head(results) \in Relays /\ results' \in Seq(Relays)
      /\ Head(results) = results[1]
      /\ Len(results) \in Nat \ {0} /\ Len(results') = Len(results) - 1
  BY Received DEF IInv, TypeOK
<1>2. Running' = Running /\ Started' = Started
  BY DEF Running, Started
<1>3. outcome = "none" /\ received \in Nat /\ Counted
  BY DEF IInv, Phases, TypeOK
<1>4. late' \in Nat /\ late' = Len(results') + Cardinality(Running')
  BY <1>1, <1>2, <1>3, FiniteRacers DEF Counted, LateCount
<1>5. TypeOK'
  BY <1>1, <1>4 DEF IInv, TypeOK
<1>6. ChannelEntries' /\ OpenIsQueued'
  BY ReceiveKeeps, <1>1, <1>3 DEF IInv, TypeOK, OpenIsQueued
<1>7. SessionOfReported'
  BY <1>1 DEF IInv, ChannelEntries, SessionOfReported, TypeOK
<1>8. OneReturned'
  BY <1>1, <1>3 DEF IInv, OneReturned, TypeOK
<1>9. QED
  BY <1>4, <1>5, <1>6, <1>7, <1>8 DEF IInv, Counted, Phases, DrainQuotaExact

(* The caller's cancellation ends the collection without a drain. *)
LEMMA CollectCancelledInvariant ==
  ASSUME IInv, CollectCancelled
  PROVE  IInv'
<1> USE DEF CollectCancelled
<1>1. outcome = "none" /\ late = 0
  BY DEF IInv, Phases
<1>2. TypeOK'
  BY DEF IInv, TypeOK
<1>3. QED
  BY <1>1, <1>2 DEF IInv, Counted, Phases, DrainQuotaExact, ChannelEntries,
     OpenIsQueued, SessionOfReported, OneReturned

(* The drain receives a result and closes the session it may carry. *)
LEMMA DrainInvariant ==
  ASSUME IInv, DrainLateSession
  PROVE  IInv'
<1> USE DEF DrainLateSession, MoreToDrain
<1>1. /\ Head(results) \in Relays /\ results' \in Seq(Relays)
      /\ Head(results) = results[1]
      /\ Len(results) \in Nat \ {0} /\ Len(results') = Len(results) - 1
  BY Received DEF IInv, TypeOK
<1>2. Running' = Running /\ Started' = Started
  BY DEF Running, Started
<1>3. outcome = "conn" /\ pc = "returned" /\ late \in Nat \ {0}
  BY DEF IInv, Phases, TypeOK
<1>4. \/ session' = session /\ session[Head(results)] = "none"
      \/ session' = [session EXCEPT ![Head(results)] = "closed"]
  BY DEF CloseLate
<1>5. TypeOK'
  BY <1>1, <1>3, <1>4 DEF IInv, TypeOK
<1>6. ChannelEntries' /\ OpenIsQueued'
  BY ReceiveKeeps, <1>1, <1>4 DEF IInv, TypeOK, OpenIsQueued
<1>7. DrainQuotaExact'
  BY <1>1, <1>2, <1>3, FiniteRacers DEF IInv, DrainQuotaExact
<1>8. SessionOfReported'
  BY <1>1, <1>4 DEF IInv, ChannelEntries, SessionOfReported, TypeOK
<1>9. OneReturned'
  BY <1>1, <1>3, <1>4 DEF IInv, OneReturned, TypeOK
<1>10. QED
  BY <1>3, <1>5, <1>6, <1>7, <1>8, <1>9 DEF IInv, Counted, Phases

-----------------------------------------------------------------------------
(* Every step of the race keeps the invariant. *)
LEMMA StepInvariant == IInv /\ [Next]_vars => IInv'
<1> SUFFICES ASSUME IInv, [Next]_vars PROVE IInv'
  OBVIOUS
<1>1. ASSUME NEW a \in Relays, Launch(a) PROVE IInv'
  BY <1>1, LaunchInvariant
<1>2. CASE LaunchDone
  BY <1>2, LaunchDoneInvariant
<1>3. ASSUME NEW a \in Relays, RacerAdvances(a) PROVE IInv'
  BY <1>3, RacerAdvancesInvariant
<1>4. ASSUME NEW a \in Relays, RacerFails(a) PROVE IInv'
  BY <1>4, ReportInvariant DEF RacerFails
<1>5. ASSUME NEW a \in Relays, RacerJoins(a) PROVE IInv'
  BY <1>5, ReportInvariant DEF RacerJoins, Busy
<1>6. CASE CollectFailure
  BY <1>6, CollectFailureInvariant
<1>7. CASE CollectWinner
  BY <1>7, CollectWinnerInvariant
<1>8. CASE CollectCancelled
  BY <1>8, CollectCancelledInvariant
<1>9. CASE DrainLateSession
  BY <1>9, DrainInvariant
<1>10. CASE CancelContext
  BY <1>10 DEF CancelContext, IInv, TypeOK, Counted, Phases, DrainQuotaExact,
     ChannelEntries, OpenIsQueued, SessionOfReported, OneReturned, Running,
     Started
<1>11. CASE UNCHANGED vars
  BY <1>11 DEF vars, IInv, TypeOK, Counted, Phases, DrainQuotaExact,
     ChannelEntries, OpenIsQueued, SessionOfReported, OneReturned, Running,
     Started
<1>12. QED
  BY <1>1, <1>2, <1>3, <1>4, <1>5, <1>6, <1>7, <1>8, <1>9, <1>10, <1>11
     DEF Next, RacerStep, Collect, Finished

(* The invariant holds in every reachable state. *)
LEMMA InvariantHolds == Spec => []IInv
  BY InitInvariant, StepInvariant, PTL DEF Spec

(* The variables of the race keep their types; in particular               *)
(* drainLateSessions never counts below zero.                              *)
THEOREM TypeCorrect == Spec => []TypeOK
<1>1. IInv => TypeOK
  BY DEF IInv
<1>2. QED
  BY <1>1, InvariantHolds, PTL

(* started-i-1 is exactly the number of results still to come, for any     *)
(* number of relays.                                                       *)
THEOREM DrainQuota == Spec => []DrainQuotaExact
<1>1. IInv => DrainQuotaExact
  BY DEF IInv
<1>2. QED
  BY <1>1, InvariantHolds, PTL

(* When drainLateSessions ends, no session of the race is left open but    *)
(* the one that was returned: the quota is exact, so nothing is queued any *)
(* more, and an open session would be.                                     *)
THEOREM LateWinnersClosed == Spec => []LateSessionsClosed
<1>1. IInv => LateSessionsClosed
  <2> SUFFICES ASSUME IInv, outcome = "conn", late = 0,
                      NEW a \in Relays, session[a] = "open"
               PROVE  FALSE
    BY DEF LateSessionsClosed
  <2>1. Len(results) \in Nat /\ late = Len(results) + Cardinality(Running)
    BY DEF IInv, TypeOK, DrainQuotaExact
  <2>2. Len(results) = 0
    BY <2>1, FiniteRacers
  <2>3. QED
    BY <2>2 DEF IInv, OpenIsQueued
<1>2. QED
  BY <1>1, InvariantHolds, PTL

(* The session handed over is never closed by the drain and never joined   *)
(* by a second one: the channel holds no entry of a returned session.      *)
THEOREM WinnerIsKept == Spec => WinnerKept
<1>1. IInv /\ IInv' /\ [Next]_vars =>
        [ \A a \in Relays : session[a] = "returned" =>
            /\ session'[a] = "returned"
            /\ \A b \in Relays \ {a} : session'[b] # "returned" ]_vars
  <2> SUFFICES ASSUME IInv, IInv', Next,
                      NEW a \in Relays, session[a] = "returned"
               PROVE  session'[a] = "returned"
    BY DEF IInv, OneReturned
  <2>1. outcome = "conn" /\ pc = "returned" /\ racer[a] = "reported"
    BY DEF IInv, OneReturned, Phases, SessionOfReported, TypeOK
  <2>2. CASE DrainLateSession
    <3>1. Head(results) = results[1] /\ Len(results) \in Nat \ {0}
      BY <2>2, Received DEF DrainLateSession, IInv, TypeOK
    <3>2. Head(results) # a
      BY <3>1 DEF IInv, ChannelEntries
    <3>3. QED
      BY <2>2, <3>2 DEF DrainLateSession, CloseLate, IInv, TypeOK
  <2>3. ASSUME NEW b \in Relays, RacerJoins(b) PROVE session'[a] = "returned"
    BY <2>1, <2>3 DEF RacerJoins, IInv, TypeOK
  <2>4. QED
    BY <2>1, <2>2, <2>3 DEF Next, Launch, LaunchDone, RacerStep, RacerAdvances,
       RacerFails, Collect, CollectFailure, CollectWinner, CollectCancelled,
       CancelContext, Finished, vars
<1>2. QED
  BY <1>1, InvariantHolds, PTL DEF Spec, WinnerKept

-----------------------------------------------------------------------------
(* Racing on changes neither who was started nor who was received. *)
LEMMA StartedStays ==
  ASSUME IInv, NEW a \in Relays, RacerStep(a)
  PROVE  Started' = Started /\ UNCHANGED <<pc, received>>
<1>1. CASE RacerAdvances(a)
  BY <1>1 DEF RacerAdvances, IInv, TypeOK, Started, Busy
<1>2. CASE RacerFails(a)
  BY <1>2 DEF RacerFails, Report, IInv, TypeOK, Started, Busy
<1>3. CASE RacerJoins(a)
  BY <1>3 DEF RacerJoins, Report, IInv, TypeOK, Started, Busy
<1>4. QED
  BY <1>1, <1>2, <1>3 DEF RacerStep

(* The loop leaves as soon as the last started racer is received. *)
LEMMA AwaitedStep == IInv /\ Awaited /\ [Next]_vars => Awaited'
<1> SUFFICES ASSUME IInv, Awaited, [Next]_vars PROVE Awaited'
  OBVIOUS
<1>1. ASSUME NEW a \in Relays, Launch(a) PROVE Awaited'
  BY <1>1 DEF Launch, Awaited
<1>2. CASE LaunchDone
  <2>1. Started' = Started
    BY <1>2 DEF LaunchDone, Started
  <2>2. CASE Started = {}
    BY <1>2, <2>2 DEF LaunchDone, Awaited
  <2>3. CASE Started # {}
    <3>1. Cardinality(Started) # 0
      BY <2>3, FiniteRacers, FS_EmptySet
    <3>2. QED
      BY <1>2, <2>1, <2>3, <3>1, FiniteRacers DEF LaunchDone, Awaited
  <2>4. QED
    BY <2>2, <2>3
<1>3. ASSUME NEW a \in Relays, RacerStep(a) PROVE Awaited'
  BY <1>3, StartedStays DEF Awaited
<1>4. CASE CollectFailure
  <2>1. received \in Nat /\ Started' = Started
    BY <1>4 DEF CollectFailure, Started, IInv, TypeOK
  <2>2. QED
    BY <1>4, <2>1, FiniteRacers DEF CollectFailure, AllFailed, Awaited
<1>5. CASE CollectWinner \/ CollectCancelled
  BY <1>5 DEF CollectWinner, CollectCancelled, Awaited
<1>6. CASE DrainLateSession \/ CancelContext \/ UNCHANGED vars
  BY <1>6 DEF DrainLateSession, CancelContext, vars, Awaited, Started
<1>7. QED
  BY <1>1, <1>2, <1>3, <1>4, <1>5, <1>6 DEF Next, Collect, Finished

(* While results are collected one is outstanding. *)
LEMMA AwaitedHolds == Spec => []Awaited
<1>1. Init => Awaited
  BY DEF Init, Awaited
<1>2. QED
  BY <1>1, InvariantHolds, AwaitedStep, PTL DEF Spec

(* The entries of the channel belong to distinct racers that are done, so  *)
(* while one of them is not there is room for its result.                  *)
LEMMA RoomLeft ==
  ASSUME IInv, NEW a \in Running
  PROVE  Len(results) < Capacity
<1>1. a \in Relays /\ Len(results) \in Nat /\ results \in Seq(Relays)
  BY DEF Running, IInv, TypeOK
<1>2. results \in Injection(1..Len(results), Relays \ {a})
  <2>1. \A i \in 1..Len(results) : results[i] \in Relays \ {a}
    BY <1>1 DEF Running, Busy, IInv, ChannelEntries
  <2>2. results \in [1..Len(results) -> Relays \ {a}]
    BY <1>1, <2>1
  <2>3. DOMAIN results = 1..Len(results)
    BY <2>2
  <2>4. \A i, j \in DOMAIN results : results[i] = results[j] => i = j
    BY <2>3 DEF IInv, ChannelEntries
  <2>5. QED
    BY <2>2, <2>4 DEF Injection, IsInjective
<1>3. /\ IsFiniteSet(Relays \ {a})
      /\ Cardinality(Relays \ {a}) = Cardinality(Relays) - 1
  BY <1>1, RelaysAssumption, FS_RemoveElement
<1>4. Cardinality(1..Len(results)) <= Cardinality(Relays \ {a})
  BY <1>2, <1>3, FS_Injection
<1>5. Cardinality(1..Len(results)) = Len(results)
  <2>1. Cardinality(1..Len(results)) =
          IF 1 > Len(results) THEN 0 ELSE Len(results) - 1 + 1
    BY <1>1, FS_Interval
  <2>2. QED
    BY <1>1, <2>1
<1>6. Cardinality(Relays) \in Nat
  BY RelaysAssumption, FS_CardinalityType
<1>7. QED
  BY <1>1, <1>3, <1>4, <1>5, <1>6 DEF Capacity

(* No goroutine of the race waits in vain, for any number of relays: the   *)
(* buffer has a place for every racer, the loop stops at the last started  *)
(* one, and the quota of the drain counts what is queued or under way.     *)
THEOREM NoGoroutineStuck == Spec => []NobodyWaitsInVain
<1>1. IInv /\ Awaited => NobodyWaitsInVain
  <2> SUFFICES ASSUME IInv, Awaited PROVE NobodyWaitsInVain
    OBVIOUS
  <2>1. \A a \in Running : Len(results) < Capacity
    BY RoomLeft
  <2>2. ASSUME pc = "collect" \/ late > 0, results = << >>, Running = {}
        PROVE  FALSE
    <3>1. Len(results) = 0 /\ Cardinality(Running) = 0
      BY <2>2, FS_EmptySet
    <3>2. received \in Nat /\ late \in Nat
      BY DEF IInv, TypeOK
    <3>3. CASE pc = "collect"
      BY <3>1, <3>2, <3>3, FiniteRacers DEF IInv, Counted, Awaited
    <3>4. CASE late > 0
      BY <3>1, <3>2, <3>4, FiniteRacers DEF IInv, Phases, DrainQuotaExact
    <3>5. QED
      BY <2>2, <3>3, <3>4
  <2>3. QED
    BY <2>1, <2>2 DEF NobodyWaitsInVain
<1>2. QED
  BY <1>1, InvariantHolds, AwaitedHolds, PTL

(* Only one racer changes in a step of a racer. *)
LEMMA RacerMoves ==
  ASSUME IInv, NEW a \in Relays, NEW s, racer' = [racer EXCEPT ![a] = s],
         RacerStage(s) > RacerStage(racer[a])
  PROVE  /\ \E b \in Relays : RacerStage(racer'[b]) > RacerStage(racer[b])
         /\ \A b \in Relays : RacerStage(racer'[b]) >= RacerStage(racer[b])
<1>1. racer'[a] = s /\ \A b \in Relays \ {a} : racer'[b] = racer[b]
  BY DEF IInv, TypeOK
<1>2. \A b \in Relays : RacerStage(racer[b]) \in Nat
  BY DEF RacerStage
<1>3. RacerStage(s) \in Nat
  BY DEF RacerStage
<1>4. QED
  BY <1>1, <1>2, <1>3

(* Every step of the race is a step forward: at most five per racer, one   *)
(* result each, and one cancellation.  A goroutine that is scheduled can   *)
(* therefore not retry for ever.                                           *)
THEOREM NoRetry == Spec => OnlyForward
<1>1. IInv /\ [Next]_vars => [Advances /\ NeverBack]_vars
  <2> SUFFICES ASSUME IInv, Next, vars' # vars PROVE Advances /\ NeverBack
    BY DEF vars
  <2>1. /\ received \in Nat /\ late \in Nat
        /\ \A a \in Relays : RacerStage(racer[a]) \in Nat
        /\ DialStage(pc) \in Nat
    BY DEF IInv, TypeOK, RacerStage, DialStage
  <2>2. ASSUME NEW a \in Relays, NEW s, racer' = [racer EXCEPT ![a] = s],
               RacerStage(s) > RacerStage(racer[a]),
               UNCHANGED <<pc, received, late, ctxDone>>
        PROVE  Advances /\ NeverBack
    <3>1. /\ \E b \in Relays : RacerStage(racer'[b]) > RacerStage(racer[b])
          /\ \A b \in Relays : RacerStage(racer'[b]) >= RacerStage(racer[b])
      BY <2>2, RacerMoves
    <3>2. Advances
      BY <3>1 DEF Advances
    <3>3. DialStage(pc') >= DialStage(pc) /\ received' >= received /\ late' <= late
      BY <2>1, <2>2
    <3>4. ctxDone => ctxDone'
      BY <2>2, Zenon
    <3>5. QED
      BY <3>1, <3>2, <3>3, <3>4, Zenon DEF NeverBack
  <2>3. ASSUME NEW a \in Relays, Launch(a) PROVE Advances /\ NeverBack
    <3>1. PICK s \in {"skipped", "dialInvite"} : racer' = [racer EXCEPT ![a] = s]
      BY <2>3 DEF Launch
    <3>2. RacerStage(s) > RacerStage(racer[a])
      BY <2>3 DEF Launch, RacerStage
    <3>3. QED
      BY <2>2, <2>3, <3>1, <3>2 DEF Launch
  <2>4. ASSUME NEW a \in Relays, RacerStep(a) PROVE Advances /\ NeverBack
    <3>1. PICK s \in {"waitInvite", "dialJoin", "waitJoin", "reported"} :
            /\ racer' = [racer EXCEPT ![a] = s]
            /\ RacerStage(s) > RacerStage(racer[a])
      BY <2>4 DEF RacerStep, RacerAdvances, RacerFails, RacerJoins, Report,
         Busy, RacerStage
    <3>2. UNCHANGED <<pc, received, late, ctxDone>>
      BY <2>4 DEF RacerStep, RacerAdvances, RacerFails, RacerJoins
    <3>3. QED
      BY <2>2, <3>1, <3>2
  <2>5. ASSUME racer' = racer PROVE \A a \in Relays :
               RacerStage(racer'[a]) >= RacerStage(racer[a])
    BY <2>1, <2>5
  <2>6. CASE LaunchDone
    BY <2>1, <2>5, <2>6 DEF LaunchDone, Advances, NeverBack, DialStage
  <2>7. CASE CollectFailure
    BY <2>1, <2>5, <2>7
       DEF CollectFailure, Advances, NeverBack, DialStage
  <2>8. CASE CollectWinner
    BY <2>1, <2>5, <2>8 DEF CollectWinner, Advances, NeverBack, DialStage
  <2>9. CASE CollectCancelled
    BY <2>1, <2>5, <2>9 DEF CollectCancelled, Advances, NeverBack, DialStage
  <2>10. CASE DrainLateSession
    BY <2>1, <2>5, <2>10
       DEF DrainLateSession, MoreToDrain, Advances, NeverBack
  <2>11. CASE CancelContext
    <3>1. DialStage(pc') >= DialStage(pc) /\ received' >= received /\ late' <= late
      BY <2>1, <2>11 DEF CancelContext
    <3>2. ctxDone' /\ ctxDone' # ctxDone
      BY <2>11, Zenon DEF CancelContext
    <3>3. racer' = racer
      BY <2>11 DEF CancelContext
    <3>4. QED
      BY <2>5, <3>1, <3>2, <3>3, Zenon DEF Advances, NeverBack
  <2>12. QED
    BY <2>3, <2>4, <2>6, <2>7, <2>8, <2>9, <2>10, <2>11
       DEF Next, Collect, Finished
<1>2. QED
  BY <1>1, InvariantHolds, PTL DEF Spec, OnlyForward
=============================================================================
