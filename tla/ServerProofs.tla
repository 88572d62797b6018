---------------------------- MODULE ServerProofs ----------------------------
(***************************************************************************)
(* Which connections runServer takes, turns away and keeps listening for,  *)
(* for any number of clients, any flags and any pool of relays.  Two of    *)
(* the invariants are about a choice made by another goroutine some steps  *)
(* earlier; Track keeps what is left of that choice.                       *)
(***************************************************************************)
EXTENDS Server, FiniteSetTheorems, SequenceTheorems, TLAPS

(* What connChan holds is what is queued. *)
Queue ==
  /\ \A c \in Conns : conn[c] = "queued" <=> connChan # << >> /\ Head(connChan) = c
  /\ connChan # << >> => Netcat

(* Netcat mode hands out nothing before its handler runs, and one then. *)
OneHandled ==
  Netcat =>
    /\ \A c \in Conns : conn[c] \in {"handled", "done"} => pc \in {"handling", "returned"}
    /\ \A c, d \in Conns :
         conn[c] \in {"handled", "done"} /\ conn[d] \in {"handled", "done"} => c = d

(* The relay client's result is that of a client that has stopped, and     *)
(* there is none before the start.                                         *)
RelayTrack ==
  /\ stopped => relay = "stopped"
  /\ pc = "start" => relay = "idle"

(* The loop that takes invitations joins one session at a time, and the    *)
(* one of forwarding mode runs as long as runServer is in it.              *)
Joining ==
  /\ pc \in {"start", "pollError", "pollURI", "ready"} => inviter = "absent"
  /\ pc = "spawned" => Netcat
  /\ relay # "idle" => cfg.relay # "none"
  /\ \A c \in Conns : conn[c] = "joining" => inviter = "joining"
  /\ \A c, d \in Conns : conn[c] = "joining" /\ conn[d] = "joining" => c = d
  /\ inviter = "joining" => \E c \in Conns : conn[c] = "joining"
  /\ Forward /\ pc = "select" /\ cfg.relay # "none" => inviter \in {"waiting", "joining"}

(* The end of the relay client is not lost on a forwarding server: until   *)
(* it returns, Serve's result is in relayStopped, and the loop that reads  *)
(* it is at its select or in a join that it comes back from.               *)
DeadRelayHeard ==
  Forward /\ relay = "stopped" /\ pc # "returned" =>
    /\ stopped
    /\ pc = "select" => inviter = "waiting" \/ InState("joining") # {}

Track == Queue /\ OneHandled /\ RelayTrack
IInv ==
  /\ TypeOK /\ Track /\ RefusedOnlyForAnother /\ ListensUntilTaken
  /\ Joining /\ DeadRelayHeard

-----------------------------------------------------------------------------
(* A channel of capacity one. *)
LEMMA OneInChannel ==
  ASSUME TypeOK
  PROVE  /\ connChan # << >> => Head(connChan) \in Conns /\ Tail(connChan) = << >>
         /\ connChan = << >> =>
              \A c \in Conns : /\ Append(connChan, c) \in Seq(Conns)
                               /\ Append(connChan, c) # << >>
                               /\ Len(Append(connChan, c)) = 1
                               /\ Head(Append(connChan, c)) = c
<1>1. connChan \in Seq(Conns) /\ Len(connChan) \in Nat /\ Len(connChan) <= 1
  <2>1. connChan \in Seq(Conns) /\ Len(connChan) <= 1
    BY DEF TypeOK
  <2>2. Len(connChan) \in Nat
    BY <2>1, LenProperties
  <2> QED
    BY <2>1, <2>2
<1>2. ASSUME connChan # << >> PROVE Head(connChan) \in Conns /\ Tail(connChan) = << >>
  <2>1. Len(connChan) \in Nat \ {0}
    BY <1>1, <1>2, EmptySeq
  <2>2. Tail(connChan) \in Seq(Conns) /\ Len(Tail(connChan)) = 0 /\ Head(connChan) \in Conns
    BY <1>1, <1>2, <2>1, HeadTailProperties
  <2>3. Tail(connChan) = << >>
    BY <2>2, EmptySeq, Zenon
  <2> QED
    BY <2>2, <2>3
<1>3. ASSUME connChan = << >>, NEW c \in Conns
      PROVE  /\ Append(connChan, c) \in Seq(Conns) /\ Append(connChan, c) # << >>
             /\ Len(Append(connChan, c)) = 1 /\ Head(Append(connChan, c)) = c
  <2>1. Append(connChan, c) = <<c>>
    BY <1>3
  <2>2. <<c>> \in Seq(Conns) /\ Len(<<c>>) = 1 /\ Head(<<c>>) = c
    OBVIOUS
  <2>3. <<c>> # << >>
    OBVIOUS
  <2> QED
    BY <2>1, <2>2, <2>3
<1> QED
  BY <1>2, <1>3

LEMMA InitInv == Init => IInv
<1> SUFFICES ASSUME Init PROVE IInv
  OBVIOUS
<1>1. TypeOK
  <2>1. connChan \in Seq(Conns) /\ Len(connChan) = 0
    BY EmptySeq DEF Init
  <2>2. pool \in 0..PoolSize
    BY ServerAssumption DEF Init
  <2>3. conn \in [Conns -> {"idle"}] /\ stopped \in BOOLEAN /\ ctxDone \in BOOLEAN
    BY Zenon DEF Init
  <2>4. Len(connChan) <= 1
    BY <2>1
  <2> QED
    BY <2>1, <2>2, <2>3, <2>4 DEF Init, TypeOK
<1>2. Track
  BY DEF Init, Track, Queue, OneHandled, RelayTrack
<1>3. RefusedOnlyForAnother /\ ListensUntilTaken
  BY DEF Init, RefusedOnlyForAnother, ListensUntilTaken, InState
<1>4. Joining /\ DeadRelayHeard
  BY DEF Init, Joining, DeadRelayHeard
<1> QED
  BY <1>1, <1>2, <1>3, <1>4 DEF IInv

(* The actions that concern no connection. *)
Quiet ==
  \/ StartUp \/ RelayStep \/ RelayLost \/ CancelContext \/ Finished
  \/ ForwardRelayStopped \/ ForwardCancelled \/ NetcatInviterExits \/ NetcatCancelled

LEMMA QuietFact == Quiet \/ UNCHANGED vars => UNCHANGED <<cfg, conn, connChan>>
BY DEF Quiet, StartUp, RelayStep, RelayMoves, RelayLookup, RelayNext, RelayDials,
       RelayGivesUp, RelayLost, Start, PollError, PollURI, Spawn, EnterSelect,
       CancelContext, Finished, ForwardRelayStopped, ForwardCancelled,
       NetcatInviterExits, NetcatCancelled, vars

(* Every action keeps the types. *)
LEMMA TypeStep ==
  ASSUME IInv, [Next]_vars
  PROVE  TypeOK'
<1> USE ServerAssumption, OneInChannel DEF IInv, TypeOK, relayVars
<1>1. CASE RelayLookup
  BY <1>1 DEF RelayLookup, RelayMoves
<1>2. CASE RelayNext
  <2>1. pool' \in 0..PoolSize
    <3>1. pool \in Nat /\ pool <= PoolSize /\ (pool' = pool \/ (pool # 0 /\ pool' = pool - 1))
      BY <1>2 DEF RelayNext
    <3> QED
      BY <3>1
  <2> QED
    BY <1>2, <2>1, Zenon DEF RelayNext, RelayMoves
<1>3. CASE RelayDials
  BY <1>3 DEF RelayDials, RelayMoves, AfterLoss
<1>4. CASE RelayGivesUp
  BY <1>4 DEF RelayGivesUp, RelayMoves
<1>5. CASE RelayLost
  BY <1>5 DEF RelayLost, RelayMoves, AfterLoss
<1>6. CASE Start
  BY <1>6 DEF Start
<1>7. CASE PollError
  BY <1>7 DEF PollError
<1>8. CASE PollURI
  BY <1>8 DEF PollURI
<1>9. CASE Spawn
  BY <1>9 DEF Spawn
<1>10. CASE EnterSelect
  BY <1>10 DEF EnterSelect
<1>11. CASE CancelContext
  BY <1>11 DEF CancelContext
<1>12. CASE ForwardRelayStopped
  BY <1>12, Zenon DEF ForwardRelayStopped, Return
<1>13. CASE ForwardCancelled
  BY <1>13 DEF ForwardCancelled, Return
<1>14. CASE NetcatInviterExits
  BY <1>14, Zenon DEF NetcatInviterExits
<1>15. CASE NetcatCancelled
  BY <1>15 DEF NetcatCancelled, Return
<1>16. CASE NetcatTakes
  BY <1>16 DEF NetcatTakes
<1>17. CASE NetcatHandlerDone
  BY <1>17 DEF NetcatHandlerDone, Return
<1>18. ASSUME NEW c \in Conns, DirectArrives(c) PROVE TypeOK'
  BY <1>18 DEF DirectArrives
<1>19. ASSUME NEW c \in Conns, InvitationArrives(c) PROVE TypeOK'
  BY <1>19 DEF InvitationArrives
<1>20. ASSUME NEW c \in Conns, TakeInvitation(c) PROVE TypeOK'
  BY <1>20 DEF TakeInvitation
<1>21. ASSUME NEW c \in Conns, JoinFails(c) PROVE TypeOK'
  BY <1>21 DEF JoinFails
<1>22. ASSUME NEW c \in Conns, ForwardAccepts(c) PROVE TypeOK'
  BY <1>22 DEF ForwardAccepts
<1>23. ASSUME NEW c \in Conns, ForwardJoins(c) PROVE TypeOK'
  BY <1>23 DEF ForwardJoins
<1>24. ASSUME NEW c \in Conns, NetcatAccepts(c) PROVE TypeOK'
  BY <1>24 DEF NetcatAccepts, OfferConn, ConnChanHasRoom
<1>25. ASSUME NEW c \in Conns, NetcatJoins(c) PROVE TypeOK'
  BY <1>25 DEF NetcatJoins, OfferConn, ConnChanHasRoom
<1>26. CASE Finished \/ UNCHANGED vars
  BY <1>26 DEF Finished, vars
<1> HIDE DEF IInv, TypeOK, relayVars
<1> QED
  BY <1>1, <1>2, <1>3, <1>4, <1>5, <1>6, <1>7, <1>8, <1>9, <1>10, <1>11, <1>12, <1>13, <1>14, <1>15, <1>16, <1>17, <1>18, <1>19, <1>20, <1>21, <1>22, <1>23, <1>24, <1>25, <1>26
  DEF Next, StartUp, RelayStep, Inviter, Acceptor, Select

(* Queueing and taking keep connChan and the queued connection together. *)
LEMMA QueueStep ==
  ASSUME IInv, [Next]_vars
  PROVE  Queue'
<1> USE OneInChannel DEF IInv, TypeOK, Track, Queue, Netcat, Forward, relayVars
<1>1. CASE Quiet \/ UNCHANGED vars
  BY <1>1, QuietFact
<1>2. CASE NetcatTakes
  BY <1>2 DEF NetcatTakes
<1>3. CASE NetcatHandlerDone
  BY <1>3 DEF NetcatHandlerDone, Return
<1>4. ASSUME NEW c \in Conns, DirectArrives(c) PROVE Queue'
  BY <1>4 DEF DirectArrives
<1>5. ASSUME NEW c \in Conns, InvitationArrives(c) PROVE Queue'
  BY <1>5 DEF InvitationArrives
<1>6. ASSUME NEW c \in Conns, TakeInvitation(c) PROVE Queue'
  BY <1>6 DEF TakeInvitation
<1>7. ASSUME NEW c \in Conns, JoinFails(c) PROVE Queue'
  BY <1>7 DEF JoinFails
<1>8. ASSUME NEW c \in Conns, ForwardAccepts(c) PROVE Queue'
  BY <1>8 DEF ForwardAccepts
<1>9. ASSUME NEW c \in Conns, ForwardJoins(c) PROVE Queue'
  BY <1>9 DEF ForwardJoins
<1>10. ASSUME NEW c \in Conns, NetcatAccepts(c) PROVE Queue'
  BY <1>10 DEF NetcatAccepts, OfferConn, ConnChanHasRoom
<1>11. ASSUME NEW c \in Conns, NetcatJoins(c) PROVE Queue'
  BY <1>11 DEF NetcatJoins, OfferConn, ConnChanHasRoom
<1> HIDE DEF IInv, TypeOK, Track, Queue, Netcat, Forward, relayVars
<1> QED
  BY <1>1, <1>2, <1>3, <1>4, <1>5, <1>6, <1>7, <1>8, <1>9, <1>10, <1>11
  DEF Next, Quiet, Inviter, Acceptor, Select

(* One handler. *)
LEMMA HandledStep ==
  ASSUME IInv, [Next]_vars
  PROVE  OneHandled'
<1> USE OneInChannel DEF IInv, TypeOK, Track, Queue, OneHandled, Netcat, Forward, relayVars
<1>1. CASE RelayLookup
  BY <1>1 DEF RelayLookup, RelayMoves
<1>2. CASE RelayNext
  BY <1>2 DEF RelayNext, RelayMoves
<1>3. CASE RelayDials
  BY <1>3 DEF RelayDials, RelayMoves, AfterLoss
<1>4. CASE RelayGivesUp
  BY <1>4 DEF RelayGivesUp, RelayMoves
<1>5. CASE RelayLost
  BY <1>5 DEF RelayLost, RelayMoves, AfterLoss
<1>6. CASE Start
  BY <1>6 DEF Start
<1>7. CASE PollError
  BY <1>7 DEF PollError
<1>8. CASE PollURI
  BY <1>8 DEF PollURI
<1>9. CASE Spawn
  BY <1>9 DEF Spawn
<1>10. CASE EnterSelect
  BY <1>10 DEF EnterSelect
<1>11. CASE CancelContext
  BY <1>11 DEF CancelContext
<1>12. CASE ForwardRelayStopped
  BY <1>12 DEF ForwardRelayStopped, Return
<1>13. CASE ForwardCancelled
  BY <1>13 DEF ForwardCancelled, Return
<1>14. CASE NetcatInviterExits
  BY <1>14 DEF NetcatInviterExits
<1>15. CASE NetcatCancelled
  BY <1>15 DEF NetcatCancelled, Return
<1>16. CASE NetcatTakes
  BY <1>16 DEF NetcatTakes
<1>17. CASE NetcatHandlerDone
  BY <1>17 DEF NetcatHandlerDone, Return
<1>18. ASSUME NEW c \in Conns, DirectArrives(c) PROVE OneHandled'
  BY <1>18 DEF DirectArrives
<1>19. ASSUME NEW c \in Conns, InvitationArrives(c) PROVE OneHandled'
  BY <1>19 DEF InvitationArrives
<1>20. ASSUME NEW c \in Conns, TakeInvitation(c) PROVE OneHandled'
  BY <1>20 DEF TakeInvitation
<1>21. ASSUME NEW c \in Conns, JoinFails(c) PROVE OneHandled'
  BY <1>21 DEF JoinFails
<1>22. ASSUME NEW c \in Conns, ForwardAccepts(c) PROVE OneHandled'
  BY <1>22 DEF ForwardAccepts
<1>23. ASSUME NEW c \in Conns, ForwardJoins(c) PROVE OneHandled'
  BY <1>23 DEF ForwardJoins
<1>24. ASSUME NEW c \in Conns, NetcatAccepts(c) PROVE OneHandled'
  BY <1>24 DEF NetcatAccepts, OfferConn, ConnChanHasRoom
<1>25. ASSUME NEW c \in Conns, NetcatJoins(c) PROVE OneHandled'
  BY <1>25 DEF NetcatJoins, OfferConn, ConnChanHasRoom
<1>26. CASE Finished \/ UNCHANGED vars
  BY <1>26 DEF Finished, vars
<1> HIDE DEF IInv, TypeOK, Track, Queue, OneHandled, Netcat, Forward, relayVars
<1> QED
  BY <1>1, <1>2, <1>3, <1>4, <1>5, <1>6, <1>7, <1>8, <1>9, <1>10, <1>11, <1>12, <1>13, <1>14, <1>15, <1>16, <1>17, <1>18, <1>19, <1>20, <1>21, <1>22, <1>23, <1>24, <1>25, <1>26
  DEF Next, StartUp, RelayStep, Inviter, Acceptor, Select

(* relayStopped is written once. *)
LEMMA RelayTrackStep ==
  ASSUME IInv, [Next]_vars
  PROVE  RelayTrack'
<1> USE DEF IInv, TypeOK, Track, RelayTrack, relayVars
<1>1. CASE RelayLookup
  BY <1>1 DEF RelayLookup, RelayMoves
<1>2. CASE RelayNext
  BY <1>2 DEF RelayNext, RelayMoves
<1>3. CASE RelayDials
  BY <1>3 DEF RelayDials, RelayMoves, AfterLoss
<1>4. CASE RelayGivesUp
  BY <1>4 DEF RelayGivesUp, RelayMoves
<1>5. CASE RelayLost
  BY <1>5 DEF RelayLost, RelayMoves, AfterLoss
<1>6. CASE Start
  BY <1>6 DEF Start
<1>7. CASE PollError
  BY <1>7 DEF PollError
<1>8. CASE PollURI
  BY <1>8 DEF PollURI
<1>9. CASE Spawn
  BY <1>9 DEF Spawn
<1>10. CASE EnterSelect
  BY <1>10 DEF EnterSelect
<1>11. CASE CancelContext
  BY <1>11 DEF CancelContext
<1>12. CASE ForwardRelayStopped
  BY <1>12 DEF ForwardRelayStopped, Return
<1>13. CASE ForwardCancelled
  BY <1>13 DEF ForwardCancelled, Return
<1>14. CASE NetcatInviterExits
  BY <1>14 DEF NetcatInviterExits
<1>15. CASE NetcatCancelled
  BY <1>15 DEF NetcatCancelled, Return
<1>16. CASE NetcatTakes
  BY <1>16 DEF NetcatTakes
<1>17. CASE NetcatHandlerDone
  BY <1>17 DEF NetcatHandlerDone, Return
<1>18. ASSUME NEW c \in Conns, DirectArrives(c) PROVE RelayTrack'
  BY <1>18 DEF DirectArrives
<1>19. ASSUME NEW c \in Conns, InvitationArrives(c) PROVE RelayTrack'
  BY <1>19 DEF InvitationArrives
<1>20. ASSUME NEW c \in Conns, TakeInvitation(c) PROVE RelayTrack'
  BY <1>20 DEF TakeInvitation
<1>21. ASSUME NEW c \in Conns, JoinFails(c) PROVE RelayTrack'
  BY <1>21 DEF JoinFails
<1>22. ASSUME NEW c \in Conns, ForwardAccepts(c) PROVE RelayTrack'
  BY <1>22 DEF ForwardAccepts
<1>23. ASSUME NEW c \in Conns, ForwardJoins(c) PROVE RelayTrack'
  BY <1>23 DEF ForwardJoins
<1>24. ASSUME NEW c \in Conns, NetcatAccepts(c) PROVE RelayTrack'
  BY <1>24 DEF NetcatAccepts, OfferConn, ConnChanHasRoom
<1>25. ASSUME NEW c \in Conns, NetcatJoins(c) PROVE RelayTrack'
  BY <1>25 DEF NetcatJoins, OfferConn, ConnChanHasRoom
<1>26. CASE Finished \/ UNCHANGED vars
  BY <1>26 DEF Finished, vars
<1> HIDE DEF IInv, TypeOK, Track, RelayTrack, relayVars
<1> QED
  BY <1>1, <1>2, <1>3, <1>4, <1>5, <1>6, <1>7, <1>8, <1>9, <1>10, <1>11, <1>12, <1>13, <1>14, <1>15, <1>16, <1>17, <1>18, <1>19, <1>20, <1>21, <1>22, <1>23, <1>24, <1>25, <1>26
  DEF Next, StartUp, RelayStep, Inviter, Acceptor, Select

(* A connection that was taken stays taken. *)
LEMMA RefusedStep ==
  ASSUME IInv, [Next]_vars
  PROVE  RefusedOnlyForAnother'
<1> USE OneInChannel DEF IInv, TypeOK, Track, Queue, RefusedOnlyForAnother, InState, relayVars
<1>1. CASE Quiet \/ UNCHANGED vars
  BY <1>1, QuietFact
<1>2. CASE NetcatTakes
  BY <1>2 DEF NetcatTakes
<1>3. CASE NetcatHandlerDone
  BY <1>3 DEF NetcatHandlerDone, Return
<1>4. ASSUME NEW c \in Conns, DirectArrives(c) PROVE RefusedOnlyForAnother'
  BY <1>4 DEF DirectArrives
<1>5. ASSUME NEW c \in Conns, InvitationArrives(c) PROVE RefusedOnlyForAnother'
  BY <1>5 DEF InvitationArrives
<1>6. ASSUME NEW c \in Conns, TakeInvitation(c) PROVE RefusedOnlyForAnother'
  BY <1>6 DEF TakeInvitation
<1>7. ASSUME NEW c \in Conns, JoinFails(c) PROVE RefusedOnlyForAnother'
  BY <1>7 DEF JoinFails
<1>8. ASSUME NEW c \in Conns, ForwardAccepts(c) PROVE RefusedOnlyForAnother'
  BY <1>8 DEF ForwardAccepts
<1>9. ASSUME NEW c \in Conns, ForwardJoins(c) PROVE RefusedOnlyForAnother'
  BY <1>9 DEF ForwardJoins
<1>10. ASSUME NEW c \in Conns, NetcatAccepts(c) PROVE RefusedOnlyForAnother'
  BY <1>10 DEF NetcatAccepts, OfferConn, ConnChanHasRoom
<1>11. ASSUME NEW c \in Conns, NetcatJoins(c) PROVE RefusedOnlyForAnother'
  BY <1>11 DEF NetcatJoins, OfferConn, ConnChanHasRoom
<1> HIDE DEF IInv, TypeOK, Track, Queue, RefusedOnlyForAnother, InState, relayVars
<1> QED
  BY <1>1, <1>2, <1>3, <1>4, <1>5, <1>6, <1>7, <1>8, <1>9, <1>10, <1>11
  DEF Next, Quiet, Inviter, Acceptor, Select

(* The loop ends for one of its three reasons, and each of them lasts. *)
LEMMA ListensStep ==
  ASSUME IInv, [Next]_vars
  PROVE  ListensUntilTaken'
<1> USE OneInChannel DEF IInv, TypeOK, Track, Queue, RelayTrack, ListensUntilTaken, InState, Netcat, Forward, relayVars
<1>1. CASE RelayLookup
  BY <1>1 DEF RelayLookup, RelayMoves
<1>2. CASE RelayNext
  BY <1>2 DEF RelayNext, RelayMoves
<1>3. CASE RelayDials
  BY <1>3 DEF RelayDials, RelayMoves, AfterLoss
<1>4. CASE RelayGivesUp
  BY <1>4 DEF RelayGivesUp, RelayMoves
<1>5. CASE RelayLost
  BY <1>5 DEF RelayLost, RelayMoves, AfterLoss
<1>6. CASE Start
  BY <1>6 DEF Start
<1>7. CASE PollError
  BY <1>7 DEF PollError
<1>8. CASE PollURI
  BY <1>8 DEF PollURI
<1>9. CASE Spawn
  BY <1>9 DEF Spawn
<1>10. CASE EnterSelect
  BY <1>10 DEF EnterSelect
<1>11. CASE CancelContext
  BY <1>11 DEF CancelContext
<1>12. CASE ForwardRelayStopped
  BY <1>12 DEF ForwardRelayStopped, Return
<1>13. CASE ForwardCancelled
  BY <1>13 DEF ForwardCancelled, Return
<1>14. CASE NetcatInviterExits
  BY <1>14 DEF NetcatInviterExits
<1>15. CASE NetcatCancelled
  BY <1>15 DEF NetcatCancelled, Return
<1>16. CASE NetcatTakes
  BY <1>16 DEF NetcatTakes
<1>17. CASE NetcatHandlerDone
  BY <1>17 DEF NetcatHandlerDone, Return
<1>18. ASSUME NEW c \in Conns, DirectArrives(c) PROVE ListensUntilTaken'
  BY <1>18 DEF DirectArrives
<1>19. ASSUME NEW c \in Conns, InvitationArrives(c) PROVE ListensUntilTaken'
  BY <1>19 DEF InvitationArrives
<1>20. ASSUME NEW c \in Conns, TakeInvitation(c) PROVE ListensUntilTaken'
  BY <1>20 DEF TakeInvitation
<1>21. ASSUME NEW c \in Conns, JoinFails(c) PROVE ListensUntilTaken'
  BY <1>21 DEF JoinFails
<1>22. ASSUME NEW c \in Conns, ForwardAccepts(c) PROVE ListensUntilTaken'
  BY <1>22 DEF ForwardAccepts
<1>23. ASSUME NEW c \in Conns, ForwardJoins(c) PROVE ListensUntilTaken'
  BY <1>23 DEF ForwardJoins
<1>24. ASSUME NEW c \in Conns, NetcatAccepts(c) PROVE ListensUntilTaken'
  BY <1>24 DEF NetcatAccepts, OfferConn, ConnChanHasRoom
<1>25. ASSUME NEW c \in Conns, NetcatJoins(c) PROVE ListensUntilTaken'
  BY <1>25 DEF NetcatJoins, OfferConn, ConnChanHasRoom
<1>26. CASE Finished \/ UNCHANGED vars
  BY <1>26 DEF Finished, vars
<1> HIDE DEF IInv, TypeOK, Track, Queue, RelayTrack, ListensUntilTaken, InState, Netcat,
             Forward, relayVars
<1> QED
  BY <1>1, <1>2, <1>3, <1>4, <1>5, <1>6, <1>7, <1>8, <1>9, <1>10, <1>11, <1>12, <1>13, <1>14, <1>15, <1>16, <1>17, <1>18, <1>19, <1>20, <1>21, <1>22, <1>23, <1>24, <1>25, <1>26
  DEF Next, StartUp, RelayStep, Inviter, Acceptor, Select

(* A join is begun from the select and left for it. *)
LEMMA JoiningStep ==
  ASSUME IInv, [Next]_vars
  PROVE  Joining'
<1> USE OneInChannel DEF IInv, TypeOK, Track, Queue, RelayTrack, Joining, InState, Netcat, Forward, relayVars
<1>1. CASE RelayLookup
  BY <1>1 DEF RelayLookup, RelayMoves
<1>2. CASE RelayNext
  BY <1>2 DEF RelayNext, RelayMoves
<1>3. CASE RelayDials
  BY <1>3 DEF RelayDials, RelayMoves, AfterLoss
<1>4. CASE RelayGivesUp
  BY <1>4 DEF RelayGivesUp, RelayMoves
<1>5. CASE RelayLost
  BY <1>5 DEF RelayLost, RelayMoves, AfterLoss
<1>6. CASE Start
  BY <1>6 DEF Start
<1>7. CASE PollError
  BY <1>7 DEF PollError
<1>8. CASE PollURI
  BY <1>8 DEF PollURI
<1>9. CASE Spawn
  BY <1>9 DEF Spawn
<1>10. CASE EnterSelect
  BY <1>10 DEF EnterSelect
<1>11. CASE CancelContext
  BY <1>11 DEF CancelContext
<1>12. CASE ForwardRelayStopped
  BY <1>12 DEF ForwardRelayStopped, Return
<1>13. CASE ForwardCancelled
  BY <1>13 DEF ForwardCancelled, Return
<1>14. CASE NetcatInviterExits
  BY <1>14 DEF NetcatInviterExits
<1>15. CASE NetcatCancelled
  BY <1>15 DEF NetcatCancelled, Return
<1>16. CASE NetcatTakes
  BY <1>16 DEF NetcatTakes
<1>17. CASE NetcatHandlerDone
  BY <1>17 DEF NetcatHandlerDone, Return
<1>18. ASSUME NEW c \in Conns, DirectArrives(c) PROVE Joining'
  BY <1>18 DEF DirectArrives
<1>19. ASSUME NEW c \in Conns, InvitationArrives(c) PROVE Joining'
  BY <1>19 DEF InvitationArrives
<1>20. ASSUME NEW c \in Conns, TakeInvitation(c) PROVE Joining'
  BY <1>20 DEF TakeInvitation
<1>21. ASSUME NEW c \in Conns, JoinFails(c) PROVE Joining'
  BY <1>21 DEF JoinFails
<1>22. ASSUME NEW c \in Conns, ForwardAccepts(c) PROVE Joining'
  BY <1>22 DEF ForwardAccepts
<1>23. ASSUME NEW c \in Conns, ForwardJoins(c) PROVE Joining'
  BY <1>23 DEF ForwardJoins
<1>24. ASSUME NEW c \in Conns, NetcatAccepts(c) PROVE Joining'
  BY <1>24 DEF NetcatAccepts, OfferConn, ConnChanHasRoom
<1>25. ASSUME NEW c \in Conns, NetcatJoins(c) PROVE Joining'
  BY <1>25 DEF NetcatJoins, OfferConn, ConnChanHasRoom
<1>26. CASE Finished \/ UNCHANGED vars
  BY <1>26 DEF Finished, vars
<1> HIDE DEF IInv, TypeOK, Track, Queue, RelayTrack, Joining, InState, Netcat,
             Forward, relayVars
<1> QED
  BY <1>1, <1>2, <1>3, <1>4, <1>5, <1>6, <1>7, <1>8, <1>9, <1>10, <1>11, <1>12, <1>13, <1>14, <1>15, <1>16, <1>17, <1>18, <1>19, <1>20, <1>21, <1>22, <1>23, <1>24, <1>25, <1>26
  DEF Next, StartUp, RelayStep, Inviter, Acceptor, Select

(* relayStopped is read by the loop alone. *)
LEMMA HeardStep ==
  ASSUME IInv, [Next]_vars
  PROVE  DeadRelayHeard'
<1> USE OneInChannel DEF IInv, TypeOK, Track, Queue, RelayTrack, Joining, DeadRelayHeard, InState, Netcat, Forward, relayVars
<1>1. CASE RelayLookup
  BY <1>1, Zenon DEF RelayLookup, RelayMoves
<1>2. CASE RelayNext
  BY <1>2, Zenon DEF RelayNext, RelayMoves
<1>3. CASE RelayDials
  BY <1>3, Zenon DEF RelayDials, RelayMoves, AfterLoss
<1>4. CASE RelayGivesUp
  BY <1>4 DEF RelayGivesUp, RelayMoves
<1>5. CASE RelayLost
  BY <1>5, Zenon DEF RelayLost, RelayMoves, AfterLoss
<1>6. CASE Start
  BY <1>6 DEF Start
<1>7. CASE PollError
  BY <1>7 DEF PollError
<1>8. CASE PollURI
  BY <1>8 DEF PollURI
<1>9. CASE Spawn
  BY <1>9 DEF Spawn
<1>10. CASE EnterSelect
  BY <1>10 DEF EnterSelect
<1>11. CASE CancelContext
  BY <1>11 DEF CancelContext
<1>12. CASE ForwardRelayStopped
  BY <1>12 DEF ForwardRelayStopped, Return
<1>13. CASE ForwardCancelled
  BY <1>13 DEF ForwardCancelled, Return
<1>14. CASE NetcatInviterExits
  BY <1>14 DEF NetcatInviterExits
<1>15. CASE NetcatCancelled
  BY <1>15 DEF NetcatCancelled, Return
<1>16. CASE NetcatTakes
  BY <1>16 DEF NetcatTakes
<1>17. CASE NetcatHandlerDone
  BY <1>17 DEF NetcatHandlerDone, Return
<1>18. ASSUME NEW c \in Conns, DirectArrives(c) PROVE DeadRelayHeard'
  BY <1>18 DEF DirectArrives
<1>19. ASSUME NEW c \in Conns, InvitationArrives(c) PROVE DeadRelayHeard'
  BY <1>19 DEF InvitationArrives
<1>20. ASSUME NEW c \in Conns, TakeInvitation(c) PROVE DeadRelayHeard'
  BY <1>20 DEF TakeInvitation
<1>21. ASSUME NEW c \in Conns, JoinFails(c) PROVE DeadRelayHeard'
  BY <1>21 DEF JoinFails
<1>22. ASSUME NEW c \in Conns, ForwardAccepts(c) PROVE DeadRelayHeard'
  BY <1>22 DEF ForwardAccepts
<1>23. ASSUME NEW c \in Conns, ForwardJoins(c) PROVE DeadRelayHeard'
  BY <1>23 DEF ForwardJoins
<1>24. ASSUME NEW c \in Conns, NetcatAccepts(c) PROVE DeadRelayHeard'
  BY <1>24 DEF NetcatAccepts, OfferConn, ConnChanHasRoom
<1>25. ASSUME NEW c \in Conns, NetcatJoins(c) PROVE DeadRelayHeard'
  BY <1>25 DEF NetcatJoins, OfferConn, ConnChanHasRoom
<1>26. CASE Finished \/ UNCHANGED vars
  BY <1>26 DEF Finished, vars
<1> HIDE DEF IInv, TypeOK, Track, Queue, RelayTrack, Joining, DeadRelayHeard, InState, Netcat,
             Forward, relayVars
<1> QED
  BY <1>1, <1>2, <1>3, <1>4, <1>5, <1>6, <1>7, <1>8, <1>9, <1>10, <1>11, <1>12, <1>13, <1>14, <1>15, <1>16, <1>17, <1>18, <1>19, <1>20, <1>21, <1>22, <1>23, <1>24, <1>25, <1>26
  DEF Next, StartUp, RelayStep, Inviter, Acceptor, Select

LEMMA Inductive == Spec => []IInv
<1>1. IInv /\ [Next]_vars => IInv'
  BY TypeStep, QueueStep, HandledStep, RelayTrackStep, RefusedStep, ListensStep,
     JoiningStep, HeardStep
  DEF IInv, Track
<1> QED
  BY <1>1, InitInv, PTL DEF Spec

-----------------------------------------------------------------------------
(* How a step of one connection shows in Acceptance. *)
PlaceAs(s) ==
  CASE s = "queued" -> "queued"
    [] s = "handled" -> "handled"
    [] s \in {"done", "closed"} -> "over"
    [] OTHER -> "new"

LEMMA PlaceMoves ==
  ASSUME IInv, NEW c \in Conns, NEW s, conn' = [conn EXCEPT ![c] = s]
  PROVE  /\ Places' = [Places EXCEPT ![c] = PlaceAs(s)]
         /\ Places[c] = PlaceAs(conn[c])
<1>1. \A d \in Conns : conn'[d] = IF d = c THEN s ELSE conn[d]
  BY DEF IInv, TypeOK
<1>2. \A d \in Conns : Places[d] = PlaceAs(conn[d]) /\ Places'[d] = PlaceAs(conn'[d])
  BY DEF Places, PlaceOf, PlaceAs
<1>3. \A d \in Conns : Places'[d] = IF d = c THEN PlaceAs(s) ELSE Places[d]
  BY <1>1, <1>2
<1>4. Places' = [d \in Conns |-> Places'[d]] /\ Places = [d \in Conns |-> Places[d]]
  BY DEF Places
<1> QED
  BY <1>2, <1>3, <1>4

(* Only a connection given to the handler uses the server up. *)
LEMMA UsedMoves ==
  ASSUME IInv, NEW c \in Conns, NEW s, conn' = [conn EXCEPT ![c] = s],
         conn[c] \notin {"handled", "done"}
  PROVE  Used' = IF s \in {"handled", "done"} THEN TRUE ELSE Used
<1>1. \A d \in Conns : conn'[d] = IF d = c THEN s ELSE conn[d]
  BY DEF IInv, TypeOK
<1>2. Used <=> \E d \in Conns : conn[d] \in {"handled", "done"}
  BY DEF Used, InState
<1>3. Used' <=> \E d \in Conns : conn'[d] \in {"handled", "done"}
  BY DEF Used, InState
<1>4. Used \in BOOLEAN /\ Used' \in BOOLEAN
  BY DEF Used
<1> QED
  BY <1>1, <1>2, <1>3, <1>4, Zenon

LEMMA PromiseInit == Init => Promise!Init
<1> SUFFICES ASSUME Init PROVE Promise!Init
  OBVIOUS
<1>1. Netcat \in BOOLEAN
  BY DEF Netcat
<1>2. Used = FALSE
  BY DEF Init, Used, InState
<1>3. Places = [c \in Conns |-> "new"]
  BY DEF Init, Places, PlaceOf
<1> QED
  BY <1>1, <1>2, <1>3 DEF Promise!Init

(* What has not reached the server, or is lost before it does, is no step. *)
LEMMA StillNew ==
  ASSUME IInv, NEW c \in Conns, NEW s \in {"backlog", "invited", "joining", "failed"},
         conn[c] \in {"idle", "backlog", "invited", "joining"},
         conn' = [conn EXCEPT ![c] = s], cfg' = cfg
  PROVE  UNCHANGED Promise!vars
<1>1. Places' = [Places EXCEPT ![c] = "new"] /\ Places[c] = "new"
  BY PlaceMoves, Zenon DEF PlaceAs
<1>2. Places' = Places
  BY <1>1, Zenon DEF Places
<1>3. Used' = Used
  BY UsedMoves, Zenon
<1>4. Netcat' = Netcat
  BY DEF Netcat
<1> QED
  BY <1>2, <1>3, <1>4 DEF Promise!vars

LEMMA PromiseStep ==
  ASSUME IInv, [Next]_vars
  PROVE  [Promise!Next]_(Promise!vars)
<1>1. CASE Quiet \/ UNCHANGED vars
  <2>1. UNCHANGED <<cfg, conn>>
    BY <1>1, QuietFact
  <2>2. UNCHANGED <<Netcat, Used, Places>>
    BY <2>1 DEF Netcat, Used, InState, Places, PlaceOf
  <2> QED
    BY <2>2 DEF Promise!vars
<1>2. ASSUME NEW c \in Conns, DirectArrives(c) \/ InvitationArrives(c) \/ TakeInvitation(c) \/ JoinFails(c)
      PROVE  UNCHANGED Promise!vars
  <2>1. PICK s \in {"backlog", "invited", "joining", "failed"} : conn' = [conn EXCEPT ![c] = s]
    BY <1>2 DEF DirectArrives, InvitationArrives, TakeInvitation, JoinFails
  <2>2. conn[c] \in {"idle", "backlog", "invited", "joining"} /\ cfg' = cfg
    BY <1>2 DEF DirectArrives, InvitationArrives, TakeInvitation, JoinFails
  <2> QED
    BY <2>1, <2>2, StillNew, Zenon
<1>3. ASSUME NEW c \in Conns, ForwardAccepts(c) \/ ForwardJoins(c)
      PROVE  Promise!Handle(c)
  <2>1. /\ conn' = [conn EXCEPT ![c] = "handled"] /\ cfg' = cfg /\ Forward
        /\ conn[c] \in {"backlog", "joining"}
    BY <1>3 DEF ForwardAccepts, ForwardJoins
  <2>2. Places' = [Places EXCEPT ![c] = "handled"] /\ Places[c] = "new" /\ Used' = TRUE
    BY <2>1, PlaceMoves, UsedMoves, Zenon DEF PlaceAs
  <2>3. ~Netcat /\ Netcat' = Netcat
    BY <2>1 DEF Netcat, Forward
  <2> QED
    BY <2>2, <2>3 DEF Promise!Handle
<1>4. ASSUME NEW c \in Conns, NetcatAccepts(c) \/ NetcatJoins(c)
      PROVE  Promise!Queue(c) \/ Promise!TurnAway(c)
  <2>1. OfferConn(c) /\ cfg' = cfg /\ Netcat /\ conn[c] \in {"backlog", "joining"}
    BY <1>4 DEF NetcatAccepts, NetcatJoins
  <2>2. Netcat' = Netcat
    BY <2>1 DEF Netcat
  <2>3. PICK s : /\ conn' = [conn EXCEPT ![c] = s]
                 /\ s = IF ConnChanHasRoom THEN "queued" ELSE "closed"
    BY <2>1 DEF OfferConn
  <2>4. Used' = Used
    <3>1. s \notin {"handled", "done"} /\ conn[c] \notin {"handled", "done"}
      BY <2>1, <2>3
    <3>2. conn' = [conn EXCEPT ![c] = s]
      BY <2>3
    <3> QED
      BY <3>1, <3>2, UsedMoves, Zenon
  <2>5. Places' = [Places EXCEPT ![c] = PlaceAs(s)] /\ Places[c] = "new"
    BY <2>1, <2>3, PlaceMoves, Zenon DEF PlaceAs
  <2>6. CASE ConnChanHasRoom
    <3>1. PlaceAs(s) = "queued"
      BY <2>3, <2>6 DEF PlaceAs
    <3> QED
      BY <2>1, <2>2, <2>4, <2>5, <3>1 DEF Promise!Queue
  <2>7. CASE ~ConnChanHasRoom
    <3>1. PlaceAs(s) = "over"
      BY <2>3, <2>7 DEF PlaceAs
    <3>2. Head(connChan) \in Conns /\ conn[Head(connChan)] = "queued"
      BY <2>7, OneInChannel DEF ConnChanHasRoom, IInv, Track, Queue
    <3>3. Head(connChan) \in Conns \ {c} /\ Places[Head(connChan)] = "queued"
      BY <2>1, <3>2 DEF Places, PlaceOf
    <3> QED
      BY <2>1, <2>2, <2>4, <2>5, <3>1, <3>3 DEF Promise!TurnAway
  <2> QED
    BY <2>6, <2>7
<1>5. CASE NetcatTakes
  <2> DEFINE c == Head(connChan)
  <2>1. /\ c \in Conns /\ conn[c] = "queued" /\ conn' = [conn EXCEPT ![c] = "handled"]
        /\ cfg' = cfg /\ Netcat /\ pc = "select"
    BY <1>5, OneInChannel DEF NetcatTakes, IInv, Track, Queue
  <2> HIDE DEF c
  <2>2. ~Used
    BY <2>1 DEF IInv, Track, OneHandled, Used, InState
  <2>3. Places' = [Places EXCEPT ![c] = "handled"] /\ Places[c] = "queued" /\ Used' = TRUE
    BY <2>1, PlaceMoves, UsedMoves, Zenon DEF PlaceAs
  <2>4. Netcat' = Netcat
    BY <2>1 DEF Netcat
  <2>5. Promise!Handle(c)
    BY <2>2, <2>3, <2>4 DEF Promise!Handle
  <2> QED
    BY <2>1, <2>5 DEF Promise!Next
<1>6. CASE NetcatHandlerDone
  <2>1. conn' = [c \in Conns |-> IF conn[c] = "handled" THEN "done" ELSE conn[c]] /\ cfg' = cfg /\ Netcat
    BY <1>6 DEF NetcatHandlerDone
  <2>2. Used' = Used /\ Netcat' = Netcat
    <3>1. \A c \in Conns : conn'[c] \in {"handled", "done"} <=> conn[c] \in {"handled", "done"}
      BY <2>1
    <3> QED
      BY <2>1, <3>1 DEF Used, InState, Netcat
  <2>3. CASE \A c \in Conns : conn[c] # "handled"
    <3>1. Places' = Places
      BY <2>1, <2>3 DEF Places, PlaceOf
    <3> QED
      BY <2>2, <3>1 DEF Promise!vars
  <2>4. ASSUME NEW c \in Conns, conn[c] = "handled" PROVE Promise!End(c)
    <3>1. \A d \in Conns : conn[d] = "handled" => d = c
      BY <2>1, <2>4 DEF IInv, Track, OneHandled
    <3>2. conn' = [conn EXCEPT ![c] = "done"]
      BY <2>1, <2>4, <3>1, Zenon DEF IInv, TypeOK
    <3>3. Places' = [Places EXCEPT ![c] = "over"] /\ Places[c] = "handled"
      BY <2>4, <3>2, PlaceMoves, Zenon DEF PlaceAs
    <3> QED
      BY <2>2, <3>3 DEF Promise!End
  <2> QED
    BY <2>3, <2>4 DEF Promise!Next
<1> QED
  BY <1>1, <1>2, <1>3, <1>4, <1>5, <1>6
  DEF Next, Quiet, Inviter, Acceptor, Select, Promise!Next

-----------------------------------------------------------------------------
(* The variables of runServer keep their types: its channel of capacity    *)
(* one is never sent a second connection.                                  *)
THEOREM TypeCorrect == Spec => []TypeOK
BY Inductive, PTL DEF IInv

(* A netcat server serves one connection, however many clients the         *)
(* listener and the relay bring.                                           *)
THEOREM HandlesOne == Spec => []NetcatHandlesOne
<1>1. IInv => NetcatHandlesOne
  <2> SUFFICES ASSUME IInv, Netcat
               PROVE  Cardinality(InState("handled") \cup InState("done")) <= 1
    BY DEF NetcatHandlesOne
  <2> DEFINE H == InState("handled") \cup InState("done")
  <2>1. CASE H = {}
    BY <2>1, FS_EmptySet
  <2>2. ASSUME NEW c \in H PROVE Cardinality(H) <= 1
    <3>1. H = {c}
      BY <2>2 DEF IInv, Track, OneHandled, InState
    <3>2. Cardinality({c}) = 1
      BY FS_Singleton
    <3> QED
      BY <3>1, <3>2
  <2> QED
    BY <2>1, <2>2
<1> QED
  BY <1>1, Inductive, PTL

(* A lone client of a netcat server is never refused. *)
THEOREM LoneClientTaken == Spec => []RefusedOnlyForAnother
BY Inductive, PTL DEF IInv

(* runServer keeps the promise of Acceptance to any number of clients,     *)
(* with any flags: every interleaving of its listener, its relay and its   *)
(* select is a behaviour that Acceptance allows.                           *)
THEOREM ImplementsAcceptance == Spec => AcceptsAsPromised
<1>1. IInv /\ [Next]_vars => [Promise!Next]_(Promise!vars)
  BY PromiseStep
<1> QED
  BY <1>1, PromiseInit, Inductive, PTL DEF Spec, AcceptsAsPromised, Promise!Spec

(* A netcat server without a connection keeps taking invitations until its *)
(* relay is lost or it is cancelled.                                       *)
THEOREM KeepsListening == Spec => []ListensUntilTaken
BY Inductive, PTL DEF IInv

(* A forwarding server can still hear of its relay client's end, whenever  *)
(* that comes, until it has returned because of it: the part of            *)
(* ForwardNoticesDeadRelay that does not depend on scheduling.             *)
THEOREM HearsOfDeadRelay == Spec => []DeadRelayHeard
BY Inductive, PTL DEF IInv
=============================================================================
