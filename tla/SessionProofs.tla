--------------------------- MODULE SessionProofs ---------------------------
(***************************************************************************)
(* Whom a client and a server deal with, for any number of addresses: the  *)
(* invariants of Session follow from an invariant about the messages on    *)
(* each connection, and from the attempts not yet made being untouched.    *)
(* So does that the client and the handlers never wait in a circle.        *)
(***************************************************************************)
EXTENDS Session, SequenceTheorems, TLAPS

Untouched(i) ==
  /\ peer[i] = "nobody" /\ handler[i] = "none" /\ i \notin secured
  /\ toClient[i] = << >> /\ toServer[i] = << >>

Fresh ==
  \A i \in Attempts :
    i > attempt \/ (i = attempt /\ client \in {"lookup", "dial"}) => Untouched(i)

(* Only the device that was looked for has a handler. *)
Reached ==
  /\ \A i \in Attempts : handler[i] # "none" => peer[i] = "server"
  /\ client \in {"auth", "result", "established"} => attempt \in secured

(* The messages that let the client in. *)
LetIn == {<<"auth_ok">>, <<"auth_required", "ok">>}

(* Each state of a handler has sent its messages, and the client has not   *)
(* answered a challenge it has not read.                                   *)
Exchange ==
  /\ \A i \in Attempts :
       /\ handler[i] \in {"none", "queued", "handshake"} => toClient[i] = << >>
       /\ handler[i] = "response" =>
            toClient[i] = <<"auth_required">> /\ setup.authorized /\ setup.totp
       /\ toClient[i] \in LetIn =>
            handler[i] \in {"serving", "done"}
  /\ client \in {"handshake", "auth"} => toServer[attempt] = << >>

(* What each attempt has come to: a connection has a handler, a secured    *)
(* one a running or finished one; a handler that is over has closed its    *)
(* connection, one that serves has said so; and there is no verdict on a   *)
(* passcode that was not sent.                                             *)
Kept(i) ==
  /\ peer[i] = "server" => handler[i] # "none"
  /\ i \in secured => handler[i] \notin {"none", "queued"}
  /\ handler[i] \in {"refused", "done"} => "server" \in gone[i]
  /\ handler[i] \in {"serving", "done"} => toClient[i] \in LetIn
  /\ toServer[i] = << >> =>
       toClient[i] \notin {<<"auth_required", "ok">>, <<"auth_required", "error">>}

(* The client has given a connection up. *)
GivenUp(i) == i < attempt \/ (i = attempt /\ client \in {"failed", "finished"})

(* The client closes every connection that it gives up. *)
ClosesGivenUp ==
  \A i \in Attempts : peer[i] # "nobody" /\ GivenUp(i) => "client" \in gone[i]

(* In a one-shot server the running handler is that of an earlier attempt  *)
(* than the queued ones.                                                   *)
QueueOrder ==
  \A i \in Attempts : handler[i] = "queued" =>
    setup.oneShot /\ \A j \in Attempts : Live(j) => j < i

Waits ==
  /\ client = "handshake" => peer[attempt] # "nobody"
  /\ client = "result" =>
       /\ toServer[attempt] # << >>
       /\ toClient[attempt] \in {<<"auth_required">>, <<"auth_required", "ok">>,
                                 <<"auth_required", "error">>}
  /\ result # "pending" => client \in {"failed", "finished"}

Onward == (\A i \in Attempts : Kept(i)) /\ ClosesGivenUp /\ QueueOrder /\ Waits

IInv ==
  /\ TypeOK /\ Fresh /\ Reached /\ Exchange /\ OnlyToThePeer /\ SessionAgreed
  /\ Onward

-----------------------------------------------------------------------------
LEMMA NotLetIn ==
  /\ << >> \notin LetIn
  /\ <<"auth_required">> \notin LetIn
  /\ <<"auth_required", "error">> \notin LetIn
<1>1. << >> \notin LetIn
  BY DEF LetIn
<1>2. <<"auth_required">> \notin LetIn
  BY DEF LetIn
<1>3. <<"auth_required", "error">> \notin LetIn
  BY DEF LetIn
<1> QED
  BY <1>1, <1>2, <1>3

LEMMA InitInv == Init => IInv
<1> SUFFICES ASSUME Init PROVE IInv
  OBVIOUS
<1> USE SessionAssumption DEF Init
<1>1. TypeOK
  <2>1. err.eof \in BOOLEAN
    OBVIOUS
  <2> QED
    BY <2>1 DEF TypeOK, Attempts, Replies
<1>2. Fresh /\ Reached
  BY DEF Fresh, Untouched, Reached, Attempts
<1>3. Exchange
  BY NotLetIn DEF Exchange, Attempts
<1>4. OnlyToThePeer /\ SessionAgreed
  BY DEF OnlyToThePeer, SessionAgreed, Attempts
<1>5. \A i \in Attempts : Kept(i)
  BY NotLetIn DEF Kept, Attempts
<1>6. ClosesGivenUp /\ QueueOrder /\ Waits
  BY DEF ClosesGivenUp, QueueOrder, Waits, Attempts
<1> QED
  BY <1>1, <1>2, <1>3, <1>4, <1>5, <1>6 DEF IInv, Onward

(* What giving up an attempt does. *)
LEMMA FailsFact ==
  ASSUME TypeOK, NEW at, NEW eof \in BOOLEAN, Fails(at, eof)
  PROVE  /\ attempt' \in Attempts /\ client' \in {"dial", "failed"} /\ err'.eof \in BOOLEAN
         /\ gone' \in [Attempts -> SUBSET {"client", "server", "net"}]
         /\ client' = "dial" => attempt' > attempt
         /\ client' = "failed" => attempt' = attempt
<1>1. gone' \in [Attempts -> SUBSET {"client", "server", "net"}]
  <2>1. gone[attempt] \cup {"client"} \in SUBSET {"client", "server", "net"}
    BY DEF TypeOK
  <2> QED
    BY <2>1 DEF TypeOK, Fails
<1>2. CASE attempt <= Directs
  BY <1>1, <1>2, SessionAssumption DEF TypeOK, Fails, MovesOn, Attempts
<1>3. CASE ~(attempt <= Directs)
  <2>1. client' = "failed" /\ err' = [at |-> at, eof |-> eof] /\ attempt' = attempt
    BY <1>3 DEF Fails, MovesOn
  <2>2. err'.eof = eof
    BY <2>1
  <2> QED
    BY <1>1, <2>1, <2>2 DEF TypeOK
<1> QED
  BY <1>2, <1>3

LEMMA RefuseFact ==
  ASSUME TypeOK, NEW i \in Attempts, Refuse(i)
  PROVE  /\ handler' = [handler EXCEPT ![i] = "refused"]
         /\ gone' \in [Attempts -> SUBSET {"client", "server", "net"}]
<1>1. gone[i] \cup {"server"} \in SUBSET {"client", "server", "net"}
  BY DEF TypeOK
<1> QED
  BY <1>1 DEF TypeOK, Refuse

(* The outcomes of the client's steps: an attempt is given up or goes on.  *)
LEMMA DialCases ==
  ASSUME Dial
  PROVE  \/ /\ \E at \in {"noAddress", "dial"}, eof \in BOOLEAN : Fails(at, eof)
            /\ UNCHANGED <<peer, handler>>
         \/ /\ client' = "handshake" /\ UNCHANGED <<attempt, gone, err>>
            /\ \/ peer' = [peer EXCEPT ![attempt] = "other"] /\ UNCHANGED handler
               \/ /\ peer' = [peer EXCEPT ![attempt] = "server"]
                  /\ \E h \in {"handshake", "queued"} :
                       handler' = [handler EXCEPT ![attempt] = h]
BY Zenon DEF Dial, Accepts

(* A verdict follows the challenge it is about. *)
LEMMA VerdictFact ==
  ASSUME NEW v \in {"ok", "error"}
  PROVE  /\ Append(<<"auth_required">>, v) = <<"auth_required", v>>
         /\ <<"auth_required", v>> \in Replies
<1>1. Append(<<"auth_required">>, v) = <<"auth_required", v>>
  <2> DEFINE S == {"auth_required", "ok", "error"}
             s == Append(<<"auth_required">>, v)
             t == <<"auth_required", v>>
  <2>0. v \in S /\ "auth_required" \in S
    OBVIOUS
  <2>1. <<"auth_required">> \in Seq(S) /\ Len(<<"auth_required">>) = 1
    BY <2>0
  <2>2. s \in Seq(S) /\ Len(s) = 2 /\ s[1] = "auth_required" /\ s[2] = v
    BY <2>0, <2>1, AppendProperties
  <2>3. t \in Seq(S) /\ Len(t) = 2 /\ t[1] = "auth_required" /\ t[2] = v
    BY <2>0
  <2> HIDE DEF S, s, t
  <2>4. \A j \in 1..Len(s) : s[j] = t[j]
    BY <2>2, <2>3
  <2>5. s = t
    BY <2>2, <2>3, <2>4, SeqEqual
  <2> QED
    BY <2>5 DEF s, t
<1>2. <<"auth_required", v>> \in Replies
  BY DEF Replies
<1> QED
  BY <1>1, <1>2

LEMMA ReadFailsCases ==
  ASSUME NEW n, ReadFails(n)
  PROVE  \E eof \in BOOLEAN : Fails("auth", eof)
BY Zenon DEF ReadFails

(* Every action keeps the types. *)
LEMMA TypeStep ==
  ASSUME IInv, [Next]_vars
  PROVE  TypeOK'
<1> USE SessionAssumption DEF IInv, TypeOK, wires, Attempts, Replies
<1>1. CASE Lookup
  BY <1>1, Zenon DEF Lookup
<1>2. CASE Dial
  <2>1. CASE \E at \in {"noAddress", "dial"}, eof \in BOOLEAN : Fails(at, eof)
    <3>1. UNCHANGED <<setup, peer, secured, handler, toClient, toServer>>
      BY <1>2, <2>1, DialCases DEF Dial, Fails, MovesOn
    <3> QED
      BY <2>1, <3>1, FailsFact
  <2>2. CASE client' = "handshake" /\ UNCHANGED <<attempt, gone, err>>
    <3>1. UNCHANGED <<setup, secured, toClient, toServer>>
      BY <1>2 DEF Dial
    <3>2. /\ peer' \in [Attempts -> {"nobody", "other", "server"}]
          /\ \/ UNCHANGED handler
             \/ \E h \in {"handshake", "queued"} : handler' = [handler EXCEPT ![attempt] = h]
      <4>1. ~\E at \in {"noAddress", "dial"}, eof \in BOOLEAN : Fails(at, eof)
        BY <2>2, FailsFact
      <4> QED
        BY <1>2, <4>1, DialCases, Zenon
    <3>3. handler' \in [Attempts -> {"none", "queued", "handshake", "response", "serving",
                                     "refused", "done"}]
      BY <3>2
    <3> QED
      BY <2>2, <3>1, <3>2, <3>3
  <2> QED
    BY <1>2, <2>1, <2>2, DialCases
<1>3. CASE Handshake
  <2>1. secured' \subseteq Attempts /\ UNCHANGED <<setup, peer, handler, toClient, toServer>>
    BY <1>3, Zenon DEF Handshake
  <2>2. \/ \E at \in {"handshake", "mismatch"}, eof \in BOOLEAN : Fails(at, eof)
        \/ client' = "auth" /\ UNCHANGED <<attempt, gone, err>>
    BY <1>3, Zenon DEF Handshake
  <2> QED
    BY <2>1, <2>2, FailsFact
<1>4. CASE ReadsChallenge
  <2>1. toServer' \in [Attempts -> {<< >>, <<"good">>, <<"bad">>}]
    <3>1. \A c \in Passcodes : <<c>> \in {<< >>, <<"good">>, <<"bad">>}
      BY DEF Passcodes, Setups
    <3> QED
      BY <1>4, <3>1, Zenon DEF ReadsChallenge
  <2>2. \/ \E eof \in BOOLEAN : Fails("auth", eof)
        \/ client' \in {"established", "result"} /\ UNCHANGED <<attempt, gone, err>>
    BY <1>4, ReadFailsCases, Zenon DEF ReadsChallenge
  <2>3. UNCHANGED <<setup, peer, secured, handler, toClient>>
    BY <1>4 DEF ReadsChallenge
  <2> QED
    BY <2>1, <2>2, <2>3, FailsFact
<1>5. CASE ReadsResult
  <2>1. \/ \E eof \in BOOLEAN : Fails("auth", eof)
        \/ client' = "established" /\ UNCHANGED <<attempt, gone, err>>
    BY <1>5, ReadFailsCases, Zenon DEF ReadsResult
  <2>2. UNCHANGED <<setup, peer, secured, handler, toClient, toServer>>
    BY <1>5 DEF ReadsResult
  <2> QED
    BY <2>1, <2>2, FailsFact
<1>6. CASE SessionEnds
  BY <1>6 DEF SessionEnds
<1>7. CASE ClientReturns
  BY <1>7 DEF ClientReturns
<1>8. ASSUME NEW i \in Attempts, ServerHandshake(i) PROVE TypeOK'
  <2>1. toClient' \in [Attempts -> Replies]
    BY <1>8 DEF ServerHandshake
  <2>2. \/ Refuse(i)
        \/ /\ \E h \in {"response", "serving"} : handler' = [handler EXCEPT ![i] = h]
           /\ UNCHANGED gone
    BY <1>8 DEF ServerHandshake
  <2>3. UNCHANGED <<setup, attempt, client, peer, secured, toServer, err>>
    BY <1>8 DEF ServerHandshake
  <2>4. /\ handler' \in [Attempts -> {"none", "queued", "handshake", "response", "serving",
                                     "refused", "done"}]
        /\ gone' \in [Attempts -> SUBSET {"client", "server", "net"}]
    BY <2>2, RefuseFact
  <2> QED
    BY <2>1, <2>3, <2>4
<1>9. ASSUME NEW i \in Attempts, ServerVerdict(i) PROVE TypeOK'
  <2>1. toClient' \in [Attempts -> Replies]
    <3>1. CASE UNCHANGED toClient
      BY <3>1
    <3>2. ASSUME NEW v \in {"ok", "error"}, toClient' = [toClient EXCEPT ![i] = Append(@, v)]
          PROVE  toClient' \in [Attempts -> Replies]
      <4>1. toClient[i] = <<"auth_required">>
        BY <1>9 DEF ServerVerdict, Exchange
      <4> QED
        BY <3>2, <4>1, VerdictFact
    <3> QED
      BY <1>9, <3>1, <3>2, Zenon DEF ServerVerdict
  <2>2. \/ Refuse(i)
        \/ handler' = [handler EXCEPT ![i] = "serving"] /\ UNCHANGED gone
    BY <1>9 DEF ServerVerdict
  <2>3. UNCHANGED <<setup, attempt, client, peer, secured, toServer, err>>
    BY <1>9 DEF ServerVerdict
  <2>4. /\ handler' \in [Attempts -> {"none", "queued", "handshake", "response", "serving",
                                     "refused", "done"}]
        /\ gone' \in [Attempts -> SUBSET {"client", "server", "net"}]
    BY <2>2, RefuseFact, Zenon
  <2> QED
    BY <2>1, <2>3, <2>4
<1>10. ASSUME NEW i \in Attempts, Done(i) PROVE TypeOK'
  BY <1>10 DEF Done
<1>11. ASSUME NEW i \in Attempts, QueueDropped(i) PROVE TypeOK'
  BY <1>11 DEF QueueDropped, Refuse
<1>12. ASSUME NEW i \in Attempts, Breaks(i) PROVE TypeOK'
  BY <1>12 DEF Breaks
<1>13. CASE Finished \/ UNCHANGED vars
  BY <1>13, Zenon DEF Finished, vars
<1> HIDE DEF IInv, TypeOK, wires, Attempts, Replies
<1> QED
  BY <1>1, <1>2, <1>3, <1>4, <1>5, <1>6, <1>7, <1>8, <1>9, <1>10, <1>11, <1>12, <1>13
  DEF Next, RunClient, Server, ServerDone

(* No attempt is touched before its turn. *)
LEMMA FreshStep ==
  ASSUME IInv, [Next]_vars
  PROVE  Fresh'
<1> USE SessionAssumption DEF IInv, TypeOK, Fresh, Untouched, wires, Attempts
<1>1. CASE Lookup
  BY <1>1 DEF Lookup
<1>2. CASE Dial
  BY <1>2 DEF Dial, Fails, MovesOn, Accepts
<1>3. CASE Handshake
  BY <1>3 DEF Handshake, Fails, MovesOn, PeerAccepted
<1>4. CASE ReadsChallenge
  BY <1>4 DEF ReadsChallenge, Fails, MovesOn, ReadFails, Incoming, Passcodes
<1>5. CASE ReadsResult
  BY <1>5 DEF ReadsResult, Fails, MovesOn, ReadFails, Incoming
<1>6. CASE SessionEnds
  BY <1>6 DEF SessionEnds
<1>7. CASE ClientReturns
  BY <1>7 DEF ClientReturns
<1>8. ASSUME NEW i \in Attempts, ServerHandshake(i) PROVE Fresh'
  BY <1>8 DEF ServerHandshake, Refuse, Authorized
<1>9. ASSUME NEW i \in Attempts, ServerVerdict(i) PROVE Fresh'
  BY <1>9 DEF ServerVerdict, Refuse, Verdicts
<1>10. ASSUME NEW i \in Attempts, Done(i) PROVE Fresh'
  BY <1>10 DEF Done
<1>11. ASSUME NEW i \in Attempts, QueueDropped(i) PROVE Fresh'
  BY <1>11 DEF QueueDropped, Refuse
<1>12. ASSUME NEW i \in Attempts, Breaks(i) PROVE Fresh'
  BY <1>12 DEF Breaks
<1>13. CASE Finished \/ UNCHANGED vars
  BY <1>13 DEF Finished, vars
<1> HIDE DEF IInv, TypeOK, Fresh, Untouched, wires, Attempts
<1> QED
  BY <1>1, <1>2, <1>3, <1>4, <1>5, <1>6, <1>7, <1>8, <1>9, <1>10, <1>11, <1>12, <1>13
  DEF Next, RunClient, Server, ServerDone

(* A handler answers the dial of its attempt. *)
LEMMA ReachedStep ==
  ASSUME IInv, [Next]_vars
  PROVE  Reached'
<1> USE SessionAssumption DEF IInv, TypeOK, Fresh, Untouched, Reached, wires, Attempts
<1>1. CASE Lookup
  BY <1>1, Zenon DEF Lookup
<1>2. CASE Dial
  BY <1>2, Zenon DEF Dial, Fails, MovesOn, Accepts
<1>3. CASE Handshake
  BY <1>3 DEF Handshake, Fails, MovesOn, PeerAccepted
<1>4. CASE ReadsChallenge
  BY <1>4 DEF ReadsChallenge, Fails, MovesOn, ReadFails, Incoming, Passcodes
<1>5. CASE ReadsResult
  BY <1>5 DEF ReadsResult, Fails, MovesOn, ReadFails, Incoming
<1>6. CASE SessionEnds
  BY <1>6 DEF SessionEnds
<1>7. CASE ClientReturns
  BY <1>7 DEF ClientReturns
<1>8. ASSUME NEW i \in Attempts, ServerHandshake(i) PROVE Reached'
  BY <1>8 DEF ServerHandshake, Refuse, Authorized
<1>9. ASSUME NEW i \in Attempts, ServerVerdict(i) PROVE Reached'
  BY <1>9 DEF ServerVerdict, Refuse, Verdicts
<1>10. ASSUME NEW i \in Attempts, Done(i) PROVE Reached'
  BY <1>10 DEF Done
<1>11. ASSUME NEW i \in Attempts, QueueDropped(i) PROVE Reached'
  BY <1>11 DEF QueueDropped, Refuse
<1>12. ASSUME NEW i \in Attempts, Breaks(i) PROVE Reached'
  BY <1>12 DEF Breaks
<1>13. CASE Finished \/ UNCHANGED vars
  BY <1>13 DEF Finished, vars
<1> HIDE DEF IInv, TypeOK, Fresh, Untouched, Reached, wires, Attempts
<1> QED
  BY <1>1, <1>2, <1>3, <1>4, <1>5, <1>6, <1>7, <1>8, <1>9, <1>10, <1>11, <1>12, <1>13
  DEF Next, RunClient, Server, ServerDone

(* The messages follow the handler. *)
LEMMA ExchangeStep ==
  ASSUME IInv, [Next]_vars
  PROVE  Exchange'
<1> USE SessionAssumption DEF IInv, TypeOK, Fresh, Untouched, Exchange, wires, Attempts
<1>1. CASE Lookup
  BY <1>1 DEF Lookup
<1>2. CASE Dial
  <2>1. UNCHANGED <<setup, toClient, toServer>>
    BY <1>2 DEF Dial
  <2>2. Untouched(attempt)
    BY <1>2 DEF Dial
  <2>3. CASE \E at \in {"noAddress", "dial"}, eof \in BOOLEAN : Fails(at, eof)
    <3>1. UNCHANGED handler /\ client' \in {"dial", "failed"}
      BY <1>2, <2>3, DialCases, FailsFact
    <3> QED
      BY <2>1, <3>1
  <2>4. CASE client' = "handshake" /\ UNCHANGED <<attempt, gone, err>>
    BY <1>2, <2>1, <2>2, <2>4, DialCases, FailsFact
  <2> QED
    BY <1>2, <2>3, <2>4, DialCases
<1>3. CASE Handshake
  BY <1>3 DEF Handshake, Fails, MovesOn, PeerAccepted
<1>4. CASE ReadsChallenge
  BY <1>4 DEF ReadsChallenge, Fails, MovesOn, ReadFails, Incoming, Passcodes
<1>5. CASE ReadsResult
  BY <1>5 DEF ReadsResult, Fails, MovesOn, ReadFails, Incoming
<1>6. CASE SessionEnds
  BY <1>6 DEF SessionEnds
<1>7. CASE ClientReturns
  BY <1>7 DEF ClientReturns
<1>8. ASSUME NEW i \in Attempts, ServerHandshake(i) PROVE Exchange'
  <2>1. toClient[i] = << >> /\ UNCHANGED <<setup, attempt, client, toServer>>
    BY <1>8 DEF ServerHandshake
  <2>2. CASE Refuse(i) /\ UNCHANGED toClient
    BY <2>1, <2>2, RefuseFact, NotLetIn
  <2>3. CASE /\ toClient' = [toClient EXCEPT ![i] = <<"auth_required">>]
             /\ handler' = [handler EXCEPT ![i] = "response"]
             /\ setup.totp /\ setup.authorized
    BY <2>1, <2>3, NotLetIn
  <2>4. CASE /\ toClient' = [toClient EXCEPT ![i] = <<"auth_ok">>]
             /\ handler' = [handler EXCEPT ![i] = "serving"]
    BY <2>1, <2>4
  <2> QED
    BY <1>8, <2>2, <2>3, <2>4 DEF ServerHandshake, Authorized
<1>9. ASSUME NEW i \in Attempts, ServerVerdict(i) PROVE Exchange'
  <2>1. toClient[i] = <<"auth_required">> /\ UNCHANGED <<setup, attempt, client, toServer>>
    BY <1>9 DEF ServerVerdict
  <2>2. ASSUME Refuse(i), toClient'[i] \notin LetIn,
               \A j \in Attempts \ {i} : toClient'[j] = toClient[j]
        PROVE  Exchange'
    <3>1. handler'[i] = "refused" /\ \A j \in Attempts \ {i} : handler'[j] = handler[j]
      BY <2>2, RefuseFact
    <3> QED
      BY <2>1, <2>2, <3>1
  <2>3. CASE Refuse(i) /\ UNCHANGED toClient
    BY <2>1, <2>2, <2>3, NotLetIn, Zenon
  <2>4. ASSUME toClient' = [toClient EXCEPT ![i] = Append(@, "error")], Refuse(i)
        PROVE  Exchange'
    <3>1. toClient'[i] = <<"auth_required", "error">>
      BY <2>1, <2>4, VerdictFact
    <3>2. \A j \in Attempts \ {i} : toClient'[j] = toClient[j]
      BY <2>4
    <3>3. toClient'[i] \notin LetIn
      BY <3>1, NotLetIn
    <3> QED
      BY <2>2, <2>4, <3>2, <3>3
  <2>5. ASSUME toClient' = [toClient EXCEPT ![i] = Append(@, "ok")],
               handler' = [handler EXCEPT ![i] = "serving"]
        PROVE  Exchange'
    BY <2>1, <2>5
  <2> QED
    BY <1>9, <2>3, <2>4, <2>5 DEF ServerVerdict
<1>10. ASSUME NEW i \in Attempts, Done(i) PROVE Exchange'
  BY <1>10 DEF Done
<1>11. ASSUME NEW i \in Attempts, QueueDropped(i) PROVE Exchange'
  BY <1>11 DEF QueueDropped, Refuse
<1>12. ASSUME NEW i \in Attempts, Breaks(i) PROVE Exchange'
  BY <1>12 DEF Breaks
<1>13. CASE Finished \/ UNCHANGED vars
  BY <1>13 DEF Finished, vars
<1> HIDE DEF IInv, TypeOK, Fresh, Untouched, Exchange, wires, Attempts
<1> QED
  BY <1>1, <1>2, <1>3, <1>4, <1>5, <1>6, <1>7, <1>8, <1>9, <1>10, <1>11, <1>12, <1>13
  DEF Next, RunClient, Server, ServerDone

(* The Device ID is checked before anything is sent. *)
LEMMA PeerStep ==
  ASSUME IInv, [Next]_vars
  PROVE  OnlyToThePeer'
<1> USE SessionAssumption DEF IInv, TypeOK, Reached, OnlyToThePeer, wires, Attempts
<1>1. CASE Lookup
  BY <1>1 DEF Lookup
<1>2. CASE Dial
  <2>1. UNCHANGED <<secured, toServer>> /\ Untouched(attempt)
    BY <1>2 DEF Dial, Fresh
  <2>2. \/ UNCHANGED peer
        \/ \E p \in {"other", "server"} : peer' = [peer EXCEPT ![attempt] = p]
    BY <1>2, DialCases
  <2> QED
    BY <2>1, <2>2, Zenon DEF Untouched
<1>3. CASE Handshake
  BY <1>3 DEF Handshake, Fails, MovesOn, PeerAccepted
<1>4. CASE ReadsChallenge
  BY <1>4 DEF ReadsChallenge, Fails, MovesOn, ReadFails, Incoming, Passcodes
<1>5. CASE ReadsResult
  BY <1>5 DEF ReadsResult, Fails, MovesOn, ReadFails, Incoming
<1>6. CASE SessionEnds
  BY <1>6 DEF SessionEnds
<1>7. CASE ClientReturns
  BY <1>7 DEF ClientReturns
<1>8. ASSUME NEW i \in Attempts, ServerHandshake(i) PROVE OnlyToThePeer'
  BY <1>8 DEF ServerHandshake, Refuse, Authorized
<1>9. ASSUME NEW i \in Attempts, ServerVerdict(i) PROVE OnlyToThePeer'
  BY <1>9 DEF ServerVerdict, Refuse, Verdicts
<1>10. ASSUME NEW i \in Attempts, Done(i) PROVE OnlyToThePeer'
  BY <1>10 DEF Done
<1>11. ASSUME NEW i \in Attempts, QueueDropped(i) PROVE OnlyToThePeer'
  BY <1>11 DEF QueueDropped, Refuse
<1>12. ASSUME NEW i \in Attempts, Breaks(i) PROVE OnlyToThePeer'
  BY <1>12 DEF Breaks
<1>13. CASE Finished \/ UNCHANGED vars
  BY <1>13 DEF Finished, vars
<1> HIDE DEF IInv, TypeOK, Reached, OnlyToThePeer, wires, Attempts
<1> QED
  BY <1>1, <1>2, <1>3, <1>4, <1>5, <1>6, <1>7, <1>8, <1>9, <1>10, <1>11, <1>12, <1>13
  DEF Next, RunClient, Server, ServerDone

(* Serving follows the checks, the session follows serving. *)
LEMMA AgreedStep ==
  ASSUME IInv, [Next]_vars
  PROVE  SessionAgreed'
<1> USE SessionAssumption DEF IInv, TypeOK, Fresh, Untouched, Exchange, LetIn, SessionAgreed, wires, Attempts
<1>1. CASE Lookup
  BY <1>1, Zenon DEF Lookup
<1>2. CASE Dial
  BY <1>2 DEF Dial, Fails, MovesOn, Accepts
<1>3. CASE Handshake
  BY <1>3 DEF Handshake, Fails, MovesOn, PeerAccepted
<1>4. CASE ReadsChallenge
  <2>1. UNCHANGED <<setup, handler>> /\ toServer[attempt] = << >>
    BY <1>4 DEF ReadsChallenge
  <2>2. CASE UNCHANGED toServer /\ client' # "established"
    BY <2>1, <2>2
  <2>3. CASE UNCHANGED <<attempt, toServer>> /\ Incoming = <<"auth_ok">>
    BY <2>1, <2>3, Zenon DEF Incoming, LetIn
  <2>4. ASSUME NEW c, toServer' = [toServer EXCEPT ![attempt] = <<c>>], client' = "result"
        PROVE  SessionAgreed'
    <3>1. ~(setup.totp /\ handler[attempt] \in {"serving", "done"})
      <4>1. << >> # <<"good">>
        OBVIOUS
      <4> QED
        BY <2>1, <4>1, Zenon
    <3> QED
      BY <2>1, <2>4, <3>1
  <2>5. (\E eof \in BOOLEAN : Fails("auth", eof)) => client' # "established"
    BY FailsFact
  <2> QED
    BY <1>4, <2>2, <2>3, <2>4, <2>5, ReadFailsCases, Zenon DEF ReadsChallenge
<1>5. CASE ReadsResult
  BY <1>5, Zenon DEF ReadsResult, Fails, MovesOn, ReadFails, Incoming
<1>6. CASE SessionEnds
  BY <1>6 DEF SessionEnds
<1>7. CASE ClientReturns
  BY <1>7 DEF ClientReturns
<1>8. ASSUME NEW i \in Attempts, ServerHandshake(i) PROVE SessionAgreed'
  <2>1. UNCHANGED <<setup, attempt, client, toServer>> /\ handler[i] = "handshake"
    BY <1>8 DEF ServerHandshake
  <2>2. PICK h : /\ handler' = [handler EXCEPT ![i] = h]
                 /\ h \in {"serving", "done"} => setup.authorized /\ ~setup.totp
    BY <1>8 DEF ServerHandshake, Refuse, Authorized
  <2> QED
    BY <2>1, <2>2
<1>9. ASSUME NEW i \in Attempts, ServerVerdict(i) PROVE SessionAgreed'
  <2>1. /\ UNCHANGED <<setup, attempt, client, toServer>>
        /\ handler[i] = "response" /\ setup.authorized
    BY <1>9 DEF ServerVerdict
  <2>2. PICK h : /\ handler' = [handler EXCEPT ![i] = h]
                 /\ h \in {"serving", "done"} =>
                      toServer[i] # << >> /\ Head(toServer[i]) = "good"
    BY <1>9 DEF ServerVerdict, Refuse, Verdicts
  <2>3. toServer[i] # << >> /\ Head(toServer[i]) = "good" => toServer[i] = <<"good">>
    OBVIOUS
  <2> QED
    BY <2>1, <2>2, <2>3
<1>10. ASSUME NEW i \in Attempts, Done(i) PROVE SessionAgreed'
  BY <1>10 DEF Done
<1>11. ASSUME NEW i \in Attempts, QueueDropped(i) PROVE SessionAgreed'
  BY <1>11 DEF QueueDropped, Refuse
<1>12. ASSUME NEW i \in Attempts, Breaks(i) PROVE SessionAgreed'
  BY <1>12 DEF Breaks
<1>13. CASE Finished \/ UNCHANGED vars
  BY <1>13 DEF Finished, vars
<1> HIDE DEF IInv, TypeOK, Fresh, Untouched, Exchange, LetIn, SessionAgreed, wires,
             Attempts
<1> QED
  BY <1>1, <1>2, <1>3, <1>4, <1>5, <1>6, <1>7, <1>8, <1>9, <1>10, <1>11, <1>12, <1>13
  DEF Next, RunClient, Server, ServerDone

(* What the two steps of a handler before it serves leave behind: its new  *)
(* state and the messages to its client.                                   *)
Handles(i, h, t) ==
  /\ UNCHANGED <<setup, attempt, client, peer, secured, toServer, result>>
  /\ handler' = [handler EXCEPT ![i] = h] /\ toClient' = [toClient EXCEPT ![i] = t]
  /\ h = "refused" => gone' = [gone EXCEPT ![i] = @ \cup {"server"}]
  /\ h # "refused" => UNCHANGED gone

LEMMA HandshakeCases ==
  ASSUME IInv, NEW i \in Attempts, ServerHandshake(i)
  PROVE  /\ handler[i] = "handshake" /\ toClient[i] = << >>
         /\ \E h \in {"refused", "response", "serving"}, t \in Replies :
              /\ Handles(i, h, t)
              /\ t \in {<< >>, <<"auth_ok">>, <<"auth_required">>}
              /\ h = "serving" => t = <<"auth_ok">>
<1>1. /\ handler[i] = "handshake" /\ toClient[i] = << >>
      /\ UNCHANGED <<setup, attempt, client, peer, secured, toServer, result>>
      /\ toClient = [toClient EXCEPT ![i] = << >>]
  BY DEF IInv, TypeOK, Exchange, ServerHandshake
<1>2. << >> \in Replies /\ <<"auth_required">> \in Replies /\ <<"auth_ok">> \in Replies
  BY DEF Replies
<1>3. CASE Refuse(i) /\ UNCHANGED toClient
  <2>1. Handles(i, "refused", << >>)
    BY <1>1, <1>3 DEF Handles, Refuse
  <2> QED
    BY <1>1, <1>2, <2>1
<1>4. CASE /\ toClient' = [toClient EXCEPT ![i] = <<"auth_required">>]
           /\ handler' = [handler EXCEPT ![i] = "response"] /\ UNCHANGED gone
  <2>1. Handles(i, "response", <<"auth_required">>)
    BY <1>1, <1>4 DEF Handles
  <2> QED
    BY <1>1, <1>2, <2>1
<1>5. CASE /\ toClient' = [toClient EXCEPT ![i] = <<"auth_ok">>]
           /\ handler' = [handler EXCEPT ![i] = "serving"] /\ UNCHANGED gone
  <2>1. Handles(i, "serving", <<"auth_ok">>)
    BY <1>1, <1>5 DEF Handles
  <2> QED
    BY <1>1, <1>2, <2>1
<1> QED
  BY <1>3, <1>4, <1>5 DEF ServerHandshake

LEMMA VerdictCases ==
  ASSUME IInv, NEW i \in Attempts, ServerVerdict(i)
  PROVE  /\ handler[i] = "response" /\ toClient[i] = <<"auth_required">>
         /\ \E h \in {"refused", "serving"}, t \in Replies :
              /\ Handles(i, h, t)
              /\ t \in {<<"auth_required">>, <<"auth_required", "ok">>, <<"auth_required", "error">>}
              /\ t # <<"auth_required">> => toServer[i] # << >>
              /\ h = "serving" => t = <<"auth_required", "ok">>
<1>1. /\ handler[i] = "response" /\ toClient[i] = <<"auth_required">>
      /\ UNCHANGED <<setup, attempt, client, peer, secured, toServer, result>>
      /\ toClient = [toClient EXCEPT ![i] = <<"auth_required">>]
  BY Zenon DEF ServerVerdict, IInv, TypeOK, Exchange
<1>2. \A v \in {"ok", "error"} : <<"auth_required", v>> \in Replies
  BY DEF Replies
<1>3. <<"auth_required">> \in Replies
  BY DEF Replies
<1>4. CASE Refuse(i) /\ UNCHANGED toClient
  <2>1. Handles(i, "refused", <<"auth_required">>)
    BY <1>1, <1>4 DEF Handles, Refuse
  <2> QED
    BY <1>1, <1>3, <2>1
<1>5. ASSUME toClient' = [toClient EXCEPT ![i] = Append(@, "error")], Refuse(i), toServer[i] # << >>
      PROVE  Handles(i, "refused", <<"auth_required", "error">>)
  BY <1>1, <1>5, VerdictFact, Zenon DEF Handles, Refuse
<1>6. ASSUME toClient' = [toClient EXCEPT ![i] = Append(@, "ok")], toServer[i] # << >>,
             handler' = [handler EXCEPT ![i] = "serving"], UNCHANGED gone
      PROVE  Handles(i, "serving", <<"auth_required", "ok">>)
  BY <1>1, <1>6, VerdictFact, Zenon DEF Handles
<1> QED
  BY <1>1, <1>2, <1>4, <1>5, <1>6 DEF ServerVerdict

LEMMA NoVerdict ==
  /\ << >> \notin {<<"auth_required", "ok">>, <<"auth_required", "error">>}
  /\ <<"auth_ok">> \notin {<<"auth_required", "ok">>, <<"auth_required", "error">>}
  /\ <<"auth_required">> \notin {<<"auth_required", "ok">>, <<"auth_required", "error">>}
<1>1. << >> \notin {<<"auth_required", "ok">>, <<"auth_required", "error">>}
  OBVIOUS
<1>2. <<"auth_ok">> \notin {<<"auth_required", "ok">>, <<"auth_required", "error">>}
  OBVIOUS
<1>3. <<"auth_required">> \notin {<<"auth_required", "ok">>, <<"auth_required", "error">>}
  OBVIOUS
<1> QED
  BY <1>1, <1>2, <1>3

(* Another attempt is not concerned. *)
LEMMA KeptOthers ==
  ASSUME NEW i, NEW k, Kept(k), k # i, UNCHANGED <<peer, secured, toServer>>,
         handler'[k] = handler[k], gone'[k] = gone[k], toClient'[k] = toClient[k]
  PROVE  Kept(k)'
BY DEF Kept, LetIn

(* What an attempt has come to stays with it. *)
LEMMA KeptStep ==
  ASSUME IInv, [Next]_vars
  PROVE  (\A k \in Attempts : Kept(k))'
<1> USE SessionAssumption DEF IInv, Onward, TypeOK, Fresh, Untouched, Reached, Exchange, Kept, wires, Attempts
<1>1. CASE Lookup
  BY <1>1 DEF Lookup
<1>2. CASE Dial
  BY <1>2 DEF Dial, Fails, MovesOn, Accepts
<1>3. CASE Handshake
  BY <1>3 DEF Handshake, Fails, MovesOn, PeerAccepted
<1>4. CASE ReadsChallenge
  BY <1>4 DEF ReadsChallenge, Fails, MovesOn, ReadFails, Incoming, Passcodes
<1>5. CASE ReadsResult
  BY <1>5 DEF ReadsResult, Fails, MovesOn, ReadFails, Incoming
<1>6. CASE SessionEnds
  BY <1>6 DEF SessionEnds
<1>7. CASE ClientReturns
  BY <1>7 DEF ClientReturns
<1>8. ASSUME NEW i \in Attempts, ServerHandshake(i) PROVE (\A k \in Attempts : Kept(k))'
  <2> HIDE DEF IInv, Onward, TypeOK, Fresh, Untouched, Reached, Exchange, Kept, wires, Attempts
  <2>1. handler[i] = "handshake"
    BY <1>8, HandshakeCases
  <2>2. PICK h \in {"refused", "response", "serving"}, t \in Replies :
          /\ Handles(i, h, t)
          /\ t \in {<< >>, <<"auth_ok">>, <<"auth_required">>}
          /\ h = "serving" => t = <<"auth_ok">>
    BY <1>8, HandshakeCases
  <2>3. ASSUME NEW k \in Attempts, k # i PROVE Kept(k)'
    BY <2>2, <2>3, KeptOthers, Zenon DEF Handles, IInv, Onward, TypeOK
  <2>4. Kept(i)'
    <3>1. handler'[i] = h /\ toClient'[i] = t /\ (h = "refused" => "server" \in gone'[i])
      BY <2>2 DEF Handles, IInv, TypeOK
    <3>2. Kept(i) /\ UNCHANGED <<peer, secured, toServer>>
      BY <2>2 DEF Handles, IInv, Onward
    <3>3. t \notin {<<"auth_required", "ok">>, <<"auth_required", "error">>}
      BY <2>2, NoVerdict
    <3>4. h = "serving" => t \in LetIn
      BY <2>2 DEF LetIn
    <3> QED
      BY <2>1, <2>2, <3>1, <3>2, <3>3, <3>4 DEF Kept, LetIn
  <2> QED
    BY <2>3, <2>4
<1>9. ASSUME NEW i \in Attempts, ServerVerdict(i) PROVE (\A k \in Attempts : Kept(k))'
  <2> HIDE DEF IInv, Onward, TypeOK, Fresh, Untouched, Reached, Exchange, Kept, wires, Attempts
  <2>1. handler[i] = "response"
    BY <1>9, VerdictCases
  <2>2. PICK h \in {"refused", "serving"}, t \in Replies :
          /\ Handles(i, h, t)
          /\ t # <<"auth_required">> => toServer[i] # << >>
          /\ h = "serving" => t = <<"auth_required", "ok">>
    BY <1>9, VerdictCases
  <2>3. ASSUME NEW k \in Attempts, k # i PROVE Kept(k)'
    BY <2>2, <2>3, KeptOthers, Zenon DEF Handles, IInv, Onward, TypeOK
  <2>4. Kept(i)'
    <3>1. handler'[i] = h /\ toClient'[i] = t /\ (h = "refused" => "server" \in gone'[i])
      BY <2>2 DEF Handles, IInv, TypeOK
    <3>2. Kept(i) /\ UNCHANGED <<peer, secured, toServer>>
      BY <2>2 DEF Handles, IInv, Onward
    <3>3. toServer[i] = << >> => t \notin {<<"auth_required", "ok">>, <<"auth_required", "error">>}
      BY <2>2, NoVerdict
    <3>4. h = "serving" => t \in LetIn
      BY <2>2 DEF LetIn
    <3> QED
      BY <2>1, <2>2, <3>1, <3>2, <3>3, <3>4 DEF Kept, LetIn
  <2> QED
    BY <2>3, <2>4
<1>10. ASSUME NEW i \in Attempts, Done(i) PROVE (\A k \in Attempts : Kept(k))'
  BY <1>10 DEF Done
<1>11. ASSUME NEW i \in Attempts, QueueDropped(i) PROVE (\A k \in Attempts : Kept(k))'
  BY <1>11 DEF QueueDropped, Refuse
<1>12. ASSUME NEW i \in Attempts, Breaks(i) PROVE (\A k \in Attempts : Kept(k))'
  BY <1>12 DEF Breaks
<1>13. CASE Finished \/ UNCHANGED vars
  BY <1>13 DEF Finished, vars
<1> HIDE DEF IInv, Onward, TypeOK, Fresh, Untouched, Reached, Exchange, Kept, wires, Attempts
<1> QED
  BY <1>1, <1>2, <1>3, <1>4, <1>5, <1>6, <1>7, <1>8, <1>9, <1>10, <1>11, <1>12, <1>13
  DEF Next, RunClient, Server, ServerDone

(* An attempt is given up by closing its connection. *)
LEMMA ClosesStep ==
  ASSUME IInv, [Next]_vars
  PROVE  ClosesGivenUp'
<1> USE SessionAssumption DEF IInv, Onward, TypeOK, Fresh, Untouched, ClosesGivenUp, GivenUp, wires, Attempts
<1>1. CASE Lookup
  BY <1>1 DEF Lookup
<1>2. CASE Dial
  BY <1>2 DEF Dial, Fails, MovesOn, Accepts
<1>3. CASE Handshake
  BY <1>3 DEF Handshake, Fails, MovesOn, PeerAccepted
<1>4. CASE ReadsChallenge
  BY <1>4 DEF ReadsChallenge, Fails, MovesOn, ReadFails, Incoming, Passcodes
<1>5. CASE ReadsResult
  BY <1>5 DEF ReadsResult, Fails, MovesOn, ReadFails, Incoming
<1>6. CASE SessionEnds
  BY <1>6 DEF SessionEnds
<1>7. CASE ClientReturns
  BY <1>7 DEF ClientReturns
<1>8. ASSUME NEW i \in Attempts, ServerHandshake(i) PROVE ClosesGivenUp'
  BY <1>8 DEF ServerHandshake, Refuse, Authorized
<1>9. ASSUME NEW i \in Attempts, ServerVerdict(i) PROVE ClosesGivenUp'
  <2>1. UNCHANGED <<attempt, client, peer>>
    BY <1>9 DEF ServerVerdict
  <2>2. UNCHANGED gone \/ gone' = [gone EXCEPT ![i] = @ \cup {"server"}]
    BY <1>9, VerdictCases, Zenon DEF Handles
  <2> QED
    BY <2>1, <2>2
<1>10. ASSUME NEW i \in Attempts, Done(i) PROVE ClosesGivenUp'
  BY <1>10 DEF Done
<1>11. ASSUME NEW i \in Attempts, QueueDropped(i) PROVE ClosesGivenUp'
  BY <1>11 DEF QueueDropped, Refuse
<1>12. ASSUME NEW i \in Attempts, Breaks(i) PROVE ClosesGivenUp'
  BY <1>12 DEF Breaks
<1>13. CASE Finished \/ UNCHANGED vars
  BY <1>13 DEF Finished, vars
<1> HIDE DEF IInv, Onward, TypeOK, Fresh, Untouched, ClosesGivenUp, GivenUp, wires, Attempts
<1> QED
  BY <1>1, <1>2, <1>3, <1>4, <1>5, <1>6, <1>7, <1>8, <1>9, <1>10, <1>11, <1>12, <1>13
  DEF Next, RunClient, Server, ServerDone

(* Only later attempts are queued. *)
LEMMA OrderStep ==
  ASSUME IInv, [Next]_vars
  PROVE  QueueOrder'
<1> USE SessionAssumption DEF IInv, Onward, TypeOK, Fresh, Untouched, Live, Unused, QueueOrder, wires, Attempts
<1>1. CASE Lookup
  BY <1>1 DEF Lookup
<1>2. CASE Dial
  BY <1>2 DEF Dial, Fails, MovesOn, Accepts
<1>3. CASE Handshake
  BY <1>3 DEF Handshake, Fails, MovesOn, PeerAccepted
<1>4. CASE ReadsChallenge
  BY <1>4 DEF ReadsChallenge, Fails, MovesOn, ReadFails, Incoming, Passcodes
<1>5. CASE ReadsResult
  BY <1>5 DEF ReadsResult, Fails, MovesOn, ReadFails, Incoming
<1>6. CASE SessionEnds
  BY <1>6 DEF SessionEnds
<1>7. CASE ClientReturns
  BY <1>7 DEF ClientReturns
<1>8. ASSUME NEW i \in Attempts, ServerHandshake(i) PROVE QueueOrder'
  BY <1>8 DEF ServerHandshake, Refuse, Authorized
<1>9. ASSUME NEW i \in Attempts, ServerVerdict(i) PROVE QueueOrder'
  BY <1>9 DEF ServerVerdict, Refuse, Verdicts
<1>10. ASSUME NEW i \in Attempts, Done(i) PROVE QueueOrder'
  BY <1>10 DEF Done
<1>11. ASSUME NEW i \in Attempts, QueueDropped(i) PROVE QueueOrder'
  BY <1>11 DEF QueueDropped, Refuse
<1>12. ASSUME NEW i \in Attempts, Breaks(i) PROVE QueueOrder'
  BY <1>12 DEF Breaks
<1>13. CASE Finished \/ UNCHANGED vars
  BY <1>13 DEF Finished, vars
<1> HIDE DEF IInv, Onward, TypeOK, Fresh, Untouched, Live, Unused, QueueOrder, wires, Attempts
<1> QED
  BY <1>1, <1>2, <1>3, <1>4, <1>5, <1>6, <1>7, <1>8, <1>9, <1>10, <1>11, <1>12, <1>13
  DEF Next, RunClient, Server, ServerDone

(* The client waits for an answer to what it sent. *)
LEMMA WaitsStep ==
  ASSUME IInv, [Next]_vars
  PROVE  Waits'
<1> USE SessionAssumption DEF IInv, Onward, TypeOK, Exchange, Waits, wires, Attempts
<1>1. CASE Lookup
  BY <1>1, Zenon DEF Lookup
<1>2. CASE Dial
  BY <1>2 DEF Dial, Fails, MovesOn, Accepts
<1>3. CASE Handshake
  BY <1>3 DEF Handshake, Fails, MovesOn, PeerAccepted
<1>4. CASE ReadsChallenge
  <2> HIDE DEF IInv, Onward, TypeOK, Exchange, Waits, wires, Attempts
  <2>1. UNCHANGED <<peer, result, toClient>> /\ result = "pending"
    BY <1>4 DEF ReadsChallenge, IInv, Onward, Waits
  <2>2. client' # "handshake"
    BY <1>4, FailsFact, ReadFailsCases, Zenon DEF ReadsChallenge, IInv
  <2>3. CASE client' # "result"
    BY <2>1, <2>2, <2>3 DEF Waits
  <2>4. CASE client' = "result"
    <3>1. PICK c : /\ toServer' = [toServer EXCEPT ![attempt] = <<c>>]
                   /\ Incoming = <<"auth_required">> /\ attempt' = attempt
      BY <1>4, <2>4, FailsFact, ReadFailsCases, Zenon DEF ReadsChallenge, IInv
    <3>2. toServer'[attempt] = <<c>> /\ <<c>> # << >>
      BY <3>1 DEF IInv, TypeOK
    <3> QED
      BY <2>1, <2>2, <2>4, <3>1, <3>2 DEF Waits, Incoming
  <2> QED
    BY <2>3, <2>4
<1>5. CASE ReadsResult
  BY <1>5 DEF ReadsResult, Fails, MovesOn, ReadFails, Incoming
<1>6. CASE SessionEnds
  BY <1>6 DEF SessionEnds
<1>7. CASE ClientReturns
  BY <1>7 DEF ClientReturns
<1>8. ASSUME NEW i \in Attempts, ServerHandshake(i) PROVE Waits'
  <2> HIDE DEF IInv, Onward, TypeOK, Exchange, Waits, wires, Attempts
  <2>1. PICK h \in {"refused", "response", "serving"}, t \in Replies : Handles(i, h, t)
    BY <1>8, HandshakeCases
  <2>2. Waits /\ toClient[i] = << >>
    BY <1>8, HandshakeCases DEF IInv, Onward
  <2>3. client = "result" => toClient'[attempt] = toClient[attempt]
    <3>1. client = "result" => i # attempt
      BY <2>2 DEF Waits
    <3> QED
      BY <2>1, <3>1 DEF Handles, IInv, TypeOK
  <2> QED
    BY <2>1, <2>2, <2>3 DEF Handles, Waits
<1>9. ASSUME NEW i \in Attempts, ServerVerdict(i) PROVE Waits'
  <2> HIDE DEF IInv, Onward, TypeOK, Exchange, Waits, wires, Attempts
  <2>1. PICK h \in {"refused", "serving"}, t \in Replies :
          /\ Handles(i, h, t)
          /\ t \in {<<"auth_required">>, <<"auth_required", "ok">>, <<"auth_required", "error">>}
    BY <1>9, VerdictCases
  <2>2. Waits /\ toClient'[attempt] \in {t, toClient[attempt]}
    BY <2>1 DEF Handles, IInv, Onward, TypeOK
  <2> QED
    BY <2>1, <2>2 DEF Handles, Waits
<1>10. ASSUME NEW i \in Attempts, Done(i) PROVE Waits'
  BY <1>10 DEF Done
<1>11. ASSUME NEW i \in Attempts, QueueDropped(i) PROVE Waits'
  BY <1>11 DEF QueueDropped, Refuse
<1>12. ASSUME NEW i \in Attempts, Breaks(i) PROVE Waits'
  BY <1>12 DEF Breaks
<1>13. CASE Finished \/ UNCHANGED vars
  BY <1>13 DEF Finished, vars
<1> HIDE DEF IInv, Onward, TypeOK, Exchange, Waits, wires, Attempts
<1> QED
  BY <1>1, <1>2, <1>3, <1>4, <1>5, <1>6, <1>7, <1>8, <1>9, <1>10, <1>11, <1>12, <1>13
  DEF Next, RunClient, Server, ServerDone

LEMMA Inductive == Spec => []IInv
<1>1. IInv /\ [Next]_vars => IInv'
  BY TypeStep, FreshStep, ReachedStep, ExchangeStep, PeerStep, AgreedStep,
     KeptStep, ClosesStep, OrderStep, WaitsStep DEF IInv, Onward
<1> QED
  BY <1>1, InitInv, PTL DEF Spec

-----------------------------------------------------------------------------
(* How a step of a handler shows in Acceptance. *)
PlaceAs(h) ==
  CASE h = "none" -> "new"
    [] h = "queued" -> "queued"
    [] h \in {"handshake", "response", "serving"} -> "handled"
    [] OTHER -> "over"

LEMMA PlaceMoves ==
  ASSUME IInv, NEW i \in Attempts, NEW h, h # "none", handler' = [handler EXCEPT ![i] = h]
  PROVE  /\ Places' = [Places EXCEPT ![i] = PlaceAs(h)]
         /\ Places[i] = PlaceAs(handler[i])
         /\ ~Unused'
<1>1. \A j \in Attempts : handler'[j] = IF j = i THEN h ELSE handler[j]
  BY DEF IInv, TypeOK
<1>2. \A j \in Attempts : Places[j] = PlaceAs(handler[j]) /\ Places'[j] = PlaceAs(handler'[j])
  BY DEF Places, PlaceOf, PlaceAs, Live
<1>3. \A j \in Attempts : Places'[j] = IF j = i THEN PlaceAs(h) ELSE Places[j]
  BY <1>1, <1>2
<1>4. Places' = [j \in Attempts |-> Places'[j]] /\ Places = [j \in Attempts |-> Places[j]]
  BY DEF Places
<1>5. ~Unused'
  BY <1>1 DEF Unused
<1> QED
  BY <1>2, <1>3, <1>4, <1>5

LEMMA PromiseInit == Init => Promise!Init
<1> SUFFICES ASSUME Init PROVE Promise!Init
  OBVIOUS
<1>1. setup.oneShot \in BOOLEAN
  BY DEF Init, Setups
<1>2. Unused
  BY DEF Init, Unused
<1>3. Places = [i \in Attempts |-> "new"]
  <2>1. \A i \in Attempts : handler[i] = "none"
    BY DEF Init
  <2>2. \A i \in Attempts : PlaceOf(i) = "new"
    BY <2>1 DEF PlaceOf, Live
  <2> QED
    BY <2>2 DEF Places
<1> QED
  BY <1>1, <1>2, <1>3 DEF Promise!Init

(* The handler of a connection that is being handled goes on or ends. *)
LEMMA HandlerMoves ==
  ASSUME IInv, NEW i \in Attempts, Live(i), setup' = setup,
         NEW h \in {"response", "serving", "refused", "done"},
         handler' = [handler EXCEPT ![i] = h]
  PROVE  Promise!End(i) \/ UNCHANGED Promise!vars
<1>1. /\ Places' = [Places EXCEPT ![i] = PlaceAs(h)] /\ ~Unused'
      /\ Places[i] = PlaceAs(handler[i])
  BY PlaceMoves, Zenon
<1>2. Places[i] = "handled" /\ ~Unused
  BY <1>1 DEF PlaceAs, Live, Unused
<1>3. CASE h \in {"refused", "done"}
  <2>1. PlaceAs(h) = "over"
    BY <1>3 DEF PlaceAs
  <2> QED
    BY <1>1, <1>2, <2>1 DEF Promise!End
<1>4. CASE h \in {"response", "serving"}
  <2>1. PlaceAs(h) = "handled"
    BY <1>4 DEF PlaceAs
  <2>2. Places' = Places
    BY <1>1, <1>2, <2>1, Zenon DEF Places
  <2> QED
    BY <1>1, <1>2, <2>2 DEF Promise!vars
<1> QED
  BY <1>3, <1>4

LEMMA PromiseStep ==
  ASSUME IInv, [Next]_vars
  PROVE  [Promise!Next]_(Promise!vars)
<1>1. ASSUME UNCHANGED <<setup, handler>> PROVE UNCHANGED Promise!vars
  <2>1. Places' = Places /\ Unused' = Unused
    BY <1>1 DEF Places, PlaceOf, Live, Unused
  <2> QED
    BY <1>1, <2>1 DEF Promise!vars
<1>2. CASE Lookup \/ Handshake \/ ReadsChallenge \/ ReadsResult \/ SessionEnds
           \/ ClientReturns \/ Finished \/ UNCHANGED vars
  <2>1. UNCHANGED <<setup, handler>>
    BY <1>2, Zenon DEF Lookup, Handshake, ReadsChallenge, ReadsResult, SessionEnds, ClientReturns,
                Finished, vars
  <2> QED
    BY <1>1, <2>1
<1>3. ASSUME NEW i \in Attempts, Breaks(i) PROVE UNCHANGED Promise!vars
  BY <1>1, <1>3 DEF Breaks
<1>4. CASE Dial
  <2>1. attempt \in Attempts /\ setup' = setup /\ handler[attempt] = "none"
    BY <1>4 DEF Dial, IInv, TypeOK, Fresh, Untouched
  <2>2. CASE UNCHANGED handler
    BY <1>1, <2>1, <2>2
  <2>3. CASE Accepts(attempt)
    <3>1. PICK h \in {"handshake", "queued"} :
            /\ handler' = [handler EXCEPT ![attempt] = h]
            /\ h = "handshake" => ~setup.oneShot \/ Unused
            /\ h = "queued" => setup.oneShot /\ ~Unused
      BY <2>3 DEF Accepts, Unused, Live
    <3>2. /\ Places' = [Places EXCEPT ![attempt] = PlaceAs(h)] /\ ~Unused'
          /\ Places[attempt] = PlaceAs(handler[attempt])
      BY <2>1, <3>1, PlaceMoves, Zenon
    <3>3. Places[attempt] = "new"
      BY <2>1, <3>2 DEF PlaceAs
    <3>4. CASE h = "handshake"
      <4>1. PlaceAs(h) = "handled"
        BY <3>4 DEF PlaceAs
      <4>2. Promise!Handle(attempt)
        BY <2>1, <3>1, <3>2, <3>3, <3>4, <4>1, Zenon DEF Promise!Handle
      <4> QED
        BY <2>1, <4>2 DEF Promise!Next
    <3>5. CASE h = "queued"
      <4>1. PlaceAs(h) = "queued"
        BY <3>5 DEF PlaceAs
      <4>2. Promise!Queue(attempt)
        BY <2>1, <3>1, <3>2, <3>3, <3>5, <4>1, Zenon DEF Promise!Queue
      <4> QED
        BY <2>1, <4>2 DEF Promise!Next
    <3> QED
      BY <3>4, <3>5
  <2> QED
    BY <1>4, <2>2, <2>3, Zenon DEF Dial
<1>5. ASSUME NEW i \in Attempts, ServerHandshake(i) \/ ServerVerdict(i) \/ Done(i)
      PROVE  Promise!End(i) \/ UNCHANGED Promise!vars
  <2>1. Live(i) /\ setup' = setup
    BY <1>5 DEF ServerHandshake, ServerVerdict, Done, Live
  <2>2. PICK h \in {"response", "serving", "refused", "done"} :
          handler' = [handler EXCEPT ![i] = h]
    BY <1>5, HandshakeCases, VerdictCases DEF Handles, Done
  <2> QED
    BY <2>1, <2>2, HandlerMoves, Zenon
<1>6. ASSUME NEW i \in Attempts, QueueDropped(i) PROVE Promise!TurnAway(i)
  <2>1. /\ handler[i] = "queued" /\ setup.oneShot /\ setup' = setup
        /\ handler' = [handler EXCEPT ![i] = "refused"]
    BY <1>6 DEF QueueDropped, Refuse, IInv, Onward, QueueOrder
  <2>2. PICK h \in {"refused"} : handler' = [handler EXCEPT ![i] = h]
    BY <2>1
  <2>3. /\ Places' = [Places EXCEPT ![i] = PlaceAs(h)] /\ ~Unused'
        /\ Places[i] = PlaceAs(handler[i])
    BY <2>2, PlaceMoves, Zenon
  <2>4. PlaceAs(h) = "over" /\ Places[i] = "queued" /\ ~Unused
    BY <2>1, <2>3 DEF PlaceAs, Unused
  <2> QED
    BY <2>1, <2>3, <2>4, Zenon DEF Promise!TurnAway
<1> QED
  BY <1>2, <1>3, <1>4, <1>5, <1>6 DEF Next, RunClient, Server, ServerDone, Promise!Next

(* The handler of a connection that was given up notices. *)
LEMMA GivenUpMoves ==
  ASSUME IInv, NEW j \in Attempts, Live(j), GivenUp(j)
  PROVE  ServerCanMove(j)
<1>1. "client" \in gone[j]
  BY DEF IInv, Onward, ClosesGivenUp, Reached, Live
<1>2. ClientLost(j)
  BY <1>1 DEF ClientLost
<1> QED
  BY <1>2 DEF ServerCanMove, Live

LEMMA QueueMoves ==
  ASSUME IInv, NEW i \in Attempts, handler[i] = "queued"
  PROVE  \E j \in Attempts : j <= i /\ ServerCanMove(j)
<1>1. CASE ~\E j \in Attempts : Live(j)
  <2>1. i <= i
    BY SessionAssumption DEF Attempts
  <2> QED
    BY <1>1, <2>1 DEF ServerCanMove
<1>2. ASSUME NEW j \in Attempts, Live(j)
      PROVE  j <= i /\ ServerCanMove(j)
  <2>1. j < i
    BY <1>2 DEF IInv, Onward, QueueOrder
  <2>2. i <= attempt
    BY SessionAssumption DEF IInv, TypeOK, Fresh, Untouched, Attempts
  <2>3. j < attempt /\ j <= i
    BY <2>1, <2>2, SessionAssumption DEF IInv, TypeOK, Attempts
  <2> QED
    BY <1>2, <2>3, GivenUpMoves DEF GivenUp
<1> QED
  BY <1>1, <1>2

LEMMA NotStuck ==
  ASSUME IInv
  PROVE  NobodyStuck
<1>0. attempt \in Attempts
  BY DEF IInv, TypeOK
<1>1. ASSUME result = "pending"
      PROVE  ClientCanMove \/ \E i \in Attempts : ServerCanMove(i)
  <2>1. CASE client \notin {"handshake", "auth", "result"}
    BY <2>1 DEF IInv, TypeOK, ClientCanMove
  <2>2. CASE client = "handshake"
    <3>1. CASE handler[attempt] = "queued"
      BY <1>0, <3>1, QueueMoves
    <3>2. CASE handler[attempt] # "queued"
      BY <2>2, <3>2 DEF ClientCanMove
    <3> QED
      BY <3>1, <3>2
  <2>3. CASE client = "auth"
    <3>1. /\ attempt \in secured /\ toServer[attempt] = << >> /\ Kept(attempt)
          /\ toClient[attempt] \in Replies
      BY <1>0, <2>3 DEF IInv, Onward, TypeOK, Reached, Exchange
    <3>2. toClient[attempt] \in {<< >>, <<"auth_ok">>, <<"auth_required">>}
      BY <3>1 DEF Kept, Replies
    <3>3. CASE toClient[attempt] # << >>
      BY <2>3, <3>2, <3>3 DEF ClientCanMove, Incoming
    <3>4. CASE toClient[attempt] = << >>
      <4>1. toClient[attempt] \notin LetIn /\ toClient[attempt] # <<"auth_required">>
        BY <3>4, NotLetIn
      <4>2. handler[attempt] \in {"handshake", "refused"}
        BY <1>0, <3>1, <4>1 DEF Kept, IInv, TypeOK, Exchange
      <4> QED
        BY <1>0, <2>3, <3>1, <3>4, <4>2 DEF Kept, ClientCanMove, ServerCanMove, Incoming
    <3> QED
      BY <3>3, <3>4
  <2>4. CASE client = "result"
    <3>1. /\ attempt \in secured /\ toServer[attempt] # << >> /\ Kept(attempt)
          /\ toClient[attempt] \in {<<"auth_required">>, <<"auth_required", "ok">>,
                                    <<"auth_required", "error">>}
      BY <1>0, <2>4 DEF IInv, Onward, Reached, Waits
    <3>2. CASE toClient[attempt] # <<"auth_required">>
      BY <2>4, <3>1, <3>2 DEF ClientCanMove, Incoming
    <3>3. CASE toClient[attempt] = <<"auth_required">>
      <4>1. toClient[attempt] \notin LetIn /\ toClient[attempt] # << >>
        BY <3>3, NotLetIn
      <4>2. handler[attempt] \in {"response", "refused"}
        BY <1>0, <3>1, <4>1 DEF Kept, IInv, TypeOK, Exchange
      <4> QED
        BY <1>0, <2>4, <3>1, <3>3, <4>2 DEF Kept, ClientCanMove, ServerCanMove, Incoming
    <3> QED
      BY <3>2, <3>3
  <2> QED
    BY <2>1, <2>2, <2>3, <2>4
<1>2. ASSUME NEW i \in Attempts, handler[i] \notin {"none", "refused", "done"},
             i # attempt \/ result # "pending"
      PROVE  \E j \in Attempts : j <= i /\ ServerCanMove(j)
  <2>1. CASE handler[i] = "queued"
    BY <2>1, QueueMoves
  <2>2. CASE Live(i)
    <3>1. i <= attempt
      BY <1>2, SessionAssumption DEF IInv, TypeOK, Fresh, Untouched, Attempts
    <3>2. GivenUp(i)
      BY <1>2, <3>1, SessionAssumption DEF GivenUp, IInv, Onward, TypeOK, Waits, Attempts
    <3>3. i <= i
      BY SessionAssumption DEF Attempts
    <3> QED
      BY <2>2, <3>2, <3>3, GivenUpMoves
  <2> QED
    BY <1>2, <2>1, <2>2 DEF IInv, TypeOK, Live
<1> QED
  BY <1>1, <1>2 DEF NobodyStuck

-----------------------------------------------------------------------------
(* How far the client is in an attempt, and a handler in its work. *)
ClientStage ==
  [lookup |-> 0, dial |-> 1, handshake |-> 2, auth |-> 3, result |-> 4,
   established |-> 5, finished |-> 6, failed |-> 6]

HandlerStage ==
  [none |-> 0, queued |-> 1, handshake |-> 1, response |-> 2, serving |-> 3,
   refused |-> 4, done |-> 4]

(* No step undoes another one: the client goes to a later attempt or to a  *)
(* later stage of its attempt, a handler to a later stage, a result stands *)
(* and a connection that is closed or broken stays so.  And no step is     *)
(* idle.  Attempts and stages are bounded, so there is no endless run of   *)
(* retries.                                                                *)
Advances ==
  \/ attempt' > attempt
  \/ attempt' = attempt /\ ClientStage[client'] > ClientStage[client]
  \/ result = "pending" /\ result' # "pending"
  \/ \E i \in Attempts : HandlerStage[handler'[i]] > HandlerStage[handler[i]]
  \/ \E i \in Attempts : gone[i] = {} /\ gone'[i] # {}

NeverBack ==
  /\ attempt' >= attempt
  /\ attempt' = attempt => ClientStage[client'] >= ClientStage[client]
  /\ result # "pending" => result' = result
  /\ \A i \in Attempts : HandlerStage[handler'[i]] >= HandlerStage[handler[i]]
  /\ \A i \in Attempts : gone[i] \subseteq gone'[i]

OnlyForward == [][NeverBack /\ Advances]_vars

LEMMA Stages ==
  /\ ClientStage["lookup"] = 0 /\ ClientStage["dial"] = 1 /\ ClientStage["handshake"] = 2
  /\ ClientStage["auth"] = 3 /\ ClientStage["result"] = 4 /\ ClientStage["established"] = 5
  /\ ClientStage["finished"] = 6 /\ ClientStage["failed"] = 6
  /\ HandlerStage["none"] = 0 /\ HandlerStage["queued"] = 1 /\ HandlerStage["handshake"] = 1
  /\ HandlerStage["response"] = 2 /\ HandlerStage["serving"] = 3
  /\ HandlerStage["refused"] = 4 /\ HandlerStage["done"] = 4
BY DEF ClientStage, HandlerStage

LEMMA StageTypes ==
  ASSUME IInv
  PROVE  /\ attempt \in Nat /\ ClientStage[client] \in Nat
         /\ \A i \in Attempts : HandlerStage[handler[i]] \in Nat
<1>1. attempt \in Nat
  BY SessionAssumption DEF IInv, TypeOK, Attempts
<1>2. ClientStage[client] \in Nat
  BY Stages DEF IInv, TypeOK
<1>3. \A i \in Attempts : HandlerStage[handler[i]] \in Nat
  <2>1. \A i \in Attempts : handler[i] \in {"none", "queued", "handshake", "response",
                                           "serving", "refused", "done"}
    <3>1. TypeOK
      BY DEF IInv
    <3> QED
      BY <3>1, Zenon DEF TypeOK
  <2> QED
    BY <2>1, Stages
<1> QED
  BY <1>1, <1>2, <1>3

(* A step of the client alone. *)
LEMMA ClientAdvances ==
  ASSUME IInv, UNCHANGED <<handler, result>>,
         \A i \in Attempts : gone[i] \subseteq gone'[i],
         attempt' \in Nat, ClientStage[client'] \in Nat,
         \/ attempt' > attempt
         \/ attempt' = attempt /\ ClientStage[client'] > ClientStage[client]
  PROVE  NeverBack /\ Advances
BY StageTypes DEF NeverBack, Advances

(* A step of a handler alone. *)
LEMMA HandlerAdvances ==
  ASSUME IInv, NEW i \in Attempts, UNCHANGED <<attempt, client, result>>,
         NEW h \in {"response", "serving", "refused", "done"},
         handler' = [handler EXCEPT ![i] = h], HandlerStage[h] > HandlerStage[handler[i]],
         \A j \in Attempts : gone[j] \subseteq gone'[j]
  PROVE  NeverBack /\ Advances
<1>1. attempt \in Nat
  BY StageTypes
<1>2. ClientStage[client] \in Nat
  BY StageTypes
<1>3. \A j \in Attempts : HandlerStage[handler[j]] \in Nat
  BY StageTypes
<1>4. \A j \in Attempts : handler'[j] = IF j = i THEN h ELSE handler[j]
  BY DEF IInv, TypeOK
<1>5. \A j \in Attempts : HandlerStage[handler'[j]] >= HandlerStage[handler[j]]
  <2>1. HandlerStage[h] \in Nat
    BY Stages
  <2> QED
    BY <1>3, <1>4, <2>1
<1> QED
  BY <1>1, <1>2, <1>4, <1>5 DEF NeverBack, Advances

(* An attempt that fails makes way for the next one or ends the client. *)
LEMMA FailsAdvances ==
  ASSUME IInv, NEW at, NEW eof \in BOOLEAN, Fails(at, eof),
         client \in {"dial", "handshake", "auth", "result"}
  PROVE  /\ \A i \in Attempts : gone[i] \subseteq gone'[i]
         /\ \/ attempt' > attempt
            \/ attempt' = attempt /\ ClientStage[client'] > ClientStage[client]
<1>1. \A i \in Attempts : gone[i] \subseteq gone'[i]
  BY DEF Fails, IInv, TypeOK
<1>2. client' \in {"dial", "failed"} /\ (client' = "dial" => attempt' > attempt)
      /\ (client' = "failed" => attempt' = attempt)
  BY FailsFact DEF IInv
<1>3. ClientStage["failed"] > ClientStage[client]
  BY Stages
<1> QED
  BY <1>1, <1>2, <1>3

LEMMA ForwardStep ==
  ASSUME IInv, Next
  PROVE  (NeverBack /\ Advances) \/ UNCHANGED vars
<1> USE Stages
<1>0. attempt' \in Nat /\ ClientStage[client'] \in Nat
  <2>1. TypeOK'
    BY TypeStep
  <2> QED
    BY <2>1, SessionAssumption DEF TypeOK, Attempts
<1>1. CASE Lookup
  <2>1. UNCHANGED <<handler, result, gone, attempt>>
    BY <1>1 DEF Lookup, wires
  <2>2. client = "lookup" /\ client' \in {"dial", "failed"}
    BY <1>1, Zenon DEF Lookup
  <2>3. ClientStage[client'] > ClientStage[client]
    BY <2>2
  <2> QED
    BY <2>1, <2>3, <1>0, ClientAdvances
<1>2. CASE Dial
  <2>1. UNCHANGED result /\ client = "dial"
    BY <1>2 DEF Dial
  <2>2. CASE UNCHANGED handler
    <3>1. CASE \E at \in {"noAddress", "dial"}, eof \in BOOLEAN : Fails(at, eof)
      BY <2>1, <2>2, <3>1, FailsAdvances, <1>0, ClientAdvances
    <3>2. CASE client' = "handshake" /\ UNCHANGED <<attempt, gone, err>>
      BY <2>1, <2>2, <3>2, <1>0, ClientAdvances
    <3> QED
      BY <1>2, <3>1, <3>2, DialCases
  <2>3. CASE ~UNCHANGED handler
    <3>1. /\ client' = "handshake" /\ UNCHANGED <<attempt, gone>>
          /\ handler[attempt] = "none"
          /\ \E h \in {"handshake", "queued"} : handler' = [handler EXCEPT ![attempt] = h]
      BY <1>2, <2>1, <2>3, DialCases DEF IInv, TypeOK, Fresh, Untouched
    <3>2. \A i \in Attempts : HandlerStage[handler'[i]] >= HandlerStage[handler[i]]
      <4>1. \A i \in Attempts : HandlerStage[handler[i]] \in Nat
        BY StageTypes
      <4>2. \A i \in Attempts : handler'[i] = handler[i]
                               \/ (handler[i] = "none" /\ handler'[i] \in {"handshake", "queued"})
        BY <3>1 DEF IInv, TypeOK
      <4> QED
        BY <4>1, <4>2
    <3>3. ClientStage[client'] > ClientStage[client] /\ ClientStage[client'] >= ClientStage[client]
      BY <2>1, <3>1
    <3>4. attempt' >= attempt
      BY <3>1, SessionAssumption DEF IInv, TypeOK, Attempts
    <3> QED
      BY <2>1, <3>1, <3>2, <3>3, <3>4 DEF NeverBack, Advances
  <2> QED
    BY <2>2, <2>3
<1>3. CASE Handshake
  <2>1. UNCHANGED <<handler, result>> /\ client = "handshake"
    BY <1>3 DEF Handshake
  <2>2. \/ \E at \in {"handshake", "mismatch"}, eof \in BOOLEAN : Fails(at, eof)
        \/ client' = "auth" /\ UNCHANGED <<attempt, gone, err>>
    BY <1>3, Zenon DEF Handshake
  <2> QED
    BY <2>1, <2>2, FailsAdvances, <1>0, ClientAdvances
<1>4. CASE ReadsChallenge
  <2>1. UNCHANGED <<handler, result>> /\ client = "auth"
    BY <1>4 DEF ReadsChallenge
  <2>2. \/ \E eof \in BOOLEAN : Fails("auth", eof)
        \/ client' \in {"established", "result"} /\ UNCHANGED <<attempt, gone, err>>
    BY <1>4, ReadFailsCases, Zenon DEF ReadsChallenge
  <2> QED
    BY <2>1, <2>2, FailsAdvances, <1>0, ClientAdvances
<1>5. CASE ReadsResult
  <2>1. UNCHANGED <<handler, result>> /\ client = "result"
    BY <1>5 DEF ReadsResult
  <2>2. \/ \E eof \in BOOLEAN : Fails("auth", eof)
        \/ client' = "established" /\ UNCHANGED <<attempt, gone, err>>
    BY <1>5, ReadFailsCases, Zenon DEF ReadsResult
  <2> QED
    BY <2>1, <2>2, FailsAdvances, <1>0, ClientAdvances
<1>6. CASE SessionEnds
  <2>1. UNCHANGED <<handler, result, attempt>> /\ client = "established" /\ client' = "finished"
    BY <1>6 DEF SessionEnds
  <2>2. \A i \in Attempts : gone[i] \subseteq gone'[i]
    BY <1>6 DEF SessionEnds, IInv, TypeOK
  <2> QED
    BY <2>1, <2>2, <1>0, ClientAdvances
<1>7. ASSUME UNCHANGED <<attempt, client, handler>>,
             \A i \in Attempts : gone[i] \subseteq gone'[i],
             result # "pending" => result' = result
      PROVE  NeverBack
  BY <1>7, StageTypes DEF NeverBack
<1>8. CASE ClientReturns
  <2>1. UNCHANGED <<attempt, client, handler, gone>> /\ result = "pending" /\ result' # "pending"
    BY <1>8 DEF ClientReturns, ClassifyUnlockError, wires
  <2> QED
    BY <1>7, <2>1 DEF Advances
<1>9. ASSUME NEW i \in Attempts, Breaks(i) PROVE NeverBack /\ Advances
  <2>1. UNCHANGED <<attempt, client, handler, result>> /\ gone[i] = {} /\ gone'[i] = {"net"}
    BY <1>9 DEF Breaks, IInv, TypeOK
  <2>2. \A j \in Attempts : gone[j] \subseteq gone'[j]
    BY <1>9 DEF Breaks, IInv, TypeOK
  <2> QED
    BY <1>7, <2>1, <2>2 DEF Advances
<1>10. ASSUME NEW i \in Attempts, ServerHandshake(i) \/ ServerVerdict(i) \/ Done(i) \/ QueueDropped(i)
       PROVE  NeverBack /\ Advances
  <2>1. UNCHANGED <<attempt, client, result>>
    BY <1>10, Zenon DEF ServerHandshake, ServerVerdict, Done, QueueDropped
  <2>2. \A j \in Attempts : gone[j] \subseteq gone'[j]
    <3>1. UNCHANGED gone \/ gone' = [gone EXCEPT ![i] = @ \cup {"server"}]
      BY <1>10, HandshakeCases, VerdictCases, Zenon DEF Handles, Done, QueueDropped, Refuse
    <3> QED
      BY <3>1 DEF IInv, TypeOK
  <2>3. PICK h \in {"response", "serving", "refused", "done"} :
          /\ handler' = [handler EXCEPT ![i] = h]
          /\ \/ handler[i] \in {"handshake", "queued"}
             \/ handler[i] = "response" /\ h \in {"refused", "serving"}
             \/ handler[i] = "serving" /\ h = "done"
    <3>1. CASE ServerHandshake(i)
      BY <3>1, HandshakeCases, Zenon DEF Handles
    <3>2. CASE ServerVerdict(i)
      BY <3>2, VerdictCases DEF Handles
    <3>3. CASE Done(i) \/ QueueDropped(i)
      BY <3>3 DEF Done, QueueDropped, Refuse
    <3> QED
      BY <1>10, <3>1, <3>2, <3>3, Zenon
  <2>4. HandlerStage[h] > HandlerStage[handler[i]]
    BY <2>3
  <2>5. handler' = [handler EXCEPT ![i] = h]
    BY <2>3
  <2> QED
    BY <2>1, <2>2, <2>4, <2>5, HandlerAdvances, Zenon
<1> QED
  BY <1>1, <1>2, <1>3, <1>4, <1>5, <1>6, <1>8, <1>9, <1>10
  DEF Next, RunClient, Server, ServerDone, Finished

-----------------------------------------------------------------------------
(* RunClient and the handlers keep the types of their variables: there is  *)
(* no attempt past the relay, and no more messages than the protocol has.  *)
THEOREM TypeCorrect == Spec => []TypeOK
BY Inductive, PTL DEF IInv

(* Nobody is served who was not admitted, and no client takes a session    *)
(* for established that the server has not begun to serve, whichever of    *)
(* any number of addresses the session came about on.                      *)
THEOREM Agreement == Spec => []SessionAgreed
BY Inductive, PTL DEF IInv

(* Passcode and payload go to the device that was asked for. *)
THEOREM PeerChecked == Spec => []OnlyToThePeer
BY Inductive, PTL DEF IInv

(* The connections that a client makes to one server, direct and by relay, *)
(* are treated as Acceptance allows: together with ImplementsAcceptance of *)
(* ServerProofs, what RunClient is shown to meet is what runServer does.   *)
THEOREM MeetsAcceptance == Spec => ServedAsPromised
<1>1. IInv /\ [Next]_vars => [Promise!Next]_(Promise!vars)
  BY PromiseStep
<1> QED
  BY <1>1, PromiseInit, Inductive, PTL DEF Spec, ServedAsPromised, Promise!Spec

(* A client that gives an address up closes its connection, whatever it    *)
(* gave up for: a failed handshake, another device, a refusal, a prompt.   *)
THEOREM GivenUpIsClosed == Spec => []ClosesGivenUp
BY Inductive, PTL DEF IInv, Onward

(* RunClient and the handlers never come to wait on each other in a        *)
(* circle, for any number of addresses.                                    *)
THEOREM NoCircularWait == Spec => []NobodyStuck
<1>1. IInv => NobodyStuck
  BY NotStuck
<1> QED
  BY <1>1, Inductive, PTL

(* Every step of a client or of a handler brings the sessions nearer to    *)
(* their end, and none takes them back.  With NoCircularWait this is the   *)
(* part of ClientDecides and of AbandonedHandlersEnd that does not depend  *)
(* on scheduling.                                                          *)
THEOREM NoEndlessRetry == Spec => OnlyForward
<1>1. IInv /\ [Next]_vars => [NeverBack /\ Advances]_vars
  BY ForwardStep
<1> QED
  BY <1>1, Inductive, PTL DEF Spec, OnlyForward
=============================================================================
