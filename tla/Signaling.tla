----------------------------- MODULE Signaling -----------------------------
(***************************************************************************)
(* The end of RunClient and of handleServerConn on a relay connection, and *)
(* negotiateWebRTCClient and negotiateWebRTCServer (webrtc.go): the two    *)
(* ends exchange framed signals over the relay connection, and then carry  *)
(* the payload either over a WebRTC data channel or, after a fallback,     *)
(* over that same relay connection.                                        *)
(*                                                                         *)
(* A stream is a sequence of units of four bytes.  A signal is a length    *)
(* unit followed by the units of its JSON body; sendSignal writes the two  *)
(* separately.  Four bytes of a JSON body read as a length exceed the      *)
(* 10 MB limit of readSignal; those of a payload may exceed it, as text    *)
(* does, or announce a body, as the header of a yamux frame does.  (Fewer  *)
(* than four bytes leave readSignal waiting as an announced body does.)    *)
(***************************************************************************)
EXTENDS Naturals, Sequences

CONSTANTS
  DirectFlags,  \* values of the client's --direct explored
  Candidates,   \* bound on the ICE candidates an end gathers
  Payloads,     \* payload lengths explored: functions from Ends
  Words         \* how payloads read as lengths: functions from Ends

Ends == {"client", "server"}
Peer(e) == IF e = "client" THEN "server" ELSE "client"

ASSUME SignalingAssumption ==
  /\ DirectFlags \subseteq BOOLEAN
  /\ Candidates \in Nat
  /\ Payloads \subseteq [Ends -> Nat]
  /\ Words \subseteq [Ends -> Nat]

(* Body sizes in units: descriptions are longer than the other signals. *)
BodyUnits == [offer |-> 2, answer |-> 2, candidate |-> 1, fallback |-> 1]
Signals == DOMAIN BodyUnits
LengthOf(m) == <<"len", m>>
Body(m) == [i \in 1..BodyUnits[m] |-> <<m, i>>]

VARIABLES
  pc,        \* where each end's main goroutine is
  sending,   \* the signal it is writing
  wire,      \* units on the relay connection that each end has not read
  closed,    \* whether an end has closed its relay connection
  main,      \* the readSignal of the main goroutine
  reader,    \* the readSignal of the background goroutine
  bg,        \* whether that goroutine runs
  gather,    \* the OnICECandidate callback, and what it has still to send
  peerConn,  \* the state of the end's PeerConnection
  opened,    \* whether the end's connChan holds the data channel
  path,      \* the connection the end carries its payload on
  tryDirect, \* the client's --direct
  size,      \* the length of the payload of each end
  word,      \* the units of the body that payload announces if it is read as
             \* a length, or 0 if it is refused
  sent,      \* whether it has been written
  direct,    \* units on the data channel
  out        \* what each end has written to its stdout

negVars == <<sending, main, reader, bg, gather, peerConn, opened>>
inputs == <<tryDirect, size, word>>
dataVars == <<inputs, sent, direct, out>>
vars == <<pc, wire, closed, path, negVars, dataVars>>

Payload(e) == [i \in 1..size[e] |-> <<"data", i>>]

(* readSignal: it waits for a length, then for the body of one signal.     *)
(* What payload announces is not JSON, once all of it has arrived.         *)
Idle == [of |-> "len", got |-> << >>]
Failed == [of |-> "error", got |-> << >>]
Complete(r) == r.of \in Signals /\ Len(r.got) = BodyUnits[r.of]

Announces(e, u) == u[1] = "data" /\ word[Peer(e)] > 0
Broken(e, r) ==
  IF r.of = "data" THEN Len(r.got) = word[Peer(e)]
  ELSE Len(r.got) = BodyUnits[r.of] /\ r.got # Body(r.of)

Feed(e, r, u) ==
  IF r.of = "len"
    THEN IF u \in {LengthOf(m) : m \in Signals}
           THEN [of |-> u[2], got |-> << >>]
           ELSE IF Announces(e, u) THEN [of |-> "data", got |-> << >>] ELSE Failed
    ELSE LET next == [r EXCEPT !.got = Append(@, u)] IN
         IF Broken(e, next) THEN Failed ELSE next

Init ==
  /\ pc = [client |-> "begin", server |-> "read"]
  /\ sending = [e \in Ends |-> "none"]
  /\ wire = [e \in Ends |-> << >>]
  /\ closed = [e \in Ends |-> FALSE]
  /\ main = [e \in Ends |-> Idle]
  /\ reader = [e \in Ends |-> Idle]
  /\ bg = [e \in Ends |-> FALSE]
  /\ gather \in [Ends -> [state : {"off"}, left : 0..Candidates]]
  /\ peerConn = [e \in Ends |-> "none"]
  /\ opened = [e \in Ends |-> FALSE]
  /\ path = [e \in Ends |-> "none"]
  /\ tryDirect \in DirectFlags
  /\ size \in Payloads
  /\ word \in Words
  /\ sent = [e \in Ends |-> FALSE]
  /\ direct = [e \in Ends |-> << >>]
  /\ out = [e \in Ends |-> << >>]

-----------------------------------------------------------------------------
(* A Write on the relay connection; after Close it fails and writes none. *)
Write(e, units) ==
  wire' = IF closed[e] THEN wire
          ELSE [wire EXCEPT ![Peer(e)] = @ \o units]

(* A Read by a goroutine of end e gets the next unit, or an error once the *)
(* end has closed the connection or has read all its peer sent before      *)
(* closing it.                                                             *)
Readable(e) == ~closed[e] /\ wire[e] # << >>
ReadReturns(e) == Readable(e) \/ closed[e] \/ closed[Peer(e)]
ReadBy(e, r) == IF Readable(e) THEN Feed(e, r, Head(wire[e])) ELSE Failed
Unread(e) == IF Readable(e) THEN [wire EXCEPT ![e] = Tail(@)] ELSE wire

(* sendSignal: the length, then the body. *)
SendLength(e) ==
  /\ pc[e] = "sendLength"
  /\ Write(e, <<LengthOf(sending[e])>>)
  /\ pc' = [pc EXCEPT ![e] = "sendBody"]
  /\ UNCHANGED <<closed, path, negVars, dataVars>>

(* After an offer the client reads the answer; after an answer the server  *)
(* starts its background reader and waits; after a fallback the end turns  *)
(* to its payload.                                                         *)
AfterSend(m) ==
  CASE m = "offer" -> "read" [] m = "answer" -> "wait" [] OTHER -> "data"

SendBody(e) ==
  /\ pc[e] = "sendBody"
  /\ Write(e, Body(sending[e]))
  /\ pc' = [pc EXCEPT ![e] = AfterSend(sending[e])]
  /\ bg' = [bg EXCEPT ![e] = @ \/ sending[e] = "answer"]
  /\ path' = [path EXCEPT ![e] = IF sending[e] = "fallback" THEN "relay" ELSE @]
  /\ UNCHANGED <<closed, sending, main, reader, gather, peerConn, opened, dataVars>>

MainReads(e) ==
  /\ pc[e] = "read"
  /\ main[e] # Failed /\ ~Complete(main[e])
  /\ ReadReturns(e)
  /\ main' = [main EXCEPT ![e] = ReadBy(e, @)]
  /\ wire' = Unread(e)
  /\ UNCHANGED <<pc, closed, path, sending, reader, bg, gather, peerConn, opened,
                 dataVars>>

-----------------------------------------------------------------------------
(* pc.Close, and the way each end goes on without a data channel. *)
GiveUp_Silent(e) ==
  /\ peerConn' = [peerConn EXCEPT ![e] = "closed"]
  /\ pc' = [pc EXCEPT ![e] = "data"]
  /\ path' = [path EXCEPT ![e] = "relay"]
  /\ UNCHANGED sending

GiveUp(e) ==
  /\ peerConn' = [peerConn EXCEPT ![e] = "closed"]
  /\ IF e = "client"
       THEN /\ sending' = [sending EXCEPT ![e] = "fallback"]
            /\ pc' = [pc EXCEPT ![e] = "sendLength"]
            /\ UNCHANGED path
       ELSE /\ path' = [path EXCEPT ![e] = "relay"]
            /\ pc' = [pc EXCEPT ![e] = "data"]
            /\ UNCHANGED sending

(* SetLocalDescription starts gathering before the description is sent. *)
StartGathering(e, m) ==
  /\ peerConn' = [peerConn EXCEPT ![e] = "open"]
  /\ gather' = [gather EXCEPT ![e].state = "idle"]
  /\ sending' = [sending EXCEPT ![e] = m]
  /\ pc' = [pc EXCEPT ![e] = "sendLength"]

(* --direct=false: the payload follows at once, without a signal. *)
ClientRelayOnly ==
  /\ ~tryDirect
  /\ pc["client"] = "begin"
  /\ pc' = [pc EXCEPT !["client"] = "data"]
  /\ path' = [path EXCEPT !["client"] = "relay"]
  /\ UNCHANGED <<wire, closed, negVars, dataVars>>

(* The PeerConnection, the data channel and the offer, or a failure. *)
ClientBegins ==
  /\ tryDirect
  /\ pc["client"] = "begin"
  /\ \/ StartGathering("client", "offer") /\ UNCHANGED path
     \/ GiveUp("client") /\ UNCHANGED gather
  /\ UNCHANGED <<wire, closed, main, reader, bg, opened, dataVars>>

(* The client has its answer and applies it; anything else is an error. *)
ClientReceives ==
  /\ pc["client"] = "read"
  /\ main["client"] = Failed \/ Complete(main["client"])
  /\ main' = [main EXCEPT !["client"] = Idle]
  /\ \/ /\ main["client"].of = "answer"
        /\ peerConn' = [peerConn EXCEPT !["client"] = "connecting"]
        /\ bg' = [bg EXCEPT !["client"] = TRUE]
        /\ pc' = [pc EXCEPT !["client"] = "wait"]
        /\ UNCHANGED <<path, sending>>
     \/ GiveUp("client") /\ UNCHANGED bg
  /\ UNCHANGED <<wire, closed, reader, gather, opened, dataVars>>

(* The server's first signal.  A failure after the offer is answered with  *)
(* "fallback"; a fallback, a wrong signal or a read error is not answered. *)
ServerReceives ==
  /\ pc["server"] = "read"
  /\ main["server"] = Failed \/ Complete(main["server"])
  /\ main' = [main EXCEPT !["server"] = Idle]
  /\ IF main["server"].of = "offer"
       THEN /\ \/ StartGathering("server", "answer")
               \/ /\ sending' = [sending EXCEPT !["server"] = "fallback"]
                  /\ pc' = [pc EXCEPT !["server"] = "sendLength"]
                  /\ peerConn' = [peerConn EXCEPT !["server"] = "closed"]
                  /\ UNCHANGED gather
            /\ UNCHANGED path
       ELSE GiveUp("server") /\ UNCHANGED gather
  /\ UNCHANGED <<wire, closed, reader, bg, opened, dataVars>>

-----------------------------------------------------------------------------
(* The OnICECandidate callback: sendSignal on its own goroutine. *)
CandidateLength(e) ==
  /\ gather[e].state = "idle" /\ gather[e].left > 0
  /\ peerConn[e] \in {"open", "connecting"}
  /\ Write(e, <<LengthOf("candidate")>>)
  /\ gather' = [gather EXCEPT ![e].state = "body"]
  /\ UNCHANGED <<pc, closed, path, sending, main, reader, bg, peerConn, opened,
                 dataVars>>

CandidateBody(e) ==
  /\ gather[e].state = "body"
  /\ Write(e, Body("candidate"))
  /\ gather' = [gather EXCEPT ![e] = [state |-> "idle", left |-> @.left - 1]]
  /\ UNCHANGED <<pc, closed, path, sending, main, reader, bg, peerConn, opened,
                 dataVars>>

(* The background goroutine reads signals until a read fails. *)
BackgroundReads(e) ==
  /\ bg[e]
  /\ ReadReturns(e)
  /\ LET next == ReadBy(e, reader[e]) IN
       /\ bg' = [bg EXCEPT ![e] = next # Failed]
       /\ reader' = [reader EXCEPT ![e] = IF Complete(next) THEN Idle ELSE next]
  /\ wire' = Unread(e)
  /\ UNCHANGED <<pc, closed, path, sending, main, gather, peerConn, opened, dataVars>>

(* The data channel opens at the client, then at the server (external). *)
Opens(e) ==
  /\ ~opened[e]
  /\ peerConn["client"] = "connecting" \/ opened["client"]
  /\ peerConn[e] \in {"open", "connecting"}
  /\ e = "server" => opened["client"]
  /\ opened' = [opened EXCEPT ![e] = TRUE]
  /\ UNCHANGED <<pc, wire, closed, path, sending, main, reader, bg, gather, peerConn,
                 dataVars>>

(* The wait for the data channel: it is there, or 15 seconds pass. *)
TakesDirect_ClosesPeer(e) ==
  /\ pc[e] = "wait" /\ opened[e]
  /\ pc' = [pc EXCEPT ![e] = "data"]
  /\ path' = [path EXCEPT ![e] = "direct"]
  /\ closed' = [closed EXCEPT ![e] = TRUE]
  /\ peerConn' = [peerConn EXCEPT ![e] = "closed"]
  /\ UNCHANGED <<wire, sending, main, reader, bg, gather, opened, dataVars>>

TakesDirect(e) ==
  /\ pc[e] = "wait" /\ opened[e]
  /\ pc' = [pc EXCEPT ![e] = "data"]
  /\ path' = [path EXCEPT ![e] = "direct"]
  /\ closed' = [closed EXCEPT ![e] = TRUE]
  /\ UNCHANGED <<wire, negVars, dataVars>>

TimesOut_Never(e) == FALSE /\ UNCHANGED vars
TimesOut(e) ==
  /\ pc[e] = "wait"
  /\ GiveUp(e)
  /\ UNCHANGED <<wire, closed, main, reader, bg, gather, opened, dataVars>>

-----------------------------------------------------------------------------
(* The payload, on whichever connection the end has chosen. *)
SendPayload(e) ==
  /\ pc[e] = "data" /\ ~sent[e]
  /\ sent' = [sent EXCEPT ![e] = TRUE]
  /\ IF path[e] = "relay"
       THEN Write(e, Payload(e)) /\ UNCHANGED direct
       ELSE /\ direct' = [direct EXCEPT ![Peer(e)] = @ \o Payload(e)]
            /\ UNCHANGED wire
  /\ UNCHANGED <<pc, closed, path, negVars, inputs, out>>

(* The copy from the connection to stdout passes on what it reads. *)
ReceivePayload_FromRelay(e) ==
  /\ pc[e] = "data" /\ wire[e] # << >>
  /\ out' = [out EXCEPT ![e] = Append(@, Head(wire[e]))]
  /\ wire' = [wire EXCEPT ![e] = Tail(@)]
  /\ UNCHANGED <<pc, closed, path, negVars, inputs, sent, direct>>

ReceivePayload(e) ==
  /\ pc[e] = "data"
  /\ \/ /\ path[e] = "relay" /\ wire[e] # << >>
        /\ out' = [out EXCEPT ![e] = Append(@, Head(wire[e]))]
        /\ wire' = [wire EXCEPT ![e] = Tail(@)]
        /\ UNCHANGED direct
     \/ /\ path[e] = "direct" /\ direct[e] # << >>
        /\ \A x \in Ends : peerConn[x] # "closed"
        /\ out' = [out EXCEPT ![e] = Append(@, Head(direct[e]))]
        /\ direct' = [direct EXCEPT ![e] = Tail(@)]
        /\ UNCHANGED wire
  /\ UNCHANGED <<pc, closed, path, negVars, inputs, sent>>

-----------------------------------------------------------------------------
MainStep(e) ==
  \/ SendLength(e) \/ SendBody(e) \/ MainReads(e)
  \/ TakesDirect(e) \/ TimesOut(e) \/ SendPayload(e)
ClientStep == ClientRelayOnly \/ ClientBegins \/ ClientReceives
CallbackStep(e) == CandidateLength(e) \/ CandidateBody(e)

(* Both ends are in their payload phase: the rest is the pipe's business. *)
Settled == (\A e \in Ends : pc[e] = "data" /\ sent[e]) /\ UNCHANGED vars

Next ==
  \/ ClientStep \/ ServerReceives
  \/ \E e \in Ends :
       MainStep(e) \/ CallbackStep(e) \/ BackgroundReads(e) \/ Opens(e)
         \/ ReceivePayload(e)
  \/ Settled

Spec == Init /\ [][Next]_vars

(***************************************************************************)
(* Goroutines are scheduled; the 15 second timer ends every wait.  The     *)
(* data channel need not open.                                             *)
(***************************************************************************)
Fairness ==
  /\ WF_vars(MainStep("client") \/ ClientStep)
  /\ WF_vars(MainStep("server") \/ ServerReceives)
  /\ \A e \in Ends :
       WF_vars(CallbackStep(e)) /\ WF_vars(BackgroundReads(e)) /\ WF_vars(ReceivePayload(e))

FairSpec == Spec /\ Fairness

-----------------------------------------------------------------------------
(* The values the variables take; a stream holds units only. *)
Units ==
  ({"len"} \X Signals) \cup (Signals \X (1..2)) \cup ({"data"} \X Nat)

TypeOK ==
  /\ pc \in [Ends -> {"begin", "read", "sendLength", "sendBody", "wait", "data"}]
  /\ sending \in [Ends -> Signals \cup {"none"}]
  /\ wire \in [Ends -> Seq(Units)] /\ direct \in [Ends -> Seq(Units)]
  /\ \A f \in {main, reader} :
       f \in [Ends -> [of : Signals \cup {"len", "data", "error"}, got : Seq(Units)]]
  /\ \A f \in {closed, bg, opened, sent} : f \in [Ends -> BOOLEAN]
  /\ gather \in [Ends -> [state : {"off", "idle", "body"}, left : 0..Candidates]]
  /\ peerConn \in [Ends -> {"none", "open", "connecting", "closed"}]
  /\ path \in [Ends -> {"none", "relay", "direct"}]
  /\ tryDirect \in DirectFlags
  /\ size \in Payloads /\ word \in Words
  /\ out \in [Ends -> Seq(Units)]

OnRelay == \A e \in Ends : path[e] = "relay"
OnDirect == \A e \in Ends : path[e] = "direct"

StartOf(s, t) == Len(s) <= Len(t) /\ s = SubSeq(t, 1, Len(s))

(* What each end has written to its stdout is what the other end sent. *)
Intact == \A e \in Ends : StartOf(out[e], Payload(Peer(e)))

(* A client that could not even make an offer announces the fallback       *)
(* first, and then the relay connection carries the payload unharmed.      *)
EarlyFallbackIntact ==
  (tryDirect /\ OnRelay /\ gather["client"].state = "off") => Intact

(* An end that took the data channel writes to its stdout what its peer    *)
(* sent on it and nothing of the signalling, whatever path the peer took   *)
(* and whatever is still on the relay connection.                          *)
DirectIntact ==
  \A e \in Ends : path[e] = "direct" => StartOf(out[e], Payload(Peer(e)))

(* Two ends that both took the data channel deliver both payloads on it,   *)
(* whole and with nothing of the signalling in them.                       *)
DirectDelivers ==
  OnDirect ~> \A e \in Ends : out[e] = Payload(Peer(e))

(* The server is sent a signal, or payload that it takes for a broken one. *)
ServerIsTold == tryDirect \/ size["client"] > word["client"]

(* handleServerConn gets past the negotiation whatever the client's        *)
(* signals are and however they are interleaved.  It has no deadline: a    *)
(* client that sends no signal (--direct=false) keeps it for ever, unless  *)
(* its payload is read as a broken signal.  Without trickled candidates    *)
(* the client gets past it too, by the data channel, a fallback or the     *)
(* timeout.  (A candidate that overtakes its description leaves the client *)
(* in a readSignal without a deadline.)                                    *)
NegotiationEnds ==
  /\ ServerIsTold ~> pc["server"] = "data"
  /\ [](ServerIsTold \/ pc["server"] = "read")
  /\ (\A e \in Ends : gather[e].left = 0) => <>(pc["client"] = "data")

(***************************************************************************)
(* "Seamlessly falls back to Syncthing's global public relay network"      *)
(* (README.md 9): when both ends of a session that tried to be direct      *)
(* carry the payload over the relay, what arrives is what was sent.        *)
(***************************************************************************)
FallbackIntact == (tryDirect /\ OnRelay) => Intact
=============================================================================
