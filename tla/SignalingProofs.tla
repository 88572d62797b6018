-------------------------- MODULE SignalingProofs --------------------------
(***************************************************************************)
(* Proofs about Signaling, for any number of candidates and any payloads:  *)
(* that a client which could not make an offer leaves the relay connection *)
(* clean, that a data channel carries payload only and loses none of it,   *)
(* and that the first signal reaches a server that waits for it.           *)
(***************************************************************************)
EXTENDS Signaling, SequenceTheorems, TLAPS

(* The main goroutine of an end writes descriptions and fallbacks, and a   *)
(* callback that writes the body of a candidate has counted it.            *)
Writing ==
  \A e \in Ends :
    /\ pc[e] \in {"sendLength", "sendBody"} =>
         sending[e] \in {"offer", "answer", "fallback"}
    /\ gather[e].state = "body" => gather[e].left > 0

(* What an end has written of its payload, if it is on the relay, and what *)
(* it has written to the data channel.                                     *)
Stream(e) == IF sent[e] THEN Payload(e) ELSE << >>
Channel(e) == IF sent[e] /\ path[e] = "direct" THEN Payload(e) ELSE << >>

(* What has arrived at an end on the one and on the other. *)
OnWire(e) == out[e] \o wire[e]
OnChannel(e) == out[e] \o direct[e]

(* An end has a path in its payload phase only, and the data channel holds *)
(* what its peer wrote to it less what it has read.                        *)
Paths(e) ==
  /\ path[e] = "none" <=> pc[e] # "data"
  /\ sent[e] => pc[e] = "data"
  /\ path[e] = "none" => out[e] = << >>
  /\ path[e] = "direct" => OnChannel(e) = Channel(Peer(e))
  /\ path[e] # "direct" => direct[e] = Channel(Peer(e))

(* The client did not get as far as an offer. *)
Early == tryDirect /\ gather["client"].state = "off"

(* Then it goes on to its payload by way of a fallback, and the server,    *)
(* which has not seen an offer, neither answers nor waits.                 *)
NoOffer ==
  /\ pc["client"] \in {"begin", "sendLength", "sendBody", "data"}
  /\ pc["client"] # "begin" => sending["client"] = "fallback"
  /\ pc["server"] \in {"read", "data"}
  /\ gather["server"].state = "off"
  /\ \A e \in Ends : ~closed[e] /\ ~bg[e] /\ path[e] # "direct"

LengthUnit == LengthOf("fallback")
BodyUnit == <<"fallback", 1>>
BodyThen(s) == <<BodyUnit>> \o s
FallbackThen(s) == <<LengthUnit>> \o BodyThen(s)
Half == [of |-> "fallback", got |-> << >>]
Whole == [of |-> "fallback", got |-> <<BodyUnit>>]

(* What the server has read of the fallback and what it has still to read  *)
(* make up what the client has written.                                    *)
ServerReading ==
  \/ /\ pc["client"] \in {"begin", "sendLength"}
     /\ main["server"] = Idle /\ wire["server"] = << >>
  \/ /\ pc["client"] = "sendBody"
     /\ main["server"] = Idle /\ wire["server"] = <<LengthUnit>>
  \/ /\ pc["client"] = "sendBody"
     /\ main["server"] = Half /\ wire["server"] = << >>
  \/ /\ pc["client"] = "data"
     /\ main["server"] = Idle /\ wire["server"] = FallbackThen(Stream("client"))
  \/ /\ pc["client"] = "data"
     /\ main["server"] = Half /\ wire["server"] = BodyThen(Stream("client"))
  \/ /\ pc["client"] = "data"
     /\ main["server"] = Whole /\ wire["server"] = Stream("client")

(* After it there is nothing but payload, in both directions. *)
ServerClean ==
  /\ pc["server"] = "read" => ServerReading
  /\ pc["server"] = "data" =>
       pc["client"] = "data" /\ OnWire("server") = Stream("client")
ClientClean == OnWire("client") = Stream("server")

IInv ==
  /\ TypeOK /\ Writing
  /\ \A e \in Ends : Paths(e)
  /\ Early => NoOffer /\ ServerClean /\ ClientClean

(* A PeerConnection is closed only by an end that goes on to the relay. *)
KeepsChannel(e) ==
  peerConn[e] = "closed" =>
    \/ pc[e] = "data" /\ path[e] = "relay"
    \/ pc[e] \in {"sendLength", "sendBody"} /\ sending[e] = "fallback"

(* What readSignal has read, and whether it will read more. *)
Consumed(r) == IF r.of = "len" THEN 0 ELSE 1 + Len(r.got)
Waiting(r) == r # Failed /\ ~Complete(r)

(* A server that waits for more has been sent n units at least. *)
Arrived(n) ==
  Waiting(main["server"]) => Consumed(main["server"]) + Len(wire["server"]) >= n

(* Where the client can be while the server reads its first signal. *)
ClientAhead ==
  \/ Early /\ pc["client"] = "begin"
  \/ /\ Early /\ sending["client"] = "fallback"
     /\ pc["client"] \in {"sendLength", "sendBody", "data"}
  \/ /\ tryDirect /\ sending["client"] = "offer"
     /\ \/ pc["client"] = "sendLength"
        \/ pc["client"] = "sendBody" /\ Arrived(1)
        \/ pc["client"] = "read" /\ Arrived(3)
  \/ /\ ~tryDirect /\ gather["client"].state = "off"
     /\ pc["client"] \in {"begin", "data"} /\ path["client"] # "direct"
     /\ \/ main["server"] = Failed
        \/ main["server"] = Idle /\ wire["server"] = Stream("client")
        \/ /\ main["server"].of = "data" /\ sent["client"]
           /\ Consumed(main["server"]) + Len(wire["server"]) = size["client"]

(* Until the server has its first signal it has written nothing, so the    *)
(* client has read nothing.                                                *)
Silent ==
  /\ wire["client"] = << >> /\ main["client"] = Idle
  /\ gather["server"].state = "off"
  /\ \A e \in Ends : ~closed[e] /\ ~bg[e]

(* A signal is read no further than its end. *)
WithinSignal ==
  /\ main["server"].of = "error" => main["server"] = Failed
  /\ main["server"].of \in Signals =>
       Len(main["server"].got) <= BodyUnits[main["server"].of]
  /\ main["server"].of = "data" => Len(main["server"].got) < word["client"]

(* Payload is read for a signal only when there is some. *)
Clean(s) == \A i \in 1..Len(s) : s[i][1] # "data"
SignalsFirst ==
  ~sent["client"] => main["server"].of # "data" /\ Clean(wire["server"])

FirstSignal ==
  pc["server"] = "read" => Silent /\ WithinSignal /\ SignalsFirst /\ ClientAhead

(* The server makes no offers. *)
ServerAnswers ==
  pc["server"] \in {"sendLength", "sendBody"} => sending["server"] # "offer"

NegInv == ServerAnswers /\ FirstSignal /\ \A e \in Ends : KeepsChannel(e)

(* Two ends on the data channel have kept it, and what the one has sent on *)
(* it the other has written out or can still read: nothing is lost there.  *)
ChannelHolds ==
  OnDirect =>
    \A e \in Ends :
      /\ peerConn[e] # "closed"
      /\ sent[Peer(e)] => OnChannel(e) = Payload(Peer(e))

(* A server that waits for its first signal, with nothing to read, has a   *)
(* client that has still to write; only a client without --direct leaves   *)
(* it waiting until the connection is closed: one with nothing to send, or *)
(* one whose payload reads as the length of more than is left of it.       *)
ServerNotStranded ==
  (pc["server"] = "read" /\ Waiting(main["server"]) /\ ~ReadReturns("server")) =>
    \/ pc["client"] \in {"begin", "sendLength", "sendBody"}
    \/ pc["client"] = "data" /\ ~sent["client"]
    \/ ~tryDirect /\ size["client"] <= word["client"]

(* How far the main goroutine of an end is with its negotiation. *)
Stage(e) ==
  CASE pc[e] = "begin" -> 0
    [] pc[e] = "read" -> IF e = "client" THEN 3 ELSE 0
    [] pc[e] = "sendLength" -> IF sending[e] = "fallback" THEN 5 ELSE 1
    [] pc[e] = "sendBody" -> IF sending[e] = "fallback" THEN 6 ELSE 2
    [] pc[e] = "wait" -> 4
    [] OTHER -> 7

(* An end never goes back in its negotiation: one offer or answer, at most *)
(* one fallback, and the path it has chosen is the one it keeps.           *)
Onward(e) ==
  /\ Stage(e) <= Stage(e)'
  /\ path[e] # "none" => path'[e] = path[e]
  /\ sent[e] => sent'[e]
  /\ closed[e] => closed'[e]
OnlyForward == [][\A e \in Ends : Onward(e)]_vars

-----------------------------------------------------------------------------
(* Sequences: what a reader has passed on and what it has still to read.   *)
(* Passing on one unit leaves their concatenation alone.                   *)
LEMMA Passed ==
  ASSUME NEW S, NEW o \in Seq(S), NEW w \in Seq(S), w # << >>
  PROVE  /\ Append(o, Head(w)) \in Seq(S) /\ Tail(w) \in Seq(S)
         /\ Append(o, Head(w)) \o Tail(w) = o \o w
<1>1. /\ Head(w) \in S /\ Tail(w) \in Seq(S) /\ Len(Tail(w)) = Len(w) - 1
      /\ \A i \in 1..Len(Tail(w)) : Tail(w)[i] = w[i + 1]
      /\ Len(w) \in Nat \ {0} /\ Head(w) = w[1]
  BY HeadTailProperties, EmptySeq
<1>2. /\ Append(o, Head(w)) \in Seq(S) /\ Len(Append(o, Head(w))) = Len(o) + 1
      /\ \A i \in 1..Len(o) : Append(o, Head(w))[i] = o[i]
      /\ Append(o, Head(w))[Len(o) + 1] = Head(w)
      /\ Len(o) \in Nat
  BY <1>1, AppendProperties, LenProperties
<1> DEFINE a == Append(o, Head(w)) \o Tail(w)
           b == o \o w
<1>3. a \in Seq(S) /\ b \in Seq(S) /\ Len(a) = Len(b) /\ Len(b) = Len(o) + Len(w)
  BY <1>1, <1>2, ConcatProperties
<1>4. ASSUME NEW i \in 1..Len(a) PROVE a[i] = b[i]
  <2>1. a[i] = IF i <= Len(o) + 1 THEN Append(o, Head(w))[i]
               ELSE Tail(w)[i - (Len(o) + 1)]
    BY <1>1, <1>2, <1>3, ConcatProperties
  <2>2. b[i] = IF i <= Len(o) THEN o[i] ELSE w[i - Len(o)]
    BY <1>3, ConcatProperties
  <2> HIDE DEF a, b
  <2>3. QED
    BY <1>1, <1>2, <1>3, <2>1, <2>2
<1> HIDE DEF a, b
<1>5. a = b
  BY <1>3, <1>4, SeqEqual
<1>6. QED
  BY <1>1, <1>2, <1>5 DEF a, b

(* What has been passed on is a start of the whole. *)
LEMMA PassedIsStart ==
  ASSUME NEW S, NEW o \in Seq(S), NEW w \in Seq(S) PROVE StartOf(o, o \o w)
<1>1. /\ o \o w \in Seq(S) /\ Len(o \o w) = Len(o) + Len(w)
      /\ \A i \in 1..Len(o) + Len(w) :
           (o \o w)[i] = IF i <= Len(o) THEN o[i] ELSE w[i - Len(o)]
      /\ Len(o) \in Nat /\ Len(w) \in Nat
  BY ConcatProperties, LenProperties
<1>2. CASE Len(o) = 0
  BY <1>1, <1>2, SubSeqEmpty DEF StartOf
<1>3. CASE Len(o) > 0
  BY <1>1, <1>3, SubSeqOfConcat1, SubSeqFull DEF StartOf
<1>4. QED
  BY <1>1, <1>2, <1>3

(* Nothing is a start of everything. *)
LEMMA NothingIsStart == ASSUME NEW S, NEW p \in Seq(S) PROVE StartOf(<< >>, p)
<1>1. << >> \in Seq(S) /\ << >> \o p = p
  BY EmptySeq, ConcatEmptySeq
<1>2. StartOf(<< >>, << >> \o p)
  BY <1>1, PassedIsStart, Zenon
<1>3. QED
  BY <1>1, <1>2

(* What is written when nothing was left is all there is to read. *)
LEMMA WrittenWhole ==
  ASSUME NEW S, NEW o \in Seq(S), NEW w \in Seq(S), NEW p \in Seq(S), o \o w = << >>
  PROVE  o \o (w \o p) = p
<1>1. o \o (w \o p) = (o \o w) \o p
  BY ConcatAssociative
<1>2. QED
  BY <1>1, ConcatEmptySeq

-----------------------------------------------------------------------------
(* Streams hold units: the two parts of a signal and the payload do. *)
LEMMA SignalUnits ==
  ASSUME NEW m \in Signals
  PROVE  <<LengthOf(m)>> \in Seq(Units) /\ Body(m) \in Seq(Units)
<1>1. LengthOf(m) \in Units
  BY DEF LengthOf, Units
<1>2. BodyUnits[m] \in 1..2
  BY DEF Signals, BodyUnits
<1>3. \A i \in 1..BodyUnits[m] : <<m, i>> \in Units
  BY <1>2 DEF Units
<1>4. QED
  BY <1>1, <1>2, <1>3, SeqDef DEF Body

(* The sizes of the payloads are numbers. *)
LEMMA PayloadUnits ==
  ASSUME size \in Payloads, NEW e \in Ends PROVE Payload(e) \in Seq(Units)
<1>1. size[e] \in Nat
  BY SignalingAssumption
<1>2. \A i \in 1..size[e] : <<"data", i>> \in Units
  BY <1>1 DEF Units
<1>3. QED
  BY <1>1, <1>2, SeqDef DEF Payload

LEMMA NoPayload ==
  ASSUME NEW e \in Ends, size[e] \in Nat, Payload(e) = << >> PROVE size[e] = 0
<1>1. PICK n \in Nat : n = size[e]
  OBVIOUS
<1>2. DOMAIN Payload(e) = 1..n
  BY <1>1, Zenon DEF Payload
<1>3. 1..n = {}
  BY <1>2
<1>4. QED
  BY <1>1, <1>3

(* A write leaves units on the wire, and so does a read. *)
LEMMA WriteUnits ==
  ASSUME TypeOK, NEW e \in Ends, NEW units \in Seq(Units), Write(e, units)
  PROVE  wire' \in [Ends -> Seq(Units)]
<1>1. wire \in [Ends -> Seq(Units)] /\ Peer(e) \in Ends
  BY DEF TypeOK, Peer, Ends
<1>2. wire[Peer(e)] \o units \in Seq(Units)
  BY <1>1, ConcatProperties
<1>3. QED
  BY <1>1, <1>2 DEF Write

(* What is read is a unit. *)
LEMMA ReadUnits ==
  ASSUME TypeOK, NEW e \in Ends
  PROVE  /\ Unread(e) \in [Ends -> Seq(Units)]
         /\ Readable(e) => Head(wire[e]) \in Units
<1>1. wire \in [Ends -> Seq(Units)]
  BY DEF TypeOK
<1>2. wire[e] # << >> => Head(wire[e]) \in Units /\ Tail(wire[e]) \in Seq(Units)
  BY <1>1, HeadTailProperties
<1>3. QED
  BY <1>1, <1>2 DEF Readable, Unread

Reads == [of : Signals \cup {"len", "data", "error"}, got : Seq(Units)]

(* A readSignal is in one of its states after every unit. *)
LEMMA FeedReads ==
  ASSUME NEW e \in Ends, NEW r \in Reads, NEW u \in Units PROVE Feed(e, r, u) \in Reads
<1>1. Failed \in Reads /\ [of |-> "data", got |-> << >>] \in Reads
  BY EmptySeq DEF Failed, Reads
<1>2. CASE r.of = "len"
  <2>1. CASE u \in {LengthOf(m) : m \in Signals}
    BY <1>2, <2>1, EmptySeq DEF Feed, LengthOf, Reads
  <2>2. CASE u \notin {LengthOf(m) : m \in Signals}
    BY <1>1, <1>2, <2>2, Zenon DEF Feed
  <2>3. QED
    BY <2>1, <2>2
<1>3. CASE r.of # "len"
  <2>1. Append(r.got, u) \in Seq(Units)
    BY AppendProperties DEF Reads
  <2>2. [r EXCEPT !.got = Append(r.got, u)] \in Reads
    BY <2>1 DEF Reads
  <2>3. QED
    BY <1>1, <1>3, <2>2, Zenon DEF Feed
<1>4. QED
  BY <1>2, <1>3

(* So is one that a Read has returned to. *)
LEMMA ReadByReads ==
  ASSUME TypeOK, NEW e \in Ends, NEW r \in Reads PROVE ReadBy(e, r) \in Reads
<1>1. Failed \in Reads
  BY EmptySeq DEF Failed, Reads
<1>2. QED
  BY <1>1, ReadUnits, FeedReads DEF ReadBy

-----------------------------------------------------------------------------
(* The type invariant variable by variable. *)
Pcs == [Ends -> {"begin", "read", "sendLength", "sendBody", "wait", "data"}]
Sendings == [Ends -> Signals \cup {"none"}]
Streams == [Ends -> Seq(Units)]
Readers == [Ends -> Reads]
Flags == [Ends -> BOOLEAN]
Gathers == [Ends -> [state : {"off", "idle", "body"}, left : 0..Candidates]]
Conns == [Ends -> {"none", "open", "connecting", "closed"}]
Ways == [Ends -> {"none", "relay", "direct"}]

Types ==
  /\ pc \in Pcs /\ sending \in Sendings
  /\ wire \in Streams /\ direct \in Streams /\ out \in Streams
  /\ main \in Readers /\ reader \in Readers
  /\ closed \in Flags /\ bg \in Flags /\ opened \in Flags /\ sent \in Flags
  /\ gather \in Gathers /\ peerConn \in Conns /\ path \in Ways
  /\ tryDirect \in DirectFlags /\ size \in Payloads /\ word \in Words

(* It is the same invariant. *)
LEMMA TypesAre == TypeOK <=> Types
BY Zenon
DEF TypeOK, Types, Pcs, Sendings, Streams, Readers, Reads, Flags, Gathers, Conns, Ways

(* A flag that is set or cleared stays one. *)
LEMMA FlagSet ==
  ASSUME NEW f \in Flags, NEW e \in Ends, NEW v \in BOOLEAN
  PROVE  [f EXCEPT ![e] = v] \in Flags
BY Zenon DEF Flags

(* The variables start with their types. *)
LEMMA TypeInit == Init => Types /\ Writing
<1> SUFFICES ASSUME Init PROVE Types /\ Writing
  OBVIOUS
<1>1. Idle \in Reads /\ << >> \in Seq(Units)
  BY EmptySeq DEF Idle, Reads
<1>2. pc \in Pcs /\ sending \in Sendings /\ peerConn \in Conns /\ path \in Ways
  BY DEF Init, Ends, Pcs, Sendings, Conns, Ways
<1>3. wire \in Streams /\ direct \in Streams /\ out \in Streams
  BY <1>1 DEF Init, Streams
<1>4. main \in Readers /\ reader \in Readers
  BY <1>1 DEF Init, Readers
<1>5. closed \in Flags /\ bg \in Flags /\ opened \in Flags /\ sent \in Flags
  BY Zenon DEF Init, Flags
<1>6. gather \in Gathers
  BY DEF Init, Gathers
<1>7. Writing
  BY DEF Init, Ends, Writing
<1>8. QED
  BY <1>2, <1>3, <1>4, <1>5, <1>6, <1>7 DEF Init, Types

(* The steps of the main goroutines keep them. *)
LEMMA TypeMain == ASSUME Types, Writing, NEW e \in Ends, MainStep(e) PROVE Types'
<1>0. TypeOK
  BY TypesAre
<1> USE DEF Types, negVars, dataVars, inputs
<1>1. CASE SendLength(e)
  <2>1. sending[e] \in Signals
    BY <1>1 DEF SendLength, Writing, Signals, BodyUnits
  <2>2. wire' \in Streams
    BY <1>0, <1>1, <2>1, SignalUnits, WriteUnits, Zenon DEF SendLength, Streams
  <2>3. pc' \in Pcs
    BY <1>1 DEF SendLength, Pcs
  <2>4. QED
    BY <1>1, <2>2, <2>3 DEF SendLength
<1>2. CASE SendBody(e)
  <2>0. sending[e] \in Signals
    BY <1>2 DEF SendBody, Writing, Signals, BodyUnits
  <2>1. wire' \in Streams
    BY <1>0, <1>2, <2>0, SignalUnits, WriteUnits, Zenon DEF SendBody, Streams
  <2>2. bg' \in Flags
    BY <1>2, FlagSet, Zenon DEF SendBody
  <2>3. pc' \in Pcs /\ path' \in Ways
    BY <1>2 DEF SendBody, AfterSend, Pcs, Ways
  <2>4. QED
    BY <1>2, <2>1, <2>2, <2>3 DEF SendBody
<1>3. CASE MainReads(e)
  <2>1. wire' \in Streams /\ main' \in Readers
    BY <1>0, <1>3, ReadUnits, ReadByReads DEF MainReads, Streams, Readers
  <2>2. QED
    BY <1>3, <2>1 DEF MainReads
<1>4. CASE TakesDirect(e)
  <2>1. pc' \in Pcs /\ path' \in Ways /\ closed' \in Flags
    BY <1>4, FlagSet, Zenon DEF TakesDirect, Pcs, Ways
  <2>2. QED
    BY <1>4, <2>1 DEF TakesDirect
<1>5. CASE TimesOut(e)
  <2>1. pc' \in Pcs /\ path' \in Ways /\ peerConn' \in Conns /\ sending' \in Sendings
    BY <1>5 DEF TimesOut, GiveUp, Pcs, Ways, Conns, Sendings, Signals, BodyUnits
  <2>2. QED
    BY <1>5, <2>1 DEF TimesOut
<1>6. CASE SendPayload(e)
  <2>1. Payload(e) \in Seq(Units) /\ Peer(e) \in Ends
    BY PayloadUnits DEF Peer, Ends
  <2>2. wire' \in Streams
    BY <1>0, <1>6, <2>1, WriteUnits DEF SendPayload, Streams
  <2>3. direct[Peer(e)] \o Payload(e) \in Seq(Units)
    BY <2>1, ConcatProperties DEF Streams
  <2>4. direct' \in Streams /\ sent' \in Flags
    BY <1>6, <2>1, <2>3, FlagSet, Zenon DEF SendPayload, Streams
  <2>5. QED
    BY <1>6, <2>2, <2>4 DEF SendPayload
<1>7. QED
  BY <1>1, <1>2, <1>3, <1>4, <1>5, <1>6 DEF MainStep

(* So do the ends of their negotiations. *)
LEMMA TypeNegotiation ==
  ASSUME Types, ClientStep \/ ServerReceives PROVE Types'
<1> USE DEF Types, negVars, dataVars, inputs
<1>1. Idle \in Reads
  BY EmptySeq DEF Idle, Reads
<1>2. CASE ClientRelayOnly
  <2>1. pc' \in Pcs /\ path' \in Ways
    BY <1>2, Zenon DEF ClientRelayOnly, Pcs, Ways
  <2>2. QED
    BY <1>2, <2>1 DEF ClientRelayOnly
<1>3. CASE ClientBegins
  <2>1. pc' \in Pcs /\ path' \in Ways /\ peerConn' \in Conns
    BY <1>3, Zenon DEF ClientBegins, StartGathering, GiveUp, Pcs, Ways, Conns
  <2>2. sending' \in Sendings
    BY <1>3 DEF ClientBegins, StartGathering, GiveUp, Sendings, Signals, BodyUnits
  <2>3. gather' \in Gathers
    <3>1. gather' = gather \/ gather' = [gather EXCEPT !["client"].state = "idle"]
      BY <1>3 DEF ClientBegins, StartGathering
    <3>2. QED
      BY <3>1 DEF Gathers, Ends
  <2>4. QED
    BY <1>3, <2>1, <2>2, <2>3, Zenon DEF ClientBegins
<1>4. CASE ClientReceives
  <2>1. pc' \in Pcs /\ path' \in Ways /\ peerConn' \in Conns /\ sending' \in Sendings
    BY <1>4 DEF ClientReceives, GiveUp, Pcs, Ways, Conns, Sendings, Signals, BodyUnits
  <2>2. main' \in Readers
    BY <1>1, <1>4, Zenon DEF ClientReceives, Readers
  <2>3. bg' \in Flags
    BY <1>4, FlagSet, Zenon DEF ClientReceives, Ends
  <2>4. QED
    BY <1>4, <2>1, <2>2, <2>3 DEF ClientReceives
<1>5. CASE ServerReceives
  <2>1. pc' \in Pcs /\ path' \in Ways /\ peerConn' \in Conns
    BY <1>5, Zenon DEF ServerReceives, StartGathering, GiveUp, Pcs, Ways, Conns
  <2>2. sending' \in Sendings
    BY <1>5 DEF ServerReceives, StartGathering, GiveUp, Sendings, Signals, BodyUnits
  <2>3. gather' \in Gathers
    <3>1. gather' = gather \/ gather' = [gather EXCEPT !["server"].state = "idle"]
      BY <1>5 DEF ServerReceives, StartGathering
    <3>2. QED
      BY <3>1 DEF Gathers, Ends
  <2>4. main' \in Readers
    BY <1>1, <1>5, Zenon DEF ServerReceives, Readers
  <2>5. QED
    BY <1>5, <2>1, <2>2, <2>3, <2>4 DEF ServerReceives
<1>6. QED
  BY <1>2, <1>3, <1>4, <1>5 DEF ClientStep

(* So do the callbacks, the background readers and the payload's copies. *)
LEMMA TypeOther ==
  ASSUME Types, Writing, NEW e \in Ends,
         CallbackStep(e) \/ BackgroundReads(e) \/ Opens(e) \/ ReceivePayload(e)
  PROVE  Types'
<1>0. TypeOK
  BY TypesAre
<1> USE DEF Types, negVars, dataVars, inputs
<1>1. "candidate" \in Signals /\ Idle \in Reads
  BY EmptySeq DEF Signals, BodyUnits, Idle, Reads
<1>2. CASE CandidateLength(e)
  <2>1. wire' \in Streams
    BY <1>0, <1>1, <1>2, SignalUnits, WriteUnits, Zenon DEF CandidateLength, Streams
  <2>2. gather' \in Gathers
    BY <1>2 DEF CandidateLength, Gathers
  <2>3. QED
    BY <1>2, <2>1, <2>2 DEF CandidateLength
<1>3. CASE CandidateBody(e)
  <2>1. wire' \in Streams
    BY <1>0, <1>1, <1>3, SignalUnits, WriteUnits, Zenon DEF CandidateBody, Streams
  <2>2. gather' \in Gathers
    BY <1>3, SignalingAssumption, SMTT(30) DEF CandidateBody, Gathers, Writing
  <2>3. QED
    BY <1>3, <2>1, <2>2 DEF CandidateBody
<1>4. CASE BackgroundReads(e)
  <2>1. wire' \in Streams
    BY <1>0, <1>4, ReadUnits DEF BackgroundReads, Streams
  <2>2. ReadBy(e, reader[e]) \in Reads
    BY <1>0, ReadByReads DEF Readers
  <2>3. reader' \in Readers
    BY <1>1, <1>4, <2>2 DEF BackgroundReads, Readers
  <2>4. bg' \in Flags
    BY <1>4, FlagSet, Zenon DEF BackgroundReads
  <2>5. QED
    BY <1>4, <2>1, <2>3, <2>4 DEF BackgroundReads
<1>5. CASE Opens(e)
  <2>1. opened' \in Flags
    BY <1>5, FlagSet, Zenon DEF Opens
  <2>2. QED
    BY <1>5, <2>1 DEF Opens
<1>6. CASE ReceivePayload(e)
  <2>1. /\ wire[e] # << >> => /\ Append(out[e], Head(wire[e])) \in Seq(Units)
                              /\ Tail(wire[e]) \in Seq(Units)
        /\ direct[e] # << >> => /\ Append(out[e], Head(direct[e])) \in Seq(Units)
                                /\ Tail(direct[e]) \in Seq(Units)
    BY Passed DEF Streams
  <2>2. wire' \in Streams /\ direct' \in Streams /\ out' \in Streams
    BY <1>6, <2>1, Zenon DEF ReceivePayload, Streams
  <2>3. QED
    BY <1>6, <2>2 DEF ReceivePayload
<1>7. QED
  BY <1>2, <1>3, <1>4, <1>5, <1>6 DEF CallbackStep

(* And what the writers hold. *)
LEMMA WritingStep == ASSUME Types, Writing, Next PROVE Writing'
<1> USE DEF Types, Pcs, Sendings, Gathers, Writing, negVars, dataVars, inputs
<1>1. ASSUME NEW e \in Ends, MainStep(e) PROVE Writing'
  BY <1>1
  DEF MainStep, SendLength, SendBody, AfterSend, MainReads, TakesDirect, TimesOut, GiveUp,
      SendPayload
<1>2. CASE ClientStep \/ ServerReceives
  BY <1>2
  DEF ClientStep, ClientRelayOnly, ClientBegins, ClientReceives, ServerReceives, GiveUp,
      StartGathering, Ends
<1>3. ASSUME NEW e \in Ends, CallbackStep(e) PROVE Writing'
  BY <1>3 DEF CallbackStep, CandidateLength, CandidateBody
<1>4. ASSUME NEW e \in Ends, BackgroundReads(e) \/ Opens(e) \/ ReceivePayload(e)
      PROVE  Writing'
  BY <1>4 DEF BackgroundReads, Opens, ReceivePayload
<1>5. CASE Settled
  BY <1>5 DEF Settled, vars
<1> HIDE DEF Writing
<1>6. QED
  BY <1>1, <1>2, <1>3, <1>4, <1>5 DEF Next

(* A step that changes nothing keeps both. *)
LEMMA TypeStutter == ASSUME Types, Writing, UNCHANGED vars PROVE Types' /\ Writing'
BY Zenon DEF Types, Writing, vars, negVars, dataVars, inputs

-----------------------------------------------------------------------------
(* Payloads only depend on their sizes, so a step that chooses no path and *)
(* carries no payload keeps the paths as they are.                         *)
LEMMA PathsKept ==
  ASSUME NEW x \in Ends, Paths(x), UNCHANGED <<path, dataVars>>,
         pc'[x] = "data" <=> pc[x] = "data"
  PROVE  Paths(x)'
<1>1. Channel(Peer(x))' = Channel(Peer(x)) /\ OnChannel(x)' = OnChannel(x)
  BY DEF Channel, OnChannel, Payload, dataVars, inputs
<1>2. QED
  BY <1>1 DEF Paths, dataVars

(* An end chooses its path before it has sent or received any payload. *)
LEMMA PathChosen ==
  ASSUME Types, \A y \in Ends : Paths(y), NEW e \in Ends, NEW p \in {"relay", "direct"},
         pc[e] # "data", pc' = [pc EXCEPT ![e] = "data"], path' = [path EXCEPT ![e] = p],
         UNCHANGED dataVars, NEW x \in Ends
  PROVE  Paths(x)'
<1>1. ~sent[e] /\ path[e] = "none" /\ out[e] = << >> /\ direct[e] = Channel(Peer(e))
  BY DEF Paths
<1>2. /\ Channel(Peer(x))' = Channel(Peer(x)) /\ Peer(x) \in Ends
      /\ OnChannel(x)' = OnChannel(x)
  BY <1>1 DEF Channel, OnChannel, Payload, dataVars, inputs, Peer, Ends, Types, Ways
<1>3. CASE x = e
  <2>1. OnChannel(e) = Channel(Peer(e))
    BY <1>1, ConcatEmptySeq DEF OnChannel, Types, Streams
  <2>2. QED
    BY <1>1, <1>2, <1>3, <2>1 DEF Paths, dataVars, Types, Pcs, Ways
<1>4. CASE x # e
  BY <1>2, <1>4 DEF Paths, dataVars, Types, Pcs, Ways
<1>5. QED
  BY <1>3, <1>4

(* A payload goes on the data channel once, after nothing else. *)
LEMMA PayloadSent ==
  ASSUME Types, \A y \in Ends : Paths(y), NEW e \in Ends, SendPayload(e), NEW x \in Ends
  PROVE  Paths(x)'
<1>1. /\ pc[e] = "data" /\ ~sent[e] /\ path[e] # "none"
      /\ sent' = [sent EXCEPT ![e] = TRUE]
      /\ pc' = pc /\ path' = path /\ size' = size /\ out' = out
      /\ path[e] = "relay" => direct' = direct
      /\ path[e] # "relay" => direct' = [direct EXCEPT ![Peer(e)] = @ \o Payload(e)]
  BY DEF SendPayload, inputs, Paths
<1>2. Peer(e) \in Ends /\ Peer(e) # e /\ Peer(Peer(e)) = e /\ (x = e \/ x = Peer(e))
  BY DEF Peer, Ends
<1>3. CASE x = e
  <2>1. direct'[e] = direct[e] /\ sent'[Peer(e)] = sent[Peer(e)]
    BY <1>1, <1>2 DEF Types, Streams, Flags
  <2>2. Channel(Peer(e))' = Channel(Peer(e)) /\ OnChannel(e)' = OnChannel(e)
    BY <1>1, <2>1, Zenon DEF Channel, OnChannel, Payload
  <2>3. QED
    BY <1>1, <1>3, <2>1, <2>2 DEF Paths, Types, Flags
<1>4. CASE x = Peer(e)
  <2>1. Channel(e) = << >> /\ sent'[x] = sent[x] /\ sent'[e]
    BY <1>1, <1>2, <1>4 DEF Channel, Types, Flags
  <2>2. Channel(e)' = IF path[e] = "direct" THEN Payload(e) ELSE << >>
    BY <1>1, <2>1 DEF Channel, Payload
  <2>3. CASE path[e] = "relay"
    <3>1. OnChannel(x)' = OnChannel(x) /\ Channel(e)' = Channel(e) /\ direct' = direct
      BY <1>1, <2>1, <2>2, <2>3, Zenon DEF OnChannel
    <3>2. QED
      BY <1>1, <1>2, <1>4, <2>1, <3>1 DEF Paths
  <2>4. CASE path[e] = "direct"
    <3>1. direct'[x] = direct[x] \o Payload(e) /\ Channel(e)' = Payload(e)
      BY <1>1, <1>2, <1>4, <2>2, <2>4 DEF Types, Streams
    <3>2. out[x] \in Seq(Units) /\ direct[x] \in Seq(Units) /\ Payload(e) \in Seq(Units)
      BY PayloadUnits DEF Types, Streams
    <3>3. path[x] = "direct" => OnChannel(x)' = Payload(e)
      <4>1. path[x] = "direct" => OnChannel(x) = << >>
        BY <1>2, <1>4, <2>1 DEF Paths
      <4>2. OnChannel(x)' = out[x] \o (direct[x] \o Payload(e))
        BY <1>1, <3>1 DEF OnChannel
      <4>3. QED
        BY <3>2, <4>1, <4>2, WrittenWhole, Zenon DEF OnChannel
    <3>4. path[x] # "direct" => direct'[x] = Payload(e)
      <4>1. path[x] # "direct" => direct[x] = << >>
        BY <1>2, <1>4, <2>1 DEF Paths
      <4>2. QED
        BY <3>1, <3>2, <4>1, ConcatEmptySeq
    <3>5. QED
      BY <1>1, <1>2, <1>4, <2>1, <3>1, <3>3, <3>4 DEF Paths
  <2>5. QED
    BY <1>1, <2>3, <2>4 DEF Types, Ways
<1>5. QED
  BY <1>2, <1>3, <1>4

(* The copy of a payload takes it off its own path. *)
LEMMA PayloadReceived ==
  ASSUME Types, \A y \in Ends : Paths(y),
         NEW e \in Ends, ReceivePayload(e), NEW x \in Ends
  PROVE  Paths(x)'
<1>1. Channel(Peer(x))' = Channel(Peer(x))
  BY DEF ReceivePayload, inputs, Channel, Payload
<1>2. CASE x # e
  <2>1. out'[x] = out[x] /\ direct'[x] = direct[x] /\ OnChannel(x)' = OnChannel(x)
    BY <1>2, Zenon DEF ReceivePayload, OnChannel, Types, Streams
  <2>2. QED
    BY <1>1, <2>1 DEF ReceivePayload, Paths
<1>3. CASE x = e /\ path[e] = "relay"
  BY <1>1, <1>3 DEF ReceivePayload, Paths
<1>4. CASE x = e /\ path[e] = "direct"
  <2>1. out'[e] = Append(out[e], Head(direct[e])) /\ direct'[e] = Tail(direct[e])
    BY <1>4 DEF ReceivePayload, Types, Streams
  <2>2. out[e] \in Seq(Units) /\ direct[e] \in Seq(Units) /\ direct[e] # << >>
    BY <1>4 DEF ReceivePayload, Types, Streams
  <2>3. Append(out[e], Head(direct[e])) \o Tail(direct[e]) = out[e] \o direct[e]
    BY <2>2, Passed, Zenon
  <2>4. OnChannel(e)' = OnChannel(e)
    BY <2>1, <2>3, Zenon DEF OnChannel
  <2>5. QED
    BY <1>1, <1>4, <2>4 DEF Paths, ReceivePayload
<1>5. QED
  BY <1>2, <1>3, <1>4 DEF ReceivePayload

(* Every step keeps the paths. *)
LEMMA PathsStep ==
  ASSUME Types, Writing, \A y \in Ends : Paths(y), [Next]_vars, NEW x \in Ends
  PROVE  Paths(x)'
<1>0. Paths(x)
  OBVIOUS
<1> USE DEF negVars
<1>1. ASSUME NEW e \in Ends, MainStep(e) PROVE Paths(x)'
  <2>1. CASE SendLength(e) \/ MainReads(e)
    BY <1>0, <2>1, PathsKept DEF SendLength, MainReads, Types, Pcs
  <2>2. CASE SendBody(e)
    <3>1. CASE sending[e] = "fallback"
      BY <2>2, <3>1, PathChosen, Zenon DEF SendBody, AfterSend
    <3>2. CASE sending[e] # "fallback"
      <4>1. path' = path /\ UNCHANGED dataVars
        BY <2>2, <3>2 DEF SendBody, Types, Ways
      <4>2. sending[e] \in {"offer", "answer"}
        BY <2>2, <3>2 DEF SendBody, Writing
      <4>3. QED
        BY <1>0, <2>2, <4>1, <4>2, PathsKept DEF SendBody, AfterSend, Types, Pcs
    <3>3. QED
      BY <3>1, <3>2
  <2>3. CASE TakesDirect(e)
    BY <2>3, PathChosen, Zenon DEF TakesDirect
  <2>4. CASE TimesOut(e)
    <3>1. CASE e = "client"
      BY <1>0, <2>4, <3>1, PathsKept DEF TimesOut, GiveUp, Types, Pcs
    <3>2. CASE e # "client"
      BY <2>4, <3>2, PathChosen DEF TimesOut, GiveUp
    <3>3. QED
      BY <3>1, <3>2
  <2>5. QED
    BY <1>1, <2>1, <2>2, <2>3, <2>4, PayloadSent DEF MainStep
<1>2. CASE ClientRelayOnly
  BY <1>2, PathChosen DEF ClientRelayOnly, Ends
<1>3. CASE ClientBegins \/ ClientReceives
  BY <1>0, <1>3, PathsKept
  DEF ClientBegins, ClientReceives, StartGathering, GiveUp, Types, Pcs
<1>4. CASE ServerReceives
  <2>1. CASE main["server"].of = "offer"
    BY <1>0, <1>4, <2>1, PathsKept DEF ServerReceives, StartGathering, Types, Pcs
  <2>2. CASE main["server"].of # "offer"
    BY <1>4, <2>2, PathChosen DEF ServerReceives, GiveUp, Ends
  <2>3. QED
    BY <2>1, <2>2
<1>5. ASSUME NEW e \in Ends, CallbackStep(e) \/ BackgroundReads(e) \/ Opens(e)
      PROVE  Paths(x)'
  BY <1>0, <1>5, PathsKept
  DEF CallbackStep, CandidateLength, CandidateBody, BackgroundReads, Opens
<1>6. CASE UNCHANGED vars
  BY <1>0, <1>6, PathsKept DEF vars
<1>7. QED
  BY <1>1, <1>2, <1>3, <1>4, <1>5, <1>6, PayloadReceived DEF Next, ClientStep, Settled

-----------------------------------------------------------------------------
(* A unit in front of a stream is read first. *)
LEMMA InFront ==
  ASSUME NEW S, NEW a \in S, NEW s \in Seq(S)
  PROVE  /\ <<a>> \o s \in Seq(S) /\ <<a>> \o s # << >>
         /\ Head(<<a>> \o s) = a /\ Tail(<<a>> \o s) = s
<1>1. /\ <<a>> \in Seq(S) /\ Len(<<a>>) = 1 /\ <<a>>[1] = a
      /\ Len(s) \in Nat
  BY LenProperties
<1>2. /\ <<a>> \o s \in Seq(S) /\ Len(<<a>> \o s) = 1 + Len(s)
      /\ \A i \in 1..1 + Len(s) :
           (<<a>> \o s)[i] = IF i <= 1 THEN <<a>>[i] ELSE s[i - 1]
  BY <1>1, ConcatProperties
<1> DEFINE w == <<a>> \o s
<1>3. w \in Seq(S) /\ w # << >> /\ Head(w) = a
  BY <1>1, <1>2, EmptySeq
<1>4. /\ Tail(w) \in Seq(S) /\ Len(Tail(w)) = Len(s)
      /\ \A i \in 1..Len(Tail(w)) : Tail(w)[i] = w[i + 1]
  BY <1>1, <1>2, <1>3, HeadTailProperties
<1>5. \A i \in 1..Len(Tail(w)) : Tail(w)[i] = s[i]
  BY <1>1, <1>2, <1>4
<1>6. Tail(w) = s
  BY <1>4, <1>5, SeqEqual
<1>7. QED
  BY <1>3, <1>6

(* The two parts of a fallback are units, the second its whole body. *)
LEMMA FallbackUnits ==
  /\ LengthUnit \in Units /\ BodyUnit \in Units
  /\ Body("fallback") = <<BodyUnit>>
<1>1. BodyUnits["fallback"] = 1 /\ "fallback" \in Signals
  BY DEF BodyUnits, Signals
<1>2. Body("fallback") = <<BodyUnit>>
  BY <1>1 DEF Body, BodyUnit
<1>3. QED
  BY <1>1, <1>2 DEF LengthUnit, LengthOf, BodyUnit, Units

(* How a fallback with a stream behind it is read. *)
LEMMA FallbackRead ==
  ASSUME NEW s \in Seq(Units)
  PROVE  /\ FallbackThen(s) # << >> /\ Head(FallbackThen(s)) = LengthUnit
         /\ Tail(FallbackThen(s)) = BodyThen(s)
         /\ BodyThen(s) # << >> /\ Head(BodyThen(s)) = BodyUnit /\ Tail(BodyThen(s)) = s
<1>1. BodyThen(s) \in Seq(Units)
  BY FallbackUnits, InFront DEF BodyThen
<1>2. QED
  BY <1>1, FallbackUnits, InFront DEF BodyThen, FallbackThen

(* How it is written. *)
LEMMA FallbackWritten ==
  /\ << >> \o <<LengthUnit>> = <<LengthUnit>>
  /\ <<LengthUnit>> \o Body("fallback") = FallbackThen(<< >>)
  /\ << >> \o Body("fallback") = BodyThen(<< >>)
<1>1. /\ <<LengthUnit>> \in Seq(Units) /\ <<BodyUnit>> \in Seq(Units)
      /\ Body("fallback") = <<BodyUnit>>
  BY FallbackUnits
<1>2. <<BodyUnit>> \o << >> = <<BodyUnit>> /\ << >> \o <<BodyUnit>> = <<BodyUnit>>
  BY <1>1, ConcatEmptySeq
<1>3. << >> \o <<LengthUnit>> = <<LengthUnit>>
  BY <1>1, ConcatEmptySeq
<1>4. QED
  BY <1>1, <1>2, <1>3, Zenon DEF BodyThen, FallbackThen

(* How the stream is written behind it. *)
LEMMA FallbackFollowed ==
  ASSUME NEW p \in Seq(Units)
  PROVE  /\ FallbackThen(<< >>) \o p = FallbackThen(p)
         /\ BodyThen(<< >>) \o p = BodyThen(p)
<1>1. <<LengthUnit>> \in Seq(Units) /\ <<BodyUnit>> \in Seq(Units)
  BY FallbackUnits
<1>2. <<BodyUnit>> \o << >> = <<BodyUnit>>
  BY <1>1, ConcatEmptySeq
<1>3. (<<LengthUnit>> \o <<BodyUnit>>) \o p = <<LengthUnit>> \o (<<BodyUnit>> \o p)
  BY <1>1, ConcatAssociative
<1>4. QED
  BY <1>2, <1>3, Zenon DEF BodyThen, FallbackThen

(* What readSignal makes of it. *)
LEMMA FallbackFed ==
  /\ Feed("server", Idle, LengthUnit) = Half
  /\ Feed("server", Half, BodyUnit) = Whole
  /\ ~Complete(Idle) /\ ~Complete(Half)
  /\ Idle # Failed /\ Half # Failed /\ Whole # Failed /\ Whole.of # "offer"
  /\ Head(<<LengthUnit>>) = LengthUnit /\ Tail(<<LengthUnit>>) = << >>
<1>1. BodyUnits["fallback"] = 1 /\ "fallback" \in Signals /\ "len" \notin Signals
  BY DEF BodyUnits, Signals
<1>2. Feed("server", Idle, LengthUnit) = Half
  BY <1>1 DEF Feed, Idle, LengthUnit, LengthOf, Half
<1>3. Append(<< >>, BodyUnit) = <<BodyUnit>> /\ Len(<<BodyUnit>>) = 1
  OBVIOUS
<1>4. Feed("server", Half, BodyUnit) = Whole
  BY <1>1, <1>3, FallbackUnits DEF Feed, Broken, Half, Whole
<1>5. QED
  BY <1>1, <1>2, <1>4 DEF Complete, Idle, Half, Whole, Failed

-----------------------------------------------------------------------------
(* A client that is past its offer stays past it. *)
LEMMA EarlyBefore == ASSUME Types, [Next]_vars, Early' PROVE Early
<1>1. tryDirect' = tryDirect
  BY Zenon
  DEF Next, ClientStep, ClientRelayOnly, ClientBegins, ClientReceives, ServerReceives,
      MainStep, SendLength, SendBody, MainReads, TakesDirect, TimesOut, SendPayload,
      CallbackStep, CandidateLength, CandidateBody, BackgroundReads, Opens, ReceivePayload,
      Settled, vars, dataVars, inputs
<1>2. ASSUME gather' = gather PROVE Early
  BY <1>1, <1>2 DEF Early
<1>3. ASSUME NEW e \in Ends,
             MainStep(e) \/ BackgroundReads(e) \/ Opens(e) \/ ReceivePayload(e)
      PROVE  gather' = gather
  BY <1>3, Zenon
  DEF MainStep, SendLength, SendBody, MainReads, TakesDirect, TimesOut, SendPayload,
      BackgroundReads, Opens, ReceivePayload, negVars
<1>4. CASE ClientStep
  BY <1>1, <1>4
  DEF ClientStep, ClientRelayOnly, ClientBegins, ClientReceives, StartGathering, negVars,
      Early, Types, Gathers, Ends
<1>5. CASE ServerReceives
  BY <1>1, <1>5 DEF ServerReceives, StartGathering, Early, Types, Gathers, Ends
<1>6. ASSUME NEW e \in Ends, CallbackStep(e) PROVE Early
  <2>1. e = "client" => gather'["client"].state # "off"
    BY <1>6 DEF CallbackStep, CandidateLength, CandidateBody, Types, Gathers
  <2>2. e # "client" => gather'["client"] = gather["client"]
    BY <1>6 DEF CallbackStep, CandidateLength, CandidateBody, Types, Gathers, Ends
  <2>3. QED
    BY <1>1, <2>1, <2>2 DEF Early
<1>7. CASE Settled \/ UNCHANGED vars
  BY <1>2, <1>7, Zenon DEF Settled, vars, negVars
<1>8. QED
  BY <1>2, <1>3, <1>4, <1>5, <1>6, <1>7 DEF Next

(* Neither does a step move an end to where such a client cannot bring it. *)
LEMMA NoOfferStep ==
  ASSUME Types, Early, NoOffer, ServerClean, Next, Early'
  PROVE  NoOffer'
<1> USE DEF Early, NoOffer, Types, Pcs, Flags, Ways, Sendings, Gathers, Ends, negVars
<1>1. ASSUME NEW e \in Ends, MainStep(e) PROVE NoOffer'
  BY <1>1
  DEF MainStep, SendLength, SendBody, AfterSend, MainReads, TakesDirect, TimesOut,
      SendPayload
<1>2. CASE ClientStep
  BY <1>2
  DEF ClientStep, ClientRelayOnly, ClientBegins, ClientReceives, StartGathering, GiveUp
<1>3. CASE ServerReceives
  <2>1. main["server"] = Whole
    BY <1>3, FallbackFed DEF ServerReceives, ServerClean, ServerReading
  <2>2. QED
    BY <1>3, <2>1, FallbackFed DEF ServerReceives, GiveUp
<1>4. ASSUME NEW e \in Ends,
             CallbackStep(e) \/ BackgroundReads(e) \/ Opens(e) \/ ReceivePayload(e)
      PROVE  NoOffer'
  BY <1>4
  DEF CallbackStep, CandidateLength, CandidateBody, BackgroundReads, Opens, ReceivePayload
<1>5. CASE Settled
  BY <1>5 DEF Settled, vars
<1>6. QED
  BY <1>1, <1>2, <1>3, <1>4, <1>5 DEF Next

(* A write on a connection that is open appends to what the peer reads. *)
LEMMA Written ==
  ASSUME Types, NEW e \in Ends, NEW units, ~closed[e], Write(e, units)
  PROVE  wire'[Peer(e)] = wire[Peer(e)] \o units /\ wire'[e] = wire[e]
BY DEF Write, Types, Streams, Peer, Ends

(* What an end reads is kept while nothing is written to it or read. *)
LEMMA ClientKept ==
  ASSUME ClientClean, wire'["client"] = wire["client"], out'["client"] = out["client"],
         sent'["server"] = sent["server"], size' = size
  PROVE  ClientClean'
BY Zenon DEF ClientClean, OnWire, Stream, Payload

(* The server's side of it. *)
LEMMA ServerKept ==
  ASSUME ServerClean, wire'["server"] = wire["server"], out'["server"] = out["server"],
         sent'["client"] = sent["client"], size' = size, main'["server"] = main["server"],
         pc'["server"] = pc["server"], pc'["client"] = pc["client"]
  PROVE  ServerClean'
<1>1. Stream("client")' = Stream("client") /\ OnWire("server")' = OnWire("server")
  BY Zenon DEF OnWire, Stream, Payload
<1>2. QED
  BY <1>1 DEF ServerClean, ServerReading

(* The client writes its fallback behind nothing. *)
LEMMA FallbackSent ==
  ASSUME Types, \A y \in Ends : Paths(y), NoOffer, ServerClean,
         SendLength("client") \/ SendBody("client")
  PROVE  ServerClean'
<1>1. /\ "client" \in Ends /\ "server" \in Ends /\ Peer("client") = "server"
      /\ ~closed["client"] /\ pc["client"] # "data" /\ sending["client"] = "fallback"
  BY Zenon DEF Ends, Peer, NoOffer, SendLength, SendBody
<1>2. /\ ~sent["client"] /\ main' = main /\ pc'["server"] = pc["server"] /\ sent' = sent
  BY <1>1 DEF Paths, SendLength, SendBody, negVars, dataVars, Types, Pcs
<1>3. pc["server"] = "read" /\ ServerReading
  BY <1>1 DEF ServerClean, NoOffer
<1>4. Stream("client")' = << >>
  BY <1>2 DEF Stream
<1>5. CASE SendLength("client")
  <2>1. wire'["server"] = wire["server"] \o <<LengthUnit>>
    BY <1>1, <1>5, Written, Zenon DEF SendLength, LengthUnit
  <2>2. wire["server"] = << >> /\ main["server"] = Idle /\ pc'["client"] = "sendBody"
    BY <1>3, <1>5 DEF SendLength, ServerReading, Types, Pcs, Ends
  <2>3. wire'["server"] = <<LengthUnit>>
    BY <2>1, <2>2, FallbackWritten
  <2>4. QED
    BY <1>2, <1>3, <2>2, <2>3 DEF ServerClean, ServerReading
<1>6. CASE SendBody("client")
  <2>1. wire'["server"] = wire["server"] \o Body("fallback")
    BY <1>1, <1>6, Written, Zenon DEF SendBody
  <2>2. pc'["client"] = "data"
    BY <1>1, <1>6 DEF SendBody, AfterSend, Types, Pcs
  <2>3. \/ main["server"] = Idle /\ wire["server"] = <<LengthUnit>>
        \/ main["server"] = Half /\ wire["server"] = << >>
    BY <1>3, <1>6, Zenon DEF SendBody, ServerReading
  <2>4. \/ main["server"] = Idle /\ wire'["server"] = FallbackThen(<< >>)
        \/ main["server"] = Half /\ wire'["server"] = BodyThen(<< >>)
    BY <2>1, <2>3, FallbackWritten, Zenon
  <2>5. QED
    BY <1>2, <1>3, <1>4, <2>2, <2>4 DEF ServerClean, ServerReading
<1>7. QED
  BY <1>5, <1>6, Zenon

(* The server reads it, and nothing else, before it gives up. *)
LEMMA FallbackReceived ==
  ASSUME Types, NoOffer, ServerClean, MainReads("server")
  PROVE  ServerClean'
<1>1. /\ "server" \in Ends /\ "client" \in Ends /\ ~closed["server"] /\ ~closed["client"]
      /\ Peer("server") = "client" /\ pc["server"] = "read" /\ ServerReading
  BY DEF Ends, Peer, NoOffer, ServerClean, MainReads
<1>2. wire["server"] # << >>
  BY <1>1 DEF MainReads, ReadReturns, Readable
<1>3. /\ wire'["server"] = Tail(wire["server"])
      /\ main'["server"] = Feed("server", main["server"], Head(wire["server"]))
      /\ pc' = pc /\ sent' = sent /\ size' = size /\ out' = out
  BY <1>1, <1>2
  DEF MainReads, ReadBy, Unread, Readable, Types, Streams, Readers, dataVars, inputs
<1>4. Stream("client")' = Stream("client") /\ Stream("client") \in Seq(Units)
  BY <1>1, <1>3, PayloadUnits, EmptySeq DEF Stream, Payload, Types
<1>5. ~Complete(main["server"])
  BY Zenon DEF MainReads
<1>6. CASE /\ wire["server"] = <<LengthUnit>>
           /\ main["server"] = Idle /\ pc["client"] = "sendBody"
  <2>1. Head(wire["server"]) = LengthUnit /\ Tail(wire["server"]) = << >>
    BY <1>6, FallbackFed, Zenon
  <2>2. QED
    BY <1>1, <1>3, <1>6, <2>1, FallbackFed DEF ServerClean, ServerReading
<1>7. CASE /\ wire["server"] = FallbackThen(Stream("client"))
           /\ main["server"] = Idle /\ pc["client"] = "data"
  BY <1>1, <1>3, <1>4, <1>7, FallbackRead, FallbackFed DEF ServerClean, ServerReading
<1>8. CASE /\ wire["server"] = BodyThen(Stream("client"))
           /\ main["server"] = Half /\ pc["client"] = "data"
  BY <1>1, <1>3, <1>4, <1>8, FallbackRead, FallbackFed DEF ServerClean, ServerReading
<1>9. Complete(Whole)
  BY DEF Complete, Whole, Signals, BodyUnits
<1>10. QED
  BY <1>1, <1>2, <1>5, <1>6, <1>7, <1>8, <1>9 DEF ServerReading

(* Then it finds only payload on the connection. *)
LEMMA FallbackTaken ==
  ASSUME Types, \A y \in Ends : Paths(y), ServerClean, ServerReceives
  PROVE  ServerClean'
<1>1. "server" \in Ends /\ pc["server"] = "read" /\ ServerReading
  BY DEF Ends, ServerReceives, ServerClean
<1>2. main["server"] = Whole
  BY <1>1, FallbackFed DEF ServerReceives, ServerReading
<1>3. pc["client"] = "data" /\ wire["server"] = Stream("client")
  BY <1>1, <1>2 DEF ServerReading, Idle, Half, Whole
<1>4. /\ pc'["server"] = "data" /\ pc'["client"] = pc["client"]
      /\ wire' = wire /\ out' = out /\ sent' = sent /\ size' = size
  BY <1>2, FallbackFed DEF ServerReceives, GiveUp, Types, Pcs, Ends, dataVars, inputs
<1>5. out["server"] = << >> /\ wire["server"] \in Seq(Units)
  BY <1>1 DEF Paths, Types, Streams
<1>6. OnWire("server") = Stream("client")
  BY <1>3, <1>5, ConcatEmptySeq DEF OnWire
<1>7. OnWire("server")' = OnWire("server") /\ Stream("client")' = Stream("client")
  BY <1>4, Zenon DEF OnWire, Stream, Payload
<1>8. QED
  BY <1>3, <1>4, <1>6, <1>7 DEF ServerClean

(* A payload is written once, behind the fallback or behind nothing. *)
LEMMA RelayWritten ==
  ASSUME Types, \A y \in Ends : Paths(y), NoOffer, ServerClean, ClientClean,
         NEW e \in Ends, SendPayload(e)
  PROVE  ServerClean' /\ ClientClean'
<1>1. /\ Peer(e) \in Ends /\ ~closed[e] /\ path[e] = "relay"
      /\ pc[e] = "data" /\ ~sent[e]
  BY DEF Peer, Ends, NoOffer, Paths, SendPayload, Types, Ways
<1>2. /\ Write(e, Payload(e)) /\ sent' = [sent EXCEPT ![e] = TRUE]
      /\ pc' = pc /\ main' = main /\ out' = out /\ size' = size
  BY <1>1 DEF SendPayload, negVars, inputs
<1>3. /\ wire'[Peer(e)] = wire[Peer(e)] \o Payload(e) /\ wire'[e] = wire[e]
      /\ Stream(e) = << >>
  BY <1>1, <1>2, Written, Zenon DEF Stream
<1>4. sent'[e] /\ sent'[Peer(e)] = sent[Peer(e)]
  BY <1>1, <1>2, Zenon DEF Types, Flags, Peer, Ends
<1>5. Stream(e)' = Payload(e) /\ Payload(e) \in Seq(Units)
  BY <1>2, <1>4, PayloadUnits, Zenon DEF Stream, Payload, Types
<1>6. /\ out[Peer(e)] \in Seq(Units) /\ wire[Peer(e)] \in Seq(Units)
      /\ OnWire(Peer(e))' = out[Peer(e)] \o (wire[Peer(e)] \o Payload(e))
  BY <1>1, <1>2, <1>3, Zenon DEF Types, Streams, OnWire
<1>7. OnWire(Peer(e)) = << >> => OnWire(Peer(e))' = Stream(e)'
  BY <1>5, <1>6, WrittenWhole, Zenon DEF OnWire
<1>8. CASE e = "server"
  <2>1. Peer(e) = "client"
    BY <1>8, Zenon DEF Peer
  <2>2. ServerClean'
    BY <1>2, <1>3, <1>4, <1>8, <2>1, ServerKept
  <2>3. ClientClean'
    BY <1>3, <1>7, <1>8, <2>1 DEF ClientClean
  <2>4. QED
    BY <2>2, <2>3
<1>9. CASE e = "client"
  <2>1. Peer(e) = "server"
    BY <1>9 DEF Peer
  <2>2. ClientClean'
    BY <1>2, <1>3, <1>4, <1>9, <2>1, ClientKept
  <2>3. pc["server"] = "data" => OnWire("server")' = Stream("client")'
    BY <1>3, <1>7, <1>9, <2>1 DEF ServerClean
  <2>4. pc["server"] = "read" => ServerReading'
    <3>1. /\ FallbackThen(<< >>) \o Payload(e) = FallbackThen(Payload(e))
          /\ BodyThen(<< >>) \o Payload(e) = BodyThen(Payload(e))
          /\ << >> \o Payload(e) = Payload(e)
      BY <1>5, FallbackFollowed, ConcatEmptySeq
    <3>2. pc["server"] = "read" =>
            \/ main["server"] = Idle /\ wire["server"] = FallbackThen(<< >>)
            \/ main["server"] = Half /\ wire["server"] = BodyThen(<< >>)
            \/ main["server"] = Whole /\ wire["server"] = << >>
      BY <1>1, <1>3, <1>9 DEF ServerClean, ServerReading
    <3>3. pc["server"] = "read" =>
            \/ main["server"] = Idle /\ wire'["server"] = FallbackThen(Payload(e))
            \/ main["server"] = Half /\ wire'["server"] = BodyThen(Payload(e))
            \/ main["server"] = Whole /\ wire'["server"] = Payload(e)
      BY <1>3, <2>1, <3>1, <3>2, Zenon
    <3>4. QED
      BY <1>1, <1>2, <1>5, <1>9, <3>3 DEF ServerReading
  <2>5. QED
    BY <1>1, <1>2, <1>9, <2>2, <2>3, <2>4 DEF ServerClean
<1>10. QED
  BY <1>8, <1>9 DEF Ends

(* A copy passes it on unit by unit. *)
LEMMA RelayRead ==
  ASSUME Types, NoOffer, ServerClean, ClientClean, NEW e \in Ends, ReceivePayload(e)
  PROVE  ServerClean' /\ ClientClean'
<1>1. path[e] = "relay" /\ pc[e] = "data" /\ wire[e] # << >>
  BY DEF NoOffer, ReceivePayload
<1>2. /\ out' = [out EXCEPT ![e] = Append(@, Head(wire[e]))]
      /\ wire' = [wire EXCEPT ![e] = Tail(@)]
      /\ pc' = pc /\ sent' = sent /\ size' = size /\ main' = main
  BY <1>1 DEF ReceivePayload, negVars, inputs
<1>3. /\ out'[e] = Append(out[e], Head(wire[e])) /\ wire'[e] = Tail(wire[e])
      /\ \A x \in Ends \ {e} : out'[x] = out[x] /\ wire'[x] = wire[x]
  BY <1>2 DEF Types, Streams
<1>4. OnWire(e)' = OnWire(e)
  <2>1. out[e] \in Seq(Units) /\ wire[e] \in Seq(Units) /\ wire[e] # << >>
    BY <1>1 DEF Types, Streams
  <2>2. Append(out[e], Head(wire[e])) \o Tail(wire[e]) = out[e] \o wire[e]
    BY <2>1, Passed, Zenon
  <2>3. QED
    BY <1>3, <2>2, Zenon DEF OnWire
<1>5. Stream("client")' = Stream("client") /\ Stream("server")' = Stream("server")
  BY <1>2, Zenon DEF Stream, Payload
<1>6. CASE e = "server"
  <2>1. ClientClean'
    BY <1>2, <1>3, <1>6, ClientKept DEF Ends
  <2>2. QED
    BY <1>1, <1>2, <1>4, <1>5, <1>6, <2>1 DEF ServerClean
<1>7. CASE e = "client"
  <2>1. ServerClean'
    BY <1>2, <1>3, <1>7, ServerKept DEF Ends
  <2>2. QED
    BY <1>4, <1>5, <1>7, <2>1 DEF ClientClean
<1>8. QED
  BY <1>6, <1>7 DEF Ends

(* So a client that has made no offer leaves the connection clean. *)
LEMMA CleanStep ==
  ASSUME Types, \A y \in Ends : Paths(y), Early, NoOffer, ServerClean, ClientClean,
         Next, Early'
  PROVE  ServerClean' /\ ClientClean'
<1>1. /\ tryDirect /\ pc["client"] \notin {"read", "wait"}
      /\ pc["server"] \notin {"sendLength", "sendBody", "wait"}
      /\ \A e \in Ends : gather[e].state = "off" /\ ~bg[e]
      /\ gather'["client"].state = "off"
  BY DEF Early, NoOffer, Ends
<1>2. ASSUME UNCHANGED <<wire, out, sent, size>> PROVE ClientClean'
  BY <1>2, ClientKept
<1>3. ASSUME UNCHANGED <<pc, wire, main, out, sent, size>>
      PROVE  ServerClean' /\ ClientClean'
  BY <1>3, ClientKept, ServerKept
<1>4. CASE ClientStep
  <2>1. /\ ClientBegins /\ pc["client"] = "begin" /\ pc'["client"] = "sendLength"
        /\ UNCHANGED <<wire, main, out, sent, size>> /\ pc'["server"] = pc["server"]
    BY <1>1, <1>4, Zenon
    DEF ClientStep, ClientRelayOnly, ClientBegins, ClientReceives, StartGathering, GiveUp,
        Types, Pcs, Gathers, Ends, dataVars, inputs
  <2>2. ServerClean'
    BY <2>1 DEF ServerClean, ServerReading
  <2>3. QED
    BY <1>2, <2>1, <2>2
<1>5. CASE ServerReceives
  BY <1>2, <1>5, FallbackTaken DEF ServerReceives, dataVars, inputs
<1>6. ASSUME NEW e \in Ends, SendLength(e) \/ SendBody(e)
      PROVE  ServerClean' /\ ClientClean'
  <2>1. e = "client"
    BY <1>1, <1>6, Zenon DEF SendLength, SendBody, Ends
  <2>2. wire'["client"] = wire["client"]
    BY <1>6, <2>1, Written DEF SendLength, SendBody, NoOffer, Ends
  <2>3. QED
    BY <1>6, <2>1, <2>2, FallbackSent, ClientKept, Zenon
    DEF SendLength, SendBody, dataVars, inputs
<1>7. ASSUME NEW e \in Ends, MainReads(e) PROVE ServerClean' /\ ClientClean'
  <2>1. e = "server"
    BY <1>1, <1>7 DEF MainReads, Ends
  <2>2. wire'["client"] = wire["client"]
    BY <1>7, <2>1 DEF MainReads, Unread, Types, Streams, Ends
  <2>3. QED
    BY <1>7, <2>1, <2>2, FallbackReceived, ClientKept DEF MainReads, dataVars, inputs
<1>8. ASSUME NEW e \in Ends
      PROVE  ~TakesDirect(e) /\ ~TimesOut(e) /\ ~CallbackStep(e) /\ ~BackgroundReads(e)
  BY <1>1
  DEF TakesDirect, TimesOut, CallbackStep, CandidateLength, CandidateBody, BackgroundReads,
      Ends
<1>9. ASSUME NEW e \in Ends, Opens(e) PROVE ServerClean' /\ ClientClean'
  BY <1>3, <1>9 DEF Opens, dataVars, inputs
<1>10. CASE Settled
  BY <1>3, <1>10 DEF Settled, vars, negVars, dataVars, inputs
<1>11. QED
  BY <1>4, <1>5, <1>6, <1>7, <1>8, <1>9, <1>10, RelayWritten, RelayRead
  DEF Next, MainStep

-----------------------------------------------------------------------------
(* Before anything is written there is nothing to find. *)
LEMMA InvInit == Init => IInv
<1> SUFFICES ASSUME Init PROVE IInv
  OBVIOUS
<1>1. Types /\ Writing
  BY TypeInit
<1>2. << >> \o << >> = << >>
  BY EmptySeq, ConcatEmptySeq
<1>3. ASSUME NEW e \in Ends PROVE Paths(e) /\ OnWire(e) = << >> /\ Stream(e) = << >>
  BY <1>2 DEF Init, Paths, Channel, OnChannel, OnWire, Stream, Ends, Peer
<1>4. NoOffer
  BY DEF Init, NoOffer, Ends
<1>5. ServerClean /\ ClientClean
  BY <1>3 DEF Init, ServerClean, ServerReading, ClientClean, Ends
<1>6. QED
  BY <1>1, <1>3, <1>4, <1>5, TypesAre DEF IInv

(* The invariant is inductive. *)
LEMMA InvStep == IInv /\ [Next]_vars => IInv'
<1> SUFFICES ASSUME IInv, [Next]_vars PROVE IInv'
  OBVIOUS
<1>1. Types /\ Writing /\ \A e \in Ends : Paths(e)
  BY TypesAre DEF IInv
<1>2. Types' /\ Writing'
  <2>1. CASE Next
    BY <1>1, <2>1, TypeMain, TypeNegotiation, TypeOther, WritingStep, TypeStutter,
       Zenon
    DEF Next, Settled
  <2>2. CASE UNCHANGED vars
    BY <1>1, <2>2, TypeStutter
  <2>3. QED
    BY <2>1, <2>2, Zenon
<1>3. \A e \in Ends : Paths(e)'
  BY <1>1, PathsStep
<1>4. ASSUME Early' PROVE NoOffer' /\ ServerClean' /\ ClientClean'
  <2>1. Early /\ NoOffer /\ ServerClean /\ ClientClean
    BY <1>1, <1>4, EarlyBefore DEF IInv
  <2>2. CASE Next
    BY <1>1, <1>4, <2>1, <2>2, NoOfferStep, CleanStep
  <2>3. CASE UNCHANGED vars
    <3>1. NoOffer'
      BY <2>1, <2>3 DEF NoOffer, vars, negVars
    <3>2. QED
      BY <2>1, <2>3, <3>1, ClientKept, ServerKept DEF vars, negVars, dataVars, inputs
  <2>4. QED
    BY <2>2, <2>3
<1>5. TypeOK'
  BY <1>2, TypesAre, PTL
<1>6. QED
  BY <1>2, <1>3, <1>4, <1>5 DEF IInv

(* The invariant holds in every reachable state. *)
THEOREM Invariant == Spec => []IInv
BY InvInit, InvStep, PTL DEF Spec

(* The variables keep their types: streams hold units, readSignal is in    *)
(* one of its states, and a callback never counts below zero.              *)
THEOREM TypeCorrect == Spec => []TypeOK
<1>1. IInv => TypeOK
  BY DEF IInv
<1>2. QED
  BY <1>1, Invariant, PTL

(* A client that could not make an offer announces the fallback, and the   *)
(* relay connection carries both payloads unharmed, whatever their length  *)
(* and however the signal and the payload are cut into reads.              *)
THEOREM EarlyFallbacksAreIntact == Spec => []EarlyFallbackIntact
<1>1. IInv => EarlyFallbackIntact
  <2> SUFFICES ASSUME IInv, tryDirect, OnRelay, gather["client"].state = "off",
                      NEW e \in Ends
               PROVE  StartOf(out[e], Payload(Peer(e)))
    BY DEF EarlyFallbackIntact, Intact
  <2>1. /\ Types /\ Paths(e) /\ Paths("server") /\ path[e] = "relay"
        /\ path["server"] = "relay" /\ ServerClean /\ ClientClean
    BY TypesAre DEF IInv, Early, OnRelay, Ends
  <2>2. pc["server"] = "data"
    BY <2>1 DEF Paths
  <2>3. OnWire(e) = Stream(Peer(e))
    BY <2>1, <2>2 DEF ServerClean, ClientClean, Ends, Peer
  <2>4. /\ out[e] \in Seq(Units) /\ wire[e] \in Seq(Units)
        /\ Payload(Peer(e)) \in Seq(Units)
    BY <2>1, PayloadUnits DEF Types, Streams, Peer, Ends
  <2>5. CASE sent[Peer(e)]
    BY <2>3, <2>4, <2>5, PassedIsStart, Zenon DEF OnWire, Stream
  <2>6. CASE ~sent[Peer(e)]
    <3>1. out[e] = << >>
      BY <2>3, <2>4, <2>6, ConcatEqualIffEmpty DEF OnWire, Stream
    <3>2. QED
      BY <2>4, <3>1, NothingIsStart
  <2>7. QED
    BY <2>5, <2>6
<1>2. QED
  BY <1>1, Invariant, PTL

(* An end that took the data channel writes to its stdout what its peer    *)
(* sent, and nothing of the signalling, whatever path the peer took.       *)
THEOREM DirectIsIntact == Spec => []DirectIntact
<1>1. IInv => DirectIntact
  <2> SUFFICES ASSUME IInv, NEW e \in Ends, path[e] = "direct"
               PROVE  StartOf(out[e], Payload(Peer(e)))
    BY DEF DirectIntact
  <2>1. Types /\ OnChannel(e) = Channel(Peer(e))
    BY TypesAre DEF IInv, Paths
  <2>2. /\ out[e] \in Seq(Units) /\ direct[e] \in Seq(Units)
        /\ Payload(Peer(e)) \in Seq(Units)
    BY <2>1, PayloadUnits DEF Types, Streams, Peer, Ends
  <2>3. CASE Channel(Peer(e)) = Payload(Peer(e))
    BY <2>1, <2>2, <2>3, PassedIsStart, Zenon DEF OnChannel
  <2>4. CASE Channel(Peer(e)) = << >>
    <3>1. out[e] = << >>
      BY <2>1, <2>2, <2>4, ConcatEqualIffEmpty DEF OnChannel
    <3>2. QED
      BY <2>2, <3>1, NothingIsStart
  <2>5. QED
    BY <2>3, <2>4 DEF Channel
<1>2. QED
  BY <1>1, Invariant, PTL
-----------------------------------------------------------------------------
(* An end that has closed its PeerConnection does not come back to it. *)
LEMMA KeepsStep ==
  ASSUME Types, Writing, Next, NEW x \in Ends, Paths(x), KeepsChannel(x)
  PROVE  KeepsChannel(x)'
<1> USE DEF KeepsChannel, Types, Pcs, Conns, Sendings, Ways, negVars
<1>1. ASSUME NEW e \in Ends, SendLength(e) \/ SendBody(e) PROVE KeepsChannel(x)'
  BY <1>1 DEF SendLength, SendBody, AfterSend
<1>2. ASSUME NEW e \in Ends, TakesDirect(e) \/ TimesOut(e) PROVE KeepsChannel(x)'
  BY <1>2 DEF TakesDirect, TimesOut, GiveUp, Ends
<1>3. CASE ClientStep
  BY <1>3
  DEF ClientStep, ClientRelayOnly, ClientBegins, ClientReceives, StartGathering, GiveUp, Ends
<1>4. CASE ServerReceives
  BY <1>4 DEF ServerReceives, StartGathering, GiveUp, Ends
<1>5. ASSUME UNCHANGED <<pc, path, sending, peerConn>> PROVE KeepsChannel(x)'
  BY <1>5
<1> HIDE DEF KeepsChannel
<1>6. ASSUME NEW e \in Ends,
             \/ MainReads(e) \/ SendPayload(e) \/ CallbackStep(e) \/ BackgroundReads(e)
             \/ Opens(e) \/ ReceivePayload(e)
      PROVE  KeepsChannel(x)'
  BY <1>5, <1>6, Zenon
  DEF MainReads, SendPayload, CallbackStep, CandidateLength, CandidateBody,
      BackgroundReads, Opens, ReceivePayload
<1>7. CASE Settled
  BY <1>5, <1>7, Zenon DEF Settled, vars
<1>8. QED
  BY <1>1, <1>2, <1>3, <1>4, <1>6, <1>7 DEF Next, MainStep

(* A server writes an answer or a fallback, and never reads a first signal *)
(* a second time.                                                          *)
LEMMA AnswersStep ==
  ASSUME Types, Writing, ServerAnswers, Next
  PROVE  ServerAnswers' /\ (pc'["server"] = "read" => pc["server"] = "read")
<1> DEFINE Goal == ServerAnswers' /\ (pc'["server"] = "read" => pc["server"] = "read")
<1> USE DEF ServerAnswers, Types, Pcs, Sendings, negVars
<1>1. ASSUME NEW e \in Ends, SendLength(e) \/ SendBody(e) PROVE Goal
  BY <1>1 DEF SendLength, SendBody, AfterSend, Writing, Ends
<1>2. ASSUME NEW e \in Ends, TakesDirect(e) \/ TimesOut(e) PROVE Goal
  BY <1>2 DEF TakesDirect, TimesOut, GiveUp, Ends
<1>3. ASSUME ClientStep PROVE Goal
  BY <1>3
  DEF ClientStep, ClientRelayOnly, ClientBegins, ClientReceives, StartGathering, GiveUp, Ends
<1>4. ASSUME ServerReceives PROVE Goal
  BY <1>4 DEF ServerReceives, StartGathering, GiveUp, Ends
<1>5. ASSUME UNCHANGED <<pc, sending>> PROVE Goal
  BY <1>5
<1> HIDE DEF ServerAnswers, Goal
<1>6. ASSUME NEW e \in Ends,
             \/ MainReads(e) \/ SendPayload(e) \/ CallbackStep(e) \/ BackgroundReads(e)
             \/ Opens(e) \/ ReceivePayload(e)
      PROVE  Goal
  BY <1>5, <1>6, Zenon
  DEF MainReads, SendPayload, CallbackStep, CandidateLength, CandidateBody,
      BackgroundReads, Opens, ReceivePayload
<1>7. ASSUME Settled PROVE Goal
  BY <1>5, <1>7, Zenon DEF Settled, vars
<1>8. Goal
  BY <1>1, <1>2, <1>3, <1>4, <1>6, <1>7 DEF Next, MainStep
<1>9. QED
  BY <1>8 DEF Goal

(* What readSignal has read is a number of units, at most two while it     *)
(* waits for more.                                                         *)
LEMMA ConsumedUnits ==
  ASSUME NEW r \in Reads
  PROVE  /\ Consumed(r) \in Nat
         /\ (Waiting(r) /\ (r.of \in Signals => Len(r.got) <= BodyUnits[r.of])
              /\ (r.of = "error" => r = Failed) /\ r.of # "data") => Consumed(r) <= 2
<1>1. Len(r.got) \in Nat /\ r.of \in Signals \cup {"len", "data", "error"}
  BY LenProperties DEF Reads
<1>2. \A m \in Signals : BodyUnits[m] \in {1, 2} /\ m # "len"
  BY DEF Signals, BodyUnits
<1>3. QED
  BY <1>1, <1>2 DEF Consumed, Waiting, Complete

(* Another write to the server leaves it as many units and more. *)
LEMMA ArrivesMore ==
  ASSUME Types, Types', NEW units \in Seq(Units), NEW n \in Nat, Arrived(n),
         main'["server"] = main["server"], wire'["server"] = wire["server"] \o units
  PROVE  Arrived(n + Len(units))'
<1>1. /\ wire["server"] \in Seq(Units) /\ Consumed(main["server"]) \in Nat
  BY ConsumedUnits DEF Types, Streams, Readers, Ends
<1>2. /\ Len(wire'["server"]) = Len(wire["server"]) + Len(units)
      /\ Len(units) \in Nat /\ Len(wire["server"]) \in Nat
  BY <1>1, ConcatProperties, LenProperties
<1>3. Consumed(main'["server"]) = Consumed(main["server"])
  BY DEF Consumed
<1>4. QED
  BY <1>1, <1>2, <1>3 DEF Arrived

(* A read takes one unit off the wire and adds it to what was read, unless *)
(* it fails; what was no payload is not taken for payload.                 *)
LEMMA ReadsOne ==
  ASSUME Types, MainReads("server"), Silent, WithinSignal
  PROVE  /\ \A n \in Nat : Arrived(n) => Arrived(n)'
         /\ WithinSignal'
         /\ \/ main'["server"] = Failed
            \/ Consumed(main'["server"]) = Consumed(main["server"]) + 1
         /\ \/ main'["server"] = Failed
            \/ main'["server"].of = main["server"].of
            \/ /\ main["server"].of = "len" /\ main'["server"].of \in Signals
               /\ Head(wire["server"]) \in {LengthOf(m) : m \in Signals}
            \/ /\ main["server"].of = "len" /\ main'["server"].of = "data"
               /\ Head(wire["server"])[1] = "data"
         /\ wire["server"] # << >> /\ wire'["server"] = Tail(wire["server"])
<1> DEFINE r == main["server"]
           w == wire["server"]
           u == Head(w)
<1>1. /\ r \in Reads /\ w \in Seq(Units) /\ w # << >> /\ Waiting(r)
      /\ main'["server"] = Feed("server", r, u) /\ wire'["server"] = Tail(w)
      /\ word' = word /\ Peer("server") = "client" /\ word["client"] \in Nat
  BY SignalingAssumption
  DEF MainReads, ReadReturns, ReadBy, Unread, Readable, Silent, Waiting, Types,
      Streams, Readers, Ends, Peer, dataVars, inputs
<1>2. /\ u \in Units /\ Tail(w) \in Seq(Units) /\ Len(w) \in Nat /\ Len(r.got) \in Nat
      /\ Len(Tail(w)) = Len(w) - 1
  BY <1>1, HeadTailProperties, LenProperties, EmptySeq DEF Reads
<1>3. /\ Append(r.got, u) \in Seq(Units) /\ Len(Append(r.got, u)) = Len(r.got) + 1
      /\ Len(<< >>) = 0
  BY <1>1, <1>2, AppendProperties DEF Reads
<1>4. /\ r.of \in Signals \cup {"len", "data", "error"} /\ "len" \notin Signals
      /\ "error" \notin Signals /\ "data" \notin Signals
      /\ "error" # "len" /\ "data" # "len" /\ "data" # "error"
      /\ \A m \in Signals : BodyUnits[m] \in {1, 2}
  <2>1. Signals = {"offer", "answer", "candidate", "fallback"}
    BY DEF Signals, BodyUnits
  <2>2. r.of \in Signals \cup {"len", "data", "error"}
    BY <1>1 DEF Reads
  <2>3. \A m \in Signals : BodyUnits[m] \in {1, 2}
    BY <2>1 DEF BodyUnits
  <2>4. QED
    BY <2>1, <2>2, <2>3
<1>5. ASSUME main'["server"] = Failed
      PROVE  (\A n \in Nat : Arrived(n) => Arrived(n)') /\ WithinSignal'
  BY <1>4, <1>5, SMTT(30) DEF Arrived, Waiting, WithinSignal, Failed
<1>6. ASSUME Consumed(main'["server"]) = Consumed(r) + 1
      PROVE  \A n \in Nat : Arrived(n) => Arrived(n)'
  <2>1. Consumed(r) \in Nat
    BY <1>1, ConsumedUnits
  <2>2. Consumed(main'["server"]) + Len(wire'["server"]) = Consumed(r) + Len(w)
    BY <1>1, <1>2, <1>6, <2>1
  <2>3. QED
    BY <1>1, <2>2, Zenon DEF Arrived
<1>7. CASE r.of = "len"
  <2>0. Consumed(r) = 0
    BY <1>7 DEF Consumed
  <2>1. CASE u \in {LengthOf(m) : m \in Signals}
    <3>1. PICK m \in Signals : u = <<"len", m>>
      BY <2>1 DEF LengthOf
    <3>2. Feed("server", r, u) = [of |-> m, got |-> << >>]
      BY <1>7, <2>1, <3>1 DEF Feed
    <3>3. Consumed(main'["server"]) = Consumed(r) + 1
      BY <1>1, <1>3, <1>4, <2>0, <3>2 DEF Consumed
    <3>4. WithinSignal'
      BY <1>1, <1>3, <1>4, <3>2, SMTT(30) DEF WithinSignal
    <3>5. main'["server"].of = m
      BY <1>1, <3>2, SMTT(30)
    <3>6. \A n \in Nat : Arrived(n) => Arrived(n)'
      BY <1>6, <3>3
    <3>7. QED
      BY <1>1, <1>7, <2>1, <3>3, <3>4, <3>5, <3>6, Zenon
  <2>2. CASE u \notin {LengthOf(m) : m \in Signals} /\ Announces("server", u)
    <3>1. main'["server"] = [of |-> "data", got |-> << >>]
      BY <1>1, <1>7, <2>2, Zenon DEF Feed
    <3>2. Consumed(main'["server"]) = Consumed(r) + 1
      BY <1>3, <1>4, <2>0, <3>1 DEF Consumed
    <3>3. WithinSignal'
      BY <1>1, <1>3, <1>4, <2>2, <3>1, SMTT(30) DEF WithinSignal, Announces
    <3>4. main'["server"].of = "data" /\ u[1] = "data"
      BY <2>2, <3>1 DEF Announces
    <3>5. \A n \in Nat : Arrived(n) => Arrived(n)'
      BY <1>6, <3>2
    <3>6. QED
      BY <1>1, <1>7, <3>2, <3>3, <3>4, <3>5, Zenon
  <2>3. CASE u \notin {LengthOf(m) : m \in Signals} /\ ~Announces("server", u)
    <3>1. main'["server"] = Failed
      BY <1>1, <1>7, <2>3, Zenon DEF Feed
    <3>2. QED
      BY <1>1, <1>5, <3>1
  <2>4. QED
    BY <2>1, <2>2, <2>3
<1>8. CASE r.of # "len"
  <2>1. CASE Feed("server", r, u) = Failed
    BY <1>1, <1>5, <2>1
  <2>2. CASE Feed("server", r, u) # Failed
    <3>1. /\ Feed("server", r, u) = [r EXCEPT !.got = Append(r.got, u)]
          /\ ~Broken("server", [r EXCEPT !.got = Append(r.got, u)])
      BY <1>8, <2>2, Zenon DEF Feed
    <3>2. main'["server"].of = r.of /\ main'["server"].got = Append(r.got, u)
      BY <1>1, <3>1 DEF Reads
    <3>3. Consumed(main'["server"]) = Consumed(r) + 1
      BY <1>2, <1>3, <1>8, <3>2 DEF Consumed
    <3>4. r.of = "data" => Len(Append(r.got, u)) # word["client"]
      BY <1>1, <3>1 DEF Broken, Reads
    <3>5. WithinSignal'
      <4>1. r.of # "error" /\ (r.of \in Signals => Len(r.got) # BodyUnits[r.of])
        BY <1>1 DEF WithinSignal, Waiting, Complete
      <4>2. r.of \in Signals => Len(Append(r.got, u)) <= BodyUnits[r.of]
        BY <1>2, <1>3, <1>4, <4>1 DEF WithinSignal
      <4>3. r.of = "data" => Len(Append(r.got, u)) < word["client"]
        BY <1>1, <1>2, <1>3, <3>4 DEF WithinSignal
      <4>4. QED
        BY <1>1, <3>2, <4>1, <4>2, <4>3 DEF WithinSignal
    <3>6. QED
      BY <1>1, <1>6, <3>2, <3>3, <3>5
  <2>3. QED
    BY <2>1, <2>2
<1>9. QED
  BY <1>7, <1>8

(* A read leaves the rest of a stream without payload as it was. *)
LEMMA CleanTail ==
  ASSUME NEW s \in Seq(Units), s # << >>, Clean(s)
  PROVE  Head(s)[1] # "data" /\ Clean(Tail(s))
<1>1. /\ Len(Tail(s)) = Len(s) - 1 /\ Head(s) = s[1] /\ Len(s) \in Nat \ {0}
      /\ \A i \in 1..Len(Tail(s)) : Tail(s)[i] = s[i + 1]
  BY HeadTailProperties, EmptySeq
<1>2. QED
  BY <1>1 DEF Clean

(* So does a write of what holds none. *)
LEMMA CleanConcat ==
  ASSUME NEW s \in Seq(Units), NEW x \in Seq(Units), Clean(s), Clean(x)
  PROVE  Clean(s \o x)
<1>1. /\ Len(s \o x) = Len(s) + Len(x) /\ Len(s) \in Nat /\ Len(x) \in Nat
      /\ \A i \in 1..Len(s) + Len(x) :
           (s \o x)[i] = IF i <= Len(s) THEN s[i] ELSE x[i - Len(s)]
  BY ConcatProperties, LenProperties
<1>2. QED
  BY <1>1 DEF Clean

(* Neither part of a signal holds any. *)
LEMMA CleanSignal ==
  ASSUME NEW m \in Signals PROVE Clean(<<LengthOf(m)>>) /\ Clean(Body(m))
<1>1. m # "data" /\ BodyUnits[m] \in {1, 2}
  BY DEF Signals, BodyUnits
<1>2. Len(Body(m)) = BodyUnits[m] /\ \A i \in 1..BodyUnits[m] : Body(m)[i] = <<m, i>>
  BY <1>1 DEF Body
<1>3. Len(<<LengthOf(m)>>) = 1 /\ <<LengthOf(m)>>[1] = <<"len", m>>
  BY DEF LengthOf
<1>4. QED
  BY <1>1, <1>2, <1>3 DEF Clean

(* The server reads on without meeting payload before there is any. *)
LEMMA SignalsRead ==
  ASSUME Types, Silent, WithinSignal, SignalsFirst, MainReads("server")
  PROVE  SignalsFirst'
<1> SUFFICES ASSUME ~sent'["client"] PROVE main'["server"].of # "data" /\ Clean(wire'["server"])
  BY DEF SignalsFirst
<1>1. main["server"].of # "data" /\ Clean(wire["server"]) /\ wire["server"] \in Seq(Units)
  BY DEF SignalsFirst, MainReads, dataVars, Types, Streams, Ends
<1>2. wire["server"] # << >> /\ wire'["server"] = Tail(wire["server"])
  BY ReadsOne
<1>3. Head(wire["server"])[1] # "data" /\ Clean(Tail(wire["server"]))
  BY <1>1, <1>2, CleanTail
<1>4. "data" \notin Signals /\ Failed.of # "data"
  BY DEF Signals, BodyUnits, Failed
<1>5. QED
  BY <1>1, <1>2, <1>3, <1>4, ReadsOne

(* Neither the client's signals nor its candidates are payload. *)
LEMMA SignalsWritten ==
  ASSUME Types, Writing, Silent, SignalsFirst,
         \/ SendLength("client") \/ SendBody("client") \/ CallbackStep("client")
  PROVE  SignalsFirst'
<1> SUFFICES ASSUME ~sent'["client"] PROVE main'["server"].of # "data" /\ Clean(wire'["server"])
  BY DEF SignalsFirst
<1>1. /\ main["server"].of # "data" /\ Clean(wire["server"]) /\ wire["server"] \in Seq(Units)
      /\ main' = main /\ ~closed["client"] /\ "client" \in Ends /\ Peer("client") = "server"
  BY DEF SignalsFirst, SendLength, SendBody, CallbackStep, CandidateLength, CandidateBody,
         Silent, negVars, dataVars, Types, Streams, Ends, Peer
<1>2. /\ sending["client"] \in Signals \/ CallbackStep("client")
      /\ "candidate" \in Signals
  BY <1>1 DEF SendLength, SendBody, Writing, Signals, BodyUnits
<1>3. ASSUME NEW m \in Signals, Write("client", <<LengthOf(m)>>) \/ Write("client", Body(m))
      PROVE  Clean(wire'["server"])
  <2>1. \/ wire'["server"] = wire["server"] \o <<LengthOf(m)>>
        \/ wire'["server"] = wire["server"] \o Body(m)
    BY <1>1, <1>3, Written, Zenon
  <2>2. <<LengthOf(m)>> \in Seq(Units) /\ Body(m) \in Seq(Units)
    BY SignalUnits
  <2>3. QED
    BY <1>1, <2>1, <2>2, CleanSignal, CleanConcat, Zenon
<1>4. CASE SendLength("client") \/ SendBody("client")
  <2>1. sending["client"] \in Signals
    BY <1>1, <1>4 DEF SendLength, SendBody, Writing, Signals, BodyUnits
  <2>2. QED
    BY <1>1, <1>3, <1>4, <2>1, Zenon DEF SendLength, SendBody
<1>5. CASE CallbackStep("client")
  BY <1>1, <1>2, <1>3, <1>5, Zenon DEF CallbackStep, CandidateLength, CandidateBody
<1>6. QED
  BY <1>4, <1>5

(* The client writes while the server reads: the parts of its own signal.  *)
LEMMA ClientWrites ==
  ASSUME Types, Types', Writing, Silent, ClientAhead, pc["server"] = "read",
         SendLength("client") \/ SendBody("client")
  PROVE  ClientAhead'
<1>1. /\ main' = main /\ gather' = gather /\ sending' = sending /\ tryDirect' = tryDirect
      /\ ~closed["client"] /\ "client" \in Ends
  BY DEF SendLength, SendBody, negVars, dataVars, inputs, Silent, Ends
<1>2. tryDirect /\ sending["client"] \in {"offer", "fallback"}
  BY DEF ClientAhead, SendLength, SendBody, Early
<1>3. CASE sending["client"] = "fallback"
  <2>1. Early /\ Early'
    BY <1>1, <1>2, <1>3 DEF ClientAhead, SendLength, SendBody, Early
  <2>2. pc'["client"] \in {"sendBody", "data"}
    BY <1>1, <1>3 DEF SendLength, SendBody, AfterSend, Types, Pcs
  <2>3. QED
    BY <1>1, <1>3, <2>1, <2>2 DEF ClientAhead
<1>4. CASE sending["client"] = "offer" /\ SendLength("client")
  <2>1. Arrived(0)
    <3>1. Consumed(main["server"]) \in Nat /\ Len(wire["server"]) \in Nat
      BY ConsumedUnits, LenProperties DEF Types, Streams, Readers, Ends
    <3>2. QED
      BY <3>1 DEF Arrived
  <2>2. PICK units \in Seq(Units) :
          Len(units) = 1 /\ wire'["server"] = wire["server"] \o units
    <3>1. <<LengthOf("offer")>> \in Seq(Units) /\ Len(<<LengthOf("offer")>>) = 1
      BY SignalUnits DEF Signals, BodyUnits
    <3>2. wire'["server"] = wire["server"] \o <<LengthOf("offer")>>
      BY <1>1, <1>4, Written, Zenon DEF SendLength, Peer, Ends
    <3>3. QED
      BY <3>1, <3>2, Zenon
  <2>3. Arrived(1)'
    <3>1. Arrived(0 + Len(units))'
      BY <1>1, <2>1, <2>2, ArrivesMore, Zenon
    <3>2. 0 + Len(units) = 1
      BY <2>2
    <3>3. QED
      BY <3>1, <3>2, Zenon
  <2>4. pc'["client"] = "sendBody"
    BY <1>1, <1>4 DEF SendLength, Types, Pcs
  <2>5. QED
    BY <1>1, <1>2, <1>4, <2>3, <2>4 DEF ClientAhead
<1>5. CASE sending["client"] = "offer" /\ SendBody("client")
  <2>1. Arrived(1)
    BY <1>2, <1>5 DEF ClientAhead, SendBody
  <2>2. PICK units \in Seq(Units) :
          Len(units) = 2 /\ wire'["server"] = wire["server"] \o units
    <3>1. Body("offer") \in Seq(Units) /\ Len(Body("offer")) = 2
      BY DEF Body, Units, Signals, BodyUnits
    <3>2. wire'["server"] = wire["server"] \o Body("offer")
      BY <1>1, <1>5, Written DEF SendBody, Peer, Ends
    <3>3. QED
      BY <3>1, <3>2
  <2>4. Arrived(3)'
    <3>1. Arrived(1 + Len(units))'
      BY <1>1, <2>1, <2>2, ArrivesMore, Zenon
    <3>2. 1 + Len(units) = 3
      BY <2>2
    <3>3. QED
      BY <3>1, <3>2
  <2>5. pc'["client"] = "read"
    BY <1>1, <1>5 DEF SendBody, AfterSend, Types, Pcs
  <2>6. QED
    BY <1>1, <1>2, <1>5, <2>4, <2>5 DEF ClientAhead
<1>6. QED
  BY <1>2, <1>3, <1>4, <1>5

(* Its candidates come in between, at any place. *)
LEMMA CandidateWrites ==
  ASSUME Types, Types', Silent, ClientAhead, CallbackStep("client")
  PROVE  ClientAhead'
<1>1. /\ pc' = pc /\ main' = main /\ sending' = sending /\ tryDirect' = tryDirect
      /\ gather["client"].state # "off"
  BY DEF CallbackStep, CandidateLength, CandidateBody, dataVars, inputs
<1>2. PICK units \in Seq(Units) : wire'["server"] = wire["server"] \o units
  <2>1. ~closed["client"] /\ "client" \in Ends /\ Peer("client") = "server"
    BY DEF Silent, Ends, Peer
  <2>2. /\ <<LengthOf("candidate")>> \in Seq(Units)
        /\ Body("candidate") \in Seq(Units)
    BY SignalUnits DEF Signals, BodyUnits
  <2>3. CASE CandidateLength("client")
    <3>1. wire'["server"] = wire["server"] \o <<LengthOf("candidate")>>
      BY <2>1, <2>3, Written, Zenon DEF CandidateLength
    <3>2. QED
      BY <2>2, <3>1, Zenon
  <2>4. CASE CandidateBody("client")
    <3>1. wire'["server"] = wire["server"] \o Body("candidate")
      BY <2>1, <2>4, Written, Zenon DEF CandidateBody
    <3>2. QED
      BY <2>2, <3>1
  <2>5. QED
    BY <2>3, <2>4 DEF CallbackStep
<1>3. ASSUME NEW n \in {1, 3}, Arrived(n) PROVE Arrived(n)'
  <2>1. Arrived(n + Len(units))'
    BY <1>1, <1>2, <1>3, ArrivesMore
  <2>2. Len(units) \in Nat
    BY LenProperties
  <2>3. Consumed(main'["server"]) \in Nat /\ Len(wire'["server"]) \in Nat
    BY ConsumedUnits, LenProperties DEF Types, Streams, Readers, Ends
  <2>4. QED
    BY <2>1, <2>2, <2>3 DEF Arrived
<1>4. QED
  BY <1>1, <1>3 DEF ClientAhead, Early

(* The server reads what the client has written. *)
LEMMA ServerReads ==
  ASSUME Types, Silent, WithinSignal, ClientAhead, MainReads("server")
  PROVE  ClientAhead'
<1>1. /\ pc' = pc /\ sending' = sending /\ tryDirect' = tryDirect /\ gather' = gather
      /\ path' = path
  BY DEF MainReads, dataVars, inputs
<1>2. (Arrived(1) => Arrived(1)') /\ (Arrived(3) => Arrived(3)')
  BY ReadsOne
<1>3. CASE ~tryDirect
  <2>1. /\ wire["server"] # << >> /\ wire'["server"] = Tail(wire["server"])
        /\ wire["server"] \in Seq(Units) /\ size["client"] \in Nat
        /\ Consumed(main["server"]) \in Nat /\ sent' = sent /\ size' = size
    BY ReadsOne, ConsumedUnits, SignalingAssumption
    DEF Types, Streams, Readers, Ends, MainReads, dataVars, inputs
  <2>2. Len(wire'["server"]) = Len(wire["server"]) - 1 /\ Len(wire["server"]) \in Nat
    BY <2>1, HeadTailProperties, LenProperties
  <2>3. /\ sent["client"]
        /\ Consumed(main["server"]) + Len(wire["server"]) = size["client"]
        /\ main["server"].of \in {"len", "data"}
        /\ main["server"].of = "len" => Head(wire["server"]) = <<"data", 1>>
    <3>1. CASE main["server"] = Idle /\ wire["server"] = Stream("client")
      <4>1. sent["client"] /\ wire["server"] = Payload("client")
        BY <2>1, <3>1 DEF Stream
      <4>2. /\ Len(Payload("client")) = size["client"]
            /\ Head(Payload("client")) = <<"data", 1>>
        BY <2>1, <4>1 DEF Payload
      <4>3. Consumed(main["server"]) = 0 /\ main["server"].of = "len"
        BY <3>1 DEF Consumed, Idle
      <4>4. Consumed(main["server"]) + Len(wire["server"]) = size["client"]
        <5>1. Len(wire["server"]) = size["client"] /\ size["client"] \in Nat
          BY <2>1, <4>1, <4>2, Zenon
        <5>2. QED
          BY <4>3, <5>1
      <4>5. QED
        BY <4>1, <4>2, <4>3, <4>4
    <3>2. CASE main["server"].of = "data" /\ sent["client"]
               /\ Consumed(main["server"]) + Len(wire["server"]) = size["client"]
      BY <3>2
    <3>3. QED
      BY <1>3, <3>1, <3>2 DEF ClientAhead, MainReads, Early
  <2>4. CASE main'["server"] = Failed
    BY <1>1, <1>3, <2>4 DEF ClientAhead, Early
  <2>5. CASE main'["server"] # Failed
    <3>1. main'["server"].of = "data"
      <4>1. \A m \in Signals : LengthOf(m) # <<"data", 1>>
        BY DEF LengthOf
      <4>2. main'["server"].of # "len"
        <5>1. Consumed(main'["server"]) = Consumed(main["server"]) + 1
          BY <2>5, ReadsOne
        <5>2. Consumed(main'["server"]) # 0
          BY <2>1, <5>1
        <5>3. QED
          BY <5>2 DEF Consumed
      <4>3. QED
        BY <2>3, <2>5, <4>1, <4>2, ReadsOne
    <3>2. Consumed(main'["server"]) = Consumed(main["server"]) + 1
      BY <2>5, ReadsOne
    <3>3. Consumed(main'["server"]) + Len(wire'["server"]) = size'["client"]
      BY <2>1, <2>2, <2>3, <3>2
    <3>4. QED
      BY <1>1, <1>3, <2>1, <2>3, <3>1, <3>3 DEF ClientAhead, Early
  <2>6. QED
    BY <2>4, <2>5
<1>4. CASE tryDirect
  BY <1>1, <1>2, <1>4 DEF ClientAhead, Early
<1>5. QED
  BY <1>3, <1>4

(* While the server waits for its first signal the client has still to     *)
(* write, or has written enough of it.                                     *)
LEMMA FirstStep ==
  ASSUME IInv, Types', NegInv, Next, pc'["server"] = "read"
  PROVE  FirstSignal'
<1>1. /\ Types /\ Writing /\ (\A e \in Ends : Paths(e)) /\ (Early => NoOffer)
      /\ "client" \in Ends /\ "server" \in Ends
  BY TypesAre DEF IInv, Ends
<1>2. pc["server"] = "read" /\ FirstSignal
  BY <1>1, AnswersStep DEF NegInv
<1>3. /\ Silent /\ WithinSignal /\ SignalsFirst /\ ClientAhead
      /\ pc["client"] # "wait" /\ path["client"] # "direct"
  <2>1. Silent /\ WithinSignal /\ SignalsFirst /\ ClientAhead
    BY <1>2 DEF FirstSignal
  <2>2. pc["client"] # "wait" /\ path["client"] # "direct"
    BY <1>1, <2>1 DEF ClientAhead, NoOffer, Paths
  <2>3. QED
    BY <2>1, <2>2
<1> DEFINE Goal == Silent' /\ WithinSignal' /\ SignalsFirst' /\ ClientAhead'
<1>0. word' = word
  BY Zenon
  DEF Next, ClientStep, ClientRelayOnly, ClientBegins, ClientReceives, ServerReceives,
      MainStep, SendLength, SendBody, MainReads, TakesDirect, TimesOut, SendPayload,
      CallbackStep, CandidateLength, CandidateBody, BackgroundReads, Opens, ReceivePayload,
      Settled, vars, dataVars, inputs
<1>4. ASSUME UNCHANGED <<wire, main, gather, closed, bg>> PROVE Silent' /\ WithinSignal'
  BY <1>0, <1>3, <1>4 DEF Silent, WithinSignal
<1>41. ASSUME UNCHANGED <<wire, main, sent>> PROVE SignalsFirst'
  BY <1>3, <1>41 DEF SignalsFirst, Clean
<1>5. ASSUME UNCHANGED <<pc, wire, main, gather, sending, path, sent, inputs>>
      PROVE  ClientAhead'
  <2>1. Stream("client")' = Stream("client") /\ Early' = Early
    BY <1>5 DEF Stream, Payload, Early, inputs
  <2>2. (Arrived(1)' <=> Arrived(1)) /\ (Arrived(3)' <=> Arrived(3))
    BY <1>5 DEF Arrived, Consumed
  <2>3. Consumed(main["server"])' = Consumed(main["server"])
    BY <1>5 DEF Consumed
  <2>4. QED
    BY <1>3, <1>5, <2>1, <2>2, <2>3 DEF ClientAhead, inputs
<1>6. ASSUME ClientStep PROVE Goal
  <2>0. ~ClientReceives
    <3>1. main["client"] = Idle
      BY <1>3 DEF Silent
    <3>2. Idle # Failed /\ ~Complete(Idle)
      BY DEF Idle, Failed, Complete, Signals, BodyUnits
    <3>3. QED
      BY <3>1, <3>2, Zenon DEF ClientReceives
  <2>1. Silent' /\ WithinSignal' /\ SignalsFirst'
    <3>1. UNCHANGED <<wire, main, closed, bg, sent>> /\ gather'["server"] = gather["server"]
      BY <1>1, <1>6, <2>0
      DEF ClientStep, ClientRelayOnly, ClientBegins, StartGathering, negVars, dataVars,
          Types, Gathers
    <3>2. QED
      BY <1>0, <1>3, <1>41, <3>1 DEF Silent, WithinSignal
  <2>2. ClientAhead'
    <3>1. CASE ClientRelayOnly
      <4>1. Stream("client")' = Stream("client")
        BY <3>1 DEF ClientRelayOnly, Stream, Payload, dataVars, inputs
      <4>2. Consumed(main["server"])' = Consumed(main["server"])
        BY <3>1 DEF ClientRelayOnly, Consumed, negVars
      <4>3. QED
        BY <1>1, <1>3, <3>1, <4>1, <4>2
        DEF ClientRelayOnly, ClientAhead, Early, negVars, dataVars, inputs, Types, Pcs, Ways
    <3>2. CASE ClientBegins
      <4>1. ASSUME StartGathering("client", "offer") PROVE ClientAhead'
        BY <1>1, <3>2, <4>1
        DEF ClientBegins, StartGathering, ClientAhead, dataVars, inputs, Types, Pcs, Sendings
      <4>2. ASSUME GiveUp("client"), UNCHANGED gather PROVE ClientAhead'
        <5>1. gather["client"].state = "off"
          BY <1>1, <1>3, <3>2 DEF ClientBegins, ClientAhead, Early
        <5>2. QED
          BY <1>1, <3>2, <4>2, <5>1
          DEF ClientBegins, GiveUp, ClientAhead, Early, dataVars, inputs, Types, Pcs, Sendings
      <4>3. QED
        BY <3>2, <4>1, <4>2 DEF ClientBegins
    <3>3. QED
      BY <1>6, <2>0, <3>1, <3>2 DEF ClientStep
  <2>3. QED
    BY <2>1, <2>2
<1>7. ASSUME ServerReceives PROVE FALSE
  BY <1>1, <1>7 DEF ServerReceives, StartGathering, GiveUp, Types, Pcs
<1>8. ASSUME NEW e \in Ends, SendLength(e) \/ SendBody(e) PROVE Goal
  <2>1. e = "client"
    BY <1>2, <1>8 DEF SendLength, SendBody, Ends
  <2>2. wire'["client"] = wire["client"]
    BY <1>1, <1>3, <1>8, <2>1, Written DEF SendLength, SendBody, Silent
  <2>3. UNCHANGED <<main, gather, closed>>
    BY <1>8 DEF SendLength, SendBody, negVars
  <2>4. \A y \in Ends : ~bg'[y]
    BY <1>1, <1>3, <1>8, <2>1
    DEF SendLength, SendBody, negVars, Silent, ClientAhead, Types, Flags
  <2>5. Silent' /\ WithinSignal'
    BY <1>0, <1>3, <2>2, <2>3, <2>4 DEF Silent, WithinSignal
  <2>6. SignalsFirst'
    BY <1>1, <1>3, <1>8, <2>1, SignalsWritten
  <2>7. QED
    BY <1>1, <1>2, <1>3, <1>8, <2>1, <2>5, <2>6, ClientWrites
<1>9. ASSUME NEW e \in Ends, MainReads(e) PROVE Goal
  <2>1. e = "server"
    BY <1>3, <1>9 DEF MainReads, ReadReturns, Readable, Silent, Ends, Peer
  <2>2. wire'["client"] = wire["client"] /\ main'["client"] = main["client"]
    BY <1>1, <1>9, <2>1 DEF MainReads, Unread, Types, Streams, Readers
  <2>3. Silent'
    BY <1>3, <1>9, <2>2 DEF MainReads, Silent
  <2>4. QED
    BY <1>1, <1>3, <1>9, <2>1, <2>3, ReadsOne, SignalsRead, ServerReads
<1>10. ASSUME NEW e \in Ends, TakesDirect(e) \/ TimesOut(e) \/ BackgroundReads(e)
       PROVE  FALSE
  BY <1>2, <1>3, <1>10 DEF TakesDirect, TimesOut, BackgroundReads, Silent, Ends
<1>11. ASSUME NEW e \in Ends, SendPayload(e) PROVE Goal
  <2>1. e = "client" /\ path["client"] = "relay"
    BY <1>1, <1>2, <1>3, <1>11 DEF SendPayload, Paths, Types, Ways, Ends
  <2>2. wire'["client"] = wire["client"] /\ wire'["server"] = wire["server"] \o Payload("client")
    BY <1>1, <1>3, <1>11, <2>1, Written, Zenon DEF SendPayload, Silent, Peer
  <2>3. Silent' /\ WithinSignal'
    BY <1>0, <1>3, <1>11, <2>2 DEF SendPayload, negVars, Silent, WithinSignal
  <2>4. wire["server"] = Stream("client") => wire'["server"] = Stream("client")'
    <3>1. ~sent["client"] /\ sent'["client"] /\ Payload("client")' = Payload("client")
      BY <1>1, <1>11, <2>1 DEF SendPayload, Types, Flags, Payload, inputs
    <3>2. Payload("client") \in Seq(Units)
      BY <1>1, PayloadUnits DEF Types
    <3>3. QED
      BY <2>2, <3>1, <3>2, ConcatEmptySeq DEF Stream
  <2>5. ClientAhead'
    BY <1>3, <1>11, <2>1, <2>4 DEF SendPayload, ClientAhead, Early, negVars, inputs
  <2>6. SignalsFirst'
    BY <1>1, <1>11, <2>1 DEF SendPayload, SignalsFirst, Types, Flags
  <2>7. QED
    BY <2>3, <2>5, <2>6
<1>12. ASSUME NEW e \in Ends, CallbackStep(e) PROVE Goal
  <2>1. e = "client"
    BY <1>3, <1>12 DEF CallbackStep, CandidateLength, CandidateBody, Silent, Ends
  <2>2. wire'["client"] = wire["client"]
    BY <1>1, <1>3, <1>12, <2>1, Written DEF CallbackStep, CandidateLength, CandidateBody, Silent
  <2>3. UNCHANGED <<main, closed, bg>> /\ gather'["server"] = gather["server"]
    BY <1>1, <1>12, <2>1 DEF CallbackStep, CandidateLength, CandidateBody, Types, Gathers
  <2>4. Silent' /\ WithinSignal'
    BY <1>0, <1>3, <2>2, <2>3 DEF Silent, WithinSignal
  <2>5. SignalsFirst'
    BY <1>1, <1>3, <1>12, <2>1, SignalsWritten
  <2>6. QED
    BY <1>1, <1>3, <1>12, <2>1, <2>4, <2>5, CandidateWrites
<1>13. ASSUME NEW e \in Ends, Opens(e) PROVE Goal
  BY <1>4, <1>41, <1>5, <1>13 DEF Opens, dataVars
<1>14. ASSUME NEW e \in Ends, ReceivePayload(e) PROVE FALSE
  BY <1>2, <1>3, <1>14 DEF ReceivePayload, Silent, Ends
<1>15. ASSUME Settled PROVE Goal
  BY <1>4, <1>41, <1>5, <1>15 DEF Settled, vars, negVars, dataVars
<1> HIDE DEF Goal
<1>16. Goal
  BY <1>6, <1>7, <1>8, <1>9, <1>10, <1>11, <1>12, <1>13, <1>14, <1>15 DEF Next, MainStep
<1>17. QED
  BY <1>16 DEF Goal, FirstSignal

(* Nothing is written and no PeerConnection exists at the start. *)
LEMMA NegInit == Init => NegInv
<1> SUFFICES ASSUME Init PROVE NegInv
  OBVIOUS
<1>1. ServerAnswers /\ \A e \in Ends : KeepsChannel(e)
  BY DEF Init, ServerAnswers, KeepsChannel, Ends
<1>2. Silent /\ WithinSignal /\ SignalsFirst
  <2>1. /\ main["server"] = Idle /\ wire["server"] = << >>
        /\ Idle.of = "len" /\ "len" \notin Signals
    BY DEF Init, Idle, Ends, Signals, BodyUnits
  <2>2. Silent
    BY DEF Init, Silent, Idle, Ends
  <2>3. WithinSignal
    BY <2>1 DEF WithinSignal
  <2>4. SignalsFirst
    BY <2>1 DEF SignalsFirst, Clean
  <2>5. QED
    BY <2>2, <2>3, <2>4
<1>3. ClientAhead
  <2>1. /\ gather["client"].state = "off" /\ pc["client"] = "begin"
        /\ path["client"] = "none" /\ main["server"] = Idle
        /\ wire["server"] = Stream("client")
    BY DEF Init, Ends, Stream
  <2>2. QED
    BY <2>1 DEF ClientAhead, Early
<1>4. QED
  BY <1>1, <1>2, <1>3 DEF NegInv, FirstSignal

(* Every step keeps the invariant of the negotiation. *)
LEMMA NegStep == ASSUME IInv, IInv', NegInv, [Next]_vars PROVE NegInv'
<1>1. Types /\ Types' /\ Writing /\ \A e \in Ends : Paths(e)
  <2>1. Types'
    BY TypesAre, PTL DEF IInv
  <2>2. QED
    BY <2>1, TypesAre DEF IInv
<1>2. CASE Next
  <2>1. ServerAnswers'
    BY <1>1, <1>2, AnswersStep DEF NegInv
  <2>2. \A e \in Ends : KeepsChannel(e)'
    BY <1>1, <1>2, KeepsStep DEF NegInv
  <2>3. FirstSignal'
    <3>1. pc'["server"] = "read" => FirstSignal'
      BY <1>1, <1>2, FirstStep
    <3>2. QED
      BY <3>1 DEF FirstSignal
  <2>4. QED
    BY <2>1, <2>2, <2>3 DEF NegInv
<1>3. CASE UNCHANGED vars
  <2>1. UNCHANGED <<pc, path, sending, peerConn, wire, main, gather, closed, bg, sent,
                    tryDirect, size, word>>
    BY <1>3 DEF vars, negVars, dataVars, inputs
  <2>2. ServerAnswers' /\ \A e \in Ends : KeepsChannel(e)'
    BY <2>1 DEF NegInv, ServerAnswers, KeepsChannel
  <2>3. Stream("client")' = Stream("client") /\ Early' = Early
    BY <2>1 DEF Stream, Payload, Early
  <2>4. (Arrived(1)' <=> Arrived(1)) /\ (Arrived(3)' <=> Arrived(3))
    BY <2>1 DEF Arrived, Consumed
  <2>5. FirstSignal'
    <3>1. Consumed(main["server"])' = Consumed(main["server"])
      BY <2>1 DEF Consumed
    <3>2. QED
      BY <2>1, <2>3, <2>4, <3>1
      DEF NegInv, FirstSignal, Silent, WithinSignal, SignalsFirst, Clean, ClientAhead
  <2>6. QED
    BY <2>2, <2>5 DEF NegInv
<1>4. QED
  BY <1>2, <1>3

(* The invariant of the negotiation holds in every reachable state. *)
LEMMA NegHolds == Spec => []NegInv
<1>1. IInv /\ IInv' /\ NegInv /\ [Next]_vars => NegInv'
  BY NegStep
<1>2. QED
  BY <1>1, NegInit, Invariant, PTL DEF Spec

(* Once both ends of a session have taken the data channel neither has     *)
(* closed its PeerConnection, and what the one has sent on it the other    *)
(* has written to its stdout or finds there: no unit of a payload is lost  *)
(* on the way, whichever end was first and whatever the relay still holds. *)
THEOREM ChannelKeepsPayload == Spec => []ChannelHolds
<1>1. IInv /\ NegInv => ChannelHolds
  <2> SUFFICES ASSUME IInv, NegInv, OnDirect, NEW e \in Ends
               PROVE  /\ peerConn[e] # "closed"
                      /\ sent[Peer(e)] => OnChannel(e) = Payload(Peer(e))
    BY DEF ChannelHolds
  <2>1. /\ path[e] = "direct" /\ path[Peer(e)] = "direct" /\ Paths(e)
        /\ KeepsChannel(e)
    BY DEF OnDirect, IInv, NegInv, Peer, Ends
  <2>2. QED
    BY <2>1 DEF Paths, KeepsChannel, Channel
<1>2. QED
  BY <1>1, Invariant, NegHolds, PTL

(* A server in the readSignal of its first signal is never left there by a *)
(* client with --direct that has nothing more to write, in whatever order  *)
(* the client's description and its candidates arrive; one without it      *)
(* leaves it there only when all of its payload is too short to be read as *)
(* a broken signal.                                                        *)
THEOREM FirstSignalComes == Spec => []ServerNotStranded
<1>1. IInv /\ NegInv => ServerNotStranded
  <2> SUFFICES ASSUME IInv, NegInv, pc["server"] = "read", Waiting(main["server"]),
                      ~ReadReturns("server"),
                      pc["client"] \notin {"begin", "sendLength", "sendBody"},
                      ~(pc["client"] = "data" /\ ~sent["client"])
               PROVE  ~tryDirect /\ size["client"] <= word["client"]
    BY DEF ServerNotStranded
  <2>1. Types /\ Silent /\ WithinSignal /\ SignalsFirst /\ ClientAhead
    BY TypesAre DEF IInv, NegInv, FirstSignal
  <2>2. /\ wire["server"] = << >> /\ main["server"] \in Reads
        /\ size["client"] \in Nat /\ word["client"] \in Nat
    BY <2>1, SignalingAssumption
    DEF ReadReturns, Readable, Silent, Ends, Types, Readers
  <2>3. CASE Early
    <3>1. ServerReading /\ Stream("client") \in Seq(Units)
      BY <2>1, <2>3, PayloadUnits, EmptySeq DEF IInv, ServerClean, Stream, Types, Ends
    <3>2. Complete(Whole)
      BY DEF Complete, Whole, Signals, BodyUnits
    <3>3. QED
      BY <2>1, <2>2, <2>3, <3>1, <3>2, FallbackRead
      DEF ServerReading, Waiting, ClientAhead
  <2>4. CASE tryDirect /\ ~Early
    <3>1. Arrived(3) /\ pc["client"] = "read"
      BY <2>1, <2>4 DEF ClientAhead
    <3>2. Consumed(main["server"]) <= 2 /\ Consumed(main["server"]) \in Nat
      <4>1. main["server"].of # "data"
        BY <2>1, <3>1 DEF IInv, Paths, SignalsFirst, Ends
      <4>2. QED
        BY <2>1, <2>2, <4>1, ConsumedUnits DEF WithinSignal
    <3>3. Len(wire["server"]) = 0
      BY <2>2
    <3>4. QED
      BY <3>1, <3>2, <3>3 DEF Arrived
  <2>5. CASE ~tryDirect
    <3>1. CASE wire["server"] = Stream("client")
      <4>1. sent["client"] /\ Payload("client") = << >>
        BY <2>1, <2>2, <2>5, <3>1 DEF ClientAhead, Early, Stream
      <4>2. size["client"] = 0
        BY <2>2, <4>1, NoPayload DEF Ends
      <4>3. QED
        BY <2>2, <2>5, <4>2
    <3>2. CASE /\ main["server"].of = "data"
               /\ Consumed(main["server"]) + Len(wire["server"]) = size["client"]
      <4>1. Len(main["server"].got) \in Nat /\ Len(wire["server"]) = 0
        BY <2>2, LenProperties DEF Reads
      <4>2. Len(main["server"].got) < word["client"]
        BY <2>1, <3>2 DEF WithinSignal
      <4>3. QED
        BY <2>2, <2>5, <3>2, <4>1, <4>2 DEF Consumed
    <3>3. QED
      BY <2>1, <2>5, <3>1, <3>2 DEF ClientAhead, Early, Waiting
  <2>6. QED
    BY <2>3, <2>4, <2>5
<1>2. QED
  BY <1>1, Invariant, NegHolds, PTL

(* No step takes an end back. *)
LEMMA StageStep ==
  ASSUME Types, Writing, ServerAnswers, Next, NEW x \in Ends, Paths(x)
  PROVE  Onward(x)
<1> DEFINE Kept == UNCHANGED <<path, sent, closed>>
<1>1. ASSUME Kept, Stage(x) <= Stage(x)' PROVE Onward(x)
  BY <1>1 DEF Onward
<1>2. ASSUME UNCHANGED <<pc, sending>> PROVE Stage(x) <= Stage(x)'
  <2>1. Stage(x)' = Stage(x)
    BY <1>2 DEF Stage
  <2>2. Stage(x) \in Nat
    BY DEF Stage, Types, Pcs
  <2>3. QED
    BY <2>1, <2>2
<1> USE DEF Types, Pcs, Sendings, Ways, Flags
<1>3. ASSUME NEW e \in Ends, SendLength(e) \/ SendBody(e) PROVE Onward(x)
  <2>1. Stage(x) <= Stage(x)'
    BY <1>3
    DEF SendLength, SendBody, AfterSend, negVars, Stage, Writing, ServerAnswers, Ends
  <2>2. (path[x] # "none" => path'[x] = path[x]) /\ UNCHANGED <<sent, closed>>
    BY <1>3 DEF SendLength, SendBody, dataVars, Paths
  <2>3. QED
    BY <2>1, <2>2 DEF Onward
<1>4. ASSUME NEW e \in Ends, TakesDirect(e) \/ TimesOut(e) PROVE Onward(x)
  <2>1. Stage(x) <= Stage(x)'
    BY <1>4 DEF TakesDirect, TimesOut, GiveUp, negVars, Stage, Ends
  <2>2. /\ path[x] # "none" => path'[x] = path[x]
        /\ closed[x] => closed'[x]
        /\ UNCHANGED sent
    BY <1>4, Zenon DEF TakesDirect, TimesOut, GiveUp, dataVars, Paths
  <2>3. QED
    BY <2>1, <2>2 DEF Onward
<1>5. ASSUME ClientStep \/ ServerReceives PROVE Onward(x)
  <2>1. Stage(x) <= Stage(x)'
    BY <1>5
    DEF ClientStep, ClientRelayOnly, ClientBegins, ClientReceives, ServerReceives,
        StartGathering, GiveUp, negVars, Stage, Ends
  <2>2. (path[x] # "none" => path'[x] = path[x]) /\ UNCHANGED <<sent, closed>>
    BY <1>5
    DEF ClientStep, ClientRelayOnly, ClientBegins, ClientReceives, ServerReceives, GiveUp,
        dataVars, Paths, Ends
  <2>3. QED
    BY <2>1, <2>2 DEF Onward
<1>6. ASSUME NEW e \in Ends, SendPayload(e) PROVE Onward(x)
  <2>1. Stage(x) <= Stage(x)' /\ UNCHANGED <<path, closed>>
    BY <1>2, <1>6 DEF SendPayload, negVars
  <2>2. sent[x] => sent'[x]
    BY <1>6, Zenon DEF SendPayload
  <2>3. QED
    BY <2>1, <2>2 DEF Onward
<1>7. ASSUME NEW e \in Ends,
             \/ MainReads(e) \/ CallbackStep(e) \/ BackgroundReads(e) \/ Opens(e)
             \/ ReceivePayload(e)
      PROVE  Onward(x)
  <2>1. Kept /\ UNCHANGED <<pc, sending>>
    BY <1>7, Zenon
    DEF MainReads, CallbackStep, CandidateLength, CandidateBody, BackgroundReads, Opens,
        ReceivePayload, negVars, dataVars
  <2>2. QED
    BY <1>1, <1>2, <2>1
<1>8. ASSUME Settled PROVE Onward(x)
  BY <1>1, <1>2, <1>8 DEF Settled, vars, negVars, dataVars
<1>9. QED
  BY <1>3, <1>4, <1>5, <1>6, <1>7, <1>8 DEF Next, MainStep

(* The negotiation goes one way: an end writes one description, at most    *)
(* one fallback after it, and does not leave the path it has taken.        *)
THEOREM NoSecondNegotiation == Spec => OnlyForward
<1>1. IInv /\ NegInv /\ [Next]_vars => [\A e \in Ends : Onward(e)]_vars
  <2> SUFFICES ASSUME IInv, NegInv, Next PROVE \A e \in Ends : Onward(e)
    OBVIOUS
  <2>1. QED
    BY StageStep, TypesAre DEF IInv, NegInv
<1>2. QED
  BY <1>1, Invariant, NegHolds, PTL DEF Spec, OnlyForward
============================================================================
