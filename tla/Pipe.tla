-------------------------------- MODULE Pipe --------------------------------
(***************************************************************************)
(* pipeBiDirectional (main.go) at both ends of one connection, which is a  *)
(* TLS connection or a WebRTC data channel, and the Close that its callers *)
(* defer.  Each end copies its stdin to the connection and the connection  *)
(* to its stdout.                                                          *)
(*                                                                         *)
(* Streams keep their order, so they are counted, not stored.  What end e  *)
(* sends is first queued at e, then arrived at its peer, then read; the    *)
(* end of the stream follows the data.  A data channel has no half-close:  *)
(* the reader of an end of stream closes its own direction too, and Close  *)
(* drops whatever is still queued.  The connection may break at any time:  *)
(* a TLS one then fails the reads of both ends; a Read of a data channel   *)
(* never does, so the end of a stream that has not arrived never will.     *)
(***************************************************************************)
EXTENDS Naturals

CONSTANTS
  Kinds,     \* the kinds of connection explored
  Inputs     \* what the two stdins may be

Ends == {"client", "server"}
Peer(e) == IF e = "client" THEN "server" ELSE "client"

(* A stdin: how much it holds, whether it then ends, and whether it is a   *)
(* terminal.                                                               *)
Stdins == [units : Nat, ends : BOOLEAN, tty : BOOLEAN]

ASSUME PipeAssumption ==
  /\ Kinds \subseteq {"tls", "webrtc"}
  /\ \A i \in Inputs : i \in [Ends -> Stdins]

VARIABLES
  kind,      \* the kind of the connection
  slow,      \* whether a copy can outlast the grace and flush timeouts
  stdin,     \* the stdin of each end
  broken,    \* whether the connection has broken
  cut,       \* whether the break keeps the end of an end's stream from its peer
  copier,    \* the goroutine of each end: copying, in CloseWrite or done
  pipe,      \* the rest of pipeBiDirectional: copying, in the grace, returned
  written,   \* units the goroutine has written
  queued,    \* of them, those still in the end's send buffer
  arrived,   \* and those at the peer, not yet read
  closed,    \* whether the end of the end's stream has been queued
  out        \* units written to each end's stdout

given == <<kind, slow, stdin>>
vars == <<given, broken, cut, copier, pipe, written, queued, arrived, closed, out>>

Init ==
  /\ kind \in Kinds
  /\ slow \in BOOLEAN
  /\ stdin \in Inputs
  /\ broken = FALSE
  /\ cut = [e \in Ends |-> FALSE]
  /\ copier = [e \in Ends |-> "copy"]
  /\ pipe = [e \in Ends |-> "copy"]
  /\ written = [e \in Ends |-> 0]
  /\ queued = [e \in Ends |-> 0]
  /\ arrived = [e \in Ends |-> 0]
  /\ closed = [e \in Ends |-> FALSE]
  /\ out = [e \in Ends |-> 0]

Running(e) == pipe[e] # "returned"
CutOff(e) == cut[Peer(e)]

-----------------------------------------------------------------------------
(* CopyWithTrace from stdin.  A Write to a closed direction fails, one to  *)
(* a broken connection is buffered for nothing or, over TLS, fails; a      *)
(* failed one ends the goroutine without a CloseWrite.                     *)
CopyIn(e) ==
  /\ Running(e) /\ copier[e] = "copy"
  /\ written[e] < stdin[e].units
  /\ \/ /\ closed[e] \/ (broken /\ kind = "tls")
        /\ copier' = [copier EXCEPT ![e] = "done"]
        /\ UNCHANGED <<written, queued>>
     \/ /\ ~closed[e]
        /\ written' = [written EXCEPT ![e] = @ + 1]
        /\ queued' = [queued EXCEPT ![e] = @ + 1]
        /\ UNCHANGED copier
  /\ UNCHANGED <<given, broken, cut, pipe, arrived, closed, out>>

(* Stdin ends: the half-close, unless nothing has been written. *)
StdinEnds_AlwaysCloses(e) ==
  /\ Running(e) /\ copier[e] = "copy"
  /\ stdin[e].ends /\ written[e] = stdin[e].units
  /\ copier' = [copier EXCEPT ![e] = "flush"]
  /\ UNCHANGED <<given, broken, cut, pipe, written, queued, arrived, closed, out>>

StdinEnds_NeverCloses(e) ==
  /\ Running(e) /\ copier[e] = "copy"
  /\ stdin[e].ends /\ written[e] = stdin[e].units
  /\ copier' = [copier EXCEPT ![e] = "done"]
  /\ UNCHANGED <<given, broken, cut, pipe, written, queued, arrived, closed, out>>

StdinEnds(e) ==
  /\ Running(e) /\ copier[e] = "copy"
  /\ stdin[e].ends /\ written[e] = stdin[e].units
  /\ copier' = [copier EXCEPT ![e] = IF written[e] = 0 THEN "done" ELSE "flush"]
  /\ UNCHANGED <<given, broken, cut, pipe, written, queued, arrived, closed, out>>

(* CloseWrite: a data channel waits for its buffer, or for five seconds. *)
CloseWrite(e) ==
  /\ Running(e) /\ copier[e] = "flush"
  /\ kind = "webrtc" => queued[e] = 0 \/ slow \/ broken
  /\ closed' = [closed EXCEPT ![e] = TRUE]
  /\ copier' = [copier EXCEPT ![e] = "done"]
  /\ UNCHANGED <<given, broken, cut, pipe, written, queued, arrived, out>>

-----------------------------------------------------------------------------
(* The connection delivers what is queued while its receiver is there. *)
Transfer(e) ==
  /\ ~broken
  /\ queued[e] > 0 /\ Running(Peer(e))
  /\ queued' = [queued EXCEPT ![e] = @ - 1]
  /\ arrived' = [arrived EXCEPT ![e] = @ + 1]
  /\ UNCHANGED <<given, broken, cut, copier, pipe, written, closed, out>>

(* What has arrived stays readable.  On a data channel the end of a stream *)
(* that was not sent, or that follows what is queued, never arrives; one   *)
(* that is on its way may be lost.                                         *)
Break ==
  /\ ~broken /\ \E e \in Ends : Running(e)
  /\ broken' = TRUE
  /\ cut' \in [Ends -> BOOLEAN]
  /\ \A e \in Ends :
       /\ cut'[e] => kind = "webrtc" /\ Running(e) /\ pipe[Peer(e)] = "copy"
       /\ kind = "webrtc" /\ (~closed[e] \/ queued[e] > 0) => cut'[e]
  /\ UNCHANGED <<given, copier, pipe, written, queued, arrived, closed, out>>

(* CopyWithTrace to stdout. *)
CopyOut(e) ==
  /\ pipe[e] = "copy"
  /\ arrived[Peer(e)] > 0
  /\ arrived' = [arrived EXCEPT ![Peer(e)] = @ - 1]
  /\ out' = [out EXCEPT ![e] = @ + 1]
  /\ UNCHANGED <<given, broken, cut, copier, pipe, written, queued, closed>>

(* pipeBiDirectional returns and the connection is closed: a TLS one sends *)
(* what is queued and then its end, a data channel goes down at once, and  *)
(* at both ends if the connection still carries it.                        *)
Return(e) ==
  /\ pipe' = [pipe EXCEPT ![e] = "returned"]
  /\ LET down == {e} \cup (IF broken THEN {} ELSE {Peer(e)}) IN
       IF kind = "tls"
         THEN closed' = [closed EXCEPT ![e] = TRUE] /\ UNCHANGED queued
         ELSE /\ closed' = [x \in Ends |-> x \in down \/ closed[x]]
              /\ queued' = [x \in Ends |-> IF x \in down THEN 0 ELSE queued[x]]

(* The peer's stream has ended, or a Read of the broken TLS connection     *)
(* fails, whatever had arrived.  A terminal is not waited for.             *)
StreamOver(e) ==
  \/ broken /\ kind = "tls"
  \/ /\ closed[Peer(e)] /\ queued[Peer(e)] = 0 /\ arrived[Peer(e)] = 0
     /\ ~CutOff(e)

PeerEnds(e) ==
  /\ pipe[e] = "copy"
  /\ StreamOver(e)
  /\ IF stdin[e].tty
       THEN Return(e)
       ELSE /\ pipe' = [pipe EXCEPT ![e] = "grace"]
            /\ closed' = [closed EXCEPT ![e] = @ \/ kind = "webrtc"]
            /\ UNCHANGED queued
  /\ UNCHANGED <<given, broken, cut, copier, written, arrived, out>>

(* The goroutine is done, or two seconds are over. *)
GraceEnds(e) ==
  /\ pipe[e] = "grace"
  /\ copier[e] = "done" \/ slow \/ broken \/ ~stdin[e].ends
  /\ Return(e)
  /\ UNCHANGED <<given, broken, cut, copier, written, arrived, out>>

-----------------------------------------------------------------------------
Copier(e) == CopyIn(e) \/ StdinEnds(e) \/ CloseWrite(e)
Main(e) == CopyOut(e) \/ PeerEnds(e) \/ GraceEnds(e)
Finished == (\A e \in Ends : ~Running(e) \/ CutOff(e)) /\ UNCHANGED vars

Next == (\E e \in Ends : Copier(e) \/ Transfer(e) \/ Main(e)) \/ Break \/ Finished

Spec == Init /\ [][Next]_vars

(* The goroutines run, the timers expire and the network delivers. *)
Fairness ==
  \A e \in Ends : WF_vars(Copier(e)) /\ WF_vars(Transfer(e)) /\ WF_vars(Main(e))

FairSpec == Spec /\ Fairness

-----------------------------------------------------------------------------
(* The values the variables take; every unit is in one place. *)
TypeOK ==
  /\ kind \in Kinds /\ stdin \in Inputs
  /\ slow \in BOOLEAN /\ broken \in BOOLEAN
  /\ copier \in [Ends -> {"copy", "flush", "done"}]
  /\ pipe \in [Ends -> {"copy", "grace", "returned"}]
  /\ written \in [Ends -> Nat] /\ queued \in [Ends -> Nat]
  /\ arrived \in [Ends -> Nat] /\ out \in [Ends -> Nat]
  /\ closed \in [Ends -> BOOLEAN] /\ cut \in [Ends -> BOOLEAN]
  /\ \A e \in Ends :
       /\ written[e] <= stdin[e].units
       /\ queued[e] + arrived[e] + out[Peer(e)] <= written[e]

OneShot(e) == stdin[e].units > 0 /\ stdin[e].ends
Silent(e) == stdin[e].units = 0

(* What the comments of pipeBiDirectional promise.  The LUKS flow: the     *)
(* passphrase of a one-shot sender arrives at a receiver that sends        *)
(* nothing, however slow the connection is and whatever the receiver's     *)
(* stdin is.  And "a one-shot payload must not be lost just because the    *)
(* peer half-closed first" (main.go 1343-1345): over TLS it arrives        *)
(* whatever the peer sends, when no copy takes longer than the grace and   *)
(* the stdin is one the grace waits for.  A data channel has no half-      *)
(* close, and there the later of two senders is cut off.                   *)
Owed(e) ==
  /\ ~broken
  /\ OneShot(e)
  /\ Silent(Peer(e)) \/ (kind = "tls" /\ ~slow /\ ~stdin[e].tty)

Promise == INSTANCE Delivery WITH
  Senders <- Ends,
  size <- [e \in Ends |-> stdin[e].units],
  owed <- [e \in Ends |-> Owed(e)],
  got <- [e \in Ends |-> out[Peer(e)]],
  over <- [e \in Ends |-> ~Running(Peer(e))]

(* Two pipeBiDirectional over one connection implement Delivery: units are *)
(* written out in order and once, nothing is written after the return, and *)
(* no receiver returns on part of a payload that is owed to it, unless the *)
(* connection breaks.                                                      *)
Delivers == Promise!Spec

(* Both ends return when one of them is a one-shot sender, whatever the    *)
(* other one sends, and when the connection breaks.  (An end that a broken *)
(* data channel keeps from the end of its peer's stream waits for it until *)
(* its process is stopped; only the LUKS agent stops, after five minutes.) *)
OneShotReturns ==
  (broken \/ \E e \in Ends : OneShot(e)) ~>
    \A e \in Ends : ~Running(e) \/ CutOff(e)
=============================================================================
