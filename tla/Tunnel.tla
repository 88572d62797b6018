------------------------------- MODULE Tunnel -------------------------------
(***************************************************************************)
(* The modes that connect an application to a target: SOCKS (socks.go) and *)
(* reverse forwarding (reverse_forward.go), which multiplex streams over   *)
(* one yamux session; and, with one TLS connection or data channel each,   *)
(* port forwarding (handleForwardConn in main.go), command and shell mode  *)
(* (shell.go).                                                             *)
(*                                                                         *)
(*   application -- near -- entry handler -- mid -- exit handler -- target *)
(*                                                                         *)
(* A handler copies both directions.  The request of a user goes to the    *)
(* target, the reply to the application; streams keep their order, so      *)
(* their units are counted.  What a handler has written to a local         *)
(* connection counts as got.  A target on the network replies to a         *)
(* complete request; a command or a shell writes and exits when it likes.  *)
(* In forwarding and command mode the entry is the client's                *)
(* pipeBiDirectional, of which only the order of its ends matters here;    *)
(* its flushes and its grace are those of module Pipe.  Window sizes are   *)
(* left out.                                                               *)
(***************************************************************************)
EXTENDS Naturals

CONSTANTS
  Users,    \* connections that applications may make
  Modes,    \* the modes explored
  Links,    \* the kinds of connection explored
  Units     \* units in a request and in a reply

Sides == {"entry", "exit"}
Dirs == {"req", "rep"}
AllModes == {"socks", "reverse", "forward", "command", "shell"}

ASSUME TunnelAssumption ==
  /\ Modes \subseteq AllModes /\ Links \subseteq {"tls", "webrtc"}
  /\ Units \in Nat \ {0}

VARIABLES
  mode,      \* the mode of both ends
  link,      \* the kind of the connection between them
  broken,    \* whether the network between the two ends is gone
  sess,      \* whether each end still takes its side of the tunnel for open
  loop,      \* the accept loops of the yamux modes
  app,       \* each application's end of its connection
  target,    \* each target's end of its connection
  told,      \* whether the target has seen the end of the request
  handler,   \* where the handlers of a user are
  copying,   \* the copies of a handler that still run
  sent,      \* units an application or a target has written
  near,      \* of these, the ones its handler has not read
  mid,       \* units written to the stream and not read from it
  fin,       \* whether the end of the stream follows them
  got        \* units written to the far connection

tunnelVars == <<mode, link, broken, sess, loop>>
peerVars == <<app, target, told>>
dataVars == <<sent, near, mid, fin, got>>
vars == <<tunnelVars, peerVars, handler, copying, dataVars>>

Other(s) == IF s = "entry" THEN "exit" ELSE "entry"

(* The direction a handler reads from its local connection, and the one it *)
(* reads from the stream.                                                  *)
Outgoing(s) == IF s = "entry" THEN "req" ELSE "rep"
Incoming(s) == Outgoing(Other(s))

Multiplexed == mode \in {"socks", "reverse"}
RunsProcess == mode \in {"command", "shell"}

(* A data channel without a yamux session on it: no keep-alive, and a Read *)
(* that a broken connection never ends.                                    *)
Bare == link = "webrtc" /\ mode \in {"forward", "command"}

Counters == [Users -> [Dirs -> 0..Units]]
Started(s, u) == handler[s][u] # "none"

Init ==
  /\ mode \in Modes
  /\ link \in Links
  /\ broken = FALSE
  /\ sess = [s \in Sides |-> TRUE]
  /\ loop = [s \in Sides |-> "accepting"]
  /\ app = [u \in Users |-> "idle"]
  /\ target = [u \in Users |-> "none"]
  /\ told = [u \in Users |-> FALSE]
  /\ handler = [s \in Sides |-> [u \in Users |-> "none"]]
  /\ copying = [s \in Sides |-> [u \in Users |-> {}]]
  /\ sent = [u \in Users |-> [d \in Dirs |-> 0]]
  /\ near = sent /\ mid = sent /\ got = sent
  /\ fin = [u \in Users |-> [d \in Dirs |-> FALSE]]

-----------------------------------------------------------------------------
(* Applications and targets. *)
AppConnects(u) ==
  /\ Multiplexed
  /\ app[u] = "idle" /\ loop["entry"] = "accepting"
  /\ app' = [app EXCEPT ![u] = "open"]
  /\ handler' = [handler EXCEPT !["entry"][u] = "backlog"]
  /\ UNCHANGED <<tunnelVars, target, told, copying, dataVars>>

(* In the other modes a client of its own, with its connection to the      *)
(* server; in shell mode with the data stream opened on it.                *)
ClientStarts(u) ==
  /\ ~Multiplexed /\ ~broken
  /\ app[u] = "idle"
  /\ app' = [app EXCEPT ![u] = "open"]
  /\ handler' = [handler EXCEPT !["entry"][u] = "copy", !["exit"][u] = "dial"]
  /\ copying' = [copying EXCEPT !["entry"][u] = Dirs]
  /\ UNCHANGED <<tunnelVars, target, told, dataVars>>

Writes(u, d) ==
  /\ sent[u][d] < Units
  /\ sent' = [sent EXCEPT ![u][d] = @ + 1]
  /\ near' = [near EXCEPT ![u][d] = @ + 1]
  /\ UNCHANGED <<tunnelVars, peerVars, handler, copying, mid, fin, got>>

AppWrites(u) ==
  /\ app[u] = "open" /\ handler["entry"][u] # "done"
  /\ Writes(u, "req")

(* An application ends its request, keeping its other half open, or closes *)
(* its connection at any time.                                             *)
AppHalfCloses(u) ==
  /\ app[u] = "open" /\ sent[u]["req"] = Units
  /\ app' = [app EXCEPT ![u] = "half"]
  /\ UNCHANGED <<tunnelVars, target, told, handler, copying, dataVars>>

AppCloses(u) ==
  /\ app[u] \in {"open", "half"}
  /\ app' = [app EXCEPT ![u] = "closed"]
  /\ UNCHANGED <<tunnelVars, target, told, handler, copying, dataVars>>

TargetWrites(u) ==
  /\ target[u] = "open" /\ handler["exit"][u] = "copy"
  /\ RunsProcess \/ got[u]["req"] = Units
  /\ Writes(u, "rep")

TargetCloses(u) ==
  /\ target[u] = "open"
  /\ RunsProcess \/ sent[u]["rep"] = Units \/ told[u]
  /\ target' = [target EXCEPT ![u] = "closed"]
  /\ UNCHANGED <<tunnelVars, app, told, handler, copying, dataVars>>

-----------------------------------------------------------------------------
(* The tunnel breaks, and with it goes what is on its way, or some of it.  *)
Break ==
  /\ ~broken
  /\ broken' = TRUE
  /\ mid' \in Counters /\ fin' \in [Users -> [Dirs -> BOOLEAN]]
  /\ \A u \in Users, d \in Dirs :
       /\ mid'[u][d] <= mid[u][d]
       /\ fin'[u][d] => fin[u][d] /\ mid'[u][d] = mid[u][d]
  /\ UNCHANGED <<mode, link, sess, loop, peerVars, handler, copying, sent, near, got>>

(* The keep-alives of yamux and those of TCP let an end notice it, or that *)
(* the other one has closed the session.                                   *)
Notice(s) ==
  /\ sess[s]
  /\ (broken /\ ~Bare) \/ ~sess[Other(s)]
  /\ sess' = [sess EXCEPT ![s] = FALSE]
  /\ UNCHANGED <<mode, link, broken, loop, peerVars, handler, copying, dataVars>>

(* The process of a side returns from its accept loop and exits, which     *)
(* closes every connection it has.                                         *)
Exits(s) ==
  /\ loop' = [loop EXCEPT ![s] = "returned"]
  /\ sess' = [sess EXCEPT ![s] = FALSE]
  /\ handler' = [handler EXCEPT ![s] =
                   [u \in Users |-> IF Started(s, u) THEN "done" ELSE "none"]]
  /\ copying' = [copying EXCEPT ![s] = [u \in Users |-> {}]]
  /\ told' = IF s = "exit" THEN [u \in Users |-> target[u] # "none"] ELSE told
  /\ UNCHANGED <<mode, link, broken, app, target, dataVars>>

(* session.Accept fails: runSocksServer and runReverseForwardClient return. *)
ExitLoopReturns ==
  /\ Multiplexed
  /\ loop["exit"] = "accepting" /\ ~sess["exit"]
  /\ Exits("exit")

(* A cancelled context closes the listener of runSocksClient.  The other   *)
(* loops do not look at the context.                                       *)
SocksCancelled ==
  /\ mode = "socks"
  /\ loop["entry"] = "accepting"
  /\ Exits("entry")

-----------------------------------------------------------------------------
(* listener.Accept, and the goroutine that opens a stream. *)
EntryAccepts(u) ==
  /\ handler["entry"][u] = "backlog"
  /\ loop["entry"] = "accepting"
  /\ handler' = [handler EXCEPT !["entry"][u] = "opening"]
  /\ UNCHANGED <<tunnelVars, peerVars, copying, dataVars>>

(* A session that is closed refuses the stream; one that is broken without *)
(* having noticed it sends the request to open into the void.              *)
EntryOpens_Waits(u) ==
  /\ handler["entry"][u] = "opening" /\ sess["entry"]
  /\ handler' = [handler EXCEPT !["entry"][u] = "copy",
                   !["exit"][u] = IF sess["exit"] /\ ~broken THEN "queued" ELSE @]
  /\ copying' = [copying EXCEPT !["entry"][u] = Dirs]
  /\ UNCHANGED <<tunnelVars, peerVars, dataVars>>

EntryOpens(u) ==
  /\ handler["entry"][u] = "opening"
  /\ IF sess["entry"]
       THEN /\ handler' = [handler EXCEPT !["entry"][u] = "copy",
                 !["exit"][u] = IF sess["exit"] /\ ~broken THEN "queued" ELSE @]
            /\ copying' = [copying EXCEPT !["entry"][u] = Dirs]
       ELSE /\ handler' = [handler EXCEPT !["entry"][u] = "done"]
            /\ UNCHANGED copying
  /\ UNCHANGED <<tunnelVars, peerVars, dataVars>>

ExitAccepts(u) ==
  /\ handler["exit"][u] = "queued"
  /\ loop["exit"] = "accepting" /\ sess["exit"]
  /\ handler' = [handler EXCEPT !["exit"][u] = "dial"]
  /\ UNCHANGED <<tunnelVars, peerVars, copying, dataVars>>

(* The target is there, or the handler gives up and closes the stream; but *)
(* a data channel is left open when a command does not start, and when the *)
(* PROXY header cannot be written.                                         *)
Closings == IF Bare THEN {closes \in BOOLEAN : closes => mode = "forward"} ELSE {TRUE}

Reaches(u) ==
  /\ handler["exit"][u] = "dial"
  /\ \/ /\ handler' = [handler EXCEPT !["exit"][u] = "copy"]
        /\ copying' = [copying EXCEPT !["exit"][u] = Dirs]
        /\ target' = [target EXCEPT ![u] = "open"]
        /\ UNCHANGED fin
     \/ /\ handler' = [handler EXCEPT !["exit"][u] = "done"]
        /\ \E closes \in Closings :
             fin' = [fin EXCEPT ![u]["rep"] = closes /\ ~broken]
        /\ UNCHANGED <<copying, target>>
  /\ UNCHANGED <<tunnelVars, app, told, sent, near, mid, got>>

(* The target is dialled, and in forwarding told who connects by a PROXY   *)
(* header if that is asked for; or it is a command, or a shell that starts *)
(* once both of the client's streams are accepted.                         *)
ExitDials(u) == ~RunsProcess /\ Reaches(u)
RunCommandServer(u) == mode = "command" /\ Reaches(u)
RunShellServer(u) == mode = "shell" /\ Reaches(u)

-----------------------------------------------------------------------------
(* CopyWithTrace of one direction, a unit at a time.  What is written to a *)
(* broken tunnel is buffered for nothing; a data channel that has been     *)
(* reset in one direction takes nothing in it.                             *)
Copies(s, u, d) == handler[s][u] = "copy" /\ d \in copying[s][u]
Reset(u, d) == Bare /\ fin[u][d]

CopyToStream(s, u) ==
  LET d == Outgoing(s) IN
  /\ Copies(s, u, d) /\ near[u][d] > 0 /\ sess[s] /\ ~Reset(u, d)
  /\ near' = [near EXCEPT ![u][d] = @ - 1]
  /\ mid' = [mid EXCEPT ![u][d] = IF broken THEN @ ELSE @ + 1]
  /\ UNCHANGED <<tunnelVars, peerVars, handler, copying, sent, fin, got>>

LocalClosed(s, u) ==
  IF s = "entry" THEN app[u] = "closed" ELSE target[u] = "closed"

CopyFromStream(s, u) ==
  LET d == Incoming(s) IN
  /\ Copies(s, u, d) /\ mid[u][d] > 0 /\ ~LocalClosed(s, u)
  /\ mid' = [mid EXCEPT ![u][d] = @ - 1]
  /\ got' = [got EXCEPT ![u][d] = @ + 1]
  /\ UNCHANGED <<tunnelVars, peerVars, handler, copying, sent, near, fin>>

(* A copy reads the end of its source once it has read all before it. *)
LocalEnds(s, u) == LocalClosed(s, u) \/ (s = "entry" /\ app[u] = "half")

ReadsEnd_Closing(s, u, d) ==
  IF d = Outgoing(s)
    THEN near[u][d] = 0 /\ LocalEnds(s, u)
    ELSE fin[u][d] \/ ~sess[s]

ReadsEnd(s, u, d) ==
  IF d = Outgoing(s)
    THEN near[u][d] = 0 /\ LocalEnds(s, u)
    ELSE (mid[u][d] = 0 /\ fin[u][d]) \/ ~sess[s]

(* Or it fails to write what it has read: a TLS connection or data channel *)
(* that the other end has closed lets a write fail, a yamux stream with a  *)
(* reader that is gone does not.                                           *)
LinkClosed(s, u) ==
  ~Multiplexed /\ handler[Other(s)][u] = "done" /\ fin[u][Incoming(s)]

WriteFails(s, u, d) ==
  IF d = Outgoing(s)
    THEN near[u][d] > 0 /\ (~sess[s] \/ LinkClosed(s, u) \/ Reset(u, d))
    ELSE mid[u][d] > 0 /\ LocalClosed(s, u)

(* The copies whose end nobody waits for: those of the client's stdin, and *)
(* those that feed a shell or a command.                                   *)
InputCopy_Awaited(s, d) == FALSE
InputCopy(s, d) == d = "req" /\ (RunsProcess \/ (mode = "forward" /\ s = "entry"))

(* The end of any other ends the handler, but for the proxy of the SOCKS   *)
(* library, which waits for both of its copies.                            *)
OutlivesEnd_Always(s, u, d) == copying[s][u] = Dirs
OutlivesEnd(s, u, d) ==
  \/ InputCopy(s, d)
  \/ mode = "socks" /\ s = "exit" /\ copying[s][u] = Dirs

(* So does a failure, unless a process has still to be waited for. *)
OutlivesFailure(s, u, d) ==
  \/ InputCopy(s, d)
  \/ RunsProcess /\ s = "exit" /\ target[u] # "closed"

(* The end of the request is passed on: to the target by the SOCKS library *)
(* and by the closing of a command's stdin, to the stream by the half      *)
(* close of the pipe.  A shell and its client pass nothing on.  The reader *)
(* of the end of one direction of a data channel resets the other one.     *)
PassesEnd(s, u, d) ==
  /\ told' = [told EXCEPT ![u] = @ \/ (s = "exit" /\ d = "req" /\ mode # "shell")]
  /\ fin' = [fin EXCEPT ![u][Outgoing(s)] =
       @ \/ /\ ~broken /\ ReadsEnd(s, u, d)
            /\ \/ s = "entry" /\ d = "req" /\ mode # "shell" /\ sent[u][d] > 0
               \/ s = "exit" /\ d = "req" /\ Bare]

StopsCopy(s, u, d) ==
  /\ copying' = [copying EXCEPT ![s][u] = @ \ {d}]
  /\ PassesEnd(s, u, d)
  /\ UNCHANGED <<handler, mid>>

(* The deferred Close of both connections; that of a data channel drops    *)
(* what it has not transmitted, that of a yamux stream does not close the  *)
(* channel.  Nothing closes the data channel of a command that has exited: *)
(* it goes with the process, unannounced.                                  *)
Closes(s) == ~(s = "exit" /\ mode = "command" /\ link = "webrtc")

ClosesBoth(s, u) ==
  LET d == Outgoing(s) IN
  /\ handler' = [handler EXCEPT ![s][u] = "done"]
  /\ copying' = [copying EXCEPT ![s][u] = {}]
  /\ told' = [told EXCEPT ![u] = @ \/ s = "exit"]
  /\ fin' = [fin EXCEPT ![u][d] = @ \/ (~broken /\ Closes(s))]
  /\ \E kept \in IF link = "webrtc" /\ ~Multiplexed THEN 0..mid[u][d] ELSE {mid[u][d]} :
       mid' = [mid EXCEPT ![u][d] = kept]

CopyEnds(s, u, d) ==
  /\ Copies(s, u, d)
  /\ \/ ReadsEnd(s, u, d)
        /\ IF OutlivesEnd(s, u, d) THEN StopsCopy(s, u, d) ELSE ClosesBoth(s, u)
     \/ WriteFails(s, u, d)
        /\ IF OutlivesFailure(s, u, d) THEN StopsCopy(s, u, d) ELSE ClosesBoth(s, u)
  /\ UNCHANGED <<tunnelVars, app, target, sent, near, got>>

(* Wait: the process has exited after the copy of its output failed. *)
ProcessExits(u) ==
  /\ RunsProcess
  /\ handler["exit"][u] = "copy" /\ "rep" \notin copying["exit"][u]
  /\ target[u] = "closed"
  /\ ClosesBoth("exit", u)
  /\ UNCHANGED <<tunnelVars, app, target, sent, near, got>>

-----------------------------------------------------------------------------
EntryStep(u) == EntryAccepts(u) \/ EntryOpens(u)
ExitStep(u) ==
  \/ ExitAccepts(u) \/ ExitDials(u) \/ RunCommandServer(u) \/ RunShellServer(u)
  \/ ProcessExits(u)
CopyStep(s, u) ==
  CopyToStream(s, u) \/ CopyFromStream(s, u) \/ \E d \in Dirs : CopyEnds(s, u, d)
PeerStep(u) ==
  \/ AppConnects(u) \/ ClientStarts(u) \/ AppWrites(u) \/ AppHalfCloses(u) \/ AppCloses(u)
  \/ TargetWrites(u) \/ TargetCloses(u)

Next ==
  \/ \E u \in Users : PeerStep(u) \/ EntryStep(u) \/ ExitStep(u)
  \/ \E s \in Sides, u \in Users : CopyStep(s, u)
  \/ \E s \in Sides : Notice(s)
  \/ Break \/ ExitLoopReturns \/ SocksCancelled

Spec == Init /\ [][Next]_vars

(***************************************************************************)
(* Goroutines run, a dial ends and a lost peer is noticed.  Nothing forces *)
(* an application or a target to write or to close.                        *)
(***************************************************************************)
FairSpec ==
  /\ Spec
  /\ \A u \in Users : WF_vars(EntryStep(u)) /\ WF_vars(ExitStep(u))
  /\ \A s \in Sides, u \in Users : WF_vars(CopyStep(s, u))
  /\ \A s \in Sides : WF_vars(Notice(s))
  /\ WF_vars(ExitLoopReturns)

-----------------------------------------------------------------------------
(* The values the variables take: no unit is ever counted twice. *)
TypeOK ==
  /\ mode \in Modes /\ link \in Links
  /\ broken \in BOOLEAN
  /\ sess \in [Sides -> BOOLEAN]
  /\ loop \in [Sides -> {"accepting", "returned"}]
  /\ app \in [Users -> {"idle", "open", "half", "closed"}]
  /\ target \in [Users -> {"none", "open", "closed"}]
  /\ told \in [Users -> BOOLEAN]
  /\ handler \in [Sides -> [Users -> {"none", "backlog", "opening", "queued",
                                      "dial", "copy", "done"}]]
  /\ copying \in [Sides -> [Users -> SUBSET Dirs]]
  /\ sent \in Counters /\ near \in Counters /\ mid \in Counters /\ got \in Counters
  /\ fin \in [Users -> [Dirs -> BOOLEAN]]
  /\ \A u \in Users, d \in Dirs : near[u][d] + mid[u][d] + got[u][d] <= sent[u][d]

Intact == ~broken /\ \A s \in Sides : sess[s]

(* A target that sees the end of a request, while the tunnel is up and the *)
(* application has only ended its request, has the whole request, although *)
(* both handlers tear everything down at the end of a copy.                *)
WholeRequest ==
  \A u \in Users :
    (Intact /\ told[u] /\ app[u] = "half" /\ target[u] = "open") =>
      got[u]["req"] = sent[u]["req"]

(* An application that kept its connection open and sees it end, after the *)
(* target closed or exited and with the tunnel up, has the whole reply:    *)
(* the closing of two handlers one after the other overtakes no data.  Not *)
(* so on a data channel, whose Close drops what it has queued.             *)
WholeReply ==
  \A u \in Users :
    (/\ Intact /\ (link = "tls" \/ Multiplexed)
     /\ handler["entry"][u] = "done" /\ app[u] = "open" /\ target[u] = "closed") =>
      got[u]["rep"] = sent[u]["rep"]

(* The end of the reply was not sent, or it was lost, on a data channel    *)
(* whose end nobody else announces.                                        *)
LeftOpen(u) ==
  /\ Bare /\ ~fin[u]["rep"]
  /\ broken \/ mode = "command" \/ target[u] = "none"

(* A handler ends when its target has closed or exited, although in shell  *)
(* and command mode nobody tells the copy of its input; and when it ends   *)
(* the application sees its connection end, whether the tunnel holds or    *)
(* not.  (The SOCKS library cannot half-close a yamux stream and waits for *)
(* the application.  The client of a command over a data channel is not    *)
(* told that the command has exited, unless its own input ended before.)   *)
EndReachesApp ==
  \A u \in Users :
    /\ (mode # "socks" /\ target[u] = "closed") ~> handler["exit"][u] = "done"
    /\ handler["exit"][u] = "done" ~> (handler["entry"][u] = "done" \/ LeftOpen(u))

(* Nobody hangs on a tunnel that is gone: the connection of an application *)
(* ends, also one accepted by a listener that has outlived its session,    *)
(* and so does that of a target, or a stream not accepted as it broke; a   *)
(* command is told that its input has ended.  (A shell is not told.  Port  *)
(* forwarding and commands over a data channel notice nothing.)            *)
Released(s, u) ==
  \/ handler[s][u] = "done"
  \/ s = "exit" /\ (mode = "shell" \/ (mode = "command" /\ told[u]))

PeersReleased ==
  \A s \in Sides, u \in Users :
    (broken /\ ~Bare /\ Started(s, u)) ~> Released(s, u)

(* When the handler of a user at a side, its notice of a lost tunnel and   *)
(* the accept loop can move, from their guards.                            *)
CanMove(s, u) ==
  \/ handler[s][u] \in {"opening", "dial"}
  \/ handler[s][u] = "backlog" /\ loop["entry"] = "accepting"
  \/ handler[s][u] = "queued" /\ loop["exit"] = "accepting" /\ sess["exit"]
  \/ \E d \in Dirs : Copies(s, u, d) /\ (ReadsEnd(s, u, d) \/ WriteFails(s, u, d))
  \/ Copies(s, u, Outgoing(s)) /\ near[u][Outgoing(s)] > 0 /\ sess[s]
  \/ Copies(s, u, Incoming(s)) /\ mid[u][Incoming(s)] > 0 /\ ~LocalClosed(s, u)
  \/ /\ s = "exit" /\ RunsProcess /\ target[u] = "closed"
     /\ handler[s][u] = "copy" /\ "rep" \notin copying[s][u]

CanNotice(s) == sess[s] /\ ((broken /\ ~Bare) \/ ~sess[Other(s)])

LoopCanReturn == Multiplexed /\ loop["exit"] = "accepting" /\ ~sess["exit"]

(* Neither an application nor a target is left to a handler that waits for *)
(* what cannot come.  On a tunnel that is gone the handler of a peer that  *)
(* is not yet released can move, or its side has still to notice; when a   *)
(* target has closed its handler can move; and when that has ended, the    *)
(* end of the reply is on its way.                                         *)
NobodyHangs ==
  \A u \in Users :
    /\ \A s \in Sides : (broken /\ ~Bare /\ Started(s, u) /\ ~Released(s, u)) =>
         CanMove(s, u) \/ CanNotice(s) \/ (s = "exit" /\ LoopCanReturn)
    /\ (mode # "socks" /\ target[u] = "closed" /\ handler["exit"][u] # "done") =>
         CanMove("exit", u)
    /\ (handler["exit"][u] = "done" /\ handler["entry"][u] # "done" /\ ~LeftOpen(u)) =>
         CanMove("entry", u) \/ CanNotice("entry")
=============================================================================
