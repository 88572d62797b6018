---------------------------- MODULE TunnelProofs ----------------------------
(***************************************************************************)
(* No request and no reply is cut short by the closing of the handlers,    *)
(* and no handler is left waiting for what cannot come, for any number of  *)
(* users, units, modes and kinds of connection.                            *)
(*                                                                         *)
(* What a handler may have lost depends on why it ended, and that on what  *)
(* the other handler did before: the invariant follows the end of each     *)
(* direction from the peer that ends it through both handlers.             *)
(***************************************************************************)
EXTENDS Tunnel, TLAPS

(* What the invariant looks at of a user. *)
App(u) == app[u]
Target(u) == target[u]
Told(u) == told[u]
Entry(u) == handler["entry"][u]
Exit(u) == handler["exit"][u]
ReadsReply(u) == "rep" \in copying["exit"][u]
Sent(u, d) == sent[u][d]
Near(u, d) == near[u][d]
Mid(u, d) == mid[u][d]
Got(u, d) == got[u][d]
Fin(u, d) == fin[u][d]

(* The handlers of a user start one after the other; the exit handler has  *)
(* a target while it copies, has told it the end when it is done, and it   *)
(* alone ends the reply: when it is done, or by the reset that answers the *)
(* end of the request.                                                     *)
Stages(u) ==
  /\ App(u) = "idle" => Entry(u) = "none"
  /\ Entry(u) \in {"none", "backlog", "opening"} => Exit(u) = "none"
  /\ Exit(u) \in {"none", "queued", "dial"} => Target(u) = "none" /\ ~Told(u)
  /\ Exit(u) = "copy" => Target(u) # "none"
  /\ (Exit(u) = "done" /\ Target(u) # "none") => Told(u)
  /\ (Intact /\ Fin(u, "rep")) => Exit(u) = "done" \/ (Fin(u, "req") /\ Told(u))

(* The clients that do not wait for their input end with the reply. *)
EndOfClient(u) ==
  (Intact /\ ~Multiplexed /\ Entry(u) = "done" /\ App(u) # "closed") => Fin(u, "rep")

(* Nothing can have cut the request short. *)
Live(u) ==
  /\ Intact
  /\ App(u) # "closed" /\ Target(u) # "closed"
  /\ ~(Target(u) = "none" /\ Exit(u) = "done")

(* Then no unit of it is lost, it is ended only by the application, and    *)
(* the target is told so only after its last unit.                         *)
Request(u) == Live(u) =>
  /\ Near(u, "req") + Mid(u, "req") + Got(u, "req") = Sent(u, "req")
  /\ Fin(u, "req") => App(u) = "half" /\ Near(u, "req") = 0
  /\ Told(u) => App(u) = "half" /\ Got(u, "req") = Sent(u, "req")

(* Units of a reply are lost only with the tunnel or by a data channel. *)
ReplyCounted(u) ==
  (Intact /\ (link = "tls" \/ Multiplexed)) =>
    Near(u, "rep") + Mid(u, "rep") + Got(u, "rep") = Sent(u, "rep")

(* A target on the network replies to the whole request, so that none of   *)
(* it is left to fail at a target that has closed.                         *)
Answers(u) == (~RunsProcess /\ Sent(u, "rep") > 0) => Got(u, "req") = Units

(* While the application keeps its connection open the handlers end only   *)
(* with the reply, the exit handler when it has read all of it, the entry  *)
(* handler when it has written all that the stream held.                   *)
Reply(u) == (Intact /\ App(u) = "open") =>
  /\ Entry(u) = "done" => Fin(u, "rep") /\ Mid(u, "rep") = 0
  /\ Fin(u, "req") => Exit(u) = "done"
  /\ (Exit(u) = "copy" /\ ~ReadsReply(u)) => Target(u) = "closed" /\ Near(u, "rep") = 0
  /\ (Exit(u) = "done" /\ Target(u) = "closed") => Near(u, "rep") = 0
  /\ (~RunsProcess /\ Target(u) = "closed") => Sent(u, "rep") = Units

UserInv(u) ==
  /\ Stages(u) /\ EndOfClient(u)
  /\ Request(u) /\ ReplyCounted(u) /\ Answers(u) /\ Reply(u)

IInv == TypeOK /\ \A u \in Users : UserInv(u)

(***************************************************************************)
(* Why a handler that has started comes to its end.  A listener and a loop *)
(* that hold a connection have not returned; a loop that has returned took *)
(* its handlers along; a handler that copies still reads what will tell it *)
(* of the end, or needs no telling; and an exit handler that is done has   *)
(* ended the reply, unless the tunnel is gone or a data channel is left    *)
(* open.                                                                   *)
(***************************************************************************)
HearsReply(u) == "rep" \in copying["entry"][u]
HearsRequest(u) == "req" \in copying["exit"][u]

Ending(u) ==
  /\ Entry(u) \in {"none", "backlog", "opening", "copy", "done"}
  /\ Exit(u) \in {"none", "queued", "dial", "copy", "done"}
  /\ Entry(u) = "backlog" => loop["entry"] = "accepting"
  /\ Entry(u) \in {"backlog", "opening"} \/ Exit(u) = "queued" => Multiplexed
  /\ loop["exit"] = "returned" => Exit(u) \in {"none", "done"}
  /\ Entry(u) = "copy" => HearsReply(u)
  /\ (Exit(u) = "copy" /\ ~HearsRequest(u)) =>
       mode \in {"shell", "socks"} \/ (mode = "command" /\ Told(u))
  /\ (Exit(u) = "copy" /\ ~ReadsReply(u)) => RunsProcess \/ mode = "socks"
  /\ Exit(u) = "done" =>
       \/ Fin(u, "rep") \/ ~sess["exit"] \/ broken
       \/ Bare /\ (mode = "command" \/ Target(u) = "none")

(* The loop of the exit ends with its session. *)
LoopInv == loop["exit"] = "returned" => Multiplexed /\ ~sess["exit"]

EndInv == LoopInv /\ \A u \in Users : Ending(u)

(***************************************************************************)
(* A measure of how far a user, and the tunnel, have come.                 *)
(***************************************************************************)
AppStage(x) == CASE x = "idle" -> 0 [] x = "open" -> 1 [] x = "half" -> 2 [] OTHER -> 3
TargetStage(x) == CASE x = "none" -> 0 [] x = "open" -> 1 [] OTHER -> 2
HandlerStage(x) ==
  CASE x = "none" -> 0
    [] x \in {"backlog", "queued"} -> 1
    [] x \in {"opening", "dial"} -> 2
    [] x = "copy" -> 3
    [] OTHER -> 4

(* What brings a user further: a peer or a handler at its next stage, a    *)
(* copy that has ended, a unit that was written, read or written out.      *)
UserAdvances(u) ==
  \/ AppStage(app'[u]) > AppStage(app[u])
  \/ TargetStage(target'[u]) > TargetStage(target[u])
  \/ \E s \in Sides : HandlerStage(handler'[s][u]) > HandlerStage(handler[s][u])
  \/ \E s \in Sides : copying[s][u] \ copying'[s][u] # {}
  \/ \E d \in Dirs : \/ sent'[u][d] > sent[u][d]
                     \/ near'[u][d] < near[u][d]
                     \/ got'[u][d] > got[u][d]

(* What never goes back: a copy that has ended is not started again, and   *)
(* only writing fills the near connection again.                           *)
UserKeeps(u) ==
  /\ AppStage(app'[u]) >= AppStage(app[u])
  /\ TargetStage(target'[u]) >= TargetStage(target[u])
  /\ \A s \in Sides :
       /\ HandlerStage(handler'[s][u]) >= HandlerStage(handler[s][u])
       /\ handler'[s][u] = handler[s][u] => copying'[s][u] \subseteq copying[s][u]
  /\ \A d \in Dirs :
       /\ sent'[u][d] >= sent[u][d] /\ got'[u][d] >= got[u][d]
       /\ sent'[u][d] = sent[u][d] => near'[u][d] <= near[u][d]

TunnelAdvances ==
  \/ ~broken /\ broken'
  \/ \E s \in Sides : (sess[s] /\ ~sess'[s]) \/ loop[s] # loop'[s]

TunnelKeeps ==
  /\ broken => broken'
  /\ \A s \in Sides : /\ sess'[s] => sess[s]
                      /\ loop[s] = "returned" => loop'[s] = "returned"

(* Every step brings a user or the end of the tunnel nearer, and nothing   *)
(* goes back.                                                              *)
OnlyForward ==
  [][ /\ TunnelAdvances \/ \E u \in Users : UserAdvances(u)
      /\ TunnelKeeps /\ \A u \in Users : UserKeeps(u) ]_vars

-----------------------------------------------------------------------------
(* What a step leaves alone of a user. *)
KeepsTunnel ==
  /\ (Intact' <=> Intact) /\ link' = link
  /\ (Multiplexed' <=> Multiplexed) /\ (RunsProcess' <=> RunsProcess)
KeepsPeers(u) == App(u)' = App(u) /\ Target(u)' = Target(u) /\ (Told(u)' <=> Told(u))
KeepsEntry(u) == Entry(u)' = Entry(u)
KeepsExit(u) == Exit(u)' = Exit(u) /\ (ReadsReply(u)' <=> ReadsReply(u))
KeepsEnd(u, d) == Fin(u, d)' <=> Fin(u, d)
KeepsUnits(u, d) ==
  /\ Sent(u, d)' = Sent(u, d) /\ Near(u, d)' = Near(u, d)
  /\ Mid(u, d)' = Mid(u, d) /\ Got(u, d)' = Got(u, d)

KeepsData(u) ==
  /\ KeepsEnd(u, "req") /\ KeepsUnits(u, "req")
  /\ KeepsEnd(u, "rep") /\ KeepsUnits(u, "rep")

(* The counters of one direction are numbers that add up. *)
AddUp(u, d) ==
  /\ Near(u, d) \in Nat /\ Mid(u, d) \in Nat /\ Got(u, d) \in Nat /\ Sent(u, d) \in Nat
  /\ Near(u, d) + Mid(u, d) + Got(u, d) <= Sent(u, d)
  /\ Sent(u, d) <= Units

(* What the invariant gives for one user. *)
Known(u) == UserInv(u) /\ Units \in Nat \ {0} /\ AddUp(u, "req") /\ AddUp(u, "rep")

(* The variables are functions on these sets. *)
Shape ==
  /\ DOMAIN app = Users /\ DOMAIN target = Users /\ DOMAIN told = Users
  /\ \A f \in {handler, copying} : DOMAIN f = Sides /\ \A s \in Sides : DOMAIN f[s] = Users
  /\ \A f \in {sent, near, mid, got, fin} :
       DOMAIN f = Users /\ \A v \in Users : DOMAIN f[v] = Dirs

LEMMA ShapeFact == TypeOK => Shape
BY DEF TypeOK, Counters, Shape

(* A step starts from these facts, and most of them leave the tunnel alone. *)
LEMMA Start == ASSUME IInv, NEW u \in Users PROVE Shape /\ Known(u)
<1>1. TypeOK /\ UserInv(u)
  BY DEF IInv
<1>2. AddUp(u, "req") /\ AddUp(u, "rep") /\ Units \in Nat \ {0}
  BY <1>1, TunnelAssumption
  DEF TypeOK, Counters, Dirs, AddUp, Sent, Near, Mid, Got
<1>3. Shape
  BY <1>1, ShapeFact
<1>4. QED
  BY <1>1, <1>2, <1>3 DEF Known

(* What is derived from the tunnel's variables is kept with them. *)
LEMMA TunnelKept == UNCHANGED tunnelVars => KeepsTunnel
BY DEF tunnelVars, KeepsTunnel, Intact, Multiplexed, RunsProcess

-----------------------------------------------------------------------------
(* The lemmas of this section are about the values of one user only: what  *)
(* may happen to them without breaking the invariant.                      *)
USE DEF Known, AddUp, KeepsTunnel, KeepsPeers, KeepsEntry, KeepsExit, KeepsEnd, KeepsUnits,
        KeepsData, UserInv, Stages, EndOfClient, Live, Request, ReplyCounted, Answers, Reply

(* Nothing. *)
LEMMA Kept ==
  ASSUME NEW u, UserInv(u), KeepsTunnel,
         KeepsPeers(u), KeepsEntry(u), KeepsExit(u), KeepsData(u)
  PROVE  UserInv(u)'
OBVIOUS

(* The application connects to a listener. *)
LEMMA Connected ==
  ASSUME NEW u, Known(u), KeepsTunnel,
         App(u) = "idle", App(u)' = "open", Target(u)' = Target(u), Told(u)' <=> Told(u),
         Entry(u)' = "backlog", KeepsExit(u), KeepsData(u)
  PROVE  UserInv(u)'
OBVIOUS

(* It is a client of its own. *)
LEMMA ClientStarted ==
  ASSUME NEW u, Known(u), KeepsTunnel,
         App(u) = "idle", App(u)' = "open", Target(u)' = Target(u), Told(u)' <=> Told(u),
         Entry(u)' = "copy", Exit(u)' = "dial", KeepsData(u)
  PROVE  UserInv(u)'
OBVIOUS

(* It writes a unit. *)
LEMMA RequestWritten ==
  ASSUME NEW u, Known(u), KeepsTunnel,
         App(u) = "open", Entry(u) # "done",
         KeepsPeers(u), KeepsEntry(u), KeepsExit(u),
         Sent(u, "req")' = Sent(u, "req") + 1, Near(u, "req")' = Near(u, "req") + 1,
         Mid(u, "req")' = Mid(u, "req"), Got(u, "req")' = Got(u, "req"),
         KeepsEnd(u, "req"), KeepsEnd(u, "rep"), KeepsUnits(u, "rep")
  PROVE  UserInv(u)'
OBVIOUS

(* It ends its request, or closes its connection. *)
LEMMA RequestEnded ==
  ASSUME NEW u, Known(u), KeepsTunnel,
         (App(u) = "open" /\ App(u)' = "half") \/ App(u)' = "closed",
         Target(u)' = Target(u), Told(u)' <=> Told(u),
         KeepsEntry(u), KeepsExit(u), KeepsData(u)
  PROVE  UserInv(u)'
OBVIOUS

(* The target writes a unit of a reply to a complete request. *)
LEMMA ReplyWritten ==
  ASSUME NEW u, Known(u), KeepsTunnel,
         Target(u) = "open", Exit(u) = "copy", RunsProcess \/ Got(u, "req") = Units,
         KeepsPeers(u), KeepsEntry(u), KeepsExit(u),
         KeepsEnd(u, "req"), KeepsUnits(u, "req"), KeepsEnd(u, "rep"),
         Sent(u, "rep")' = Sent(u, "rep") + 1, Near(u, "rep")' = Near(u, "rep") + 1,
         Mid(u, "rep")' = Mid(u, "rep"), Got(u, "rep")' = Got(u, "rep")
  PROVE  UserInv(u)'
OBVIOUS

(* It closes: it has replied, has seen the end of the request, or is a     *)
(* process.                                                                *)
LEMMA ReplyEnded ==
  ASSUME NEW u, Known(u), KeepsTunnel,
         Target(u) = "open", RunsProcess \/ Sent(u, "rep") = Units \/ Told(u),
         App(u)' = App(u), Target(u)' = "closed", Told(u)' <=> Told(u),
         KeepsEntry(u), KeepsExit(u), KeepsData(u)
  PROVE  UserInv(u)'
OBVIOUS

(* The entry handler is started and opens its stream, which the exit       *)
(* handler may get to see, or finds the tunnel gone.                       *)
LEMMA EntryStarted ==
  ASSUME NEW u, Known(u), KeepsTunnel, KeepsPeers(u), KeepsData(u),
         \/ Entry(u) = "backlog" /\ Entry(u)' = "opening" /\ KeepsExit(u)
         \/ /\ Entry(u) = "opening" /\ Entry(u)' = "copy"
            /\ Exit(u)' = "queued" \/ Exit(u)' = Exit(u)
         \/ Entry(u) = "opening" /\ Entry(u)' = "done" /\ ~Intact /\ KeepsExit(u)
  PROVE  UserInv(u)'
OBVIOUS

(* The exit handler is started and reaches its target or not. *)
LEMMA ExitStarted ==
  ASSUME NEW u, Known(u), KeepsTunnel, App(u)' = App(u), Told(u)' <=> Told(u),
         KeepsEntry(u), KeepsUnits(u, "req"), KeepsEnd(u, "req"), KeepsUnits(u, "rep"),
         \/ /\ Exit(u) = "queued" /\ Exit(u)' = "dial"
            /\ Target(u)' = Target(u) /\ KeepsEnd(u, "rep")
         \/ /\ Exit(u) = "dial" /\ Exit(u)' = "copy" /\ ReadsReply(u)'
            /\ Target(u)' = "open" /\ KeepsEnd(u, "rep")
         \/ /\ Exit(u) = "dial" /\ Exit(u)' = "done"
            /\ Target(u)' = Target(u)
  PROVE  UserInv(u)'
OBVIOUS

(* A handler reads a unit and writes it to the stream, or into the void. *)
LEMMA UnitOnStream ==
  ASSUME NEW u, Known(u), KeepsTunnel, KeepsPeers(u), KeepsEntry(u), KeepsExit(u),
         KeepsEnd(u, "req"), KeepsEnd(u, "rep"),
         NEW d \in {"req", "rep"}, NEW e \in {"req", "rep"} \ {d},
         d = "req" => Entry(u) = "copy", d = "rep" => Exit(u) = "copy", 
         Near(u, d) > 0, Near(u, d)' = Near(u, d) - 1,
         Mid(u, d)' = Mid(u, d) + 1 \/ (~Intact /\ Mid(u, d)' = Mid(u, d)),
         Got(u, d)' = Got(u, d), Sent(u, d)' = Sent(u, d), KeepsUnits(u, e)
  PROVE  UserInv(u)'
OBVIOUS

(* A handler reads a unit from the stream and writes it to its peer. *)
LEMMA UnitWritten ==
  ASSUME NEW u, Known(u), KeepsTunnel, KeepsPeers(u), KeepsEntry(u), KeepsExit(u),
         KeepsEnd(u, "req"), KeepsEnd(u, "rep"),
         NEW d \in {"req", "rep"}, NEW e \in {"req", "rep"} \ {d},
         d = "req" => Exit(u) = "copy", d = "rep" => Entry(u) = "copy", 
         Mid(u, d) > 0, Mid(u, d)' = Mid(u, d) - 1, Got(u, d)' = Got(u, d) + 1,
         Near(u, d)' = Near(u, d), Sent(u, d)' = Sent(u, d), KeepsUnits(u, e)
  PROVE  UserInv(u)'
OBVIOUS

(* The entry handler closes both of its connections, after the end of the  *)
(* request in the modes that share a session, or after that of the reply.  *)
LEMMA EntryClosed ==
  ASSUME NEW u, Known(u), KeepsTunnel, KeepsPeers(u), KeepsExit(u),
         Entry(u) = "copy", Entry(u)' = "done", Fin(u, "req") => Fin(u, "req")',
         Sent(u, "req")' = Sent(u, "req"), Near(u, "req")' = Near(u, "req"),
         Mid(u, "req")' \in 0..Mid(u, "req"), Got(u, "req")' = Got(u, "req"),
         KeepsEnd(u, "rep"), KeepsUnits(u, "rep"),
         \/ /\ Multiplexed /\ Mid(u, "req")' = Mid(u, "req")
            /\ Intact => Near(u, "req") = 0 /\ App(u) \in {"half", "closed"}
         \/ Intact => App(u) = "closed" \/ (Fin(u, "rep") /\ Mid(u, "rep") = 0)
  PROVE  UserInv(u)'
OBVIOUS

(* It passes on the end of the request, of which it has read all, or stops *)
(* reading it.                                                             *)
LEMMA EntryStopped ==
  ASSUME NEW u, Known(u), KeepsTunnel, KeepsPeers(u), KeepsEntry(u), KeepsExit(u),
         Entry(u) = "copy", Fin(u, "req") => Fin(u, "req")',
         Fin(u, "req")' => \/ Fin(u, "req")
                           \/ Near(u, "req") = 0 /\ App(u) \in {"half", "closed"},
         KeepsUnits(u, "req"), KeepsEnd(u, "rep"), KeepsUnits(u, "rep")
  PROVE  UserInv(u)'
OBVIOUS

(* The exit handler tells its target the end of the request, of which it   *)
(* has written all, unless the target has closed; and it may end the reply *)
(* in answer.                                                              *)
LEMMA RequestStopped ==
  ASSUME NEW u, Known(u), KeepsTunnel, App(u)' = App(u), Target(u)' = Target(u),
         Told(u) => Told(u)', KeepsEntry(u), KeepsExit(u),
         KeepsEnd(u, "req"), KeepsUnits(u, "req"), KeepsUnits(u, "rep"),
         Exit(u) = "copy",
         Fin(u, "rep") => Fin(u, "rep")',
         (Intact /\ Fin(u, "rep")') =>
           Fin(u, "rep") \/ (Told(u)' /\ Fin(u, "req") /\ Mid(u, "req") = 0),
         Intact => (Fin(u, "req") /\ Mid(u, "req") = 0) \/ Target(u) = "closed"
  PROVE  UserInv(u)'
OBVIOUS

(* It stops reading the reply, of which it has read all, unless the client *)
(* is gone or the reply has been ended.                                    *)
LEMMA ReplyStopped ==
  ASSUME NEW u, Known(u), KeepsTunnel, KeepsPeers(u), KeepsEntry(u), KeepsData(u),
         Exit(u) = "copy", Exit(u)' = Exit(u),
         Intact => \/ Target(u) = "closed" /\ Near(u, "rep") = 0
                   \/ ~Multiplexed /\ Entry(u) = "done"
                   \/ Fin(u, "rep")
  PROVE  UserInv(u)'
OBVIOUS

(* It closes both of its connections, after the end of the request, after  *)
(* that of the reply, or after the process has exited.                     *)
LEMMA ExitClosed ==
  ASSUME NEW u, Known(u), KeepsTunnel, App(u)' = App(u), Target(u)' = Target(u), Told(u)',
         KeepsEntry(u), Exit(u) = "copy", Exit(u)' = "done",
         KeepsEnd(u, "req"), KeepsUnits(u, "req"), Fin(u, "rep") => Fin(u, "rep")',
         Sent(u, "rep")' = Sent(u, "rep"), Near(u, "rep")' = Near(u, "rep"),
         Mid(u, "rep")' \in 0..Mid(u, "rep"), Got(u, "rep")' = Got(u, "rep"),
         (link = "tls" \/ Multiplexed) => Mid(u, "rep")' = Mid(u, "rep"),
         \/ /\ ~RunsProcess
            /\ Intact => \/ Fin(u, "req") /\ Mid(u, "req") = 0
                         \/ Mid(u, "req") > 0 /\ Target(u) = "closed"
         \/ Intact => \/ Target(u) = "closed" /\ Near(u, "rep") = 0
                      \/ ~Multiplexed /\ Entry(u) = "done"
                      \/ Fin(u, "rep")
         \/ ~ReadsReply(u) /\ Target(u) = "closed"
  PROVE  UserInv(u)'
OBVIOUS

(* The tunnel goes down, with what is on its way, and the handlers of no   *)
(* side, of the entry side or of the exit side.                            *)
GoesDown(u) ==
  /\ ~Intact' /\ link' = link
  /\ (Multiplexed' <=> Multiplexed) /\ (RunsProcess' <=> RunsProcess)
  /\ App(u)' = App(u) /\ Target(u)' = Target(u)
  /\ Sent(u, "rep")' = Sent(u, "rep") /\ Got(u, "req")' = Got(u, "req")

(* Nobody's handlers end. *)
LEMMA TunnelDown ==
  ASSUME NEW u, UserInv(u), GoesDown(u), Told(u)' <=> Told(u), KeepsEntry(u), KeepsExit(u)
  PROVE  UserInv(u)'
BY DEF GoesDown

(* Those of the entry side do. *)
LEMMA EntryDown ==
  ASSUME NEW u, UserInv(u), GoesDown(u), Told(u)' <=> Told(u), KeepsExit(u),
         Entry(u)' = (IF Entry(u) = "none" THEN "none" ELSE "done")
  PROVE  UserInv(u)'
BY DEF GoesDown

(* Those of the exit side do. *)
LEMMA ExitDown ==
  ASSUME NEW u, UserInv(u), GoesDown(u), Told(u)' <=> Target(u) # "none", KeepsEntry(u),
         Exit(u)' = (IF Exit(u) = "none" THEN "none" ELSE "done")
  PROVE  UserInv(u)'
BY DEF GoesDown

(* An application that has not closed, and whose handler is done, has all  *)
(* of the reply of a target that has closed.                               *)
LEMMA ReplyComplete ==
  ASSUME NEW u, Known(u), Intact, link = "tls" \/ Multiplexed,
         Entry(u) = "done", App(u) = "open", Target(u) = "closed"
  PROVE  Got(u, "rep") = Sent(u, "rep")
OBVIOUS

HIDE DEF Known, AddUp, KeepsTunnel, KeepsPeers, KeepsEntry, KeepsExit, KeepsEnd, KeepsUnits,
         KeepsData, UserInv, Stages, EndOfClient, Live, Request, ReplyCounted, Answers, Reply

-----------------------------------------------------------------------------
(* The peers of a connection do one of those things. *)
LEMMA PeerSteps ==
  ASSUME IInv, NEW u \in Users, PeerStep(u)
  PROVE  UserInv(u)'
<1> SUFFICES ASSUME Shape, Known(u), KeepsTunnel PROVE UserInv(u)'
  BY Start, TunnelKept
  DEF PeerStep, AppConnects, ClientStarts, AppWrites, Writes, AppHalfCloses, AppCloses,
      TargetWrites, TargetCloses
<1> USE DEF Shape, Sides, Dirs, peerVars, dataVars, KeepsPeers, KeepsEntry, KeepsExit,
            KeepsEnd, KeepsUnits, KeepsData, App, Target, Told, Entry, Exit, ReadsReply,
            Sent, Near, Mid, Got, Fin
<1>1. CASE AppConnects(u) BY <1>1, Connected DEF AppConnects
<1>2. CASE ClientStarts(u) BY <1>2, ClientStarted DEF ClientStarts
<1>3. CASE AppWrites(u) BY <1>3, RequestWritten DEF AppWrites, Writes
<1>4. CASE AppHalfCloses(u) BY <1>4, RequestEnded DEF AppHalfCloses
<1>5. CASE AppCloses(u) BY <1>5, RequestEnded DEF AppCloses
<1>6. CASE TargetWrites(u) BY <1>6, ReplyWritten DEF TargetWrites, Writes
<1>7. CASE TargetCloses(u) BY <1>7, ReplyEnded DEF TargetCloses
<1>8. QED BY <1>1, <1>2, <1>3, <1>4, <1>5, <1>6, <1>7 DEF PeerStep

(* So do the handlers when they start. *)
LEMMA HandlerSteps ==
  ASSUME IInv, NEW u \in Users, EntryStep(u) \/ ExitAccepts(u) \/ Reaches(u)
  PROVE  UserInv(u)'
<1> SUFFICES ASSUME Shape, Known(u), KeepsTunnel PROVE UserInv(u)'
  BY Start, TunnelKept DEF EntryStep, EntryAccepts, EntryOpens, ExitAccepts, Reaches
<1> USE DEF Shape, Sides, Dirs, peerVars, dataVars, KeepsPeers, KeepsEntry, KeepsExit,
            KeepsEnd, KeepsUnits, KeepsData, App, Target, Told, Entry, Exit, ReadsReply,
            Sent, Near, Mid, Got, Fin
<1>1. CASE EntryAccepts(u) BY <1>1, EntryStarted DEF EntryAccepts
<1>2. CASE EntryOpens(u) BY <1>2, EntryStarted DEF EntryOpens, Intact
<1>3. CASE ExitAccepts(u) BY <1>3, ExitStarted DEF ExitAccepts
<1>4. CASE Reaches(u) BY <1>4, ExitStarted DEF Reaches
<1>5. QED BY <1>1, <1>2, <1>3, <1>4 DEF EntryStep

(* So do the copies of a unit. *)
LEMMA CopySteps ==
  ASSUME IInv, NEW s \in Sides, NEW u \in Users,
         CopyToStream(s, u) \/ CopyFromStream(s, u)
  PROVE  UserInv(u)'
<1> SUFFICES ASSUME Shape, Known(u), KeepsTunnel PROVE UserInv(u)'
  BY Start, TunnelKept DEF CopyToStream, CopyFromStream
<1> USE DEF Shape, Sides, Dirs, peerVars, Outgoing, Incoming, Other, Copies, KeepsPeers,
            KeepsEntry, KeepsExit, KeepsEnd, KeepsUnits, App, Target, Told, Entry, Exit,
            ReadsReply, Sent, Near, Mid, Got, Fin
<1>1. CASE CopyToStream(s, u)
  <2>1. PICK d \in Dirs, e \in Dirs : d # e /\ d = Outgoing(s) /\ e = Incoming(s)
    OBVIOUS
  <2>2. Mid(u, d)' = (IF broken THEN Mid(u, d) ELSE Mid(u, d) + 1)
    BY <1>1, <2>1 DEF CopyToStream
  <2>3. broken => ~Intact
    BY DEF Intact
  <2>4. Mid(u, d)' = Mid(u, d) + 1 \/ (~Intact /\ Mid(u, d)' = Mid(u, d))
    BY <2>2, <2>3
  <2>5. /\ KeepsPeers(u) /\ KeepsEntry(u) /\ KeepsExit(u)
        /\ KeepsEnd(u, "req") /\ KeepsEnd(u, "rep")
    BY <1>1 DEF CopyToStream
  <2>6. /\ d = "req" => Entry(u) = "copy"
        /\ d = "rep" => Exit(u) = "copy"
    BY <1>1, <2>1 DEF CopyToStream
  <2>7. /\ Near(u, d) > 0 /\ Near(u, d)' = Near(u, d) - 1
        /\ Got(u, d)' = Got(u, d) /\ Sent(u, d)' = Sent(u, d) /\ KeepsUnits(u, e)
    BY <1>1, <2>1 DEF CopyToStream
  <2>8. d \in {"req", "rep"} /\ e \in {"req", "rep"} \ {d}
    BY <2>1
  <2> HIDE DEF KeepsPeers, KeepsEntry, KeepsExit, KeepsEnd, KeepsUnits, Entry, Exit, Sent,
               Near, Mid, Got
  <2>9. QED
    BY <2>4, <2>5, <2>6, <2>7, <2>8, UnitOnStream
<1>2. CASE CopyFromStream(s, u) BY <1>2, UnitWritten DEF CopyFromStream
<1>3. QED BY <1>1, <1>2

(* So does the entry handler when it closes, for either reason. *)
LEMMA EntryCloses ==
  ASSUME Shape, NEW u \in Users, Known(u), KeepsTunnel, Entry(u) = "copy",
         ClosesBoth("entry", u), UNCHANGED <<app, target, sent, near, got>>,
         \/ Multiplexed /\ (Intact => Near(u, "req") = 0 /\ App(u) \in {"half", "closed"})
         \/ Intact => App(u) = "closed" \/ (Fin(u, "rep") /\ Mid(u, "rep") = 0)
  PROVE  UserInv(u)'
<1> USE DEF ClosesBoth, Outgoing, Shape, Sides, Dirs, KeepsExit, KeepsEnd, KeepsUnits,
            App, Target, Told, Entry, Exit, ReadsReply, Sent, Near, Mid, Got, Fin
<1>1. App(u)' = App(u) /\ Target(u)' = Target(u) /\ KeepsExit(u) /\ Entry(u)' = "done"
  OBVIOUS
<1>2. Told(u)' <=> Told(u)
  BY Zenon
<1>3. (Fin(u, "req") => Fin(u, "req")') /\ KeepsEnd(u, "rep") /\ KeepsUnits(u, "rep")
  <2>1. Fin(u, "req") => Fin(u, "req")'
    BY Zenon
  <2>2. KeepsEnd(u, "rep")
    BY Zenon
  <2>3. KeepsUnits(u, "rep")
    OBVIOUS
  <2>4. QED
    BY <2>1, <2>2, <2>3
<1>4. /\ Sent(u, "req")' = Sent(u, "req") /\ Near(u, "req")' = Near(u, "req")
      /\ Got(u, "req")' = Got(u, "req")
      /\ Mid(u, "req")' \in 0..Mid(u, "req")
      /\ Multiplexed => Mid(u, "req")' = Mid(u, "req")
  BY DEF Known, AddUp
<1> HIDE DEF ClosesBoth, Outgoing, Shape, Sides, Dirs, KeepsExit, KeepsEnd, KeepsUnits,
             App, Target, Told, Entry, Exit, ReadsReply, Sent, Near, Mid, Got, Fin
<1>5. QED
  BY <1>1, <1>2, <1>3, <1>4, EntryClosed DEF KeepsPeers

(* So does the exit handler. *)
LEMMA ExitCloses ==
  ASSUME Shape, NEW u \in Users, Known(u), KeepsTunnel, Exit(u) = "copy",
         ClosesBoth("exit", u), UNCHANGED <<app, target, sent, near, got>>,
         \/ /\ ~RunsProcess
            /\ Intact => \/ Fin(u, "req") /\ Mid(u, "req") = 0
                         \/ Mid(u, "req") > 0 /\ Target(u) = "closed"
         \/ Intact => \/ Target(u) = "closed" /\ Near(u, "rep") = 0
                      \/ ~Multiplexed /\ Entry(u) = "done"
                      \/ Fin(u, "rep")
         \/ ~ReadsReply(u) /\ Target(u) = "closed"
  PROVE  UserInv(u)'
<1> USE DEF ClosesBoth, Outgoing, Shape, Sides, Dirs, KeepsEntry, KeepsEnd, KeepsUnits,
            App, Target, Told, Entry, Exit, ReadsReply, Sent, Near, Mid, Got, Fin
<1>1. App(u)' = App(u) /\ Target(u)' = Target(u) /\ KeepsEntry(u) /\ Exit(u)' = "done"
  OBVIOUS
<1>2. Told(u)'
  BY Zenon
<1>3. (Fin(u, "rep") => Fin(u, "rep")') /\ KeepsEnd(u, "req") /\ KeepsUnits(u, "req")
  <2>1. Fin(u, "rep") => Fin(u, "rep")'
    BY Zenon
  <2>2. KeepsEnd(u, "req")
    BY Zenon
  <2>3. KeepsUnits(u, "req")
    OBVIOUS
  <2>4. QED
    BY <2>1, <2>2, <2>3
<1>4. /\ Sent(u, "rep")' = Sent(u, "rep") /\ Near(u, "rep")' = Near(u, "rep")
      /\ Got(u, "rep")' = Got(u, "rep")
      /\ Mid(u, "rep")' \in 0..Mid(u, "rep")
      /\ (link = "tls" \/ Multiplexed) => Mid(u, "rep")' = Mid(u, "rep")
  BY DEF Known, AddUp
<1> HIDE DEF ClosesBoth, Outgoing, Shape, Sides, Dirs, KeepsEntry, KeepsEnd, KeepsUnits,
             App, Target, Told, Entry, Exit, ReadsReply, Sent, Near, Mid, Got, Fin
<1>5. QED
  BY <1>1, <1>2, <1>3, <1>4, ExitClosed

(* What the end of a copy passes on, if the handler outlives it. *)
LEMMA Stops ==
  ASSUME Shape, NEW u \in Users, NEW s \in Sides, NEW d \in Dirs, StopsCopy(s, u, d),
         UNCHANGED <<app, target, sent, near, got>>
  PROVE  /\ App(u)' = App(u) /\ Target(u)' = Target(u)
         /\ KeepsEntry(u) /\ Exit(u)' = Exit(u)
         /\ KeepsUnits(u, "req") /\ KeepsUnits(u, "rep")
         /\ (s = "entry" \/ d = "req") => KeepsExit(u)
         /\ Told(u) => Told(u)'
         /\ Told(u)' => Told(u) \/ (s = "exit" /\ d = "req")
         /\ (s = "exit" /\ d = "req") => (Told(u)' \/ ~Bare)
         /\ s = "exit" => KeepsEnd(u, "req")
         /\ (s = "entry" \/ d = "rep") => KeepsEnd(u, "rep")
         /\ \A e \in Dirs : Fin(u, e) => Fin(u, e)'
         /\ Fin(u, "req")' => Fin(u, "req") \/ ReadsEnd("entry", u, "req")
         /\ Fin(u, "rep")' => Fin(u, "rep") \/ (Bare /\ ReadsEnd("exit", u, "req"))
<1> USE DEF StopsCopy, PassesEnd, Shape, Sides, Dirs, KeepsEntry, KeepsExit, KeepsEnd,
            KeepsUnits, App, Target, Told, Entry, Exit, ReadsReply, Sent, Near, Mid, Got,
            Fin
<1>1. /\ App(u)' = App(u) /\ Target(u)' = Target(u)
      /\ KeepsEntry(u) /\ Exit(u)' = Exit(u)
      /\ KeepsUnits(u, "req") /\ KeepsUnits(u, "rep")
      /\ (s = "entry" \/ d = "req") => KeepsExit(u)
  OBVIOUS
<1>2. /\ Told(u) => Told(u)'
      /\ Told(u)' => Told(u) \/ (s = "exit" /\ d = "req")
  BY Zenon
<1>3. (s = "exit" /\ d = "req") => (Told(u)' \/ ~Bare)
  BY Zenon DEF Bare
<1> DEFINE b == /\ ~broken /\ ReadsEnd(s, u, d)
                /\ \/ s = "entry" /\ d = "req" /\ mode # "shell" /\ sent[u][d] > 0
                   \/ s = "exit" /\ d = "req" /\ Bare
<1>4. fin' = [fin EXCEPT ![u][Outgoing(s)] = @ \/ b]
  OBVIOUS
<1>5. b => ReadsEnd(s, u, d) /\ d = "req" /\ (s = "entry" \/ Bare)
  OBVIOUS
<1> HIDE DEF b, StopsCopy, PassesEnd
<1>6. CASE s = "entry"
  <2>1. fin' = [fin EXCEPT ![u]["req"] = @ \/ b]
    BY <1>4, <1>6 DEF Outgoing
  <2>2. (Fin(u, "req")' <=> Fin(u, "req") \/ b) /\ (Fin(u, "rep")' <=> Fin(u, "rep"))
    BY <2>1, Zenon
  <2>3. QED
    BY <1>1, <1>2, <1>5, <1>6, <2>2 DEF KeepsEnd
<1>7. CASE s = "exit"
  <2>1. fin' = [fin EXCEPT ![u]["rep"] = @ \/ b]
    BY <1>4, <1>7 DEF Outgoing
  <2>2. (Fin(u, "rep")' <=> Fin(u, "rep") \/ b) /\ (Fin(u, "req")' <=> Fin(u, "req"))
    BY <2>1, Zenon
  <2>3. QED
    BY <1>1, <1>2, <1>3, <1>5, <1>7, <2>2 DEF KeepsEnd
<1>8. QED
  BY <1>6, <1>7

(* So does the end of a copy: what a handler knows when its copy ends      *)
(* depends on the side and on the direction.                               *)
LEMMA EndSteps ==
  ASSUME IInv, NEW u \in Users, NEW s \in Sides, NEW d \in Dirs, CopyEnds(s, u, d)
  PROVE  UserInv(u)'
<1> SUFFICES ASSUME Shape, Known(u), KeepsTunnel, mode \in AllModes,
                    UNCHANGED <<app, target, sent, near, got>>
             PROVE  UserInv(u)'
  BY Start, TunnelKept, TunnelAssumption DEF CopyEnds, IInv, TypeOK
<1>1. /\ s = "entry" => Entry(u) = "copy"
      /\ s = "exit" => Exit(u) = "copy"
  BY DEF CopyEnds, Copies, Entry, Exit
<1>2. /\ ReadsEnd(s, u, d) \/ WriteFails(s, u, d)
      /\ StopsCopy(s, u, d) \/ ClosesBoth(s, u)
  BY DEF CopyEnds
<1> USE DEF Outgoing, Other, LocalEnds, LocalClosed, LinkClosed, Intact, Sides, App, Target,
            Entry, Near, Mid, Fin
<1>3. ReadsEnd("entry", u, "req") => Near(u, "req") = 0 /\ App(u) \in {"half", "closed"}
  BY DEF ReadsEnd
<1>4. CASE s = "entry" /\ d = "req"
  <2>1. CASE Multiplexed
    <3>1. ClosesBoth("entry", u)
      BY <1>4, <2>1
      DEF CopyEnds, InputCopy, OutlivesEnd, OutlivesFailure, Multiplexed, RunsProcess
    <3>2. Intact => Near(u, "req") = 0 /\ App(u) \in {"half", "closed"}
      BY <1>2, <1>3, <1>4, <2>1 DEF WriteFails, Reset, Bare, Multiplexed
    <3> HIDE DEF Intact, App, Near, Entry, Fin, Mid
    <3>3. QED
      BY <1>1, <1>4, <2>1, <3>1, <3>2, EntryCloses
  <2>2. CASE ~Multiplexed
    <3>1. StopsCopy("entry", u, "req")
      BY <1>4, <2>2
      DEF CopyEnds, InputCopy, OutlivesEnd, OutlivesFailure, Multiplexed, RunsProcess, AllModes
    <3> HIDE DEF Intact, App, Target, Near, Entry, Fin, Mid
    <3>2. /\ App(u)' = App(u) /\ Target(u)' = Target(u) /\ (Told(u)' <=> Told(u))
          /\ KeepsEntry(u) /\ KeepsExit(u)
          /\ KeepsUnits(u, "req") /\ KeepsEnd(u, "rep") /\ KeepsUnits(u, "rep")
          /\ (Fin(u, "req") => Fin(u, "req")')
          /\ Fin(u, "req")' => Fin(u, "req") \/ ReadsEnd("entry", u, "req")
      BY <3>1, Stops DEF Dirs
    <3>3. Fin(u, "req")' => \/ Fin(u, "req")
                            \/ Near(u, "req") = 0 /\ App(u) \in {"half", "closed"}
      BY <1>3, <3>2
    <3>4. KeepsPeers(u) /\ Entry(u) = "copy"
      BY <1>1, <1>4, <3>2 DEF KeepsPeers
    <3>5. QED
      BY <3>2, <3>3, <3>4, EntryStopped
  <2>3. QED
    BY <2>1, <2>2
<1>5. CASE s = "entry" /\ d = "rep"
  <2>1. ClosesBoth("entry", u)
    BY <1>5 DEF CopyEnds, InputCopy, OutlivesEnd, OutlivesFailure
  <2>2. Intact => App(u) = "closed" \/ (Fin(u, "rep") /\ Mid(u, "rep") = 0)
    <3>1. ReadsEnd("entry", u, "rep") => (Mid(u, "rep") = 0 /\ Fin(u, "rep")) \/ ~sess["entry"]
      BY DEF ReadsEnd
    <3>2. WriteFails("entry", u, "rep") => App(u) = "closed"
      BY DEF WriteFails
    <3>3. QED
      BY <1>2, <1>5, <3>1, <3>2
  <2> HIDE DEF Intact, App, Near, Entry, Fin, Mid
  <2>3. QED
    BY <1>1, <1>5, <2>1, <2>2, EntryCloses
<1>6. CASE s = "exit" /\ d = "req"
  <2>1. Intact => \/ Fin(u, "req") /\ Mid(u, "req") = 0
                  \/ Mid(u, "req") > 0 /\ Target(u) = "closed"
    BY <1>2, <1>6 DEF ReadsEnd, WriteFails
  <2>2. StopsCopy("exit", u, "req") \/ (~RunsProcess /\ ClosesBoth("exit", u))
    <3>1. RunsProcess => InputCopy(s, d)
      BY <1>6 DEF InputCopy
    <3>2. InputCopy(s, d) => StopsCopy(s, u, d)
      BY Zenon DEF CopyEnds, OutlivesEnd, OutlivesFailure
    <3>3. QED
      BY <1>2, <1>6, <3>1, <3>2
  <2> HIDE DEF Intact, App, Target, Near, Entry, Fin, Mid
  <2>3. CASE StopsCopy("exit", u, "req")
    <3>1. /\ App(u)' = App(u) /\ Target(u)' = Target(u) /\ (Told(u) => Told(u)')
          /\ KeepsEntry(u) /\ KeepsExit(u)
          /\ KeepsEnd(u, "req") /\ KeepsUnits(u, "req") /\ KeepsUnits(u, "rep")
          /\ (Fin(u, "rep") => Fin(u, "rep")')
          /\ Fin(u, "rep")' => Fin(u, "rep") \/ (Told(u)' /\ ReadsEnd("exit", u, "req"))
      BY <2>3, Stops DEF Dirs
    <3>2. (Intact /\ ReadsEnd("exit", u, "req")) => Fin(u, "req") /\ Mid(u, "req") = 0
      BY DEF ReadsEnd, Intact, Fin, Mid
    <3>3. QED
      BY <1>1, <1>6, <2>1, <3>1, <3>2, RequestStopped
  <2>4. QED
    BY <1>1, <1>6, <2>1, <2>2, <2>3, ExitCloses
<1>7. CASE s = "exit" /\ d = "rep"
  <2>1. Intact => \/ Target(u) = "closed" /\ Near(u, "rep") = 0
                  \/ ~Multiplexed /\ Entry(u) = "done"
                  \/ Fin(u, "rep")
    BY <1>2, <1>7 DEF ReadsEnd, WriteFails, Reset
  <2> HIDE DEF Intact, App, Target, Near, Entry, Fin, Mid
  <2>2. CASE StopsCopy("exit", u, "rep")
    BY <1>1, <1>7, <2>1, <2>2, Stops, ReplyStopped DEF KeepsPeers, KeepsData, Dirs
  <2>3. QED
    BY <1>1, <1>2, <1>7, <2>1, <2>2, ExitCloses
<1>8. QED
  BY <1>4, <1>5, <1>6, <1>7 DEF Dirs

(* So does the exit of a process after the copy of its output failed. *)
LEMMA ExitSteps == ASSUME IInv, NEW u \in Users, ProcessExits(u) PROVE UserInv(u)'
<1>1. Shape /\ Known(u) /\ KeepsTunnel
  BY Start, TunnelKept DEF ProcessExits
<1>2. /\ Exit(u) = "copy" /\ ~ReadsReply(u) /\ Target(u) = "closed"
      /\ ClosesBoth("exit", u) /\ UNCHANGED <<app, target, sent, near, got>>
  BY DEF ProcessExits, Exit, ReadsReply, Target
<1>3. QED
  BY <1>1, <1>2, ExitCloses

-----------------------------------------------------------------------------
(* The variables start with their types. *)
LEMMA TypeInit == Init => TypeOK
<1> SUFFICES ASSUME Init PROVE TypeOK
  OBVIOUS
<1> USE TunnelAssumption DEF Init
<1>1. sent \in Counters /\ near \in Counters /\ mid \in Counters /\ got \in Counters
  BY DEF Counters
<1>2. \A u \in Users, d \in Dirs : near[u][d] + mid[u][d] + got[u][d] <= sent[u][d]
  OBVIOUS
<1>3. /\ broken \in BOOLEAN /\ sess \in [Sides -> BOOLEAN]
      /\ told \in [Users -> BOOLEAN] /\ fin \in [Users -> [Dirs -> BOOLEAN]]
  BY Zenon
<1>4. copying \in [Sides -> [Users -> SUBSET Dirs]]
  OBVIOUS
<1>5. QED
  BY <1>1, <1>3 DEF TypeOK

(* The peers' steps keep the types. *)
LEMMA TypePeer ==
  ASSUME TypeOK, NEW u \in Users, PeerStep(u) PROVE TypeOK'
<1> USE TunnelAssumption DEF TypeOK, Counters, Sides, Dirs, tunnelVars, peerVars, dataVars
<1>1. CASE AppConnects(u) BY <1>1 DEF AppConnects
<1>2. CASE ClientStarts(u) BY <1>2, Zenon DEF ClientStarts
<1>3. CASE AppWrites(u) BY <1>3 DEF AppWrites, Writes
<1>4. CASE AppHalfCloses(u) BY <1>4 DEF AppHalfCloses
<1>5. CASE AppCloses(u) BY <1>5 DEF AppCloses
<1>6. CASE TargetWrites(u) BY <1>6 DEF TargetWrites, Writes
<1>7. CASE TargetCloses(u) BY <1>7 DEF TargetCloses
<1> HIDE DEF TypeOK
<1>8. QED BY <1>1, <1>2, <1>3, <1>4, <1>5, <1>6, <1>7 DEF PeerStep

HandlerType ==
  [Sides -> [Users -> {"none", "backlog", "opening", "queued", "dial", "copy", "done"}]]
CopyingType == [Sides -> [Users -> SUBSET Dirs]]

(* So do the starts of the handlers. *)
LEMMA TypeHandlers ==
  ASSUME TypeOK, NEW u \in Users, EntryStep(u) \/ ExitAccepts(u) \/ Reaches(u)
  PROVE  TypeOK'
<1>1. handler \in HandlerType /\ copying \in CopyingType
  BY DEF TypeOK, HandlerType, CopyingType
<1>2. CASE EntryAccepts(u) \/ ExitAccepts(u)
  <2>1. handler' \in HandlerType
    BY <1>1, <1>2 DEF EntryAccepts, ExitAccepts, HandlerType
  <2>2. QED
    BY <1>2, <2>1
    DEF EntryAccepts, ExitAccepts, TypeOK, HandlerType, tunnelVars, peerVars, dataVars
<1>3. CASE EntryOpens(u)
  <2>1. handler' \in HandlerType
    BY <1>1, <1>3 DEF EntryOpens, HandlerType, Sides
  <2>2. copying' \in CopyingType
    BY <1>1, <1>3 DEF EntryOpens, CopyingType, Sides
  <2>3. QED
    BY <1>3, <2>1, <2>2
    DEF EntryOpens, TypeOK, HandlerType, CopyingType, tunnelVars, peerVars, dataVars
<1>4. CASE Reaches(u)
  <2>1. handler' \in HandlerType
    BY <1>1, <1>4 DEF Reaches, HandlerType
  <2>2. copying' \in CopyingType
    <3>1. copying' = copying \/ copying' = [copying EXCEPT !["exit"][u] = Dirs]
      BY <1>4, Zenon DEF Reaches
    <3>2. QED
      BY <1>1, <3>1 DEF CopyingType
  <2>3. fin' \in [Users -> [Dirs -> BOOLEAN]]
    <3>1. fin' = fin \/ \E b \in BOOLEAN : fin' = [fin EXCEPT ![u]["rep"] = b]
      BY <1>4, Zenon DEF Reaches
    <3>2. fin \in [Users -> [Dirs -> BOOLEAN]]
      BY DEF TypeOK
    <3>3. \A b \in BOOLEAN : [fin[u] EXCEPT !["rep"] = b] \in [Dirs -> BOOLEAN]
      BY <3>2, Zenon
    <3>4. QED
      BY <3>1, <3>2, <3>3, Zenon
  <2>4. target' \in [Users -> {"none", "open", "closed"}]
    BY <1>4 DEF Reaches, TypeOK
  <2>5. QED
    BY <1>4, <2>1, <2>2, <2>3, <2>4
    DEF Reaches, TypeOK, HandlerType, CopyingType, tunnelVars
<1>5. QED
  BY <1>2, <1>3, <1>4 DEF EntryStep

(* So does copying a unit. *)
LEMMA TypeCopy ==
  ASSUME TypeOK, NEW s \in Sides, NEW u \in Users,
         CopyToStream(s, u) \/ CopyFromStream(s, u)
  PROVE  TypeOK'
<1> USE TunnelAssumption
    DEF TypeOK, Counters, Sides, Dirs, tunnelVars, peerVars, dataVars, Outgoing, Incoming,
        Other
<1>1. CASE CopyToStream(s, u) BY <1>1 DEF CopyToStream
<1>2. CASE CopyFromStream(s, u) BY <1>2 DEF CopyFromStream
<1> HIDE DEF TypeOK
<1>3. QED BY <1>1, <1>2

(* So does the end of a copy. *)
LEMMA TypeEnds ==
  ASSUME TypeOK, NEW s \in Sides, NEW u \in Users,
         UNCHANGED <<tunnelVars, app, target, sent, near, got>>,
         ClosesBoth(s, u) \/ \E d \in Dirs : StopsCopy(s, u, d)
  PROVE  TypeOK'
<1> USE TunnelAssumption
    DEF TypeOK, Counters, Sides, Dirs, tunnelVars, peerVars, dataVars, Outgoing, Other
<1>1. CASE ClosesBoth(s, u) BY <1>1, SMTT(30) DEF ClosesBoth
<1>2. CASE \E d \in Dirs : StopsCopy(s, u, d) BY <1>2, SMTT(30) DEF StopsCopy, PassesEnd
<1> HIDE DEF TypeOK
<1>3. QED BY <1>1, <1>2

(* So does a tunnel that goes down. *)
LEMMA TypeTunnel ==
  ASSUME TypeOK,
         Break \/ (\E s \in Sides : Notice(s)) \/ ExitLoopReturns \/ SocksCancelled
  PROVE  TypeOK'
<1> USE TunnelAssumption DEF TypeOK, Counters, Sides, Dirs, tunnelVars, peerVars, dataVars
<1>1. CASE Break BY <1>1 DEF Break
<1>2. CASE \E s \in Sides : Notice(s) BY <1>2 DEF Notice
<1>3. ASSUME NEW s \in Sides, Exits(s) PROVE TypeOK' BY <1>3 DEF Exits
<1> HIDE DEF TypeOK
<1>4. QED BY <1>1, <1>2, <1>3 DEF ExitLoopReturns, SocksCancelled

-----------------------------------------------------------------------------
(* A step of one user leaves the others alone. *)
Same(v) == KeepsPeers(v) /\ KeepsEntry(v) /\ KeepsExit(v) /\ KeepsData(v)

UserStep(u) ==
  \/ PeerStep(u) \/ EntryStep(u) \/ ExitStep(u)
  \/ \E s \in Sides : CopyStep(s, u)

(* Of the tunnel's own variables it changes none. *)
LEMMA OthersSame ==
  ASSUME Shape, NEW u \in Users, NEW v \in Users \ {u}, UserStep(u)
  PROVE  UNCHANGED tunnelVars /\ Same(v)
<1> USE DEF Shape, Sides, Dirs, peerVars, dataVars, Same, KeepsPeers, KeepsEntry, KeepsExit,
            KeepsEnd, KeepsUnits, KeepsData, App, Target, Told, Entry, Exit, ReadsReply,
            Sent, Near, Mid, Got, Fin
<1>1. CASE PeerStep(u)
  BY <1>1
  DEF PeerStep, AppConnects, ClientStarts, AppWrites, Writes, AppHalfCloses, AppCloses,
      TargetWrites, TargetCloses
<1>2. CASE EntryStep(u)
  BY <1>2 DEF EntryStep, EntryAccepts, EntryOpens
<1>3. CASE ExitAccepts(u)
  BY <1>3 DEF ExitAccepts
<1>4. CASE Reaches(u)
  BY <1>4 DEF Reaches
<1>5. CASE ProcessExits(u)
  BY <1>5 DEF ProcessExits, ClosesBoth
<1>6. ASSUME NEW s \in Sides, CopyToStream(s, u) \/ CopyFromStream(s, u)
      PROVE  UNCHANGED tunnelVars /\ Same(v)
  BY <1>6 DEF CopyToStream, CopyFromStream
<1>7. ASSUME NEW s \in Sides, NEW d \in Dirs, CopyEnds(s, u, d)
      PROVE  UNCHANGED tunnelVars /\ Same(v)
  <2>1. CASE StopsCopy(s, u, d)
    BY <1>7, <2>1 DEF CopyEnds, StopsCopy, PassesEnd
  <2>2. CASE ClosesBoth(s, u)
    BY <1>7, <2>2 DEF CopyEnds, ClosesBoth
  <2> HIDE DEF Shape, Same, Sides, Dirs
  <2>3. QED
    BY <1>7, <2>1, <2>2 DEF CopyEnds
<1> HIDE DEF Shape, Same, Sides, Dirs, peerVars, dataVars
<1>8. QED
  BY <1>1, <1>2, <1>3, <1>4, <1>5, <1>6, <1>7
  DEF UserStep, ExitStep, ExitDials, RunCommandServer, RunShellServer, CopyStep

(* A tunnel that is not intact any more asks only for the order of the     *)
(* stages and for the counts.                                              *)
LEMMA TunnelGone ==
  ASSUME IInv, NEW v \in Users,
         Break \/ (\E s \in Sides : Notice(s)) \/ ExitLoopReturns \/ SocksCancelled
  PROVE  UserInv(v)'
<1>1. TypeOK /\ Shape /\ UserInv(v)
  BY Start DEF IInv
<1>2. ~Intact'
  BY <1>1, Zenon
  DEF Break, Notice, ExitLoopReturns, SocksCancelled, Exits, Intact, TypeOK, Sides
<1>3. GoesDown(v)
  BY <1>2, Zenon
  DEF Break, Notice, ExitLoopReturns, SocksCancelled, Exits, GoesDown, Multiplexed,
      RunsProcess, peerVars, dataVars, App, Target, Sent, Got
<1>4. CASE Break \/ \E s \in Sides : Notice(s)
  BY <1>1, <1>3, <1>4, TunnelDown, Zenon
  DEF Break, Notice, peerVars, KeepsEntry, KeepsExit, Told, Entry, Exit, ReadsReply
<1>5. CASE Exits("entry")
  BY <1>1, <1>3, <1>5, EntryDown, Zenon
  DEF Exits, Started, Shape, Sides, KeepsExit, Told, Entry, Exit, ReadsReply
<1>6. CASE Exits("exit")
  <2>1. Told(v)' <=> Target(v) # "none"
    BY <1>6, Zenon DEF Exits, Told, Target
  <2>2. KeepsEntry(v) /\ Exit(v)' = (IF Exit(v) = "none" THEN "none" ELSE "done")
    BY <1>1, <1>6, Zenon DEF Exits, Started, Shape, Sides, KeepsEntry, Entry, Exit
  <2>3. QED
    BY <1>1, <1>3, <2>1, <2>2, ExitDown
<1>7. QED
  BY <1>4, <1>5, <1>6 DEF ExitLoopReturns, SocksCancelled

-----------------------------------------------------------------------------
(* Every step of the specification keeps the types. *)
LEMMA TypeStep == ASSUME TypeOK, [Next]_vars PROVE TypeOK'
<1>1. CASE UNCHANGED vars
  BY <1>1 DEF vars, tunnelVars, peerVars, dataVars, TypeOK
<1>2. ASSUME NEW u \in Users, PeerStep(u) \/ EntryStep(u) \/ ExitStep(u) PROVE TypeOK'
  <2>1. CASE ProcessExits(u)
    BY <2>1, TypeEnds DEF ProcessExits, Sides
  <2>2. QED
    BY <1>2, <2>1, TypePeer, TypeHandlers
    DEF ExitStep, ExitDials, RunCommandServer, RunShellServer
<1>3. ASSUME NEW s \in Sides, NEW u \in Users, CopyStep(s, u) PROVE TypeOK'
  <2>1. ASSUME NEW d \in Dirs, CopyEnds(s, u, d) PROVE TypeOK'
    BY <2>1, TypeEnds DEF CopyEnds
  <2>2. QED
    BY <1>3, <2>1, TypeCopy DEF CopyStep
<1>4. QED
  BY <1>1, <1>2, <1>3, TypeTunnel DEF Next

(* A step of a user keeps the invariant of that user. *)
LEMMA UserSteps == ASSUME IInv, NEW u \in Users, UserStep(u) PROVE UserInv(u)'
<1>1. CASE PeerStep(u) \/ EntryStep(u)
  BY <1>1, PeerSteps, HandlerSteps
<1>2. CASE ExitStep(u)
  BY <1>2, HandlerSteps, ExitSteps DEF ExitStep, ExitDials, RunCommandServer, RunShellServer
<1>3. ASSUME NEW s \in Sides, CopyStep(s, u) PROVE UserInv(u)'
  BY <1>3, CopySteps, EndSteps DEF CopyStep
<1>4. QED
  BY <1>1, <1>2, <1>3 DEF UserStep

(* Before anything has been sent there is nothing to lose. *)
LEMMA InvInit == Init => IInv
<1> SUFFICES ASSUME Init, NEW u \in Users PROVE UserInv(u)
  BY TypeInit DEF IInv
<1>1. /\ App(u) = "idle" /\ Target(u) = "none" /\ ~Told(u)
      /\ Entry(u) = "none" /\ Exit(u) = "none"
      /\ \A d \in Dirs :
           /\ Sent(u, d) = 0 /\ Near(u, d) = 0 /\ Mid(u, d) = 0 /\ Got(u, d) = 0
           /\ ~Fin(u, d)
  BY DEF Init, Sides, App, Target, Told, Entry, Exit, Sent, Near, Mid, Got, Fin
<1>2. QED
  BY <1>1
  DEF Dirs, UserInv, Stages, EndOfClient, Request, ReplyCounted, Answers, Reply

(* The invariant is inductive. *)
LEMMA InvStep == IInv /\ [Next]_vars => IInv'
<1> SUFFICES ASSUME IInv, [Next]_vars PROVE IInv'
  OBVIOUS
<1>1. TypeOK'
  BY TypeStep DEF IInv
<1>2. ASSUME NEW v \in Users PROVE UserInv(v)'
  <2>1. Shape /\ UserInv(v)
    BY Start DEF IInv
  <2>2. ASSUME UNCHANGED tunnelVars, Same(v) PROVE UserInv(v)'
    BY <2>1, <2>2, TunnelKept, Kept DEF Same
  <2>3. CASE UNCHANGED vars
    <3>1. Same(v)
      BY <2>3
      DEF vars, peerVars, dataVars, Same, KeepsPeers, KeepsEntry, KeepsExit, KeepsEnd,
          KeepsUnits, KeepsData, App, Target, Told, Entry, Exit, ReadsReply, Sent, Near, Mid,
          Got, Fin
    <3>2. QED
      BY <2>2, <2>3, <3>1 DEF vars
  <2>4. ASSUME NEW u \in Users, UserStep(u) PROVE UserInv(v)'
    <3>1. CASE u = v
      BY <2>4, <3>1, UserSteps
    <3>2. CASE u # v
      BY <2>1, <2>2, <2>4, <3>2, OthersSame
    <3>3. QED
      BY <3>1, <3>2
  <2>5. QED
    BY <2>3, <2>4, TunnelGone DEF Next, UserStep
<1>3. QED
  BY <1>1, <1>2 DEF IInv

(* The invariant holds in every reachable state. *)
THEOREM Invariant == Spec => []IInv
BY InvInit, InvStep, PTL DEF Spec

(* The variables keep their types, and no unit is counted twice: what is   *)
(* at the handlers, in the stream and written out was sent.                *)
THEOREM TypeCorrect == Spec => []TypeOK
<1>1. IInv => TypeOK
  BY DEF IInv
<1>2. QED
  BY <1>1, Invariant, PTL

(* A target that sees the end of a request, sent by an application that    *)
(* has only ended it, through a tunnel that is up, has all of it, however  *)
(* the deferred Closes of both handlers are ordered.                       *)
THEOREM RequestsAreWhole == Spec => []WholeRequest
<1>1. IInv => WholeRequest
  BY DEF IInv, UserInv, Request, Live, WholeRequest, App, Target, Told, Exit, Sent, Got
<1>2. QED
  BY <1>1, Invariant, PTL

(* An application that keeps its connection open until it sees it end,     *)
(* after its target has closed or exited, has the whole reply, except on a *)
(* bare data channel.                                                      *)
THEOREM RepliesAreWhole == Spec => []WholeReply
<1>1. IInv => WholeReply
  <2> SUFFICES ASSUME IInv, NEW u \in Users,
                      Intact, link = "tls" \/ Multiplexed, handler["entry"][u] = "done",
                      app[u] = "open", target[u] = "closed"
               PROVE  got[u]["rep"] = sent[u]["rep"]
    BY DEF WholeReply
  <2>1. Known(u)
    BY Start
  <2>2. Entry(u) = "done" /\ App(u) = "open" /\ Target(u) = "closed"
    BY DEF Entry, App, Target
  <2>3. Got(u, "rep") = Sent(u, "rep")
    BY <2>1, <2>2, ReplyComplete
  <2>4. QED
    BY <2>3 DEF Got, Sent
<1>2. QED
  BY <1>1, Invariant, PTL

-----------------------------------------------------------------------------
(* What a user's own step leaves alone of another user. *)
Alone(v) ==
  /\ app'[v] = app[v] /\ target'[v] = target[v] /\ told'[v] = told[v]
  /\ \A s \in Sides : handler'[s][v] = handler[s][v] /\ copying'[s][v] = copying[s][v]
  /\ \A d \in Dirs : /\ sent'[v][d] = sent[v][d] /\ near'[v][d] = near[v][d]
                     /\ got'[v][d] = got[v][d] /\ fin'[v][d] = fin[v][d]

(* Everything. *)
LEMMA OthersAlone ==
  ASSUME Shape, NEW u \in Users, NEW v \in Users \ {u}, UserStep(u)
  PROVE  Alone(v)
<1> USE DEF Shape, Sides, Dirs, peerVars, dataVars, Alone
<1>1. CASE PeerStep(u)
  BY <1>1, SMTT(30)
  DEF PeerStep, AppConnects, ClientStarts, AppWrites, Writes, AppHalfCloses, AppCloses,
      TargetWrites, TargetCloses
<1>2. CASE EntryStep(u)
  BY <1>2 DEF EntryStep, EntryAccepts, EntryOpens
<1>3. CASE ExitAccepts(u)
  BY <1>3 DEF ExitAccepts
<1>4. CASE Reaches(u)
  BY <1>4 DEF Reaches
<1>5. CASE ProcessExits(u)
  BY <1>5 DEF ProcessExits, ClosesBoth
<1>6. ASSUME NEW s \in Sides, CopyToStream(s, u) \/ CopyFromStream(s, u)
      PROVE  Alone(v)
  BY <1>6 DEF CopyToStream, CopyFromStream
<1>7. ASSUME NEW s \in Sides, NEW d \in Dirs, CopyEnds(s, u, d)
      PROVE  Alone(v)
  <2>1. CASE StopsCopy(s, u, d)
    BY <1>7, <2>1 DEF CopyEnds, StopsCopy, PassesEnd
  <2>2. CASE ClosesBoth(s, u)
    BY <1>7, <2>2 DEF CopyEnds, ClosesBoth
  <2> HIDE DEF Shape, Alone, Sides, Dirs
  <2>3. QED
    BY <1>7, <2>1, <2>2 DEF CopyEnds
<1> HIDE DEF Shape, Alone, Sides, Dirs, peerVars, dataVars
<1>8. QED
  BY <1>1, <1>2, <1>3, <1>4, <1>5, <1>6, <1>7
  DEF UserStep, ExitStep, ExitDials, RunCommandServer, RunShellServer, CopyStep

(* A handler that starts holds what will end it. *)
LEMMA EndingStarts ==
  ASSUME Shape, EndInv, NEW u \in Users, Stages(u), UNCHANGED tunnelVars,
         PeerStep(u) \/ EntryStep(u) \/ ExitAccepts(u) \/ Reaches(u)
  PROVE  Ending(u)'
<1>1. /\ UNCHANGED <<mode, sess, loop>> /\ LoopInv /\ Ending(u)
      /\ (Multiplexed' <=> Multiplexed) /\ (RunsProcess' <=> RunsProcess)
      /\ (Bare' <=> Bare) /\ broken' = broken
  BY DEF EndInv, tunnelVars, Multiplexed, RunsProcess, Bare
<1> USE <1>1 DEF Shape, Sides, Dirs, peerVars, dataVars, Entry, Exit, Target, Told, Fin,
            HearsReply, HearsRequest, ReadsReply, Ending, LoopInv
<1>2. CASE AppConnects(u) BY <1>2 DEF AppConnects
<1>3. CASE ClientStarts(u) BY <1>3 DEF ClientStarts
<1>4. CASE AppWrites(u) \/ TargetWrites(u) BY <1>4 DEF AppWrites, TargetWrites, Writes
<1>5. CASE AppHalfCloses(u) \/ AppCloses(u) \/ TargetCloses(u)
  BY <1>5 DEF AppHalfCloses, AppCloses, TargetCloses
<1>6. CASE EntryAccepts(u) BY <1>6 DEF EntryAccepts
<1>7. CASE EntryOpens(u) BY <1>7 DEF EntryOpens
<1>8. CASE ExitAccepts(u) BY <1>8 DEF ExitAccepts
<1>9. CASE Reaches(u)
  <2>1. Exit(u) = "dial" /\ Target(u) = "none"
    BY <1>9 DEF Reaches, Stages
  <2>2. CASE Exit(u)' = "copy"
    BY <1>9, <2>1, <2>2, SMTT(30) DEF Reaches
  <2>3. CASE Exit(u)' = "done" /\ target' = target /\ copying' = copying
    <3>1. PICK closes \in Closings : fin' = [fin EXCEPT ![u]["rep"] = closes /\ ~broken]
      BY <1>9, <2>3 DEF Reaches
    <3>2. closes \/ Bare
      BY DEF Closings
    <3>3. Fin(u, "rep")' \/ broken \/ Bare
      BY <3>1, <3>2, Zenon
    <3>4. Entry(u)' = Entry(u) /\ (Told(u)' <=> Told(u))
      BY <1>9 DEF Reaches
    <3>5. QED
      BY <2>1, <2>3, <3>3, <3>4
  <2>4. Exit(u)' = "copy" \/ (Exit(u)' = "done" /\ target' = target /\ copying' = copying)
    BY <1>9 DEF Reaches
  <2> HIDE DEF Shape, Ending, Exit
  <2>5. QED
    BY <2>2, <2>3, <2>4, Zenon
<1>10. QED
  BY <1>2, <1>3, <1>4, <1>5, <1>6, <1>7, <1>8, <1>9 DEF PeerStep, EntryStep

(* A handler that closes is done, and the exit handler has ended its reply *)
(* unless it leaves a data channel open.                                   *)
LEMMA EndingCloses ==
  ASSUME Shape, EndInv, NEW s \in Sides, NEW u \in Users,
         UNCHANGED <<tunnelVars, target>>, ClosesBoth(s, u)
  PROVE  Ending(u)'
<1>1. /\ UNCHANGED <<mode, sess, loop>> /\ LoopInv /\ Ending(u)
      /\ (Multiplexed' <=> Multiplexed) /\ (RunsProcess' <=> RunsProcess)
      /\ (Bare' <=> Bare) /\ (broken' <=> broken) /\ Target(u)' = Target(u)
  BY DEF EndInv, tunnelVars, Multiplexed, RunsProcess, Bare, Target
<1>2. (Told(u) => Told(u)') /\ (Fin(u, "rep") => Fin(u, "rep")')
  <2>1. Told(u) => Told(u)'
    BY DEF ClosesBoth, Shape, Told
  <2>2. PICK d \in Dirs : fin' = [fin EXCEPT ![u][d] = @ \/ (~broken /\ Closes(s))]
    BY Zenon DEF ClosesBoth, Outgoing, Dirs
  <2>3. Fin(u, "rep") => Fin(u, "rep")'
    BY <2>2, Zenon DEF Shape, Dirs, Fin
  <2>4. QED
    BY <2>1, <2>3
<1>3. CASE s = "entry"
  <2>1. Entry(u)' = "done" /\ Exit(u)' = Exit(u)
    BY <1>3 DEF ClosesBoth, Shape, Sides, Entry, Exit
  <2>2. (HearsRequest(u)' <=> HearsRequest(u)) /\ (ReadsReply(u)' <=> ReadsReply(u))
    BY <1>3 DEF ClosesBoth, Shape, Sides, HearsRequest, ReadsReply
  <2>3. QED
    BY <1>1, <1>2, <2>1, <2>2 DEF Ending
<1>4. CASE s = "exit"
  <2>1. Exit(u)' = "done" /\ Entry(u)' = Entry(u)
    BY <1>4 DEF ClosesBoth, Shape, Sides, Entry, Exit
  <2>2. HearsReply(u)' <=> HearsReply(u)
    BY <1>4 DEF ClosesBoth, Shape, Sides, HearsReply
  <2>3. Fin(u, "rep")' \/ broken \/ ~Closes("exit")
    BY <1>4, ZenonT(30) DEF ClosesBoth, Outgoing, Shape, Dirs, Fin
  <2>4. ~Closes("exit") => Bare /\ mode = "command"
    BY DEF Closes, Bare
  <2>5. QED
    BY <1>1, <2>1, <2>2, <2>3, <2>4 DEF Ending
<1>5. QED
  BY <1>3, <1>4 DEF Sides

(* A copy that ends leaves the one that will end its handler, unless the   *)
(* process or the library has been told.                                   *)
LEMMA EndingCopies ==
  ASSUME Shape, EndInv, mode \in AllModes, NEW s \in Sides, NEW u \in Users,
         UNCHANGED <<tunnelVars, target>>, CopyStep(s, u)
  PROVE  Ending(u)'
<1>1. /\ UNCHANGED <<mode, sess, loop>> /\ LoopInv /\ Ending(u)
      /\ (Multiplexed' <=> Multiplexed) /\ (RunsProcess' <=> RunsProcess)
      /\ (Bare' <=> Bare) /\ (broken' <=> broken) /\ Target(u)' = Target(u)
  BY DEF EndInv, tunnelVars, Multiplexed, RunsProcess, Bare, Target
<1>2. CASE CopyToStream(s, u) \/ CopyFromStream(s, u)
  BY <1>1, <1>2 DEF CopyToStream, CopyFromStream, peerVars, Entry, Exit, Told, Fin,
     HearsReply, HearsRequest, ReadsReply, Ending
<1>3. ASSUME NEW d \in Dirs, CopyEnds(s, u, d), StopsCopy(s, u, d)
      PROVE  Ending(u)'
  <2>1. /\ Entry(u)' = Entry(u) /\ Exit(u)' = Exit(u)
        /\ Told(u) => Told(u)'
        /\ Fin(u, "rep") => Fin(u, "rep")'
    <3>1. Entry(u)' = Entry(u) /\ Exit(u)' = Exit(u)
      BY <1>3 DEF StopsCopy, Entry, Exit
    <3>2. (Told(u) => Told(u)') /\ (Fin(u, "rep") => Fin(u, "rep")')
      BY <1>3, Zenon DEF StopsCopy, PassesEnd, Outgoing, Shape, Dirs, Told, Fin
    <3>3. QED
      BY <3>1, <3>2
  <2>2. handler[s][u] = "copy" /\ (OutlivesEnd(s, u, d) \/ OutlivesFailure(s, u, d)
                                  \/ ClosesBoth(s, u))
    BY <1>3 DEF CopyEnds, Copies
  <2>3. ~ClosesBoth(s, u)
    BY <1>3, <2>2 DEF StopsCopy, ClosesBoth, Shape
  <2>4. CASE s = "entry"
    <3>1. d = "req"
      BY <2>2, <2>3, <2>4 DEF OutlivesEnd, OutlivesFailure, InputCopy
    <3>2. /\ HearsReply(u)' <=> HearsReply(u)
          /\ HearsRequest(u)' <=> HearsRequest(u)
          /\ ReadsReply(u)' <=> ReadsReply(u)
      BY <1>3, <2>4, <3>1
      DEF StopsCopy, Shape, Sides, HearsReply, HearsRequest, ReadsReply
    <3>3. QED
      BY <1>1, <2>1, <3>2 DEF Ending
  <2>5. CASE s = "exit" /\ d = "req"
    <3>1. RunsProcess \/ mode = "socks"
      BY <2>2, <2>3, <2>5 DEF OutlivesEnd, OutlivesFailure, InputCopy
    <3>2. mode # "shell" => Told(u)'
      BY <1>3, <2>5 DEF StopsCopy, PassesEnd, Shape, Told
    <3>3. /\ HearsReply(u)' <=> HearsReply(u)
          /\ ReadsReply(u)' <=> ReadsReply(u)
      BY <1>3, <2>5 DEF StopsCopy, Shape, Sides, HearsReply, ReadsReply
    <3>4. QED
      BY <1>1, <2>1, <3>1, <3>2, <3>3 DEF Ending, RunsProcess
  <2>6. CASE s = "exit" /\ d = "rep"
    <3>1. RunsProcess \/ mode = "socks"
      BY <2>2, <2>3, <2>6 DEF OutlivesEnd, OutlivesFailure, InputCopy
    <3>2. /\ HearsReply(u)' <=> HearsReply(u)
          /\ HearsRequest(u)' <=> HearsRequest(u)
      BY <1>3, <2>6 DEF StopsCopy, Shape, Sides, HearsReply, HearsRequest
    <3>3. QED
      BY <1>1, <2>1, <3>1, <3>2 DEF Ending
  <2>7. QED
    BY <2>4, <2>5, <2>6 DEF Sides, Dirs
<1>4. ASSUME NEW d \in Dirs, CopyEnds(s, u, d), ClosesBoth(s, u)
      PROVE  Ending(u)'
  BY <1>4, EndingCloses
<1>5. QED
  BY <1>2, <1>3, <1>4 DEF CopyStep, CopyEnds

(* A tunnel that goes down leaves the handlers that it does not end. *)
LEMMA EndingDown ==
  ASSUME Shape, TypeOK, EndInv, NEW v \in Users,
         Break \/ (\E s \in Sides : Notice(s)) \/ ExitLoopReturns \/ SocksCancelled
  PROVE  Ending(v)' /\ LoopInv'
<1>1. /\ UNCHANGED mode /\ LoopInv /\ Ending(v)
      /\ (Multiplexed' <=> Multiplexed) /\ (RunsProcess' <=> RunsProcess)
      /\ (Bare' <=> Bare) /\ target' = target
  BY DEF EndInv, Multiplexed, RunsProcess, Bare, Break, Notice, ExitLoopReturns,
     SocksCancelled, Exits, peerVars
<1>2. (sess'["exit"] => sess["exit"]) /\ (broken => broken')
  BY DEF Break, Notice, ExitLoopReturns, SocksCancelled, Exits, TypeOK, Sides
<1> USE DEF peerVars, dataVars, Entry, Exit, Target, Told, Fin, HearsReply, HearsRequest,
            ReadsReply, Ending, LoopInv
<1>3. CASE Break
  BY <1>1, <1>3 DEF Break
<1>4. CASE \E s \in Sides : Notice(s)
  BY <1>1, <1>2, <1>4 DEF Notice
<1>5. CASE SocksCancelled
  BY <1>1, <1>2, <1>5 DEF SocksCancelled, Exits, Started, Shape, Sides, TypeOK, dataVars
<1>6. CASE ExitLoopReturns
  BY <1>1, <1>2, <1>6 DEF ExitLoopReturns, Exits, Started, Shape, Sides, TypeOK, dataVars
<1>7. QED
  BY <1>3, <1>4, <1>5, <1>6

(* Every step keeps what brings the handlers to their ends. *)
LEMMA EndStep == IInv /\ EndInv /\ [Next]_vars => EndInv'
<1> SUFFICES ASSUME IInv, EndInv, [Next]_vars PROVE EndInv'
  OBVIOUS
<1>1. TypeOK /\ mode \in AllModes
  BY TunnelAssumption DEF IInv, TypeOK
<1>2. CASE Users = {}
  <2>1. LoopInv'
    BY <1>1, <1>2 DEF EndInv, LoopInv, Next, Notice, Break, ExitLoopReturns, SocksCancelled,
       Exits, Multiplexed, vars, tunnelVars, TypeOK, Sides
  <2>2. QED
    BY <1>2, <2>1 DEF EndInv
<1>3. ASSUME NEW v \in Users PROVE Ending(v)' /\ LoopInv'
  <2>1. Shape /\ Ending(v) /\ LoopInv /\ Stages(v)
    BY Start DEF EndInv, Known, UserInv
  <2>2. UNCHANGED tunnelVars => LoopInv'
    BY <2>1 DEF tunnelVars, LoopInv, Multiplexed
  <2>3. ASSUME UNCHANGED tunnelVars, Alone(v) PROVE Ending(v)'
    BY <2>1, <2>3, Zenon DEF tunnelVars, Alone, Sides, Dirs, Entry, Exit, Target, Told, Fin,
       HearsReply, HearsRequest, ReadsReply, Ending, Multiplexed, RunsProcess, Bare
  <2>4. CASE UNCHANGED vars
    <3>1. UNCHANGED tunnelVars /\ Alone(v)
      BY <2>4 DEF vars, tunnelVars, peerVars, dataVars, Alone
    <3>2. QED
      BY <2>2, <2>3, <3>1
  <2>5. ASSUME NEW u \in Users, UserStep(u) PROVE Ending(v)' /\ LoopInv'
    <3>1. UNCHANGED tunnelVars
      BY <2>5
      DEF UserStep, PeerStep, AppConnects, ClientStarts, AppWrites, Writes, AppHalfCloses,
          AppCloses, TargetWrites, TargetCloses, EntryStep, EntryAccepts, EntryOpens,
          ExitStep, ExitAccepts, ExitDials, RunCommandServer, RunShellServer, Reaches,
          ProcessExits, CopyStep, CopyToStream, CopyFromStream, CopyEnds
    <3>2. CASE u = v
      <4>1. CASE ProcessExits(v)
        BY <2>1, <2>2, <3>1, <4>1, EndingCloses DEF ProcessExits, Sides
      <4>2. ASSUME NEW s \in Sides, CopyStep(s, v) PROVE Ending(v)'
        BY <1>1, <2>1, <3>1, <4>2, EndingCopies
        DEF CopyStep, CopyToStream, CopyFromStream, CopyEnds, peerVars
      <4>3. CASE PeerStep(v) \/ EntryStep(v) \/ ExitAccepts(v) \/ Reaches(v)
        BY <2>1, <2>2, <3>1, <4>3, EndingStarts
      <4>4. QED
        BY <2>2, <2>5, <3>1, <3>2, <4>1, <4>2, <4>3
        DEF UserStep, ExitStep, ExitDials, RunCommandServer, RunShellServer
    <3>3. CASE u # v
      BY <2>1, <2>2, <2>3, <2>5, <3>1, <3>3, OthersAlone
    <3>4. QED
      BY <3>2, <3>3
  <2>6. QED
    BY <1>1, <2>1, <2>4, <2>5, EndingDown DEF Next, UserStep
<1>4. QED
  BY <1>2, <1>3 DEF EndInv

LEMMA EndHolds == Spec => []EndInv
<1>1. Init => EndInv
  BY DEF Init, EndInv, LoopInv, Ending, Entry, Exit, Sides
<1>2. QED
  BY <1>1, Invariant, EndStep, PTL DEF Spec

(* A copy that reads from the stream ends once its side has noticed. *)
LEMMA StreamGone ==
  ASSUME NEW s \in Sides, NEW u \in Users, ~sess[s], Copies(s, u, Incoming(s))
  PROVE  CanMove(s, u)
<1>1. Incoming(s) \in Dirs /\ Incoming(s) # Outgoing(s)
  BY DEF Incoming, Outgoing, Other, Dirs, Sides
<1>2. ReadsEnd(s, u, Incoming(s))
  BY <1>1 DEF ReadsEnd
<1>3. QED
  BY <1>1, <1>2 DEF CanMove

(* On a broken tunnel the handler of a peer that is not yet released can   *)
(* move, or its side can.                                                  *)
LEMMA GoneIsNoticed ==
  ASSUME IInv, EndInv, NEW s \in Sides, NEW u \in Users,
         broken, Started(s, u), ~Released(s, u), ~sess[s]
  PROVE  CanMove(s, u) \/ (s = "exit" /\ LoopCanReturn)
<1>1. Ending(u) /\ LoopInv
  BY DEF EndInv
<1>2. loop["exit"] \in {"accepting", "returned"}
  BY DEF IInv, TypeOK, Sides
<1>3. CASE s = "entry"
  <2>1. Entry(u) \in {"backlog", "opening", "copy"}
    BY <1>1, <1>3 DEF Ending, Entry, Started, Released
  <2>2. CASE Entry(u) # "copy"
    BY <1>1, <1>3, <2>1, <2>2 DEF Ending, Entry, CanMove
  <2>3. CASE Entry(u) = "copy"
    <3>1. Copies(s, u, Incoming(s))
      BY <1>1, <1>3, <2>3
      DEF Ending, Entry, HearsReply, Copies, Incoming, Outgoing, Other
    <3>2. QED
      BY <3>1, StreamGone
  <2>4. QED
    BY <2>2, <2>3
<1>4. CASE s = "exit"
  <2>1. Exit(u) \in {"queued", "dial", "copy"} /\ loop["exit"] = "accepting"
    BY <1>1, <1>2, <1>4 DEF Ending, Exit, Started, Released
  <2>2. CASE Exit(u) = "queued"
    BY <1>1, <1>4, <2>1, <2>2 DEF Ending, LoopCanReturn
  <2>3. CASE Exit(u) = "dial"
    BY <1>4, <2>3 DEF Exit, CanMove
  <2>4. CASE Exit(u) = "copy" /\ HearsRequest(u)
    <3>1. Copies(s, u, Incoming(s))
      BY <1>4, <2>4 DEF Exit, HearsRequest, Copies, Incoming, Outgoing, Other
    <3>2. QED
      BY <3>1, StreamGone
  <2>5. CASE Exit(u) = "copy" /\ ~HearsRequest(u)
    <3>1. mode = "socks"
      BY <1>1, <1>4, <2>5 DEF Ending, Released, Told
    <3>2. QED
      BY <1>4, <2>1, <3>1 DEF LoopCanReturn, Multiplexed
  <2>6. QED
    BY <2>1, <2>2, <2>3, <2>4, <2>5
<1>5. QED
  BY <1>3, <1>4 DEF Sides

(* An exit handler whose target has closed can move. *)
LEMMA EndIsRead ==
  ASSUME IInv, EndInv, NEW u \in Users,
         mode # "socks", target[u] = "closed", handler["exit"][u] # "done"
  PROVE  CanMove("exit", u)
<1>1. Ending(u) /\ Stages(u) /\ Known(u)
  BY Start DEF EndInv, IInv, UserInv
<1>2. Exit(u) = "copy"
  BY <1>1 DEF Stages, Ending, Target, Exit
<1>3. near[u]["rep"] \in Nat
  BY <1>1 DEF Known, AddUp, Near
<1>4. CASE ReadsReply(u)
  <2>1. Copies("exit", u, "rep") /\ Outgoing("exit") = "rep" /\ "rep" \in Dirs
    BY <1>2, <1>4 DEF Copies, Exit, ReadsReply, Outgoing, Dirs
  <2>2. CASE near[u]["rep"] = 0
    BY <2>1, <2>2 DEF CanMove, ReadsEnd, LocalEnds, LocalClosed
  <2>3. CASE near[u]["rep"] > 0 /\ sess["exit"]
    BY <2>1, <2>3 DEF CanMove
  <2>4. CASE near[u]["rep"] > 0 /\ ~sess["exit"]
    BY <2>1, <2>4 DEF CanMove, WriteFails
  <2>5. near[u]["rep"] = 0 \/ near[u]["rep"] > 0
    BY <1>3
  <2>6. QED
    BY <2>2, <2>3, <2>4, <2>5, Zenon
<1>5. CASE ~ReadsReply(u)
  BY <1>1, <1>2, <1>5 DEF Ending, Exit, ReadsReply, CanMove
<1>6. QED
  BY <1>4, <1>5

(* An entry handler can move, or its side has still to notice, when the    *)
(* exit handler is done and has not left a data channel open.              *)
LEMMA EndOnItsWay ==
  ASSUME IInv, EndInv, NEW u \in Users,
         handler["exit"][u] = "done", handler["entry"][u] # "done", ~LeftOpen(u)
  PROVE  CanMove("entry", u) \/ CanNotice("entry")
<1>1. Ending(u) /\ Stages(u) /\ Known(u)
  BY Start DEF EndInv, IInv, UserInv
<1>2. Exit(u) = "done" /\ Entry(u) = "copy"
  BY <1>1 DEF Stages, Ending, Entry, Exit
<1>3. mid[u]["rep"] \in Nat
  BY <1>1 DEF Known, AddUp, Mid
<1>4. Copies("entry", u, "rep") /\ Incoming("entry") = "rep" /\ "rep" \in Dirs
      /\ Outgoing("entry") # "rep"
  BY <1>1, <1>2 DEF Ending, Copies, Entry, HearsReply, Incoming, Outgoing, Other, Dirs
<1>5. CASE mid[u]["rep"] > 0
  BY <1>4, <1>5 DEF CanMove, WriteFails
<1>6. CASE mid[u]["rep"] = 0 /\ fin[u]["rep"]
  BY <1>4, <1>6 DEF CanMove, ReadsEnd
<1>7. CASE ~fin[u]["rep"]
  <2>1. ~sess["exit"] \/ (broken /\ ~Bare)
    BY <1>1, <1>2, <1>7 DEF Ending, Fin, Target, LeftOpen
  <2>2. CASE sess["entry"]
    BY <2>1, <2>2 DEF CanNotice, Other
  <2>3. CASE ~sess["entry"]
    BY <1>4, <2>3, StreamGone DEF Sides
  <2>4. QED
    BY <2>2, <2>3
<1>8. QED
  BY <1>3, <1>5, <1>6, <1>7

(* No application and no target is left to a handler that waits in vain,   *)
(* for any number of users and in every mode: a handler that copies still  *)
(* reads the stream, or what is beyond it has been told, and a loop that   *)
(* has ended took its handlers along.  (What is left out is a data channel *)
(* with no session on it: it notices no break, and some ends leave it      *)
(* open.)                                                                  *)
THEOREM NoHandlerHangs == Spec => []NobodyHangs
<1>1. IInv /\ EndInv => NobodyHangs
  <2> SUFFICES ASSUME IInv, EndInv PROVE NobodyHangs
    OBVIOUS
  <2>1. ASSUME NEW u \in Users, NEW s \in Sides,
               broken, ~Bare, Started(s, u), ~Released(s, u)
        PROVE  CanMove(s, u) \/ CanNotice(s) \/ (s = "exit" /\ LoopCanReturn)
    <3>1. CASE sess[s]
      BY <2>1, <3>1 DEF CanNotice
    <3>2. CASE ~sess[s]
      BY <2>1, <3>2, GoneIsNoticed
    <3>3. QED
      BY <3>1, <3>2
  <2>2. QED
    BY <2>1, EndIsRead, EndOnItsWay DEF NobodyHangs
<1>2. QED
  BY <1>1, Invariant, EndHolds, PTL

-----------------------------------------------------------------------------
(* The stages and the counters of a user are numbers. *)
LEMMA Measures ==
  ASSUME TypeOK, NEW u \in Users
  PROVE  /\ AppStage(app[u]) \in Nat /\ TargetStage(target[u]) \in Nat
         /\ \A s \in Sides : HandlerStage(handler[s][u]) \in Nat
         /\ \A d \in Dirs : /\ sent[u][d] \in Nat /\ near[u][d] \in Nat
                            /\ got[u][d] \in Nat
BY TunnelAssumption DEF TypeOK, Counters, AppStage, TargetStage, HandlerStage

(* Nothing of a user goes back in a step that leaves the user alone. *)
LEMMA AloneKeeps ==
  ASSUME TypeOK, NEW v \in Users, Alone(v) PROVE UserKeeps(v)
BY Measures, SMTT(30) DEF Alone, UserKeeps

(* The peers bring a user further, and so do the starts of the handlers. *)
LEMMA PeersForward ==
  ASSUME TypeOK, Shape, NEW u \in Users, Stages(u), PeerStep(u)
  PROVE  UserAdvances(u) /\ UserKeeps(u)
<1> USE Measures DEF Shape, Sides, Dirs, peerVars, dataVars, UserAdvances, UserKeeps
<1>1. CASE AppConnects(u)
  BY <1>1 DEF AppConnects, AppStage, HandlerStage, Stages, App, Entry
<1>2. CASE ClientStarts(u)
  BY <1>2 DEF ClientStarts, AppStage, HandlerStage, Stages, App, Entry, Exit
<1>3. CASE AppWrites(u) \/ TargetWrites(u)
  <2>1. PICK d \in Dirs : Writes(u, d)
    BY <1>3 DEF AppWrites, TargetWrites
  <2>2. /\ sent' = [sent EXCEPT ![u][d] = @ + 1]
        /\ UNCHANGED <<app, target, handler, copying, got>>
    BY <2>1 DEF Writes
  <2>3. \A e \in Dirs \ {d} : near'[u][e] = near[u][e]
    BY <2>1 DEF Writes
  <2>4. QED
    BY <2>2, <2>3, SMTT(30)
<1>4. CASE AppHalfCloses(u) \/ AppCloses(u)
  BY <1>4 DEF AppHalfCloses, AppCloses, AppStage
<1>5. CASE TargetCloses(u)
  BY <1>5 DEF TargetCloses, TargetStage
<1>6. QED
  BY <1>1, <1>2, <1>3, <1>4, <1>5 DEF PeerStep

(* The starts of the handlers. *)
LEMMA StartsForward ==
  ASSUME TypeOK, Shape, NEW u \in Users, Stages(u),
         EntryStep(u) \/ ExitAccepts(u) \/ Reaches(u)
  PROVE  UserAdvances(u) /\ UserKeeps(u)
<1> USE Measures DEF Shape, Sides, Dirs, peerVars, dataVars, UserAdvances, UserKeeps
<1>1. CASE EntryAccepts(u)
  BY <1>1 DEF EntryAccepts, HandlerStage
<1>2. CASE EntryOpens(u)
  BY <1>2 DEF EntryOpens, HandlerStage, Stages, Entry, Exit
<1>3. CASE ExitAccepts(u)
  BY <1>3 DEF ExitAccepts, HandlerStage
<1>4. CASE Reaches(u)
  BY <1>4 DEF Reaches, HandlerStage, TargetStage, Stages, Exit, Target
<1>5. QED
  BY <1>1, <1>2, <1>3, <1>4 DEF EntryStep

(* A unit that is copied, a copy that ends and a handler that closes. *)
LEMMA CopiesForward ==
  ASSUME TypeOK, Shape, NEW s \in Sides, NEW u \in Users, CopyStep(s, u)
  PROVE  UserAdvances(u) /\ UserKeeps(u)
<1> USE Measures DEF Shape, Sides, Dirs, peerVars, dataVars, UserAdvances, UserKeeps
<1>1. CASE CopyToStream(s, u)
  <2>1. PICK d \in Dirs : near[u][d] > 0 /\ near' = [near EXCEPT ![u][d] = @ - 1]
    BY <1>1 DEF CopyToStream, Outgoing
  <2>2. UNCHANGED <<app, target, handler, copying, sent, got>>
    BY <1>1 DEF CopyToStream
  <2>3. QED
    BY <2>1, <2>2, SMTT(30)
<1>2. CASE CopyFromStream(s, u)
  <2>1. PICK d \in Dirs : got' = [got EXCEPT ![u][d] = @ + 1]
    BY <1>2 DEF CopyFromStream, Incoming, Outgoing, Other
  <2>2. UNCHANGED <<app, target, handler, copying, sent, near>>
    BY <1>2 DEF CopyFromStream
  <2>3. QED
    BY <2>1, <2>2, SMTT(30)
<1>3. ASSUME NEW d \in Dirs, CopyEnds(s, u, d), StopsCopy(s, u, d)
      PROVE  UserAdvances(u) /\ UserKeeps(u)
  <2>1. d \in copying[s][u] /\ copying' = [copying EXCEPT ![s][u] = @ \ {d}]
    BY <1>3 DEF CopyEnds, StopsCopy, Copies
  <2>2. UNCHANGED <<app, target, handler, sent, near, got>>
    BY <1>3 DEF CopyEnds, StopsCopy
  <2>3. UserKeeps(u)
    BY <2>1, <2>2, SMTT(30)
  <2>4. UserAdvances(u)
    BY <2>1
  <2>5. QED
    BY <2>3, <2>4
<1>4. ASSUME NEW d \in Dirs, CopyEnds(s, u, d), ClosesBoth(s, u)
      PROVE  UserAdvances(u) /\ UserKeeps(u)
  BY <1>4, SMTT(30) DEF CopyEnds, ClosesBoth, Copies, HandlerStage
<1> HIDE DEF UserAdvances, UserKeeps
<1>5. QED
  BY <1>1, <1>2, <1>3, <1>4 DEF CopyStep, CopyEnds

(* The exit of a process. *)
LEMMA ProcessForward ==
  ASSUME TypeOK, Shape, NEW u \in Users, ProcessExits(u)
  PROVE  UserAdvances(u) /\ UserKeeps(u)
BY Measures DEF ProcessExits, ClosesBoth, HandlerStage, Shape, Sides, Dirs, UserAdvances,
   UserKeeps

(* The tunnel goes down once, at either side and in between. *)
LEMMA TunnelForward ==
  ASSUME TypeOK, Shape,
         Break \/ (\E s \in Sides : Notice(s)) \/ ExitLoopReturns \/ SocksCancelled
  PROVE  TunnelAdvances /\ TunnelKeeps /\ \A v \in Users : UserKeeps(v)
<1> USE DEF Sides, TunnelAdvances, TunnelKeeps
<1>1. CASE Break
  <2>1. UNCHANGED <<app, target, handler, copying, sent, near, got>>
    BY <1>1 DEF Break, peerVars
  <2>2. \A v \in Users : UserKeeps(v)
    BY <2>1, Measures, SMTT(30) DEF UserKeeps
  <2>3. TunnelAdvances /\ TunnelKeeps
    BY <1>1, Zenon DEF Break
  <2>4. QED
    BY <2>2, <2>3
<1>2. ASSUME NEW s \in Sides, Notice(s)
      PROVE  TunnelAdvances /\ TunnelKeeps /\ \A v \in Users : UserKeeps(v)
  <2>1. \A v \in Users : Alone(v)
    BY <1>2 DEF Notice, Alone, peerVars, dataVars
  <2>2. TunnelAdvances /\ TunnelKeeps
    BY <1>2 DEF Notice, TypeOK
  <2>3. QED
    BY <2>1, <2>2, AloneKeeps
<1>3. ASSUME NEW s \in Sides, loop[s] = "accepting", Exits(s)
      PROVE  TunnelAdvances /\ TunnelKeeps /\ \A v \in Users : UserKeeps(v)
  <2>1. TunnelAdvances /\ TunnelKeeps
    BY <1>3 DEF Exits, TypeOK
  <2>2. \A v \in Users : UserKeeps(v)
    BY <1>3, Measures DEF Exits, Started, HandlerStage, Shape, UserKeeps, dataVars
  <2>3. QED
    BY <2>1, <2>2
<1>4. QED
  BY <1>1, <1>2, <1>3 DEF ExitLoopReturns, SocksCancelled

(* Every step brings a user or the end of the tunnel nearer and nothing    *)
(* back: what an application, a target or the network makes wait is the    *)
(* only reason for a handler to stay.                                      *)
THEOREM NeverBack == Spec => OnlyForward
<1>1. IInv /\ [Next]_vars =>
        [ /\ TunnelAdvances \/ \E u \in Users : UserAdvances(u)
          /\ TunnelKeeps /\ \A u \in Users : UserKeeps(u) ]_vars
  <2> SUFFICES ASSUME IInv, Next
               PROVE  /\ TunnelAdvances \/ \E u \in Users : UserAdvances(u)
                      /\ TunnelKeeps /\ \A u \in Users : UserKeeps(u)
    OBVIOUS
  <2>1. TypeOK /\ \A u \in Users : Shape /\ Stages(u)
    BY Start DEF IInv, UserInv
  <2>2. ASSUME NEW u \in Users, UserStep(u)
        PROVE  /\ \E v \in Users : UserAdvances(v)
               /\ TunnelKeeps /\ \A v \in Users : UserKeeps(v)
    <3>1. UserAdvances(u) /\ UserKeeps(u)
      BY <2>1, <2>2, PeersForward, StartsForward, CopiesForward, ProcessForward
      DEF UserStep, ExitStep, ExitDials, RunCommandServer, RunShellServer
    <3>2. \A v \in Users \ {u} : UNCHANGED tunnelVars /\ UserKeeps(v)
      BY <2>1, <2>2, OthersAlone, OthersSame, AloneKeeps
    <3>3. UNCHANGED tunnelVars
      BY <2>2
      DEF UserStep, PeerStep, AppConnects, ClientStarts, AppWrites, Writes, AppHalfCloses,
          AppCloses, TargetWrites, TargetCloses, EntryStep, EntryAccepts, EntryOpens,
          ExitStep, ExitAccepts, ExitDials, RunCommandServer, RunShellServer, Reaches,
          ProcessExits, CopyStep, CopyToStream, CopyFromStream, CopyEnds
    <3>4. TunnelKeeps
      BY <3>3, Zenon DEF tunnelVars, TunnelKeeps
    <3>5. QED
      BY <3>1, <3>2, <3>4
  <2>3. TypeOK => Shape
    BY ShapeFact, Zenon
  <2>4. QED
    BY <2>1, <2>2, <2>3, TunnelForward DEF Next, UserStep
<1>2. QED
  BY <1>1, Invariant, PTL DEF Spec, OnlyForward
=============================================================================
