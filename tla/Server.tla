------------------------------- MODULE Server -------------------------------
(***************************************************************************)
(* runServer (main.go): start-up, and the loops that take connections from *)
(* the direct listener and from the relay, in forwarding mode and in the   *)
(* one-shot netcat mode.  What happens on a connection once it is handed   *)
(* to a handler is not part of this module.                                *)
(*                                                                         *)
(* The relay client is the vendored syncthing one.  It offers invitations  *)
(* on an unbuffered channel it never closes, and its Serve returns when a  *)
(* static relay is lost or when every relay of a dynamic pool has been     *)
(* tried.                                                                  *)
(***************************************************************************)
EXTENDS Naturals, Sequences, FiniteSets

CONSTANTS
  Conns,      \* connections clients may open
  Configs,    \* the flag combinations explored
  PoolSize    \* relays a dynamic pool offers

(* The command line: a mode, whether --direct-port is set, and --relay. *)
AllConfigs ==
  [mode : {"forward", "netcat"}, direct : BOOLEAN,
   relay : {"none", "static", "dynamic"}]

ASSUME ServerAssumption == Configs \subseteq AllConfigs /\ PoolSize \in Nat

VARIABLES
  cfg,        \* the configuration of this process
  pc,         \* where runServer is
  relay,      \* what the relay client is doing
  pool,       \* relays of the pool it has not tried yet
  stopped,    \* whether relayStopped holds Serve's result
  acceptor,   \* the goroutine in tcpListener.Accept
  inviter,    \* the loop that takes invitations: a goroutine, or runServer
  connChan,   \* the channel of netcat mode
  conn,       \* what became of each connection
  ctxDone     \* whether the context is cancelled

relayVars == <<relay, pool, stopped>>
vars == <<cfg, pc, relayVars, acceptor, inviter, connChan, conn, ctxDone>>

Netcat == cfg.mode = "netcat"
Forward == cfg.mode = "forward"
InState(s) == {c \in Conns : conn[c] = s}

Init ==
  /\ cfg \in Configs
  /\ pc = "start"
  /\ relay = "idle"
  /\ pool = PoolSize
  /\ stopped = FALSE
  /\ acceptor = "absent"
  /\ inviter = "absent"
  /\ connChan = << >>
  /\ conn = [c \in Conns |-> "idle"]
  /\ ctxDone = FALSE

-----------------------------------------------------------------------------
(* RelayClient.URI: nil only for a dynamic client between two relays. *)
HasURI ==
  \/ cfg.relay = "static"
  \/ relay \in {"dialing", "joined", "failing"}

(* RelayClient.Error: also that of a relay the pool is about to give up. *)
HasError == relay \in {"failing", "stopped"}

(* A lost relay: a static client stops, a dynamic one moves on. *)
AfterLoss == IF cfg.relay = "static" THEN "stopped" ELSE "failing"

RelayMoves(next) ==
  /\ relay' = next
  /\ stopped' = (next = "stopped" \/ stopped)
  /\ UNCHANGED <<cfg, pc, acceptor, inviter, connChan, conn, ctxDone>>

RelayLookup ==
  /\ relay = "lookup"
  /\ \E next \in {"between", "stopped"} : RelayMoves(next)
  /\ UNCHANGED pool

RelayNext ==
  /\ relay = "between"
  /\ IF pool = 0 \/ ctxDone
       THEN RelayMoves("stopped") /\ UNCHANGED pool
       ELSE RelayMoves("dialing") /\ pool' = pool - 1

RelayDials ==
  /\ relay = "dialing"
  /\ \E next \in {"joined", AfterLoss} : RelayMoves(next)
  /\ UNCHANGED pool

RelayGivesUp ==
  /\ relay = "failing"
  /\ RelayMoves("between")
  /\ UNCHANGED pool

(* The client cannot notice a loss while it offers an invitation. *)
RelayLost ==
  /\ relay = "joined"
  /\ InState("invited") = {} \/ ctxDone
  /\ RelayMoves(AfterLoss)
  /\ UNCHANGED pool

-----------------------------------------------------------------------------
(* runServer returns; its deferred tcpListener.Close ends the acceptor. *)
Return ==
  /\ pc' = "returned"
  /\ acceptor' = IF acceptor = "accepting" THEN "exited" ELSE acceptor

(* Binding the direct port, and starting the relay client. *)
Start ==
  /\ pc = "start"
  /\ \/ cfg.direct /\ pc' = "returned" /\ UNCHANGED relay
     \/ cfg.relay = "none" /\ pc' = "ready" /\ UNCHANGED relay
     \/ cfg.relay = "static" /\ pc' = "pollError" /\ relay' = "dialing"
     \/ cfg.relay = "dynamic" /\ pc' = "pollError" /\ relay' = "lookup"
  /\ UNCHANGED <<cfg, pool, stopped, acceptor, inviter, connChan, conn, ctxDone>>

(* The start-up loop reads Error and URI one after the other. *)
PollError_Ignored ==
  /\ pc = "pollError"
  /\ pc' = "pollURI"
  /\ UNCHANGED <<cfg, relayVars, acceptor, inviter, connChan, conn, ctxDone>>

PollError ==
  /\ pc = "pollError"
  /\ pc' = IF HasError THEN "returned" ELSE "pollURI"
  /\ UNCHANGED <<cfg, relayVars, acceptor, inviter, connChan, conn, ctxDone>>

PollURI ==
  /\ pc = "pollURI"
  /\ pc' = IF HasURI THEN "ready" ELSE IF ctxDone THEN "returned" ELSE "pollError"
  /\ UNCHANGED <<cfg, relayVars, acceptor, inviter, connChan, conn, ctxDone>>

(* The goroutines are started; in netcat mode runServer is on its way to   *)
(* its select, in forwarding mode it is the one that takes invitations.    *)
Spawn ==
  /\ pc = "ready"
  /\ pc' = IF Netcat THEN "spawned" ELSE "select"
  /\ acceptor' = IF cfg.direct THEN "accepting" ELSE "absent"
  /\ inviter' = IF cfg.relay # "none" THEN "waiting" ELSE "absent"
  /\ UNCHANGED <<cfg, relayVars, connChan, conn, ctxDone>>

EnterSelect ==
  /\ pc = "spawned"
  /\ pc' = "select"
  /\ UNCHANGED <<cfg, relayVars, acceptor, inviter, connChan, conn, ctxDone>>

-----------------------------------------------------------------------------
(* Clients: a TCP connection to the listener, or a relay's invitation. *)
DirectArrives(c) ==
  /\ conn[c] = "idle"
  /\ cfg.direct /\ pc \notin {"start", "returned"}
  /\ conn' = [conn EXCEPT ![c] = "backlog"]
  /\ UNCHANGED <<cfg, pc, relayVars, acceptor, inviter, connChan, ctxDone>>

InvitationArrives(c) ==
  /\ conn[c] = "idle"
  /\ relay = "joined"
  /\ InState("invited") = {}
  /\ conn' = [conn EXCEPT ![c] = "invited"]
  /\ UNCHANGED <<cfg, pc, relayVars, acceptor, inviter, connChan, ctxDone>>

CancelContext ==
  /\ ~ctxDone
  /\ ctxDone' = TRUE
  /\ UNCHANGED <<cfg, pc, relayVars, acceptor, inviter, connChan, conn>>

-----------------------------------------------------------------------------
(* Both loops join the session of an invitation they receive. *)
TakeInvitation(c) ==
  /\ inviter = "waiting"
  /\ conn[c] = "invited"
  /\ relay = "joined"
  /\ Forward => pc = "select"
  /\ conn' = [conn EXCEPT ![c] = "joining"]
  /\ inviter' = "joining"
  /\ UNCHANGED <<cfg, pc, relayVars, acceptor, connChan, ctxDone>>

JoinFails_Exits(c) ==
  /\ conn[c] = "joining"
  /\ conn' = [conn EXCEPT ![c] = "failed"]
  /\ inviter' = "exited"
  /\ UNCHANGED <<cfg, pc, relayVars, acceptor, connChan, ctxDone>>

JoinFails(c) ==
  /\ conn[c] = "joining"
  /\ conn' = [conn EXCEPT ![c] = "failed"]
  /\ inviter' = "waiting"
  /\ UNCHANGED <<cfg, pc, relayVars, acceptor, connChan, ctxDone>>

(* Forwarding mode: every connection gets a handler of its own. *)
ForwardAccepts(c) ==
  /\ Forward
  /\ acceptor = "accepting" /\ conn[c] = "backlog"
  /\ conn' = [conn EXCEPT ![c] = "handled"]
  /\ UNCHANGED <<cfg, pc, relayVars, acceptor, inviter, connChan, ctxDone>>

ForwardJoins(c) ==
  /\ Forward
  /\ conn[c] = "joining"
  /\ conn' = [conn EXCEPT ![c] = "handled"]
  /\ inviter' = "waiting"
  /\ UNCHANGED <<cfg, pc, relayVars, acceptor, connChan, ctxDone>>

ForwardRelayStopped_Ignored == FALSE /\ UNCHANGED vars
ForwardRelayStopped ==
  /\ Forward
  /\ pc = "select" /\ inviter = "waiting" /\ stopped
  /\ Return
  /\ stopped' = FALSE
  /\ inviter' = "exited"
  /\ UNCHANGED <<cfg, relay, pool, connChan, conn, ctxDone>>

ForwardCancelled ==
  /\ Forward
  /\ pc = "select" /\ inviter # "joining" /\ ctxDone
  /\ Return
  /\ inviter' = IF inviter = "waiting" THEN "exited" ELSE inviter
  /\ UNCHANGED <<cfg, relayVars, connChan, conn, ctxDone>>

-----------------------------------------------------------------------------
(* Netcat mode: a non-blocking send on connChan, of capacity one. *)
ConnChanHasRoom_Unbuffered == pc = "select" /\ connChan = << >>
ConnChanHasRoom == connChan = << >>

OfferConn(c) ==
  IF ConnChanHasRoom
    THEN /\ connChan' = Append(connChan, c)
         /\ conn' = [conn EXCEPT ![c] = "queued"]
    ELSE /\ conn' = [conn EXCEPT ![c] = "closed"]
         /\ UNCHANGED connChan

NetcatAccepts(c) ==
  /\ Netcat
  /\ acceptor = "accepting" /\ conn[c] = "backlog"
  /\ OfferConn(c)
  /\ acceptor' = "exited"
  /\ UNCHANGED <<cfg, pc, relayVars, inviter, ctxDone>>

NetcatJoins(c) ==
  /\ Netcat
  /\ conn[c] = "joining"
  /\ OfferConn(c)
  /\ inviter' = IF ConnChanHasRoom THEN "exited" ELSE "waiting"
  /\ UNCHANGED <<cfg, pc, relayVars, acceptor, ctxDone>>

NetcatInviterExits ==
  /\ Netcat
  /\ inviter = "waiting"
  /\ \/ stopped /\ stopped' = FALSE
     \/ ctxDone /\ UNCHANGED stopped
  /\ inviter' = "exited"
  /\ UNCHANGED <<cfg, pc, relay, pool, acceptor, connChan, conn, ctxDone>>

NetcatTakes_AfterRelay ==
  /\ Netcat
  /\ pc = "select" /\ connChan # << >> /\ inviter # "waiting"
  /\ conn' = [conn EXCEPT ![Head(connChan)] = "handled"]
  /\ connChan' = Tail(connChan)
  /\ pc' = "handling"
  /\ UNCHANGED <<cfg, relayVars, acceptor, inviter, ctxDone>>

NetcatTakes ==
  /\ Netcat
  /\ pc = "select" /\ connChan # << >>
  /\ conn' = [conn EXCEPT ![Head(connChan)] = "handled"]
  /\ connChan' = Tail(connChan)
  /\ pc' = "handling"
  /\ UNCHANGED <<cfg, relayVars, acceptor, inviter, ctxDone>>

(* The handler may take as long as the peer likes. *)
NetcatHandlerDone ==
  /\ Netcat
  /\ pc = "handling"
  /\ Return
  /\ conn' = [c \in Conns |-> IF conn[c] = "handled" THEN "done" ELSE conn[c]]
  /\ UNCHANGED <<cfg, relayVars, inviter, connChan, ctxDone>>

NetcatCancelled ==
  /\ Netcat
  /\ pc = "select" /\ ctxDone
  /\ Return
  /\ UNCHANGED <<cfg, relayVars, inviter, connChan, conn, ctxDone>>

-----------------------------------------------------------------------------
RelayStep == RelayLookup \/ RelayNext \/ RelayDials \/ RelayGivesUp
StartUp == Start \/ PollError \/ PollURI \/ Spawn \/ EnterSelect
Inviter ==
  \/ \E c \in Conns : TakeInvitation(c) \/ JoinFails(c) \/ ForwardJoins(c)
                        \/ NetcatJoins(c)
  \/ NetcatInviterExits
Acceptor == \E c \in Conns : ForwardAccepts(c) \/ NetcatAccepts(c)
Select ==
  ForwardRelayStopped \/ ForwardCancelled \/ NetcatTakes \/ NetcatCancelled

(* After its return runServer leaves nothing that this module follows. *)
Finished == pc = "returned" /\ UNCHANGED vars

Next ==
  \/ StartUp \/ RelayStep \/ RelayLost
  \/ Inviter \/ Acceptor \/ Select \/ NetcatHandlerDone
  \/ \E c \in Conns : DirectArrives(c) \/ InvitationArrives(c)
  \/ CancelContext
  \/ Finished

Spec == Init /\ [][Next]_vars

(***************************************************************************)
(* The goroutines of the server and of the relay client run; a dial and a  *)
(* join have deadlines, and the pool lookup is assumed to be answered.     *)
(* Nothing forces a client to come, a relay to fail, a handler to end or   *)
(* the context to be cancelled.                                            *)
(***************************************************************************)
Fairness ==
  /\ WF_vars(StartUp)
  /\ WF_vars(RelayStep)
  /\ WF_vars(Inviter)
  /\ WF_vars(Acceptor)
  /\ WF_vars(Select)

FairSpec == Spec /\ Fairness

-----------------------------------------------------------------------------
(* The values the variables take; connChan never holds more than one. *)
TypeOK ==
  /\ cfg \in Configs
  /\ pc \in {"start", "pollError", "pollURI", "ready", "spawned", "select",
             "handling", "returned"}
  /\ relay \in {"idle", "lookup", "between", "dialing", "joined", "failing",
                "stopped"}
  /\ pool \in 0..PoolSize
  /\ stopped \in BOOLEAN
  /\ acceptor \in {"absent", "accepting", "exited"}
  /\ inviter \in {"absent", "waiting", "joining", "exited"}
  /\ connChan \in Seq(Conns) /\ Len(connChan) <= 1
  /\ conn \in [Conns -> {"idle", "backlog", "invited", "joining", "failed",
                         "queued", "handled", "done", "closed"}]
  /\ ctxDone \in BOOLEAN

(* Netcat mode hands a single connection to the handler, whichever of the  *)
(* listener and the relay brings how many.                                 *)
NetcatHandlesOne ==
  Netcat => Cardinality(InState("handled") \cup InState("done")) <= 1

(* Netcat mode turns a connection away only when another one was taken     *)
(* before it: a lone client is never refused, even when it comes before    *)
(* runServer has reached its select.                                       *)
RefusedOnlyForAnother ==
  InState("closed") # {} =>
    InState("queued") \cup InState("handled") \cup InState("done") # {}

(* Where the promise of Acceptance has a connection: one on its way, or    *)
(* whose join failed, has not reached the server yet.                      *)
PlaceOf(c) ==
  CASE conn[c] = "queued" -> "queued"
    [] conn[c] = "handled" -> "handled"
    [] conn[c] \in {"done", "closed"} -> "over"
    [] OTHER -> "new"

Places == [c \in Conns |-> PlaceOf(c)]
Used == InState("handled") \cup InState("done") # {}

Promise == INSTANCE Acceptance WITH oneShot <- Netcat, used <- Used, place <- Places

(* The acceptor, the inviter and the select of runServer, each at its own  *)
(* pace, implement Acceptance: the one handler of netcat mode is never     *)
(* started twice, and nobody is turned away but for another.               *)
AcceptsAsPromised == Promise!Spec

(* Netcat mode stops taking invitations only when it has a connection, is  *)
(* cancelled or has lost its relay: a failed join leaves it listening.     *)
ListensUntilTaken ==
  (Netcat /\ inviter = "exited") =>
    \/ ctxDone \/ relay = "stopped"
    \/ InState("queued") \cup InState("handled") \cup InState("done") # {}

(* The start-up loop ends: it finds a relay, reports its error or sees the *)
(* cancelled context.                                                      *)
StartUpEnds ==
  pc \in {"pollError", "pollURI"} ~> pc \notin {"pollError", "pollURI"}

(* A queued connection does not wait for ever in front of an idle server,  *)
(* and a cancelled context ends one, in start-up, in a join or in its      *)
(* loop: runServer enters a handler or returns.                            *)
LeavesSelect ==
  (connChan # << >> \/ ctxDone) ~> pc \in {"handling", "returned"}

(* A server whose relay client gave up does not sit in its forwarding loop *)
(* for ever: it returns, so that its caller can build a new client.        *)
ForwardNoticesDeadRelay ==
  (Forward /\ relay = "stopped") ~> pc = "returned"

(***************************************************************************)
(* The same of netcat mode without a direct port: the server does not wait *)
(* out the boot on a dead relay.                                           *)
(***************************************************************************)
NetcatNoticesDeadRelay ==
  (Netcat /\ ~cfg.direct /\ relay = "stopped") ~> pc \in {"handling", "returned"}
=============================================================================
