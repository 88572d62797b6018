------------------------------ MODULE Session ------------------------------
(***************************************************************************)
(* How a client gets an authenticated session: the attempts of RunClient   *)
(* (main.go) over the direct addresses and then the relay, the checks that *)
(* handleServerConn makes of a client, the exchange of performServerAuth   *)
(* and performClientAuth (auth.go), and what UnlockLUKS (mobile.go) makes  *)
(* of the outcome.                                                         *)
(*                                                                         *)
(* Attempts 1..Directs are the direct addresses, in order; the last one is *)
(* the race over the relays (module RelayRace), here a single dial.        *)
(***************************************************************************)
EXTENDS Naturals, Sequences

CONSTANT Directs    \* how many direct addresses are tried

ASSUME SessionAssumption == Directs \in Nat

Attempts == 1..(Directs + 1)

(***************************************************************************)
(* What the ends are configured with: whether the server is in netcat mode *)
(* and so serves one connection, whether --authorized-clients admits the   *)
(* client, whether the server has a TOTP secret, where the client's        *)
(* passcode comes from, whether a relay address is known, and whether the  *)
(* client is the phone's, which has neither a passcode nor a terminal.     *)
(***************************************************************************)
Setups ==
  {s \in [oneShot : BOOLEAN, authorized : BOOLEAN, totp : BOOLEAN,
          code : {"none", "good", "bad", "prompt"}, relay : BOOLEAN, mobile : BOOLEAN] :
     s.mobile => s.code = "none"}

VARIABLES
  setup,      \* the configuration
  attempt,    \* the attempt RunClient is at
  client,     \* what it is doing there
  peer,       \* the device each attempt reached
  secured,    \* the attempts whose TLS handshake the client accepted
  handler,    \* the server's handler of each attempt
  toClient,   \* messages to the client
  toServer,   \* messages to the server
  gone,       \* who closed each connection; "net" when the network broke it
  err,        \* the error RunClient returned, and whether its text has "EOF"
  result      \* what the caller of RunClient reports

wires == <<toClient, toServer, gone>>
vars == <<setup, attempt, client, peer, secured, handler, wires, err, result>>

Init ==
  /\ setup \in Setups
  /\ attempt = 1
  /\ client = "lookup"
  /\ peer = [i \in Attempts |-> "nobody"]
  /\ secured = {}
  /\ handler = [i \in Attempts |-> "none"]
  /\ toClient = [i \in Attempts |-> << >>]
  /\ toServer = [i \in Attempts |-> << >>]
  /\ gone = [i \in Attempts |-> {}]
  /\ err = [at |-> "none", eof |-> FALSE]
  /\ result = "pending"

-----------------------------------------------------------------------------
(* RunClient asks discovery first; without an answer it gives up. *)
Lookup ==
  /\ client = "lookup"
  /\ \/ client' = "dial" /\ UNCHANGED err
     \/ /\ client' = "failed"
        /\ err' \in [at : {"absent"}, eof : {FALSE}] \cup [at : {"lookup"}, eof : BOOLEAN]
  /\ UNCHANGED <<setup, attempt, peer, secured, handler, wires, result>>

(* A failed attempt closes its connection.  A direct one is followed by    *)
(* the next, the relay's error is returned.                                *)
MovesOn(at, eof) ==
  IF attempt <= Directs
    THEN attempt' = attempt + 1 /\ client' = "dial" /\ UNCHANGED err
    ELSE client' = "failed" /\ err' = [at |-> at, eof |-> eof] /\ UNCHANGED attempt

Fails_Leaks(at, eof) == MovesOn(at, eof) /\ UNCHANGED gone

Fails(at, eof) ==
  /\ gone' = [gone EXCEPT ![attempt] = @ \cup {"client"}]
  /\ MovesOn(at, eof)

(* A one-shot server has a handler for the first connection only.  While   *)
(* that runs, another one waits in its queue; then the process exits.      *)
Live(i) == handler[i] \in {"handshake", "response", "serving"}
Unused == \A i \in Attempts : handler[i] = "none"

Accepts_Every(i) == handler' = [handler EXCEPT ![i] = "handshake"]

Accepts(i) ==
  \/ /\ ~setup.oneShot \/ Unused
     /\ handler' = [handler EXCEPT ![i] = "handshake"]
  \/ /\ setup.oneShot /\ \E j \in Attempts : Live(j)
     /\ handler' = [handler EXCEPT ![i] = "queued"]

(* Nobody answers the dial, another device does, or the server. *)
Dial ==
  /\ client = "dial"
  /\ \/ /\ attempt > Directs /\ ~setup.relay
        /\ Fails("noAddress", FALSE)
        /\ UNCHANGED <<peer, handler>>
     \/ /\ attempt > Directs => setup.relay
        /\ \E eof \in BOOLEAN : Fails("dial", eof)
        /\ UNCHANGED <<peer, handler>>
     \/ /\ attempt > Directs => setup.relay
        /\ client' = "handshake"
        /\ \/ peer' = [peer EXCEPT ![attempt] = "other"] /\ UNCHANGED handler
           \/ peer' = [peer EXCEPT ![attempt] = "server"] /\ Accepts(attempt)
        /\ UNCHANGED <<attempt, gone, err>>
  /\ UNCHANGED <<setup, secured, toClient, toServer, result>>

(* The client's handshake, and its check of the peer's Device ID. *)
PeerAccepted_Any == TRUE
PeerAccepted == peer[attempt] = "server"

Handshake ==
  /\ client = "handshake"
  /\ \/ /\ peer[attempt] = "other" \/ gone[attempt] # {}
        /\ \E eof \in BOOLEAN : Fails("handshake", eof)
        /\ UNCHANGED secured
     \/ ~PeerAccepted /\ Fails("mismatch", FALSE) /\ UNCHANGED secured
     \/ /\ PeerAccepted /\ handler[attempt] # "queued"
        /\ client' = "auth"
        /\ secured' = secured \cup {attempt}
        /\ UNCHANGED <<attempt, gone, err>>
  /\ UNCHANGED <<setup, peer, handler, toClient, toServer, result>>

-----------------------------------------------------------------------------
(* The server's handler closes a connection it will not serve. *)
Refuse_LeftOpen(i) == handler' = [handler EXCEPT ![i] = "refused"] /\ UNCHANGED gone

Refuse(i) ==
  /\ handler' = [handler EXCEPT ![i] = "refused"]
  /\ gone' = [gone EXCEPT ![i] = @ \cup {"server"}]

ClientLost(i) == gone[i] \cap {"client", "net"} # {}

(* The list of authorized clients, where there is one. *)
Authorized_Any == TRUE
Authorized == setup.authorized

(* handleServerConn after the handshake: a client that is not on the list  *)
(* is refused, the others are sent the challenge of performServerAuth.     *)
ServerHandshake(i) ==
  /\ handler[i] = "handshake"
  /\ \/ i \in secured /\ ~Authorized /\ Refuse(i) /\ UNCHANGED toClient
     \/ /\ i \in secured /\ Authorized
        /\ toClient' = [toClient EXCEPT ![i] =
                          <<IF setup.totp THEN "auth_required" ELSE "auth_ok">>]
        /\ handler' = [handler EXCEPT ![i] = IF setup.totp THEN "response" ELSE "serving"]
        /\ UNCHANGED gone
     \/ ClientLost(i) /\ Refuse(i) /\ UNCHANGED toClient
  /\ UNCHANGED <<setup, attempt, client, peer, secured, toServer, err, result>>

(* totp.Validate: a passcode that was good may have expired by now. *)
Verdicts(code) == IF code = "good" THEN {"ok", "error"} ELSE {"error"}

ServerVerdict(i) ==
  /\ handler[i] = "response"
  /\ \/ \E verdict \in {"ok", "error"} :
          /\ toServer[i] # << >> /\ verdict \in Verdicts(Head(toServer[i]))
          /\ toClient' = [toClient EXCEPT ![i] = Append(@, verdict)]
          /\ \/ verdict = "error" /\ Refuse(i)
             \/ /\ verdict = "ok"
                /\ handler' = [handler EXCEPT ![i] = "serving"] /\ UNCHANGED gone
     \/ ClientLost(i) /\ Refuse(i) /\ UNCHANGED toClient
  /\ UNCHANGED <<setup, attempt, client, peer, secured, toServer, err, result>>

(* Serving ends once the client is lost, or on the server's side first. *)
Done(i) ==
  /\ handler[i] = "serving"
  /\ handler' = [handler EXCEPT ![i] = "done"]
  /\ gone' = [gone EXCEPT ![i] = @ \cup {"server"}]
  /\ UNCHANGED <<setup, attempt, client, peer, secured, toClient, toServer, err, result>>

ServerDone(i) == ClientLost(i) /\ Done(i)

(* The exit of a one-shot server closes the connection left in its queue. *)
QueueDropped(i) ==
  /\ handler[i] = "queued" /\ ~\E j \in Attempts : Live(j)
  /\ Refuse(i)
  /\ UNCHANGED <<setup, attempt, client, peer, secured, toClient, toServer, err, result>>

-----------------------------------------------------------------------------
(* performClientAuth.  A read gets the next message, or fails: at the end  *)
(* of a stream the server closed, or because the network broke.            *)
Incoming == toClient[attempt]

ReadFails(got) ==
  \/ Len(Incoming) = got /\ "server" \in gone[attempt] /\ Fails("auth", TRUE)
  \/ "net" \in gone[attempt] /\ \E eof \in BOOLEAN : Fails("auth", eof)

(* A passcode that is given, or typed at the prompt; a prompt may fail. *)
Passcodes == IF setup.code = "prompt" THEN {"good", "bad"} ELSE {setup.code} \ {"none"}

ReadsChallenge ==
  /\ client = "auth"
  /\ \/ /\ Incoming = <<"auth_ok">>
        /\ client' = "established"
        /\ UNCHANGED <<attempt, gone, err, toServer>>
     \/ /\ Incoming = <<"auth_required">>
        /\ \/ /\ setup.code \in {"none", "prompt"}
              /\ Fails("auth", FALSE) /\ UNCHANGED toServer
           \/ /\ \E c \in Passcodes : toServer' = [toServer EXCEPT ![attempt] = <<c>>]
              /\ client' = "result"
              /\ UNCHANGED <<attempt, gone, err>>
     \/ ReadFails(0) /\ UNCHANGED toServer
  /\ UNCHANGED <<setup, peer, secured, handler, toClient, result>>

ReadsResult ==
  /\ client = "result"
  /\ \/ /\ Incoming = <<"auth_required", "ok">>
        /\ client' = "established"
        /\ UNCHANGED <<attempt, gone, err>>
     \/ Incoming = <<"auth_required", "error">> /\ Fails("auth", FALSE)
     \/ ReadFails(1)
  /\ UNCHANGED <<setup, peer, secured, handler, toClient, toServer, result>>

(* The session is used, and closed by handleClientConn. *)
SessionEnds ==
  /\ client = "established"
  /\ client' = "finished"
  /\ gone' = [gone EXCEPT ![attempt] = @ \cup {"client"}]
  /\ UNCHANGED <<setup, attempt, peer, secured, handler, toClient, toServer, err, result>>

(* ClassifyUnlockError, on the errors RunClient returns. *)
ClassifyUnlockError(at) ==
  CASE at = "absent" -> "SERVER_OFFLINE"
    [] at = "dial" -> "SERVER_UNREACHABLE"
    [] at = "mismatch" -> "WRONG_DEVICE"
    [] at = "lookup" -> "NO_NETWORK"
    [] at = "auth" -> "REJECTED"
    [] OTHER -> "UNKNOWN"

(* The command line reports every error; UnlockLUKS takes one that         *)
(* mentions EOF for the normal end.                                        *)
ClientReturns ==
  /\ client \in {"finished", "failed"} /\ result = "pending"
  /\ result' = IF client = "finished" \/ (setup.mobile /\ err.eof) THEN "success"
               ELSE IF setup.mobile THEN ClassifyUnlockError(err.at) ELSE "error"
  /\ UNCHANGED <<setup, attempt, client, peer, secured, handler, wires, err>>

-----------------------------------------------------------------------------
(* The network breaks a connection; both ends come to notice. *)
Breaks(i) ==
  /\ peer[i] = "server" /\ gone[i] = {}
  /\ gone' = [gone EXCEPT ![i] = {"net"}]
  /\ UNCHANGED <<setup, attempt, client, peer, secured, handler, toClient, toServer, err, result>>

RunClient ==
  \/ Lookup \/ Dial \/ Handshake
  \/ ReadsChallenge \/ ReadsResult \/ SessionEnds \/ ClientReturns

Server(i) == ServerHandshake(i) \/ ServerVerdict(i) \/ ServerDone(i) \/ QueueDropped(i)

Finished ==
  /\ result # "pending"
  /\ \A i \in Attempts : handler[i] \in {"none", "refused", "done"}
  /\ UNCHANGED vars

Next ==
  \/ RunClient
  \/ \E i \in Attempts : Server(i) \/ Done(i) \/ Breaks(i)
  \/ Finished

Spec == Init /\ [][Next]_vars

(***************************************************************************)
(* Both ends run.  Neither sets a deadline for a handshake or a read: a    *)
(* device that answers is assumed to go on, and a broken connection to be  *)
(* noticed (TCP keep-alives).  A session need not end by itself on the     *)
(* server's side, and the network need not break.                          *)
(***************************************************************************)
Fairness == WF_vars(RunClient) /\ \A i \in Attempts : WF_vars(Server(i))

FairSpec == Spec /\ Fairness

-----------------------------------------------------------------------------
(* What a connection may carry to the client: a challenge and a verdict. *)
Replies ==
  {<< >>, <<"auth_ok">>, <<"auth_required">>,
   <<"auth_required", "ok">>, <<"auth_required", "error">>}

(* The values the variables take; a connection carries a challenge, a      *)
(* passcode and a verdict at most.                                         *)
TypeOK ==
  /\ setup \in Setups
  /\ attempt \in Attempts
  /\ client \in {"lookup", "dial", "handshake", "auth", "result", "established",
                 "finished", "failed"}
  /\ peer \in [Attempts -> {"nobody", "other", "server"}]
  /\ secured \subseteq Attempts
  /\ handler \in [Attempts -> {"none", "queued", "handshake", "response", "serving",
                               "refused", "done"}]
  /\ toClient \in [Attempts -> Replies]
  /\ toServer \in [Attempts -> {<< >>, <<"good">>, <<"bad">>}]
  /\ gone \in [Attempts -> SUBSET {"client", "server", "net"}]
  /\ err.eof \in BOOLEAN

(***************************************************************************)
(* The server serves only clients on its list (main.go 1026-1041) which,   *)
(* where it has a secret, sent it a valid passcode on that connection; and *)
(* a client that takes its session for established is on a connection the  *)
(* server has begun to serve.                                              *)
(***************************************************************************)
SessionAgreed ==
  /\ \A i \in Attempts : handler[i] \in {"serving", "done"} =>
       setup.authorized /\ (setup.totp => toServer[i] = <<"good">>)
  /\ client = "established" => handler[attempt] \in {"serving", "done"}

(* A passcode, or a payload, goes only to the device the client was told   *)
(* to reach, on whichever of its addresses it was found (main.go 1188-1193 *)
(* and 1235-1239).                                                         *)
OnlyToThePeer ==
  \A i \in Attempts : toServer[i] # << >> \/ i \in secured => peer[i] = "server"

(* Where the promise of Acceptance has the connection of an attempt. *)
PlaceOf(i) ==
  CASE handler[i] = "none" -> "new"
    [] handler[i] = "queued" -> "queued"
    [] Live(i) -> "handled"
    [] OTHER -> "over"

Places == [i \in Attempts |-> PlaceOf(i)]

Promise == INSTANCE Acceptance WITH
  Conns <- Attempts, oneShot <- setup.oneShot, used <- ~Unused, place <- Places

(* The server that RunClient meets here, attempt after attempt, is one     *)
(* that Acceptance allows: module Server shows runServer to be another.    *)
ServedAsPromised == Promise!Spec

(* The guards of RunClient's steps: what a step of the client waits for. *)
ClientCanMove ==
  \/ client \in {"lookup", "dial", "established", "finished", "failed"}
  \/ /\ client = "handshake"
     /\ peer[attempt] = "other" \/ gone[attempt] # {} \/ handler[attempt] # "queued"
  \/ /\ client = "auth"
     /\ \/ Incoming \in {<<"auth_ok">>, <<"auth_required">>}
        \/ Incoming = << >> /\ "server" \in gone[attempt]
        \/ "net" \in gone[attempt]
  \/ /\ client = "result"
     /\ \/ Incoming \in {<<"auth_required", "ok">>, <<"auth_required", "error">>}
        \/ Incoming = <<"auth_required">> /\ "server" \in gone[attempt]
        \/ "net" \in gone[attempt]

(* The guards of Server(i). *)
ServerCanMove(i) ==
  \/ handler[i] = "handshake" /\ (i \in secured \/ ClientLost(i))
  \/ handler[i] = "response" /\ (toServer[i] # << >> \/ ClientLost(i))
  \/ handler[i] = "serving" /\ ClientLost(i)
  \/ handler[i] = "queued" /\ ~\E j \in Attempts : Live(j)

(* Nobody waits for ever on somebody who waits: a client that has not      *)
(* decided can take a step, or a handler can, even when the client waits   *)
(* in the queue of a one-shot server behind a connection of its own that   *)
(* it gave up; and while the handler of a connection that was given up has *)
(* not ended, it or one before it can take a step.                         *)
NobodyStuck ==
  /\ result = "pending" => ClientCanMove \/ \E i \in Attempts : ServerCanMove(i)
  /\ \A i \in Attempts :
       handler[i] \notin {"none", "refused", "done"} /\ (i # attempt \/ result # "pending") =>
         \E j \in Attempts : j <= i /\ ServerCanMove(j)

(* The client comes to an end, whichever attempts fail and whether it is   *)
(* admitted or refused (main.go 1036-1047 closes a refused connection).    *)
ClientDecides == <>(result # "pending")

(* A handler whose client went on to another address ends: the client      *)
(* closes each connection it gives up (main.go 1176-1199).                 *)
AbandonedHandlersEnd ==
  \A i \in Attempts :
    handler[i] # "none" /\ attempt # i ~> handler[i] \in {"refused", "done"}

(***************************************************************************)
(* "ErrRejected: the machine refused this phone's identity, so the         *)
(* enrolment on the machine does not name this phone" (mobile.go 79-81): a *)
(* phone that reached the machine by relay, and was refused by its list,   *)
(* is told so.                                                             *)
(***************************************************************************)
RefusedIsRejected ==
  LET relay == Directs + 1 IN
    /\ setup.mobile /\ ~setup.authorized
    /\ relay \in secured /\ handler[relay] = "refused" /\ "net" \notin gone[relay]
    /\ result # "pending"
    => result = "REJECTED"
=============================================================================
