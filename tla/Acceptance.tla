----------------------------- MODULE Acceptance -----------------------------
(***************************************************************************)
(* What runServer promises to the clients that reach it, whichever of its  *)
(* loops they reach: a connection is handed to a handler, at once or after *)
(* a wait, and a server in forwarding mode turns none away.  One in netcat *)
(* mode ("accept exactly one connection and exit", main.go 938) starts one *)
(* handler, and turns a connection away only for the sake of another.      *)
(***************************************************************************)
CONSTANT Conns

VARIABLES
  oneShot,   \* whether the server is in netcat mode
  used,      \* whether it has started a handler
  place      \* where each connection is

vars == <<oneShot, used, place>>

Init ==
  /\ oneShot \in BOOLEAN
  /\ used = FALSE
  /\ place = [c \in Conns |-> "new"]

Queue(c) ==
  /\ oneShot /\ place[c] = "new"
  /\ place' = [place EXCEPT ![c] = "queued"]
  /\ UNCHANGED <<oneShot, used>>

Handle(c) ==
  /\ place[c] \in {"new", "queued"}
  /\ ~(oneShot /\ used)
  /\ place' = [place EXCEPT ![c] = "handled"]
  /\ used' = TRUE
  /\ UNCHANGED oneShot

TurnAway(c) ==
  /\ place[c] \in {"new", "queued"}
  /\ oneShot
  /\ used \/ \E d \in Conns \ {c} : place[d] = "queued"
  /\ place' = [place EXCEPT ![c] = "over"]
  /\ UNCHANGED <<oneShot, used>>

End(c) ==
  /\ place[c] = "handled"
  /\ place' = [place EXCEPT ![c] = "over"]
  /\ UNCHANGED <<oneShot, used>>

Next == \E c \in Conns : Queue(c) \/ Handle(c) \/ TurnAway(c) \/ End(c)

Spec == Init /\ [][Next]_vars
=============================================================================
