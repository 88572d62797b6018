------------------------------ MODULE Delivery ------------------------------
(***************************************************************************)
(* What pipe mode promises to whoever runs it at both ends of a connection *)
(* (an unlock script, UnlockLUKS, a shell pipeline), without goroutines,   *)
(* buffers or half-closes: a receiver writes out what its sender sends and *)
(* returns at some point; if the payload is owed to it, not before it is   *)
(* whole.  A connection that is lost leaves nothing owed.                  *)
(***************************************************************************)
EXTENDS Naturals

CONSTANT Senders

VARIABLES
  size,   \* units in the payload of each sender
  owed,   \* whether that payload is promised to arrive
  got,    \* units of it that its receiver has written out
  over    \* whether that receiver has returned

vars == <<size, owed, got, over>>

Init ==
  /\ size \in [Senders -> Nat]
  /\ owed \in [Senders -> BOOLEAN]
  /\ got = [s \in Senders |-> 0]
  /\ over = [s \in Senders |-> FALSE]

Deliver(s) ==
  /\ ~over[s] /\ got[s] < size[s]
  /\ got' = [got EXCEPT ![s] = @ + 1]
  /\ UNCHANGED <<size, owed, over>>

Finish(s) ==
  /\ ~over[s]
  /\ owed[s] => got[s] = size[s]
  /\ over' = [over EXCEPT ![s] = TRUE]
  /\ UNCHANGED <<size, owed, got>>

Lose ==
  /\ owed' = [s \in Senders |-> FALSE]
  /\ UNCHANGED <<size, got, over>>

Next == (\E s \in Senders : Deliver(s) \/ Finish(s)) \/ Lose

Spec == Init /\ [][Next]_vars
=============================================================================
