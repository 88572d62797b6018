---------------------------- MODULE MCSignaling ----------------------------
(* Instances of Signaling: how long the payloads are, and how they read as *)
(* lengths: refused, or announcing as much as follows, or more than that.  *)
EXTENDS Signaling

BothSend == {[client |-> 2, server |-> 1]}
Text == {[e \in Ends |-> 0]}
AnyWords == {[client |-> n, server |-> n] : n \in 0..2}
=============================================================================
