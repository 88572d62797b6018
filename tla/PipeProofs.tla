----------------------------- MODULE PipeProofs -----------------------------
(***************************************************************************)
(* Pipe implements Delivery for all inputs: the inductive invariant IInv   *)
(* says where every unit is and what a closed direction means, and a step  *)
(* from a state of IInv maps to a step of Delivery or to a stutter.  The   *)
(* two ends never wait for each other, and nothing they do is undone.      *)
(***************************************************************************)
EXTENDS Pipe, TLAPS

(* Nothing is lost between the two ends until a data channel is torn down. *)
Conserved(e) ==
  (kind = "tls" \/ \A x \in Ends : Running(x)) =>
     queued[e] + arrived[e] + out[Peer(e)] = written[e]

(* A goroutine that is in CloseWrite has copied all of its stdin.  Over an *)
(* unbroken TLS connection so has one that is done, and only such a one    *)
(* has closed the direction of an end that still runs.                     *)
Copied(e) ==
  /\ copier[e] = "flush" => written[e] = stdin[e].units /\ written[e] > 0
  /\ kind = "tls" /\ closed[e] /\ Running(e) => copier[e] = "done"
  /\ kind = "tls" /\ ~broken /\ copier[e] # "copy" => written[e] = stdin[e].units

(* A silent receiver is the last to close: it does so only once it has the *)
(* payload, so its sender cannot have been stopped before.                 *)
ToSilent(e) ==
  (~broken /\ OneShot(e) /\ Silent(Peer(e))) =>
     /\ closed[e] => written[e] = stdin[e].units
     /\ closed[Peer(e)] => pipe[Peer(e)] # "copy"
     /\ pipe[Peer(e)] # "copy" => out[Peer(e)] = stdin[e].units
     /\ pipe[e] # "copy" => closed[Peer(e)]

(* Over TLS the grace keeps a direction open until its stdin is copied. *)
OverTLS(e) ==
  (~broken /\ OneShot(e) /\ kind = "tls" /\ ~slow /\ ~stdin[e].tty) =>
     /\ closed[e] => written[e] = stdin[e].units
     /\ pipe[Peer(e)] # "copy" => out[Peer(e)] = stdin[e].units

Inv(e) == Conserved(e) /\ Copied(e) /\ ToSilent(e) /\ OverTLS(e)
IInv == TypeOK /\ \A e \in Ends : Inv(e)

(* When the goroutine of an end, the connection and the rest of an end can *)
(* move, from their guards.                                                *)
CopierCanMove(e) ==
  /\ Running(e)
  /\ \/ copier[e] = "copy" /\ (written[e] < stdin[e].units \/ stdin[e].ends)
     \/ copier[e] = "flush" /\ (kind = "tls" \/ queued[e] = 0 \/ slow \/ broken)

CanTransfer(e) == ~broken /\ queued[e] > 0 /\ Running(Peer(e))

MainCanMove(e) ==
  \/ pipe[e] = "copy" /\ (arrived[Peer(e)] > 0 \/ StreamOver(e))
  \/ pipe[e] = "grace" /\ (copier[e] = "done" \/ slow \/ broken \/ ~stdin[e].ends)

(* The two ends never wait for each other: while one of them runs and one  *)
(* is a one-shot sender, or the connection has broken, a goroutine or the  *)
(* connection can take a step.  Two terminals may wait for their users,    *)
(* and an end that a broken data channel has cut off waits for ever.       *)
NobodyStuck ==
  (/\ broken \/ \E e \in Ends : OneShot(e)
   /\ \E e \in Ends : Running(e) /\ ~CutOff(e)) =>
     \E e \in Ends : CopierCanMove(e) \/ CanTransfer(e) \/ MainCanMove(e)

(* The Close of an end that has returned is seen by the other one, and a   *)
(* one-shot sender whose goroutine is done has ended its stream.  A stream *)
(* that a broken data channel has not cut has ended with nothing queued.   *)
Ended(e) ==
  /\ ~Running(e) => closed[e]
  /\ ~Running(e) /\ kind = "webrtc" /\ ~broken =>
       \A x \in Ends : closed[x] /\ queued[x] = 0
  /\ cut[e] => broken /\ kind = "webrtc"
  /\ broken /\ kind = "webrtc" /\ ~cut[e] => closed[e] /\ queued[e] = 0
  /\ copier[e] = "done" /\ OneShot(e) => closed[e] \/ broken

EndInv == \A e \in Ends : Ended(e)

(***************************************************************************)
(* A measure of how far an end has come, and what a step does to it: units *)
(* are written and read once, and a queue is only filled by writing.       *)
(***************************************************************************)
CopierStage(s) == CASE s = "copy" -> 0 [] s = "flush" -> 1 [] OTHER -> 2
PipeStage(s) == CASE s = "copy" -> 0 [] s = "grace" -> 1 [] OTHER -> 2

Advances ==
  \/ broken' # broken
  \/ \E e \in Ends : \/ CopierStage(copier'[e]) > CopierStage(copier[e])
                      \/ PipeStage(pipe'[e]) > PipeStage(pipe[e])
                      \/ written'[e] > written[e]
                      \/ queued'[e] < queued[e]
                      \/ out'[e] > out[e]

NeverBack ==
  /\ broken => broken'
  /\ \A e \in Ends : /\ CopierStage(copier'[e]) >= CopierStage(copier[e])
                     /\ PipeStage(pipe'[e]) >= PipeStage(pipe[e])
                     /\ written'[e] >= written[e]
                     /\ written'[e] = written[e] => queued'[e] <= queued[e]
                     /\ out'[e] >= out[e]

(* Every step of the two ends brings one of them further, and nothing goes *)
(* back: no unit is copied twice and no wait of pipeBiDirectional starts   *)
(* over.                                                                   *)
OnlyForward == [][ Advances /\ NeverBack ]_vars

-----------------------------------------------------------------------------
LEMMA PeerFact ==
  \A e \in Ends : Peer(e) \in Ends /\ Peer(e) # e /\ Peer(Peer(e)) = e
                 /\ \A x \in Ends : x = e \/ x = Peer(e)
BY DEF Ends, Peer

(* The stdins are the ones the constant allows. *)
LEMMA StdinFact ==
  ASSUME stdin \in Inputs
  PROVE  \A e \in Ends : /\ stdin[e].units \in Nat
                         /\ stdin[e].ends \in BOOLEAN
                         /\ stdin[e].tty \in BOOLEAN
BY PipeAssumption DEF Stdins

(* What the Close of a returning end does to the two directions. *)
LEMMA ReturnFact ==
  ASSUME TypeOK, NEW e \in Ends, Return(e)
  PROVE  /\ pipe' = [pipe EXCEPT ![e] = "returned"]
         /\ closed' \in [Ends -> BOOLEAN] /\ closed'[e]
         /\ queued' \in [Ends -> Nat]
         /\ \A x \in Ends : queued'[x] <= queued[x] /\ (closed[x] => closed'[x])
         /\ kind = "tls" => /\ queued' = queued
                            /\ \A x \in Ends : x # e => closed'[x] = closed[x]
<1>1. /\ pipe' = [pipe EXCEPT ![e] = "returned"]
      /\ kind = "tls" => queued' = queued
  BY DEF Return
<1>2. queued' \in [Ends -> Nat] /\ \A x \in Ends : queued'[x] <= queued[x]
  BY DEF Return, TypeOK
<1>3. CASE kind = "tls"
  <2>1. closed \in [Ends -> BOOLEAN] /\ closed' = [closed EXCEPT ![e] = TRUE]
    BY <1>3 DEF TypeOK, Return
  <2>2. closed' \in [Ends -> BOOLEAN]
    BY <2>1
  <2>3. \A x \in Ends : closed'[x] = IF x = e THEN TRUE ELSE closed[x]
    BY <2>1
  <2> QED
    BY <1>1, <1>2, <2>2, <2>3
<1>4. CASE kind # "tls"
  <2> DEFINE down == {e} \cup (IF broken THEN {} ELSE {Peer(e)})
  <2>1. closed' = [x \in Ends |-> x \in down \/ closed[x]] /\ e \in down
    BY <1>4 DEF Return
  <2> HIDE DEF down
  <2>2. /\ closed' \in [Ends -> BOOLEAN] /\ closed'[e]
        /\ \A x \in Ends : closed[x] => closed'[x]
    BY <2>1
  <2> QED
    BY <1>1, <1>2, <1>4, <2>2
<1> QED
  BY <1>3, <1>4

(* A receiver that has the payload has it because it was written. *)
LEMMA GotAll ==
  ASSUME TypeOK, NEW x \in Ends, out[Peer(x)] = stdin[x].units
  PROVE  written[x] = stdin[x].units
<1>1. /\ written[x] \in Nat /\ queued[x] \in Nat /\ arrived[x] \in Nat
      /\ written[x] <= stdin[x].units /\ stdin[x].units \in Nat
      /\ queued[x] + arrived[x] + out[Peer(x)] <= written[x]
  BY StdinFact DEF TypeOK
<1> QED
  BY <1>1

(* An end that has seen the end of its peer's stream copies no more. *)
LEMMA LeaveFact ==
  ASSUME TypeOK, NEW e \in Ends, PeerEnds(e) \/ GraceEnds(e)
  PROVE  /\ pipe'[e] # "copy" /\ pipe'[Peer(e)] = pipe[Peer(e)]
         /\ \A x \in Ends : closed[x] => closed'[x]
         /\ <<given, broken, cut, copier, written, arrived, out>>'
              = <<given, broken, cut, copier, written, arrived, out>>
<1>1. CASE GraceEnds(e) \/ (PeerEnds(e) /\ Return(e))
  <2>1. Return(e)
    BY <1>1 DEF GraceEnds
  <2>2. pipe'[e] # "copy" /\ pipe'[Peer(e)] = pipe[Peer(e)]
    BY <2>1, ReturnFact, PeerFact DEF TypeOK
  <2> QED
    BY <1>1, <2>1, <2>2, ReturnFact DEF GraceEnds, PeerEnds
<1>2. CASE PeerEnds(e) /\ ~Return(e)
  <2>1. /\ pipe' = [pipe EXCEPT ![e] = "grace"]
        /\ closed' = [closed EXCEPT ![e] = @ \/ kind = "webrtc"]
    BY <1>2 DEF PeerEnds
  <2>2. pipe'[e] # "copy" /\ pipe'[Peer(e)] = pipe[Peer(e)]
    BY <2>1, PeerFact DEF TypeOK
  <2>3. \A x \in Ends : closed[x] => closed'[x]
    BY <2>1 DEF TypeOK
  <2> QED
    BY <1>2, <2>2, <2>3 DEF PeerEnds
<1> QED
  BY <1>1, <1>2

LEMMA InitInv == Init => IInv
<1> SUFFICES ASSUME Init PROVE IInv
  OBVIOUS
<1>1. TypeOK
  <2>1. closed \in [Ends -> BOOLEAN] /\ cut \in [Ends -> BOOLEAN] /\ broken \in BOOLEAN
    BY DEF Init
  <2>2. \A e \in Ends : /\ written[e] <= stdin[e].units
                      /\ queued[e] + arrived[e] + out[Peer(e)] <= written[e]
    BY StdinFact, PeerFact DEF Init
  <2> QED
    BY <2>1, <2>2 DEF Init, TypeOK
<1>2. \A e \in Ends : Inv(e)
  BY PeerFact DEF Init, Inv, Conserved, Copied, ToSilent, OverTLS, Running
<1> QED
  BY <1>1, <1>2 DEF IInv

(* Every action keeps the types. *)
LEMMA TypeStep ==
  ASSUME IInv, [Next]_vars
  PROVE  TypeOK'
<1> USE PeerFact, StdinFact DEF IInv, TypeOK, Running
<1>1. ASSUME NEW e \in Ends, CopyIn(e) PROVE TypeOK'
  BY <1>1 DEF CopyIn, given
<1>2. ASSUME NEW e \in Ends, StdinEnds(e) PROVE TypeOK'
  BY <1>2 DEF StdinEnds, given
<1>3. ASSUME NEW e \in Ends, CloseWrite(e) PROVE TypeOK'
  BY <1>3 DEF CloseWrite, given
<1>4. ASSUME NEW e \in Ends, Transfer(e) PROVE TypeOK'
  BY <1>4 DEF Transfer, given
<1>5. ASSUME NEW e \in Ends, CopyOut(e) PROVE TypeOK'
  BY <1>5 DEF CopyOut, given
<1>6. ASSUME NEW e \in Ends, PeerEnds(e) PROVE TypeOK'
  <2>1. CASE stdin[e].tty
    BY <1>6, <2>1, ReturnFact DEF PeerEnds, given
  <2>2. CASE ~stdin[e].tty
    BY <1>6, <2>2 DEF PeerEnds, given
  <2> QED
    BY <2>1, <2>2
<1>7. ASSUME NEW e \in Ends, GraceEnds(e) PROVE TypeOK'
  BY <1>7, ReturnFact DEF GraceEnds, given
<1>8. CASE Break \/ Finished \/ UNCHANGED vars
  BY <1>8 DEF Break, Finished, vars, given
<1> HIDE DEF IInv, TypeOK, Running
<1> QED
  BY <1>1, <1>2, <1>3, <1>4, <1>5, <1>6, <1>7, <1>8 DEF Next, Copier, Main

(* No step loses or invents a unit. *)
LEMMA ConservedStep ==
  ASSUME IInv, [Next]_vars
  PROVE  \A x \in Ends : Conserved(x)'
<1> USE PeerFact, StdinFact DEF IInv, TypeOK, Inv, Running, Conserved
<1>1. ASSUME NEW e \in Ends, CopyIn(e) PROVE \A x \in Ends : Conserved(x)'
  BY <1>1 DEF CopyIn, given
<1>2. ASSUME NEW e \in Ends, StdinEnds(e) PROVE \A x \in Ends : Conserved(x)'
  BY <1>2 DEF StdinEnds, given
<1>3. ASSUME NEW e \in Ends, CloseWrite(e) PROVE \A x \in Ends : Conserved(x)'
  BY <1>3 DEF CloseWrite, given
<1>4. ASSUME NEW e \in Ends, Transfer(e) PROVE \A x \in Ends : Conserved(x)'
  BY <1>4, SMTT(30) DEF Transfer, given
<1>5. ASSUME NEW e \in Ends, CopyOut(e) PROVE \A x \in Ends : Conserved(x)'
  BY <1>5 DEF CopyOut, given
<1>6. ASSUME NEW e \in Ends, PeerEnds(e) PROVE \A x \in Ends : Conserved(x)'
  <2>1. CASE stdin[e].tty
    BY <1>6, <2>1, ReturnFact DEF PeerEnds, StreamOver, given
  <2>2. CASE ~stdin[e].tty
    BY <1>6, <2>2 DEF PeerEnds, StreamOver, given
  <2> QED
    BY <2>1, <2>2
<1>7. ASSUME NEW e \in Ends, GraceEnds(e) PROVE \A x \in Ends : Conserved(x)'
  BY <1>7, ReturnFact DEF GraceEnds, given
<1>8. CASE Break \/ Finished \/ UNCHANGED vars
  BY <1>8 DEF Break, Finished, vars, given
<1> HIDE DEF IInv, TypeOK, Inv, Running, Conserved
<1> QED
  BY <1>1, <1>2, <1>3, <1>4, <1>5, <1>6, <1>7, <1>8 DEF Next, Copier, Main

(* What the state of a goroutine says of its stdin. *)
LEMMA CopiedStep ==
  ASSUME IInv, [Next]_vars
  PROVE  \A x \in Ends : Copied(x)'
<1> USE PeerFact, StdinFact DEF IInv, TypeOK, Inv, Running, Copied
<1>1. ASSUME NEW e \in Ends, CopyIn(e) PROVE \A x \in Ends : Copied(x)'
  BY <1>1 DEF CopyIn, given
<1>2. ASSUME NEW e \in Ends, StdinEnds(e) PROVE \A x \in Ends : Copied(x)'
  BY <1>2 DEF StdinEnds, given
<1>3. ASSUME NEW e \in Ends, CloseWrite(e) PROVE \A x \in Ends : Copied(x)'
  BY <1>3 DEF CloseWrite, given
<1>4. ASSUME NEW e \in Ends, Transfer(e) PROVE \A x \in Ends : Copied(x)'
  BY <1>4 DEF Transfer, given
<1>5. ASSUME NEW e \in Ends, CopyOut(e) PROVE \A x \in Ends : Copied(x)'
  BY <1>5 DEF CopyOut, given
<1>6. ASSUME NEW e \in Ends, PeerEnds(e) PROVE \A x \in Ends : Copied(x)'
  <2>1. CASE stdin[e].tty
    BY <1>6, <2>1, ReturnFact DEF PeerEnds, StreamOver, given
  <2>2. CASE ~stdin[e].tty
    BY <1>6, <2>2 DEF PeerEnds, StreamOver, given
  <2> QED
    BY <2>1, <2>2
<1>7. ASSUME NEW e \in Ends, GraceEnds(e) PROVE \A x \in Ends : Copied(x)'
  BY <1>7, ReturnFact DEF GraceEnds, given
<1>8. CASE Break \/ Finished \/ UNCHANGED vars
  BY <1>8 DEF Break, Finished, vars, given
<1> HIDE DEF IInv, TypeOK, Inv, Running, Copied
<1> QED
  BY <1>1, <1>2, <1>3, <1>4, <1>5, <1>6, <1>7, <1>8 DEF Next, Copier, Main

(* A silent receiver closes last. *)
LEMMA ToSilentStep ==
  ASSUME IInv, [Next]_vars
  PROVE  \A x \in Ends : ToSilent(x)'
<1> USE PeerFact, StdinFact DEF IInv, TypeOK, Inv, Running, ToSilent, Conserved, Copied, OneShot, Silent
<1>1. ASSUME NEW e \in Ends, CopyIn(e) PROVE \A x \in Ends : ToSilent(x)'
  BY <1>1 DEF CopyIn, given
<1>2. ASSUME NEW e \in Ends, StdinEnds(e) PROVE \A x \in Ends : ToSilent(x)'
  BY <1>2 DEF StdinEnds, given
<1>3. ASSUME NEW e \in Ends, CloseWrite(e) PROVE \A x \in Ends : ToSilent(x)'
  BY <1>3 DEF CloseWrite, given
<1>4. ASSUME NEW e \in Ends, Transfer(e) PROVE \A x \in Ends : ToSilent(x)'
  BY <1>4 DEF Transfer, given
<1>5. ASSUME NEW e \in Ends, CopyOut(e) PROVE \A x \in Ends : ToSilent(x)'
  BY <1>5 DEF CopyOut, given
<1>6. ASSUME NEW e \in Ends, PeerEnds(e) PROVE \A x \in Ends : ToSilent(x)'
  <2> SUFFICES ASSUME NEW x \in Ends, ~broken, OneShot(x), Silent(Peer(x))
               PROVE  ToSilent(x)'
    BY <1>6, LeaveFact DEF given
  <2>1. pipe[e] = "copy" /\ closed[Peer(e)] /\ queued[Peer(e)] = 0 /\ arrived[Peer(e)] = 0
    BY <1>6 DEF PeerEnds, StreamOver
  <2>2. CASE e = Peer(x)
    <3>1. ~closed[e] /\ pipe[x] = "copy" /\ written[x] = stdin[x].units
      BY <2>1, <2>2
    <3>2. out[e] = stdin[x].units
      <4>1. /\ queued[x] + arrived[x] + out[e] = written[x]
            /\ queued[x] = 0 /\ arrived[x] = 0 /\ out[e] \in Nat
        BY <2>1, <2>2, <3>1
      <4>2. QED
        BY <3>1, <4>1
    <3> QED
      BY <1>6, <2>2, <3>1, <3>2, LeaveFact DEF given
  <2>3. CASE e = x
    <3>1. pipe[Peer(x)] # "copy" /\ out[Peer(x)] = stdin[x].units
      BY <2>1, <2>3
    <3>2. written[x] = stdin[x].units
      BY <3>1, GotAll
    <3> QED
      BY <1>6, <2>1, <2>3, <3>1, <3>2, LeaveFact DEF given
  <2> QED
    BY <2>2, <2>3
<1>7. ASSUME NEW e \in Ends, GraceEnds(e) PROVE \A x \in Ends : ToSilent(x)'
  <2> SUFFICES ASSUME NEW x \in Ends, ~broken, OneShot(x), Silent(Peer(x))
               PROVE  ToSilent(x)'
    BY <1>7, LeaveFact DEF given
  <2>1. pipe[Peer(x)] # "copy" /\ out[Peer(x)] = stdin[x].units
    BY <1>7 DEF GraceEnds
  <2>2. written[x] = stdin[x].units
    BY <2>1, GotAll
  <2>3. /\ <<stdin, broken, written, out>>' = <<stdin, broken, written, out>>
        /\ pipe'[e] # "copy" /\ pipe'[Peer(e)] = pipe[Peer(e)]
        /\ \A y \in Ends : closed[y] => closed'[y]
    BY <1>7, LeaveFact DEF given
  <2>4. closed'[Peer(x)] /\ pipe'[Peer(x)] # "copy"
    BY <1>7, <2>1, <2>3, ReturnFact DEF GraceEnds
  <2> QED
    BY <2>1, <2>2, <2>3, <2>4
<1>8. CASE Break \/ Finished \/ UNCHANGED vars
  BY <1>8 DEF Break, Finished, vars, given
<1> HIDE DEF IInv, TypeOK, Inv, Running, ToSilent, Conserved, Copied, OneShot, Silent
<1> QED
  BY <1>1, <1>2, <1>3, <1>4, <1>5, <1>6, <1>7, <1>8 DEF Next, Copier, Main

(* Over TLS the grace lets the stdin through. *)
LEMMA OverTLSStep ==
  ASSUME IInv, [Next]_vars
  PROVE  \A x \in Ends : OverTLS(x)'
<1> USE PeerFact, StdinFact DEF IInv, TypeOK, Inv, Running, OverTLS, Conserved, Copied, OneShot
<1>1. ASSUME NEW e \in Ends, CopyIn(e) PROVE \A x \in Ends : OverTLS(x)'
  BY <1>1 DEF CopyIn, given
<1>2. ASSUME NEW e \in Ends, StdinEnds(e) PROVE \A x \in Ends : OverTLS(x)'
  BY <1>2 DEF StdinEnds, given
<1>3. ASSUME NEW e \in Ends, CloseWrite(e) PROVE \A x \in Ends : OverTLS(x)'
  BY <1>3 DEF CloseWrite, given
<1>4. ASSUME NEW e \in Ends, Transfer(e) PROVE \A x \in Ends : OverTLS(x)'
  BY <1>4 DEF Transfer, given
<1>5. ASSUME NEW e \in Ends, CopyOut(e) PROVE \A x \in Ends : OverTLS(x)'
  BY <1>5 DEF CopyOut, given
<1>6. ASSUME NEW e \in Ends, PeerEnds(e) PROVE \A x \in Ends : OverTLS(x)'
  <2>1. CASE stdin[e].tty
    <3> SUFFICES ASSUME NEW x \in Ends, ~broken, OneShot(x), kind = "tls", ~slow, ~stdin[x].tty
                 PROVE  OverTLS(x)'
      BY <1>6 DEF PeerEnds, given
    <3>1. x = Peer(e) /\ Return(e)
      BY <1>6, <2>1 DEF PeerEnds
    <3>2. closed[x] /\ queued[x] = 0 /\ arrived[x] = 0
      BY <1>6, <3>1 DEF PeerEnds, StreamOver
    <3>3. written[x] = stdin[x].units /\ out[e] = stdin[x].units
      BY <3>1, <3>2
    <3> QED
      BY <1>6, <3>1, <3>3 DEF PeerEnds, given
  <2>2. CASE ~stdin[e].tty
    <3> SUFFICES ASSUME NEW x \in Ends, ~broken, OneShot(x), kind = "tls", ~slow, ~stdin[x].tty
                 PROVE  OverTLS(x)'
      BY <1>6 DEF PeerEnds, given
    <3>1. closed[Peer(e)] /\ queued[Peer(e)] = 0 /\ arrived[Peer(e)] = 0
      BY <1>6 DEF PeerEnds, StreamOver
    <3>2. closed'[x] = closed[x]
      BY <1>6, <2>2 DEF PeerEnds
    <3>3. CASE x = Peer(e)
      <4>1. written[x] = stdin[x].units /\ out[e] = stdin[x].units
        BY <3>1, <3>3
      <4> QED
        BY <1>6, <3>3, <4>1, LeaveFact DEF given
    <3>4. CASE x = e
      <4>1. /\ <<stdin, kind, slow, broken, written, out>>'
                 = <<stdin, kind, slow, broken, written, out>>
            /\ pipe'[Peer(x)] = pipe[Peer(x)]
        BY <1>6, <3>4, LeaveFact DEF given
      <4>2. OverTLS(x)
        OBVIOUS
      <4> QED
        BY <3>2, <4>1, <4>2
    <3> QED
      BY <3>3, <3>4
  <2> QED
    BY <2>1, <2>2
<1>7. ASSUME NEW e \in Ends, GraceEnds(e) PROVE \A x \in Ends : OverTLS(x)'
  <2> SUFFICES ASSUME NEW x \in Ends, ~broken, OneShot(x), kind = "tls", ~slow, ~stdin[x].tty
               PROVE  OverTLS(x)'
    BY <1>7 DEF GraceEnds, given
  <2>1. /\ <<stdin, kind, slow, broken, written, out>>'
             = <<stdin, kind, slow, broken, written, out>>
        /\ \A y \in Ends : y # e => pipe'[y] = pipe[y] /\ closed'[y] = closed[y]
        /\ pipe[e] = "grace" /\ (copier[e] = "done" \/ ~stdin[e].ends)
    BY <1>7, ReturnFact DEF GraceEnds, given
  <2>2. closed'[x] => written[x] = stdin[x].units
    BY <2>1
  <2>3. pipe'[Peer(x)] # "copy" => out[Peer(x)] = stdin[x].units
    BY <2>1
  <2>4. QED
    BY <2>1, <2>2, <2>3
<1>8. CASE Break \/ Finished \/ UNCHANGED vars
  BY <1>8 DEF Break, Finished, vars, given
<1> HIDE DEF IInv, TypeOK, Inv, Running, OverTLS, Conserved, Copied, OneShot
<1> QED
  BY <1>1, <1>2, <1>3, <1>4, <1>5, <1>6, <1>7, <1>8 DEF Next, Copier, Main

LEMMA Inductive == Spec => []IInv
<1>1. IInv /\ [Next]_vars => IInv'
  BY TypeStep, ConservedStep, CopiedStep, ToSilentStep, OverTLSStep DEF IInv, Inv
<1> QED
  BY <1>1, InitInv, PTL DEF Spec

-----------------------------------------------------------------------------
(* The steps that move no unit to a stdout, end no pipeBiDirectional and   *)
(* break nothing are stutters of Delivery.                                 *)
LEMMA Stutter ==
  ASSUME UNCHANGED <<given, broken, out>>, \A e \in Ends : Running(e)' = Running(e)
  PROVE  UNCHANGED Promise!vars
BY PeerFact DEF given, Promise!vars, Owed, OneShot, Silent

(* An end that leaves its copy does so with all that it is owed. *)
LEMMA Left ==
  ASSUME IInv, NEW e \in Ends, PeerEnds(e) \/ GraceEnds(e)
  PROVE  Owed(Peer(e)) => out[e] = stdin[Peer(e)].units
<1> SUFFICES ASSUME Owed(Peer(e)) PROVE out[e] = stdin[Peer(e)].units
  OBVIOUS
<1>1. ASSUME [Next]_vars PROVE Inv(Peer(e))'
  BY <1>1, ToSilentStep, OverTLSStep, ConservedStep, CopiedStep, PeerFact DEF Inv
<1>2. Inv(Peer(e))'
  BY <1>1 DEF Next, Main
<1>3. UNCHANGED <<given, broken, out>> /\ pipe'[e] # "copy" /\ Peer(Peer(e)) = e
  BY LeaveFact, PeerFact DEF IInv
<1> QED
  BY <1>2, <1>3 DEF Inv, ToSilent, OverTLS, Owed, OneShot, Silent, given

(* A read of the connection is a Deliver. *)
LEMMA OutStep ==
  ASSUME IInv, NEW e \in Ends, CopyOut(e)
  PROVE  Promise!Deliver(Peer(e))
<1>1. UNCHANGED <<given, broken, pipe>> /\ Running(e) /\ out' = [out EXCEPT ![e] = @ + 1]
  BY DEF CopyOut, Running
<1>2. out[e] < stdin[Peer(e)].units
  BY PeerFact, StdinFact DEF IInv, TypeOK, CopyOut
<1>3. [x \in Ends |-> out[Peer(x)]]' =
        [[x \in Ends |-> out[Peer(x)]] EXCEPT ![Peer(e)] = @ + 1]
  BY <1>1, PeerFact DEF IInv, TypeOK
<1> QED
  BY <1>1, <1>2, <1>3, PeerFact DEF Promise!Deliver, given, Owed, OneShot, Silent, Running

(* A return is a Finish. *)
LEMMA ReturnStep ==
  ASSUME IInv, NEW e \in Ends, PeerEnds(e) \/ GraceEnds(e), Return(e)
  PROVE  Promise!Finish(Peer(e))
<1>1. UNCHANGED <<given, broken, out>> /\ Running(e)
  BY DEF PeerEnds, GraceEnds, Running
<1>2. [x \in Ends |-> ~Running(Peer(x))]' =
        [[x \in Ends |-> ~Running(Peer(x))] EXCEPT ![Peer(e)] = TRUE]
  <2>1. pipe' = [pipe EXCEPT ![e] = "returned"] /\ pipe \in [Ends -> {"copy", "grace", "returned"}]
    BY DEF Return, IInv, TypeOK
  <2>2. \A x \in Ends : (~Running(Peer(x)))' = IF x = Peer(e) THEN TRUE ELSE ~Running(Peer(x))
    BY <2>1, PeerFact DEF Running
  <2> QED
    BY <2>2
<1>3. Owed(Peer(e)) => out[e] = stdin[Peer(e)].units
  BY Left
<1> QED
  BY <1>1, <1>2, <1>3, PeerFact DEF Promise!Finish, given, Owed, OneShot, Silent

-----------------------------------------------------------------------------
(* Everything the variables of pipeBiDirectional hold keeps its type, and  *)
(* no unit is in two places or beyond its stdin, for all inputs.           *)
THEOREM TypeCorrect == Spec => []TypeOK
BY Inductive, PTL DEF IInv

(* Both ends of a connection in pipe mode, of either kind and with any two *)
(* stdins, implement Delivery.                                             *)
THEOREM ImplementsDelivery == Spec => Delivers
<1>1. Init => Promise!Init
  <2> SUFFICES ASSUME Init PROVE Promise!Init
    OBVIOUS
  <2>1. \A e \in Ends : out[Peer(e)] = 0 /\ Running(Peer(e)) /\ Owed(e) \in BOOLEAN
    BY PeerFact DEF Init, Running, Owed
  <2>2. \A e \in Ends : stdin[e].units \in Nat
    BY StdinFact DEF Init
  <2> QED
    BY <2>1, <2>2 DEF Promise!Init
<1>2. IInv /\ [Next]_vars => [Promise!Next]_(Promise!vars)
  <2> SUFFICES ASSUME IInv, [Next]_vars PROVE Promise!Next \/ UNCHANGED Promise!vars
    OBVIOUS
  <2>1. ASSUME NEW e \in Ends, Copier(e) \/ Transfer(e) PROVE UNCHANGED Promise!vars
    BY <2>1, Stutter DEF Copier, CopyIn, StdinEnds, CloseWrite, Transfer, Running
  <2>2. ASSUME NEW e \in Ends, CopyOut(e) PROVE Promise!Next
    BY <2>2, OutStep, PeerFact DEF Promise!Next
  <2>3. ASSUME NEW e \in Ends, PeerEnds(e) \/ GraceEnds(e), Return(e) PROVE Promise!Next
    BY <2>3, ReturnStep, PeerFact DEF Promise!Next
  <2>4. ASSUME NEW e \in Ends, PeerEnds(e), ~Return(e) PROVE UNCHANGED Promise!vars
    <3>1. pipe[e] = "copy" /\ pipe' = [pipe EXCEPT ![e] = "grace"]
      BY <2>4 DEF PeerEnds
    <3>2. \A x \in Ends : Running(x)' = Running(x)
      BY <3>1 DEF Running, IInv, TypeOK
    <3> QED
      BY <2>4, <3>2, Stutter DEF PeerEnds
  <2>5. CASE Break
    BY <2>5 DEF Break, given, Promise!Next, Promise!Lose, Owed, Running
  <2>6. CASE Finished \/ UNCHANGED vars
    BY <2>6, Stutter DEF Finished, vars, Running
  <2>7. \A e \in Ends : GraceEnds(e) => Return(e)
    BY DEF GraceEnds
  <2> QED
    BY <2>1, <2>2, <2>3, <2>4, <2>5, <2>6, <2>7 DEF Next, Main
<1> QED
  BY <1>1, <1>2, Inductive, PTL DEF Spec, Delivers, Promise!Spec

-----------------------------------------------------------------------------
(* An action keeps what is known of the ends that are over. *)
LEMMA EndStep ==
  ASSUME IInv, EndInv, [Next]_vars
  PROVE  EndInv'
<1> USE PeerFact, StdinFact DEF IInv, TypeOK, EndInv, Ended, Running, OneShot
<1>1. ASSUME NEW e \in Ends, CopyIn(e) PROVE EndInv'
  BY <1>1 DEF CopyIn, given
<1>2. ASSUME NEW e \in Ends, StdinEnds(e) PROVE EndInv'
  BY <1>2 DEF StdinEnds, given
<1>3. ASSUME NEW e \in Ends, CloseWrite(e) PROVE EndInv'
  BY <1>3 DEF CloseWrite, given
<1>4. ASSUME NEW e \in Ends, Transfer(e) PROVE EndInv'
  BY <1>4 DEF Transfer, given
<1>5. ASSUME NEW e \in Ends, CopyOut(e) PROVE EndInv'
  BY <1>5 DEF CopyOut, given
<1>6. ASSUME NEW e \in Ends, Return(e),
             UNCHANGED <<given, broken, cut, copier, written, arrived, out>>
      PROVE  EndInv'
  <2>1. /\ pipe' = [pipe EXCEPT ![e] = "returned"] /\ closed'[e]
        /\ queued' \in [Ends -> Nat]
        /\ \A x \in Ends : queued'[x] <= queued[x] /\ (closed[x] => closed'[x])
    BY <1>6, ReturnFact
  <2>2. kind \in {"tls", "webrtc"}
    BY PipeAssumption
  <2>3. kind = "webrtc" /\ ~broken => \A x \in Ends : closed'[x] /\ queued'[x] = 0
    <3> SUFFICES ASSUME kind = "webrtc", ~broken
                 PROVE  \A x \in Ends : closed'[x] /\ queued'[x] = 0
      OBVIOUS
    <3> DEFINE down == {e} \cup (IF broken THEN {} ELSE {Peer(e)})
    <3>1. /\ closed' = [x \in Ends |-> x \in down \/ closed[x]]
          /\ queued' = [x \in Ends |-> IF x \in down THEN 0 ELSE queued[x]]
      BY <1>6 DEF Return
    <3>2. \A x \in Ends : x \in down
      OBVIOUS
    <3> HIDE DEF down
    <3>3. QED
      BY <3>1, <3>2
  <2>4. QED
    BY <1>6, <2>1, <2>2, <2>3 DEF given
<1>7. ASSUME NEW e \in Ends, PeerEnds(e) PROVE EndInv'
  <2>1. CASE Return(e)
    BY <1>6, <1>7, <2>1 DEF PeerEnds
  <2>2. CASE ~Return(e)
    <3>1. /\ pipe' = [pipe EXCEPT ![e] = "grace"] /\ pipe[e] = "copy"
          /\ UNCHANGED <<given, broken, cut, copier, queued>>
      BY <1>7, <2>2 DEF PeerEnds
    <3>2. \A x \in Ends : closed[x] => closed'[x]
      BY <1>7, LeaveFact
    <3>3. QED
      BY <3>1, <3>2 DEF given
  <2>3. QED
    BY <2>1, <2>2
<1>8. ASSUME NEW e \in Ends, GraceEnds(e) PROVE EndInv'
  BY <1>6, <1>8 DEF GraceEnds
<1>9. CASE Break
  <2>1. /\ UNCHANGED <<kind, stdin, copier, pipe, queued, closed>>
        /\ ~broken /\ broken' = TRUE
    BY <1>9 DEF Break, given
  <2>2. \A x \in Ends : /\ cut'[x] => kind = "webrtc"
                        /\ kind = "webrtc" /\ ~cut'[x] => closed[x] /\ queued[x] = 0
    BY <1>9 DEF Break
  <2>3. QED
    BY <2>1, <2>2
<1>91. CASE Finished \/ UNCHANGED vars
  BY <1>91 DEF Finished, vars, given
<1> HIDE DEF IInv, TypeOK, EndInv, Ended, Running, OneShot
<1>10. QED
  BY <1>1, <1>2, <1>3, <1>4, <1>5, <1>7, <1>8, <1>9, <1>91
  DEF Next, Copier, Main

LEMMA EndHolds == Spec => []EndInv
<1>1. Init => EndInv
  BY DEF Init, EndInv, Ended, Running
<1>2. QED
  BY <1>1, Inductive, EndStep, PTL DEF Spec

(* What a stuck end would be: one that reads from a peer whose stream has  *)
(* not ended, with nothing on its way.                                     *)
LEMMA StuckEnd ==
  ASSUME IInv, EndInv, NEW e \in Ends, ~broken, Running(e),
         \A x \in Ends : ~CopierCanMove(x) /\ ~CanTransfer(x) /\ ~MainCanMove(x)
  PROVE  pipe[e] = "copy" /\ ~closed[Peer(e)] /\ Running(Peer(e))
<1> USE PeerFact, StdinFact DEF IInv, TypeOK, Running
<1>1. queued[Peer(e)] = 0
  BY SMTT(30) DEF CanTransfer
<1>2. pipe[e] # "grace"
  <2> SUFFICES ASSUME pipe[e] = "grace" PROVE FALSE
    OBVIOUS
  <2>1. copier[e] # "done" /\ stdin[e].ends /\ ~slow
    BY DEF MainCanMove
  <2>2. copier[e] = "flush" /\ kind # "tls" /\ queued[e] # 0
    BY <2>1 DEF CopierCanMove
  <2>3. ~Running(Peer(e)) /\ kind = "webrtc"
    BY <2>2, PipeAssumption DEF CanTransfer
  <2>4. QED
    BY <2>2, <2>3 DEF EndInv, Ended
<1>3. pipe[e] = "copy"
  BY <1>2
<1>4. ~closed[Peer(e)]
  <2>1. ~CutOff(e)
    BY DEF EndInv, Ended, CutOff
  <2>2. QED
    BY <1>1, <1>3, <2>1 DEF MainCanMove, StreamOver
<1>5. QED
  BY <1>3, <1>4 DEF EndInv, Ended

(* The two ends never wait for each other, whatever their stdins hold: a   *)
(* stuck end waits for a stream that has not ended, so both run, and the   *)
(* goroutine of the one-shot sender, which is done, has ended its stream.  *)
(* After a break only an end that it has cut off waits.                    *)
THEOREM NoMutualWait == Spec => []NobodyStuck
<1>1. IInv /\ EndInv => NobodyStuck
  <2> SUFFICES ASSUME IInv, EndInv, broken \/ \E e \in Ends : OneShot(e),
                      NEW r \in Ends, Running(r), ~CutOff(r),
                      \A x \in Ends : ~CopierCanMove(x) /\ ~CanTransfer(x)
                                      /\ ~MainCanMove(x)
               PROVE  FALSE
    BY DEF NobodyStuck
  <2>1. ~broken
    <3> SUFFICES ASSUME broken PROVE FALSE
      OBVIOUS
    <3>1. kind = "tls" \/ (closed[Peer(r)] /\ queued[Peer(r)] = 0)
      BY PeerFact, PipeAssumption DEF EndInv, Ended, CutOff, IInv, TypeOK
    <3>2. pipe[r] \in {"copy", "grace"} /\ arrived[Peer(r)] \in Nat
      BY PeerFact DEF IInv, TypeOK, Running
    <3>3. QED
      BY <3>1, <3>2 DEF MainCanMove, StreamOver
  <2>2. PICK e \in Ends : OneShot(e)
    BY <2>1
  <2>3. \A x \in Ends : Running(x) /\ ~closed[x]
    <3>1. ~closed[Peer(r)] /\ Running(Peer(r)) /\ Peer(r) \in Ends
      BY <2>1, StuckEnd, PeerFact
    <3>2. ~closed[Peer(Peer(r))]
      BY <2>1, <3>1, StuckEnd
    <3>3. QED
      BY <3>1, <3>2, PeerFact
  <2>4. /\ copier[e] \in {"copy", "flush", "done"} /\ stdin[e].ends
        /\ Running(e) /\ kind \in {"tls", "webrtc"}
        /\ queued[e] \in Nat
    BY <2>2, <2>3, PipeAssumption DEF IInv, TypeOK, OneShot
  <2>5. queued[e] = 0
    BY <2>1, <2>3, <2>4, PeerFact DEF CanTransfer
  <2>6. copier[e] = "done"
    BY <2>4, <2>5 DEF CopierCanMove
  <2>7. QED
    BY <2>1, <2>2, <2>3, <2>6 DEF EndInv, Ended
<1>2. QED
  BY <1>1, Inductive, EndHolds, PTL

(* The stages and the counters are numbers. *)
LEMMA Measures ==
  ASSUME IInv
  PROVE  \A e \in Ends :
           /\ CopierStage(copier[e]) \in Nat /\ PipeStage(pipe[e]) \in Nat
           /\ written[e] \in Nat /\ queued[e] \in Nat /\ out[e] \in Nat
BY DEF IInv, TypeOK, CopierStage, PipeStage

(* A number that stays the same has not gone back. *)
LEMMA AtLeastItself == \A n \in Nat : n >= n
OBVIOUS

(* The steps of the goroutine of an end. *)
LEMMA CopierForward ==
  ASSUME IInv, NEW e \in Ends, Copier(e)
  PROVE  Advances /\ NeverBack
<1> USE Measures DEF IInv, TypeOK
<1>1. broken => broken'
  BY Zenon DEF Copier, CopyIn, StdinEnds, CloseWrite
<1>2. CASE CopyIn(e)
  BY <1>1, <1>2 DEF CopyIn, Advances, NeverBack, CopierStage
<1>3. CASE StdinEnds(e)
  BY <1>1, <1>3 DEF StdinEnds, Advances, NeverBack, CopierStage
<1>4. CASE CloseWrite(e)
  BY <1>1, <1>4 DEF CloseWrite, Advances, NeverBack, CopierStage
<1>5. QED
  BY <1>2, <1>3, <1>4 DEF Copier

(* The steps of the connection, and a unit that is read from it. *)
LEMMA UnitForward ==
  ASSUME IInv, NEW e \in Ends, Transfer(e) \/ CopyOut(e)
  PROVE  Advances /\ NeverBack
<1> USE Measures DEF IInv, TypeOK
<1>1. broken => broken'
  BY Zenon DEF Transfer, CopyOut
<1>2. CASE Transfer(e)
  <2>1. /\ queued' = [queued EXCEPT ![e] = @ - 1]
        /\ UNCHANGED <<copier, pipe, written, out>>
    BY <1>2 DEF Transfer
  <2>2. queued'[e] < queued[e] /\ \A x \in Ends : queued'[x] <= queued[x]
    BY <2>1
  <2> HIDE DEF IInv, TypeOK
  <2>3. QED
    BY <1>1, <2>1, <2>2 DEF Advances, NeverBack
<1>3. CASE CopyOut(e)
  BY <1>1, <1>3, SMTT(30) DEF CopyOut, Advances, NeverBack
<1>4. QED
  BY <1>2, <1>3

(* An end that leaves its copy, or its grace. *)
LEMMA LeaveForward ==
  ASSUME IInv, NEW e \in Ends, PeerEnds(e) \/ GraceEnds(e)
  PROVE  Advances /\ NeverBack
<1> USE DEF IInv, TypeOK
<1>1. UNCHANGED <<broken, copier, written, out>>
  BY LeaveFact
<1>2. broken => broken'
  BY <1>1, Zenon
<1>3. PICK s \in {"grace", "returned"} :
        pipe' = [pipe EXCEPT ![e] = s] /\ PipeStage(s) > PipeStage(pipe[e])
  BY DEF PeerEnds, GraceEnds, Return, PipeStage
<1>4. \A x \in Ends : queued'[x] <= queued[x]
  <2>1. CASE Return(e)
    BY <2>1, ReturnFact
  <2>2. CASE ~Return(e)
    BY <2>2, Measures, SMTT(30) DEF PeerEnds, GraceEnds
  <2>3. QED
    BY <2>1, <2>2
<1>5. pipe'[e] = s /\ \A x \in Ends \ {e} : pipe'[x] = pipe[x]
  BY <1>3
<1>6. Advances
  BY <1>3, <1>5 DEF Advances
<1> HIDE DEF IInv, TypeOK
<1>7. \A x \in Ends : PipeStage(pipe'[x]) >= PipeStage(pipe[x])
  <2>1. PipeStage(s) \in Nat /\ \A x \in Ends : PipeStage(pipe[x]) \in Nat
    BY Measures DEF PipeStage
  <2>2. PipeStage(pipe'[e]) >= PipeStage(pipe[e])
    BY <1>3, <1>5, <2>1
  <2>3. \A x \in Ends \ {e} : PipeStage(pipe'[x]) >= PipeStage(pipe[x])
    BY <1>5, <2>1, AtLeastItself, Zenon
  <2>4. QED
    BY <2>2, <2>3, Zenon
<1>8. \A x \in Ends : /\ CopierStage(copier'[x]) >= CopierStage(copier[x])
                     /\ written'[x] >= written[x] /\ out'[x] >= out[x]
  <2>1. copier' = copier /\ written' = written /\ out' = out
    BY <1>1
  <2> SUFFICES ASSUME NEW x \in Ends
               PROVE  /\ CopierStage(copier[x]) >= CopierStage(copier[x])
                      /\ written[x] >= written[x] /\ out[x] >= out[x]
    BY <2>1, Zenon
  <2>2. CopierStage(copier[x]) \in Nat /\ written[x] \in Nat /\ out[x] \in Nat
    BY Measures, Zenon
  <2>3. QED
    BY <2>2, AtLeastItself, Zenon
<1>9. QED
  BY <1>2, <1>4, <1>6, <1>7, <1>8, Zenon DEF NeverBack

(* Every step of two ends of a connection is a step forward, so that a run *)
(* takes no more of them than the stdins have units and the ends have      *)
(* stages.                                                                 *)
THEOREM NoRestart == Spec => OnlyForward
<1>1. IInv /\ [Next]_vars => [Advances /\ NeverBack]_vars
  <2> SUFFICES ASSUME IInv, Next, vars' # vars PROVE Advances /\ NeverBack
    BY DEF vars
  <2>1. CASE Break
    <3>1. UNCHANGED <<copier, pipe, written, queued, out>>
      BY <2>1 DEF Break
    <3>2. broken' /\ broken' # broken
      BY <2>1, Zenon DEF Break
    <3>3. \A x \in Ends : /\ CopierStage(copier'[x]) >= CopierStage(copier[x])
                         /\ PipeStage(pipe'[x]) >= PipeStage(pipe[x])
                         /\ written'[x] >= written[x] /\ out'[x] >= out[x]
                         /\ queued'[x] <= queued[x]
      BY <3>1, Measures
    <3>4. QED
      BY <3>2, <3>3, Zenon DEF Advances, NeverBack
  <2>2. QED
    BY <2>1, CopierForward, UnitForward, LeaveForward DEF Next, Main, Finished
<1>2. QED
  BY <1>1, Inductive, PTL DEF Spec, OnlyForward
=============================================================================
