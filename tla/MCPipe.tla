------------------------------- MODULE MCPipe -------------------------------
(* Instances of Pipe: the stdins of the two ends. *)
EXTENDS Pipe

Sender(n) == [units |-> n, ends |-> TRUE, tty |-> FALSE]
DevNull == Sender(0)
OpenPipe == [units |-> 0, ends |-> FALSE, tty |-> FALSE]
Terminal == [units |-> 0, ends |-> FALSE, tty |-> TRUE]

OneShots ==
  {[e \in Ends |-> IF e = s THEN Sender(n) ELSE r] :
     s \in Ends, n \in 1..3, r \in {DevNull, OpenPipe, Terminal}}
Exchanges == [Ends -> {Sender(n) : n \in 1..2}]
Typists == [units : {1}, ends : BOOLEAN, tty : {TRUE}]
Sessions ==
  OneShots \cup Exchanges \cup
  {[e \in Ends |-> IF e = s THEN Sender(2) ELSE t] : s \in Ends, t \in Typists}
=============================================================================
