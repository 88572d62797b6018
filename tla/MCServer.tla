------------------------------ MODULE MCServer ------------------------------
(* Instances of Server: the flag combinations of the runs. *)
EXTENDS Server

NetcatRelayOnly ==
  {c \in AllConfigs : c.mode = "netcat" /\ ~c.direct /\ c.relay # "none"}
=============================================================================
