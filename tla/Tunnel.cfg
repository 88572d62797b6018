CONSTANTS
  Users = {u1}
  Modes = {"socks", "reverse", "forward", "command", "shell"}
  Links = {"tls", "webrtc"}
  Units = 2
SPECIFICATION FairSpec
INVARIANTS NobodyHangs WholeRequest WholeReply
PROPERTIES EndReachesApp PeersReleased
CHECK_DEADLOCK FALSE
