CONSTANTS
  Relays = {"A", "B"}
  DirectPorts = {TRUE, FALSE}
  Expiry = 2
SPECIFICATION FairSpec
INVARIANTS RememberedIsPublished
PROPERTIES RelayIsFindable LeftRelaysForgotten
