CONSTANTS
  Kinds = {"tls", "webrtc"}
  Inputs <- Sessions
SPECIFICATION FairSpec
PROPERTIES Delivers OneShotReturns
