CONSTANTS
  DirectFlags = {TRUE}
  Candidates = 0
  Payloads <- BothSend
  Words <- Text
SPECIFICATION FairSpec
INVARIANTS FallbackIntact
