CONSTANTS
  DirectFlags = {TRUE, FALSE}
  Candidates = 1
  Payloads <- BothSend
  Words <- AnyWords
SPECIFICATION FairSpec
INVARIANTS DirectIntact EarlyFallbackIntact
PROPERTIES DirectDelivers 
CHECK_DEADLOCK FALSE
