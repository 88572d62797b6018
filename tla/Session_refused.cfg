CONSTANT Directs = 0
SPECIFICATION FairSpec
INVARIANTS RefusedIsRejected
