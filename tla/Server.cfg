CONSTANTS
  Conns = {c1, c2, c3}
  PoolSize = 2
  Configs <- AllConfigs
SPECIFICATION FairSpec
INVARIANT ListensUntilTaken
PROPERTIES AcceptsAsPromised StartUpEnds LeavesSelect ForwardNoticesDeadRelay
