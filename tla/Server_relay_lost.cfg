CONSTANTS
  Conns = {c1}
  PoolSize = 1
  Configs <- NetcatRelayOnly
SPECIFICATION FairSpec
PROPERTIES NetcatNoticesDeadRelay
