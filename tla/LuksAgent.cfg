CONSTANTS
  Paths = {p1, p2}
  Volumes = {"root", "data"}
  Place <- RootFirst
  Setups <- SomeSetups
SPECIFICATION FairSpec
INVARIANTS OnlyCryptsetupAnswered AnsweredOnce NoTryWasted NotSilenced RefusalReported
PROPERTIES RequestSettled
