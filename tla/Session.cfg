CONSTANT Directs = 2
SPECIFICATION FairSpec
INVARIANTS SessionAgreed OnlyToThePeer NobodyStuck
PROPERTIES ServedAsPromised ClientDecides AbandonedHandlersEnd
