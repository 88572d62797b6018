CONSTANT Relays = {r1, r2, r3}
SPECIFICATION FairSpec
INVARIANTS DrainQuotaExact LateSessionsClosed
PROPERTIES WinnerKept RaceEnds LateSessionsEventuallyClosed
