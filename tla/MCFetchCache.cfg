SPECIFICATION FairSpec
CONSTANTS
  Callers = {t1, t2}
  Keys = {k1, k2, k3}
  Entries = {e1, e2, e3}
  MaxEntries = 1
  TTL = 0
  MaxClock = 1
  None = None
INVARIANTS InUseKept RefsExact SingleFlight UsesComplete NoLeak FootprintBound
PROPERTIES AcquireReturns DeadRemoved
