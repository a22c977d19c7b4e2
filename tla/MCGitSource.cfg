SPECIFICATION SourceSpec
CONSTANTS
  Callers = {t1, t2}
  Keys = {1, 2}
  Entries = {e1, e2, e3}
  MaxEntries = 1
  TTL = 0
  MaxClock = 1
  Refs <- AllRefs
  None = None
INVARIANTS HonestCommit NeverOlder
PROPERTIES CacheProtocol
