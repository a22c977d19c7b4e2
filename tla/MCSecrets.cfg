SPECIFICATION FairSpec
CONSTANTS
  Native = {"n", "b"}
  External = {"x"}
  Renamed = {}
  Keyed = {"n"}
  Invalid = {"b"}
  SpecSets <- AddRefs
  MaxDegraded = 2
  MaxChanges = 3
PROPERTIES WiredSeen StickyEstablished Recovers NotMaskedForever
