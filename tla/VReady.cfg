SPECIFICATION Spec
CONSTANTS
  Syncs = {1}
  Workloads = {"w1"}
  Unsupported = {}
  ConfigMaps = {"a", "b"}
  Manifests = {}
  Refs = {}
  EnvRefs = {}
  Commits = {"c1", "c2"}
  BadRender = {}
  BadManifests = {}
  ManifestsOf <- NoManifests
  Specs <- TwoSpecs
  Foreign = {}
  LabelOf <- Unlabelled
  MaxToken = 1
  Moves = {"edit"}
  MaxMoves = 1
  Lag = {"workload"}
  Ties = FALSE
  User = User
  None = None
PROPERTIES ReadyIsHonest
