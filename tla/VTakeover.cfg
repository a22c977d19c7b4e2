SPECIFICATION Spec
CONSTANTS
  Syncs = {1, 2}
  Workloads = {"w1"}
  Unsupported = {}
  ConfigMaps = {"a", "b"}
  Manifests = {}
  Refs = {}
  EnvRefs = {}
  Commits = {"c1", "c2"}
  BadRender = {}
  BadManifests = {}
  ManifestsOf <- NoManifests
  Specs <- TwoSpecs
  Foreign = {}
  LabelOf <- Unlabelled
  MaxToken = 1
  Moves = {"delete", "push"}
  MaxMoves = 2
  Lag = {}
  Ties = FALSE
  User = User
  None = None
PROPERTIES UnwireOnlyOwn
CHECK_DEADLOCK FALSE
