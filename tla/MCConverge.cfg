SPECIFICATION FairSpec
CONSTANTS
  Syncs = {1}
  Workloads = {"w1"}
  Unsupported = {}
  ConfigMaps = {"a", "b"}
  Manifests = {}
  Refs = {"env"}
  EnvRefs = {"env"}
  Commits = {"c1"}
  BadRender = {}
  BadManifests = {}
  ManifestsOf <- NoManifests
  Specs <- RenameSpecs
  Foreign = {}
  LabelOf <- LabelledB
  MaxToken = 1
  Moves = {"fault", "crash", "secret", "delete", "edit", "workload", "stripStamp", "syncNow", "tamper", "foreign"}
  MaxMoves = 2
  Lag = {"configMap", "workload"}
  Ties = FALSE
  User = User
  None = None
PROPERTIES Converges DeletionCompletes
CHECK_DEADLOCK FALSE
