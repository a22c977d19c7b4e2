SPECIFICATION Spec
CONSTANTS
  Syncs = {1}
  Workloads = {"w1"}
  Unsupported = {}
  ConfigMaps = {"a"}
  Manifests = {"x", "y"}
  Refs = {"env", "file"}
  EnvRefs = {"env"}
  Commits = {"c1", "c2", "c3", "c4", "c5"}
  BadRender = {"c4"}
  BadManifests = {"c5"}
  ManifestsOf <- SomeManifests
  Specs <- SecretSpecs
  Foreign = {"y"}
  LabelOf <- Unlabelled
  MaxToken = 2
  Moves = {"fault", "crash", "push", "secret", "delete", "stick", "list", "stripFields", "resume"}
  MaxMoves = 4
  Lag = {}
  Ties = FALSE
  User = User
  None = None
INVARIANTS TypeOK NeverForgotten ObjectsGuarded WorkloadsGuarded EstablishedWired
PROPERTIES StampOnlyPublished OneRolloutPerVersion KeepsLifecycle
CHECK_DEADLOCK FALSE
