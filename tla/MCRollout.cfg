SPECIFICATION FairSpec
CONSTANTS
  Kinds = {"Deployment", "StatefulSet"}
  Versions = {"v1", "v2"}
  BrokenOf <- OnlyDeploymentsBreak
  MaxReplicas = 2
  Surge = 1
  MovesOf <- Disturbances
  MaxMoves = 2
  Lag = TRUE
  None = None
INVARIANTS CompleteRolledOut
PROPERTIES Settles StuckSurfaced ImplementsRollout
