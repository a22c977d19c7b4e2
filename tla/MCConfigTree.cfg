SPECIFICATION Spec
CONSTANTS
  Catalog <- AllFiles
  Trees <- SmallClearTrees
  Root = FALSE
  Allow = {"s1"}
  Names = {"x", "y"}
  HardLimit = 22
  Margin = 2
  MaxKeyLen = 6
  MaxPushes = 1
  Clones = {1}
  None = None
INVARIANTS RenderExact LimitsExact PrunedToTree
PROPERTIES AllOrNothing
