SPECIFICATION Spec
CONSTANTS
  Catalog <- AllFiles
  Trees <- HiddenObject
  Root = TRUE
  Allow = {"s1"}
  Names = {"x", "y"}
  HardLimit = 22
  Margin = 2
  MaxKeyLen = 6
  MaxPushes = 0
  Clones = {1, 2}
  None = None
INVARIANTS RenderExact
