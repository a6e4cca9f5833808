SPECIFICATION Spec
CONSTANTS
  root = root
  n1 = n1
  n2 = n2
  n3 = n3
  Addresses <- MCAddresses
  Root = root
  NULL = NULL
  DefaultDirs <- MCDefaultDirs
  Paths <- MCPaths
  Texts <- MCTexts
PROPERTIES
  OnlyEmptyDirsDeleted
CHECK_DEADLOCK FALSE
