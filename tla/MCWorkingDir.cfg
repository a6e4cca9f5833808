SPECIFICATION ShellSpec
CONSTANTS
  root = root
  n1 = n1
  n2 = n2
  n3 = n3
  Addresses <- MCAddresses
  Root = root
  NULL = NULL
  DefaultDirs <- MCDefaultDirs
  Paths <- MCPaths
  Texts <- MCTexts
  PATH = 7
  Args <- MCArgs
  ConfigFile = "f"
  ConfigText <- MCConfigText
  CHUNK = 2
SYMMETRY AddressSymmetry
INVARIANTS
  TypeOK
  Tree
  NoLeak
  FileFits
  CwdIsHere
  ShowsTree
PROPERTIES
  KeepsTree
