\* The payload's size is said to be checked.
SPECIFICATION Spec
CONSTANTS
  Hooks = {h1}
  DefaultHook = DefaultHook
  Versions = {v1, v2}
  First = v1
  Binaries <- MCBinaries
  None = None
  MaxDepth = 2
INVARIANTS
  InstalledIsWhole
