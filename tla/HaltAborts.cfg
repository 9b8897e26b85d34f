\* A halt is said to pause.
SPECIFICATION Spec
CONSTANTS
  Threads = {main, poller}
  Main = main
  Hooks <- MCHooks
  None = None
  Width = 4
  MaxDepth = 2
  MaxEdges = 2
  MaxGlitches = 1
INVARIANTS
  HaltPauses
CHECK_DEADLOCK FALSE
