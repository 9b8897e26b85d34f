\* Two threads that panic, hooks set and taken, a pin that changes. An aborted
\* process, and one whose threads all wait in a hook, does stop.
SPECIFICATION Spec
CONSTANTS
  Threads = {main, poller}
  Main = main
  Hooks <- MCHooks
  None = None
  Width = 4
  MaxDepth = 2
  MaxEdges = 2
  MaxGlitches = 1
INVARIANTS
  ThreadsInv
  ReentryStops
  OnlyReentryUncleaned
  CallsHaveEdges
PROPERTIES
  PanicIsFinal
  LastingChangeHeard
CHECK_DEADLOCK FALSE
