\* Two threads that log, a hook that may log itself. An aborted process stops.
SPECIFICATION Spec
CONSTANTS
  Threads = {main, poller}
  Scripted = {main}
  Hooks <- MCHooks
  BuildLevels = {0, 2}
  MaxCalls = 2
INVARIANTS
  LogInv
  LinesAreWhole
  NothingStuck
PROPERTIES
  Heals
CHECK_DEADLOCK FALSE
