\* Requests, probes, hooks and updates, with a stop after any step.
SPECIFICATION Spec
CONSTANTS
  Hooks = {h1}
  DefaultHook = DefaultHook
  Versions = {v1, v2}
  First = v1
  Binaries <- MCBinaries
  None = None
  MaxDepth = 2
INVARIANTS
  FirmwareInv
  ProbeNeverNests
  RunsWhatIsInstalled
  Recoverable
  NothingHalfWritten
PROPERTIES
  OfferReachesHook
  UpdatesAtomically
