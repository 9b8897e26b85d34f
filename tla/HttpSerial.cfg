\* Two connections and the calls that decide who is served, when a descriptor is
\* closed and what a handler leaves behind; requests that are and are not served.
SPECIFICATION FairSpec
CONSTANTS
  Client = {c1, c2}
  Token <- Tokens
  Request <- ShortRequests
  Route = {"/a"}
  Garbled = "garbled"
  BufferSize = 9
  Code = {200}
  Header = {}
  Length = {}
  Field <- MCField
  Hex <- MCHex
  Byte <- MCByte
  Forms <- MCForms
  None = None
  InitialAddress = {"null"}
  Faults = {"listen", "read"}
  MaxWrites = 1
  MaxHeaders = 0
  MaxLeaks = 0
INVARIANTS
  ServerInv
  FlagMeansBusy
  ClosedExactlyOnce
  IdleIsClean
PROPERTIES
  ServesSerially
  HandleClientReturns
  WaitingIsServed
\* A panic stops the program.
CHECK_DEADLOCK FALSE
