\* One connection, every kind of request, every kernel failure, every handler
\* call, an object whose address member started as garbage or as null.
SPECIFICATION Spec
CONSTANTS
  Client = {c1}
  Token <- Tokens
  Request <- AllRequests
  Route = {"/a", "/b"}
  Garbled = "garbled"
  BufferSize = 24
  Code = {200, 500}
  Header = {"X"}
  Length = {1}
  Field <- MCField
  Hex <- MCHex
  Byte <- MCByte
  Forms <- MCForms
  None = None
  InitialAddress = {"null", "garbage"}
  Faults = {"socket", "fcntl", "bind", "listen", "read", "write"}
  MaxWrites = 2
  MaxHeaders = 1
  MaxLeaks = 1
INVARIANTS
  AddressNeedsSocket
  PayloadAsSent
  RoutedAsAsked
  OneReadNeverPanics
  ArgsAsFilled
\* A panic stops the program.
CHECK_DEADLOCK FALSE
