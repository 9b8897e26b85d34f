\* One connection, one request, no failing call: only how the bytes arrive varies.
SPECIFICATION Spec
CONSTANTS
  Client = {c1}
  Token <- Tokens
  Request <- ShortRequests
  Route = {"/a"}
  Garbled = "garbled"
  BufferSize = 9
  Code = {200}
  Header = {}
  Length = {}
  Field <- MCField
  Hex <- MCHex
  Byte <- MCByte
  Forms <- MCForms
  None = None
  InitialAddress = {"null"}
  Faults = {}
  MaxWrites = 1
  MaxHeaders = 0
  MaxLeaks = 0
INVARIANT NoNewlineMeansPathTooLong
\* A panic stops the program.
CHECK_DEADLOCK FALSE
