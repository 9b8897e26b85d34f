\* One short response, and nothing fails.
SPECIFICATION Spec
CONSTANTS
  Token <- Tokens
  Responses <- OneResponse
  Version = "HTTP/1.1 "
  Atoi <- MCAtoi
  Spaced <- MCSpaced
  Char <- MCChar
  Digit <- MCDigit
  Uris <- OneUri
  Hosts <- MCHosts
  WithTls = TRUE
  Collects <- MCCollects
  HeaderKey = {}
  HeaderValue = {}
  Key = {"latest_version"}
  KeysOf <- MCKeysOf
  ValueOf <- MCValueOf
  GarbledStatus <- MCGarbled
  BufferSize = 24
  None = None
  Faults = {}
  MaxSockets = 0
INVARIANT PanicMeansLongLine
\* A panic or a signal stops the program.
CHECK_DEADLOCK FALSE
