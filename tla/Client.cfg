\* Every kind of response, cut in every way, and every step that can fail.
SPECIFICATION FairSpec
CONSTANTS
  Token <- Tokens
  Responses <- MCResponses
  Version = "HTTP/1.1 "
  Atoi <- MCAtoi
  Spaced <- MCSpaced
  Char <- MCChar
  Digit <- MCDigit
  Uris <- MCUris
  Hosts <- MCHosts
  WithTls = TRUE
  Collects <- MCCollects
  HeaderKey = {"Authorization"}
  HeaderValue = {a, b}
  Key = {"latest_version"}
  KeysOf <- MCKeysOf
  ValueOf <- MCValueOf
  GarbledStatus <- MCGarbled
  BufferSize = 24
  None = None
  Faults = {"wifi", "host", "context", "locations", "bio", "hostname", "ssl",
            "ciphers", "sni", "out", "connect", "handshake", "cert", "verify",
            "recv", "eof", "write"}
  MaxSockets = 1
INVARIANTS
  OnlyFailedConnectsLeak
  NothingLost
  AskedAsNamed
  ClientInv
PROPERTIES
  OneTruthfulOutcome
  RequestEnds
  WorkShrinks
\* A panic or a signal stops the program.
CHECK_DEADLOCK FALSE
