----------------------------- MODULE HttpClient -----------------------------
(***************************************************************************)
(* The HTTPClient of the desktop builds (src/src/openssl/client.hpp):      *)
(* begin() connects, with or without TLS, calls back with a Session whose  *)
(* sendRequest() parses what the server sends while it arrives, and        *)
(* releases what it allocated. Every call blocks; what varies is which     *)
(* step fails, how the response is cut into recv()s and when it ends.      *)
(***************************************************************************)
EXTENDS HttpUri

CONSTANTS
  Token,          \* the runs of bytes responses are made of
  Responses,      \* what a server may send
  Version,        \* the token "HTTP/1.x ", nine bytes
  Atoi,           \* the status code each code token reads as, 0 for none
  Spaced,         \* the tokens that contain a space
  Uris,           \* what begin() is called with
  Hosts,          \* the hosts that have an address
  WithTls,        \* IOP_SSL
  Collects,       \* what headersToCollect() is called with
  HeaderKey, HeaderValue,   \* what callbacks add to requests
  Key,            \* the names of headers to collect, in small letters
  KeysOf,         \* the keys a line starts with, ignoring case
  ValueOf,        \* the value cut out of a line after its key
  GarbledStatus,  \* what atoi() may make of a line that is not a status line
  BufferSize,     \* tokens in the receive buffer
  None,
  Faults,         \* the calls that may fail
  MaxSockets      \* bound: sockets that may be lost

Calls == {"wifi", "host", "method", "context", "locations", "bio", "hostname",
          "ssl", "ciphers", "sni", "out", "connect", "handshake", "cert",
          "verify", "socket", "recv", "eof", "write"}

ASSUME BufferAssumption == BufferSize \in Nat \ {0}
ASSUME SocketsAssumption == MaxSockets \in Nat
ASSUME ClientFaultsAssumption == Faults \subseteq Calls
ASSUME TokensAssumption ==
  /\ Atoi \in [Token -> Int]
  /\ KeysOf \in [Token -> SUBSET Key]
  /\ GarbledStatus \subseteq Int
ASSUME ValueAssumption == \A token \in Token : ValueOf[token] # None
ASSUME UrisAssumption == Uris \subseteq UriType /\ Hosts \subseteq Name
ASSUME CollectsAssumption == Collects \subseteq SUBSET Key
ASSUME ResponsesAssumption ==
  \A r \in Responses : r \in Seq(Token) /\ Len(r) >= 2

\* The lines in front of the empty line, with their ends. In a response of HTTP
\* they end with CR LF, and a name of a header is at the beginning of one.
HeadEnd(r) == IF Contains(r, EmptyLine) THEN Find(r, EmptyLine) + 1 ELSE Len(r)
ASSUME HttpAssumption ==
  \A r \in Responses : r[1] = Version =>
    \A i \in 1..HeadEnd(r) :
      /\ r[i] = "LF" => i > 1 /\ r[i - 1] = "CR"
      /\ KeysOf[r[i]] # {} => i > 2 /\ r[i - 2] = "CR" /\ r[i - 1] = "LF"

VARIABLES
  pc,
  step,            \* where begin() is in the TLS ladder
  held,            \* the OpenSSL objects begin() owns
  tls,             \* useTLS of the session
  sockets,         \* descriptors open for plain connections
  headersToCollect,   \* headersToCollect_ of the client
  uri, collecting, added,   \* ctx: the URI, its own headersToCollect, headers
  request,         \* what the server is asked
  failedConnects,  \* history: how many connect() calls failed
  response, left,  \* what the server answers, and what has not arrived yet
  firstLine, isPayload, buff, status, headers, payload,
  result           \* the Response of sendRequest(), then of begin()

ownVars == <<step, held, tls, sockets, failedConnects>>
ctxVars == <<headersToCollect, uri, collecting, added>>
wireVars == <<request, response, left>>
parseVars == <<firstLine, isPayload, buff, status, headers, payload>>
vars == <<pc, ownVars, ctxVars, wireVars, parseVars, result>>

NoHeaders == [k \in Key |-> None]

NoRequestHeaders == [k \in HeaderKey |-> None]

\* Response(status) and Response(code): no headers, no payload. A response of
\* which nothing arrived gets the status the parser starts with.
Bare(code) == [status |-> code, headers |-> NoHeaders, payload |-> <<>>]
IoError == Bare(0)
EmptyStatus == 1000

Blank ==
  /\ firstLine' = TRUE
  /\ isPayload' = FALSE
  /\ buff' = <<>>
  /\ status' = EmptyStatus
  /\ headers' = NoHeaders
  /\ payload' = <<>>

Init ==
  /\ pc = "idle"
  /\ step = 0
  /\ held = {}
  /\ tls = FALSE
  /\ sockets = 0
  /\ failedConnects = 0
  /\ headersToCollect = {}
  /\ uri = None
  /\ collecting = {}
  /\ added = NoRequestHeaders
  /\ request = None
  /\ response = <<>>
  /\ left = <<>>
  /\ firstLine = TRUE
  /\ isPayload = FALSE
  /\ buff = <<>>
  /\ status = EmptyStatus
  /\ headers = NoHeaders
  /\ payload = <<>>
  /\ result = None

(***************************************************************************)
(* begin().                                                                *)
(***************************************************************************)

\* A port that does not parse, a host that has no address, TLS in a build
\* without it; no network, no socket or no OpenSSL method: nothing is owned yet.
Reaches(u) == PortOf(u) # 0 /\ HostOf(u) \in Hosts /\ (u.tls => WithTls)

Refuse(u) ==
  /\ pc = "idle"
  /\ \/ ~Reaches(u)
     \/ Faults \intersect {"wifi", "host"} # {}
     \/ u.tls /\ "method" \in Faults
     \/ ~u.tls /\ "socket" \in Faults
  /\ result' = IoError
  /\ response' = <<>>
  /\ UNCHANGED <<pc, ownVars, ctxVars, request, left, parseVars>>

\* The context of the session has its own copy of what to collect.
Open ==
  /\ pc' = "session"
  /\ collecting' = headersToCollect
  /\ result' = None
  /\ response' = <<>>
  /\ left' = <<>>
  /\ Blank
  /\ UNCHANGED <<headersToCollect, added, request>>

ConnectPlain(u) ==
  /\ pc = "idle"
  /\ Reaches(u) /\ ~u.tls
  /\ uri' = u
  /\ sockets' = sockets + 1
  /\ tls' = FALSE
  /\ Open
  /\ UNCHANGED <<step, held, failedConnects>>

\* The early return that does not close its socket.
ConnectPlainFails(u) ==
  /\ pc = "idle"
  /\ Reaches(u) /\ ~u.tls
  /\ "connect" \in Faults
  /\ failedConnects < MaxSockets
  /\ sockets' = sockets + 1
  /\ failedConnects' = failedConnects + 1
  /\ result' = IoError
  /\ response' = <<>>
  /\ UNCHANGED <<pc, step, held, tls, ctxVars, request, left, parseVars>>

\* The calls that may fail between TLS_client_method() and the session: what
\* each adds to what begin() owns, and what its early return frees.
Rung(call, gets, frees) == [call |-> call, gets |-> gets, frees |-> frees]

\* Mutant of Ladder: the return after a failed handshake forgets BIO_free(out).
LadderKeepingOut == <<
  Rung("context", {"context"}, {}),
  Rung("locations", {}, {"context"}),
  Rung("bio", {"bio"}, {"context"}),
  Rung("hostname", {}, {"bio", "context"}),
  Rung("ssl", {}, {"bio", "context"}),
  Rung("ciphers", {}, {"bio", "context"}),
  Rung("sni", {}, {"bio", "context"}),
  Rung("out", {"out"}, {"bio", "context"}),
  Rung("connect", {}, {"out", "bio", "context"}),
  Rung("handshake", {}, {"bio", "context"}),
  Rung("cert", {}, {"out", "bio", "context"}),
  Rung("verify", {}, {"out", "bio", "context"}) >>

Ladder == <<
  Rung("context", {"context"}, {}),
  Rung("locations", {}, {"context"}),
  Rung("bio", {"bio"}, {"context"}),
  Rung("hostname", {}, {"bio", "context"}),
  Rung("ssl", {}, {"bio", "context"}),
  Rung("ciphers", {}, {"bio", "context"}),
  Rung("sni", {}, {"bio", "context"}),
  Rung("out", {"out"}, {"bio", "context"}),
  Rung("connect", {}, {"out", "bio", "context"}),
  Rung("handshake", {}, {"out", "bio", "context"}),
  Rung("cert", {}, {"out", "bio", "context"}),
  Rung("verify", {}, {"out", "bio", "context"}) >>

BeginTls(u) ==
  /\ pc = "idle"
  /\ Reaches(u) /\ u.tls
  /\ uri' = u
  /\ pc' = "ladder"
  /\ step' = 1
  /\ tls' = TRUE
  /\ UNCHANGED <<held, sockets, failedConnects, headersToCollect, collecting, added,
                 wireVars, parseVars, result>>

\* BIO_do_connect() and BIO_do_handshake() are compared with 0 only, so that a
\* negative result goes on to the next rung as a success does.
Climb ==
  /\ pc = "ladder"
  /\ held' = held \union Ladder[step].gets
  /\ IF step < Len(Ladder)
     THEN /\ step' = step + 1
          /\ UNCHANGED <<pc, ctxVars, wireVars, parseVars, result>>
     ELSE step' = 0 /\ Open /\ UNCHANGED uri
  /\ UNCHANGED <<tls, sockets, failedConnects>>

Fall ==
  /\ pc = "ladder"
  /\ Ladder[step].call \in Faults
  /\ held' = held \ Ladder[step].frees
  /\ step' = 0
  /\ pc' = "idle"
  /\ result' = IoError
  /\ response' = <<>>
  /\ uri' = None
  /\ UNCHANGED <<tls, sockets, failedConnects, headersToCollect, collecting, added,
                 request, left, parseVars>>

Forgets ==
  /\ uri' = None
  /\ collecting' = {}
  /\ added' = NoRequestHeaders
  /\ request' = None
  /\ UNCHANGED headersToCollect

\* The callback returned: with the Response of its request, or with one of its
\* own if it made none.
EndSession ==
  /\ pc = "session"
  /\ pc' = "idle"
  /\ IF tls THEN held' = {} /\ UNCHANGED sockets
     ELSE sockets' = sockets - 1 /\ UNCHANGED held
  /\ Forgets
  /\ UNCHANGED <<step, tls, failedConnects, response, left, parseVars, result>>

\* What the client collects may be set at any time between and in callbacks; a
\* session that is open keeps what it began with.
HeadersToCollect(keys) ==
  /\ pc \in {"idle", "session"}
  /\ headersToCollect' = keys
  /\ UNCHANGED <<pc, ownVars, uri, collecting, added, wireVars, parseVars, result>>

(***************************************************************************)
(* Session::sendRequest(), made once in a session.                         *)
(***************************************************************************)
InSession(next) == pc = "session" /\ result = None /\ response = <<>> /\ pc' = next

\* addHeader() and setAuthorization(): the first value of a key is kept.
AddHeader(key, value) ==
  /\ InSession("session")
  /\ added' = [added EXCEPT ![key] = IF @ = None THEN value ELSE @]
  /\ UNCHANGED <<ownVars, headersToCollect, uri, collecting, wireVars, parseVars, result>>

SendUnconnected ==
  /\ InSession("session")
  /\ "wifi" \in Faults
  /\ result' = IoError
  /\ UNCHANGED <<ownVars, ctxVars, wireVars, parseVars>>

\* The results of the writes are not looked at.
Asks ==
  /\ request' = [tls |-> tls, host |-> HostOf(uri), port |-> PortOf(uri),
                 path |-> PathOf(uri), headers |-> added]
  /\ response' \in Responses
  /\ left' = response'

SendRequest ==
  /\ InSession("recv")
  /\ Asks
  /\ UNCHANGED <<ownVars, ctxVars, parseVars, result>>

\* A write to a connection the server reset raises SIGPIPE, which nothing
\* handles: the process dies.
SendDies ==
  /\ InSession("dead")
  /\ "write" \in Faults
  /\ Asks
  /\ UNCHANGED <<ownVars, ctxVars, parseVars, result>>

Finish(r) == pc' = "session" /\ result' = r

RecvFails ==
  /\ pc = "recv"
  /\ "recv" \in Faults
  /\ Finish(IoError)
  /\ UNCHANGED <<ownVars, ctxVars, wireVars, parseVars>>

\* The server closed its side: when it had sent everything, or earlier.
RecvEnd ==
  /\ pc = "recv"
  /\ left = <<>> \/ "eof" \in Faults
  /\ Finish(IF firstLine THEN Bare(EmptyStatus)
            ELSE [status |-> status, headers |-> headers, payload |-> payload])
  /\ UNCHANGED <<ownVars, ctxVars, wireVars, parseVars>>

\* mutant: looks for the blank line in the payload too.
AfterBlankLineAlways(view) ==
  IF ~firstLine /\ StartsWith(view, CRLF) THEN Drop(view, 2) ELSE view

\* A blank line at the start of what a later recv() returns ends the headers.
AfterBlankLine(view) ==
  IF ~firstLine /\ ~isPayload /\ StartsWith(view, CRLF) THEN Drop(view, 2)
  ELSE view

Recv ==
  /\ pc = "recv"
  /\ \E n \in ReadSizes(left, BufferSize) :
       /\ left' = Drop(left, n)
       /\ buff' = AfterBlankLine(Take(left, n))
       /\ isPayload' = (isPayload \/ buff' # Take(left, n))
       /\ pc' = IF ~isPayload' /\ ~Contains(buff', <<"LF">>) THEN "panic"
                ELSE IF firstLine THEN "first" ELSE "headers"
  /\ UNCHANGED <<ownVars, ctxVars, request, response, firstLine, status, headers,
                 payload, result>>

\* The code ends at the next space, wherever that is.
CodeEnds == \E i \in 3..Len(buff) : buff[i] \in Spaced

StatusLine ==
  /\ pc = "first"
  /\ buff[1] = Version /\ CodeEnds /\ Atoi[buff[2]] > 0
  /\ status' = Atoi[buff[2]]
  /\ firstLine' = FALSE
  /\ buff' = Drop(buff, Find(buff, <<"LF">>))
  /\ pc' = "headers"
  /\ UNCHANGED <<ownVars, ctxVars, wireVars, isPayload, headers, payload, result>>

\* A line that is not a status line may still hold something like a code at
\* the place where one is read.
StatusLineGarbled ==
  /\ pc = "first"
  /\ buff[1] # Version
  /\ status' \in {s \in GarbledStatus : s > 0}
  /\ firstLine' = FALSE
  /\ buff' = Drop(buff, Find(buff, <<"LF">>))
  /\ pc' = "headers"
  /\ UNCHANGED <<ownVars, ctxVars, wireVars, isPayload, headers, payload, result>>

\* Too short, no space, or no positive number.
StatusLineBad ==
  /\ pc = "first"
  /\ buff[1] = Version => ~CodeEnds \/ Atoi[buff[2]] <= 0
  /\ Finish(IoError)
  /\ UNCHANGED <<ownVars, ctxVars, wireVars, parseVars>>

\* One turn of the header loop.
InHeaders == pc = "headers" /\ buff # <<>> /\ ~isPayload

HeaderEnd ==
  /\ InHeaders
  /\ StartsWith(buff, CRLF)
  /\ isPayload' = TRUE
  /\ buff' = Drop(buff, 2)
  /\ UNCHANGED <<pc, ownVars, ctxVars, wireVars, firstLine, status, headers, payload,
                 result>>

\* Mutant of Collected: the last line with a key replaces an earlier one.
CollectedLast(line) ==
  [k \in Key |-> IF k \in KeysOf[line] \intersect collecting THEN ValueOf[line] ELSE headers[k]]

\* emplace: the first line with a key is the one that counts.
Collected(line) ==
  [k \in Key |-> IF k \in KeysOf[line] \intersect collecting /\ headers[k] = None
                 THEN ValueOf[line] ELSE headers[k]]

HeaderLineNotDropped ==       \* mutant: the buffer does not move on
  /\ InHeaders
  /\ Contains(buff, CRLF) /\ ~StartsWith(buff, CRLF)
  /\ headers' = Collected(buff[1])
  /\ UNCHANGED <<pc, ownVars, ctxVars, wireVars, firstLine, isPayload, buff, status,
                 payload, result>>

HeaderLine ==
  /\ InHeaders
  /\ Contains(buff, CRLF) /\ ~StartsWith(buff, CRLF)
  /\ headers' = Collected(buff[1])
  /\ buff' = Drop(buff, Find(buff, CRLF) + 1)
  /\ UNCHANGED <<pc, ownVars, ctxVars, wireVars, firstLine, isPayload, status, payload,
                 result>>

HeaderTooBig ==
  /\ InHeaders
  /\ ~Contains(buff, CRLF)
  /\ Finish(IoError)
  /\ UNCHANGED <<ownVars, ctxVars, wireVars, parseVars>>

\* Mutant of AppendPayload: what is appended stays in the buffer's place.
AppendPayloadAnew ==
  /\ pc = "headers" /\ ~InHeaders
  /\ payload' = buff
  /\ buff' = <<>>
  /\ pc' = "recv"
  /\ UNCHANGED <<ownVars, ctxVars, wireVars, firstLine, isPayload, status, headers, result>>

AppendPayload ==
  /\ pc = "headers" /\ ~InHeaders
  /\ payload' = payload \o buff
  /\ buff' = <<>>
  /\ pc' = "recv"
  /\ UNCHANGED <<ownVars, ctxVars, wireVars, firstLine, isPayload, status, headers, result>>

-----------------------------------------------------------------------------
Connecting ==
  \/ \E u \in Uris : Refuse(u) \/ ConnectPlain(u) \/ ConnectPlainFails(u) \/ BeginTls(u)
  \/ Climb \/ Fall \/ EndSession

Preparing ==
  \/ \E keys \in Collects : HeadersToCollect(keys)
  \/ \E key \in HeaderKey, value \in HeaderValue : AddHeader(key, value)

Receiving == RecvFails \/ RecvEnd \/ Recv

Parsing ==
  \/ StatusLine \/ StatusLineGarbled \/ StatusLineBad
  \/ HeaderEnd \/ HeaderLine \/ HeaderTooBig \/ AppendPayload

Next ==
  \/ Connecting \/ Preparing
  \/ SendUnconnected \/ SendRequest \/ SendDies
  \/ Receiving
  \/ Parsing

Spec == Init /\ [][Next]_vars

\* The parser runs on, and the server sends what it has and then closes.
\* Without the latter a call may block for ever: recv() has no timeout.
FairSpec == Spec /\ WF_vars(Parsing) /\ WF_vars(Receiving)

-----------------------------------------------------------------------------
ResponseType ==
  [status : Int, headers : [Key -> {None} \union {ValueOf[t] : t \in Token}],
   payload : Seq(Token)]

TypeOK ==
  /\ pc \in {"idle", "ladder", "session", "recv", "first", "headers", "panic",
             "dead"}
  /\ step \in 0..Len(Ladder)
  /\ held \subseteq {"context", "bio", "out"}
  /\ sockets \in Nat /\ failedConnects \in Nat
  /\ {tls, firstLine, isPayload} \subseteq BOOLEAN
  /\ headersToCollect \subseteq Key /\ collecting \subseteq Key
  /\ uri = None \/ uri \in Uris
  /\ added \in [HeaderKey -> HeaderValue \union {None}]
  /\ {response, left, buff, payload} \subseteq Seq(Token)
  /\ status \in Int
  /\ headers \in [Key -> {None} \union {ValueOf[t] : t \in Token}]
  /\ result = None \/ result \in ResponseType

\* Between calls begin() owns no OpenSSL object, whichever rung it fell from,
\* and no socket other than those its failed connect()s left open.
OnlyFailedConnectsLeak ==
  /\ pc \in {"idle", "ladder"} => sockets = failedConnects
  /\ pc = "idle" => held = {}
  /\ pc = "session" => (held = {} <=> ~tls)

Exchange == INSTANCE HttpExchange WITH
  phase <- IF pc \in {"idle", "ladder"} THEN "idle"
           ELSE IF pc \in {"panic", "dead"} THEN "dead" ELSE "open",
  outcome <- result

\* However the response is cut into recv()s, a call has one outcome, and unless
\* it is an error it tells the truth about what the server sent.
OneTruthfulOutcome == Exchange!Spec

\* A response the server sent to its end is reported whole: no header that was
\* sent is missed and no byte of the body is dropped at a cut.
NothingLost ==
  result # None /\ result.status \notin {0, EmptyStatus} /\ left = <<>>
    /\ response # <<>> /\ response[1] = Version =>
      /\ result.payload = Exchange!Body(response)
      /\ \A k \in collecting : result.headers[k] = Exchange!HeaderSent(response, k)

\* The server that is asked is the one the URI names, and it is asked for what
\* the URI names. Not promised: a port of more than 16 bits is cut to them, and
\* a path that holds "://" may be cut at the wrong place. A colon in a path is
\* taken for the port's, but then no host is found and nothing is sent.
AskedAsNamed ==
  request # None =>
    /\ request.tls = uri.tls
    /\ request.host = uri.host
    /\ uri.port = <<>> => request.port = DefaultPort(uri)
    /\ uri.port \in Seq(DOMAIN Digit) \ {<<>>} /\ Number(uri.port) \in Port =>
         request.port = Number(uri.port)
    /\ ~Contains(uri.path, Scheme) =>
         request.path = IF uri.path = <<>> THEN <<"/">> ELSE uri.path

\* A request to a server that sends and closes comes to an end.
RequestEnds == pc = "recv" ~> pc \in {"session", "panic"}

\* What is left to do of a response: what has not come weighs more than what is in
\* the buffer, as it may be looked at twice there.
Rank == CASE pc = "recv" -> 1 [] pc = "headers" -> 2 [] pc = "first" -> 3 [] OTHER -> 0
Work == IF Rank = 0 THEN 0 ELSE 4 * Len(left) + Len(buff) + Rank

\* No step of sendRequest() leaves it with as much to do as it had: whatever the
\* server sends, the loops turn finitely often between two recv()s and in all,
\* a line that is no header and an empty piece included.
WorkShrinks == [][Rank # 0 => Work' < Work]_vars

\* "Header line used more than 4kb, currently we don't support this"
\* (client.hpp:257): a line of the response is longer than the buffer. The run
\* ClientShortLine refutes it: a recv() that ends within a line is enough.
PanicMeansLongLine ==
  pc = "panic" =>
    \E i \in 1..Len(response) :
      /\ i + BufferSize - 1 <= Len(response)
      /\ ~Contains(SubSeq(response, i, i + BufferSize - 1), <<"LF">>)

-----------------------------------------------------------------------------
\* The inductive invariant of the parser. How much of the response has come, and
\* how much of that has left the buffer:
Got == Len(response) - Len(left)
Dropped == Got - Len(buff)

\* The value of the first of n tokens that starts with a key.
FirstOf(r, n, k) ==
  LET at == {i \in 1..n : k \in KeysOf[r[i]]}
  IN  IF at = {} THEN None
      ELSE ValueOf[r[CHOOSE i \in at : \A j \in at : i <= j]]

\* No line has been parsed yet.
Unparsed ==
  firstLine /\ ~isPayload /\ headers = NoHeaders /\ payload = <<>> /\ Dropped = 0

\* Whole lines have been: the headers are those of the lines dropped, the empty
\* line is not among them. Once it is, what follows it is the payload.
Parsed ==
  LET e == Find(response, EmptyLine)
  IN  /\ status = Atoi[response[2]]
      /\ \A k \in Key : headers[k] =
           IF k \notin collecting THEN None
           ELSE FirstOf(response, IF isPayload THEN HeadEnd(response) ELSE Dropped, k)
      /\ ~isPayload =>
           /\ Dropped >= 2
           /\ response[Dropped - 1] = "CR" /\ response[Dropped] = "LF"
           /\ e = 0 \/ e >= Dropped - 1
           /\ payload = <<>>
      /\ isPayload =>
           /\ e # 0 /\ Dropped >= e + 3
           /\ payload = SubSeq(response, e + 4, Dropped)

ParserInv ==
  /\ pc = "session" /\ response = <<>> => buff = <<>> /\ left = <<>> /\ Unparsed
  /\ pc \in {"recv", "first", "headers"} =>
       /\ response \in Responses
       /\ result = None
       /\ Got \in 0..Len(response) /\ left = Drop(response, Got)
       /\ Dropped \in 0..Got /\ buff = SubSeq(response, Dropped + 1, Got)
       /\ pc = "recv" => buff = <<>>
       /\ pc = "first" => Unparsed /\ Contains(buff, <<"LF">>)
       /\ pc = "headers" => ~firstLine
       /\ firstLine => Unparsed
       /\ ~firstLine /\ response[1] = Version => Parsed

\* What is asked is what the URI of the session reads as.
AskedInv ==
  /\ pc # "idle" => uri \in Uris /\ Reaches(uri) /\ tls = uri.tls
  /\ request # None =>
       /\ pc \notin {"idle", "ladder"}
       /\ request.tls = tls /\ request.host = HostOf(uri)
       /\ request.port = PortOf(uri) /\ request.path = PathOf(uri)

\* At each point of sendRequest() the buffer is the part of the response between
\* what was parsed and what was received, and headers, status and payload are
\* those of the part parsed, wherever the recv()s cut it.
ClientInv == TypeOK /\ ParserInv /\ AskedInv /\ NothingLost
=============================================================================
