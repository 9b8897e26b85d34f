------------------------- MODULE HttpClient_proofs -------------------------
(***************************************************************************)
(* For any URIs, responses and faults: what begin() allocates it releases, *)
(* whichever of its calls fails, save for the socket of a connect() that   *)
(* fails; what is asked is what the URI names; and what is reported of a   *)
(* response, however it is cut into recv()s, is an error or the truth, so  *)
(* that HttpClient implements HttpExchange.                                *)
(***************************************************************************)
EXTENDS HttpClient, ByteStreams_proofs

Rungs == 1..12

\* What begin() owns when it is about to make the call of a rung.
Owned(rung) ==
  {o \in {"context", "bio", "out"} :
     \/ o = "context" /\ rung > 1
     \/ o = "bio" /\ rung > 3
     \/ o = "out" /\ rung > 8}

OpenSockets == IF tls THEN 0 ELSE 1

\* The inductive invariant: it says what is owned on each rung and in a session.
ReleaseInv ==
  /\ tls \in BOOLEAN
  /\ sockets \in Int /\ failedConnects \in Nat
  /\ pc = "idle" => held = {} /\ sockets = failedConnects
  /\ pc = "ladder" =>
       /\ tls
       /\ step \in Rungs
       /\ held = Owned(step)
       /\ sockets = failedConnects
  /\ pc \notin {"idle", "ladder"} =>
       /\ held = IF tls THEN Owned(13) ELSE {}
       /\ sockets = failedConnects + OpenSockets

LEMMA LadderLength == Len(Ladder) = 12
BY DEF Ladder

\* A call that succeeds adds exactly what the next rung expects to be owned.
LEMMA RungGets ==
  ASSUME NEW i \in Rungs
  PROVE  Owned(i) \union Ladder[i].gets = Owned(i + 1)
BY DEF Rungs, Owned, Ladder, Rung

\* The early return of each rung frees all that is owned there.
LEMMA RungFrees ==
  ASSUME NEW i \in Rungs
  PROVE  Owned(i) \ Ladder[i].frees = {}
BY DEF Rungs, Owned, Ladder, Rung

LEMMA ReleaseInit == Init => ReleaseInv
<1> SUFFICES ASSUME Init PROVE ReleaseInv OBVIOUS
<1>1. tls \in BOOLEAN BY Zenon DEF Init
<1>2. pc = "idle" /\ held = {} /\ sockets = 0 /\ failedConnects = 0
  BY Zenon DEF Init
<1> QED BY <1>1, <1>2 DEF ReleaseInv

LEMMA ConnectingKeeps ==
  ASSUME ReleaseInv, Connecting
  PROVE  ReleaseInv'
<1> USE DEF ReleaseInv, OpenSockets
<1>1. ASSUME NEW u \in Uris, Refuse(u) PROVE ReleaseInv'
  BY <1>1 DEF Refuse, ownVars
<1>2. ASSUME NEW u \in Uris, ConnectPlain(u) PROVE ReleaseInv'
  <2>1. tls' \in BOOLEAN /\ ~tls' BY <1>2, Zenon DEF ConnectPlain
  <2>2. /\ pc = "idle" /\ pc' = "session" /\ sockets' = sockets + 1
        /\ UNCHANGED <<held, failedConnects>>
    BY <1>2, Zenon DEF ConnectPlain, Open
  <2> QED BY <2>1, <2>2
<1>3. ASSUME NEW u \in Uris, ConnectPlainFails(u) PROVE ReleaseInv'
  BY <1>3 DEF ConnectPlainFails
<1>4. ASSUME NEW u \in Uris, BeginTls(u) PROVE ReleaseInv'
  <2>1. Owned(1) = {} BY DEF Owned
  <2> QED BY <1>4, <2>1 DEF BeginTls, Rungs
<1>5. CASE Climb
  <2>1. step \in Rungs /\ held' = Owned(step + 1) /\ tls
    BY <1>5, RungGets DEF Climb
  <2>2. UNCHANGED <<tls, sockets, failedConnects>> BY <1>5 DEF Climb
  <2>3. CASE step < 12
    <3>1. pc' = "ladder" /\ step' = step + 1
      BY <1>5, <2>3, LadderLength DEF Climb
    <3> QED BY <1>5, <2>1, <2>2, <2>3, <3>1 DEF Climb, Rungs
  <2>4. CASE step = 12
    <3>1. pc' = "session" BY <1>5, <2>4, LadderLength DEF Climb, Open
    <3> QED BY <1>5, <2>1, <2>2, <2>4, <3>1 DEF Climb
  <2> QED BY <2>1, <2>3, <2>4 DEF Rungs
<1>6. CASE Fall
  <2>1. held' = {} BY <1>6, RungFrees DEF Fall
  <2> QED BY <1>6, <2>1 DEF Fall
<1>7. CASE EndSession
  <2>1. CASE tls BY <1>7, <2>1 DEF EndSession
  <2>2. CASE ~tls BY <1>7, <2>2 DEF EndSession
  <2> QED BY <2>1, <2>2
<1> QED BY <1>1, <1>2, <1>3, <1>4, <1>5, <1>6, <1>7 DEF Connecting

\* What a callback prepares is none of what begin() owns.
LEMMA PreparingKeeps ==
  ASSUME ReleaseInv, Preparing
  PROVE  ReleaseInv'
<1>1. UNCHANGED <<pc, ownVars>>
  BY Zenon DEF Preparing, HeadersToCollect, AddHeader, InSession
<1> QED BY <1>1 DEF ReleaseInv, ownVars, OpenSockets

\* A request changes none of what begin() owns, and stays within the session.
LEMMA RequestKeeps ==
  ASSUME ReleaseInv, SendUnconnected \/ SendRequest \/ SendDies \/ Receiving \/ Parsing
  PROVE  ReleaseInv'
<1>1. UNCHANGED ownVars
  BY Zenon DEF SendUnconnected, SendRequest, SendDies, Receiving, RecvFails,
     RecvEnd, Recv, Parsing, StatusLine, StatusLineGarbled, StatusLineBad,
     HeaderEnd, HeaderLine, HeaderTooBig, AppendPayload
<1>2. pc \notin {"idle", "ladder"}
  BY DEF SendUnconnected, SendRequest, SendDies, InSession, Receiving, RecvFails,
     RecvEnd, Recv, Parsing, StatusLine, StatusLineGarbled, StatusLineBad,
     InHeaders, HeaderEnd, HeaderLine, HeaderTooBig, AppendPayload
<1>3. pc' \notin {"idle", "ladder"}
  <2>1. CASE SendUnconnected \/ SendRequest \/ SendDies
    BY <2>1 DEF SendUnconnected, SendRequest, SendDies, InSession
  <2>2. CASE Receiving
    <3>1. CASE RecvFails \/ RecvEnd BY <3>1 DEF RecvFails, RecvEnd, Finish
    <3>2. CASE Recv
      <4>1. pc' \in {"panic", "first", "headers"} BY <3>2, Zenon DEF Recv
      <4> QED BY <4>1
    <3> QED BY <2>2, <3>1, <3>2 DEF Receiving
  <2>3. CASE Parsing
    BY <2>3 DEF Parsing, StatusLine, StatusLineGarbled, StatusLineBad, Finish,
       InHeaders, HeaderEnd, HeaderLine, HeaderTooBig, AppendPayload
  <2> QED BY <2>1, <2>2, <2>3
<1> QED BY <1>1, <1>2, <1>3 DEF ReleaseInv, ownVars, OpenSockets

LEMMA ReleaseNext == ReleaseInv /\ [Next]_vars => ReleaseInv'
<1>1. CASE UNCHANGED vars
  BY <1>1 DEF vars, ownVars, ReleaseInv, OpenSockets
<1> QED BY <1>1, ConnectingKeeps, PreparingKeeps, RequestKeeps DEF Next

\* Between calls nothing is owned but the sockets failed connects left open,
\* and a session owns OpenSSL objects exactly when it is a TLS session.
THEOREM Released == Spec => []OnlyFailedConnectsLeak
<1>1. ReleaseInv => OnlyFailedConnectsLeak
  <2>1. Owned(13) # {} BY DEF Owned
  <2> QED BY <2>1 DEF ReleaseInv, OnlyFailedConnectsLeak
<1> QED BY <1>1, ReleaseInit, ReleaseNext, PTL DEF Spec

-----------------------------------------------------------------------------
\* Types.
Header == [Key -> {None} \union {ValueOf[t] : t \in Token}]

LEMMA NoHeadersType == NoHeaders \in Header
BY DEF NoHeaders, Header

LEMMA BareType == \A code \in Int : Bare(code) \in ResponseType
BY NoHeadersType DEF Bare, ResponseType, Header

LEMMA TypeInit == Init => TypeOK
<1> SUFFICES ASSUME Init PROVE TypeOK OBVIOUS
<1>1. /\ headers \in Header /\ headersToCollect = {} /\ collecting = {}
      /\ response = <<>> /\ left = <<>> /\ buff = <<>> /\ payload = <<>>
  BY NoHeadersType, Zenon DEF Init
<1>2. <<>> \in Seq(Token) OBVIOUS
<1>3. {tls, firstLine, isPayload} \subseteq BOOLEAN /\ pc = "idle" BY Zenon DEF Init
<1>4. step = 0 /\ held = {} /\ sockets = 0 /\ failedConnects = 0 BY Zenon DEF Init
<1>5. uri = None /\ result = None BY Zenon DEF Init
<1>6. added \in [HeaderKey -> HeaderValue \union {None}]
  BY DEF Init, NoRequestHeaders
<1>7. status \in Int BY DEF Init, EmptyStatus
<1> QED BY <1>1, <1>2, <1>3, <1>4, <1>5, <1>6, <1>7, LadderLength DEF TypeOK, Header

\* The variables that a response is parsed into.
ParseType ==
  /\ firstLine \in BOOLEAN /\ isPayload \in BOOLEAN
  /\ buff \in Seq(Token) /\ payload \in Seq(Token)
  /\ status \in Int /\ headers \in Header

LEMMA BlankType == Blank => ParseType'
<1> SUFFICES ASSUME Blank PROVE ParseType' OBVIOUS
<1>1. firstLine' \in BOOLEAN /\ isPayload' \in BOOLEAN BY Zenon DEF Blank
<1>2. buff' \in Seq(Token) /\ payload' \in Seq(Token) BY DEF Blank
<1>3. status' \in Int BY DEF Blank, EmptyStatus
<1>4. headers' \in Header BY NoHeadersType, Zenon DEF Blank
<1> QED BY <1>1, <1>2, <1>3, <1>4 DEF ParseType

\* What types there are beside those and those of begin().
OtherType ==
  /\ headersToCollect \subseteq Key /\ collecting \subseteq Key
  /\ uri = None \/ uri \in Uris
  /\ added \in [HeaderKey -> HeaderValue \union {None}]
  /\ response \in Seq(Token) /\ left \in Seq(Token)
  /\ result = None \/ result \in ResponseType

PcType ==
  /\ pc \in {"idle", "ladder", "session", "recv", "first", "headers", "panic", "dead"}
  /\ step \in 0..12

LEMMA TypeParts ==
  ReleaseInv => (TypeOK <=> PcType /\ held \subseteq {"context", "bio", "out"}
                              /\ ParseType /\ OtherType)
<1> SUFFICES ASSUME ReleaseInv
             PROVE TypeOK <=> PcType /\ held \subseteq {"context", "bio", "out"}
                                /\ ParseType /\ OtherType
  OBVIOUS
<1>1. tls \in BOOLEAN BY Zenon DEF ReleaseInv
<1>2. failedConnects \in Nat /\ sockets \in Int BY DEF ReleaseInv
<1>3. sockets \in Nat BY <1>2 DEF ReleaseInv, OpenSockets
<1>4. {tls, firstLine, isPayload} \subseteq BOOLEAN <=>
        firstLine \in BOOLEAN /\ isPayload \in BOOLEAN
  BY <1>1, Zenon
<1>5. {response, left, buff, payload} \subseteq Seq(Token) <=>
        /\ response \in Seq(Token) /\ left \in Seq(Token)
        /\ buff \in Seq(Token) /\ payload \in Seq(Token)
  BY Zenon
<1> HIDE <1>1
<1> QED BY <1>2, <1>3, <1>4, <1>5, LadderLength, Zenon
        DEF TypeOK, PcType, ParseType, OtherType, Header

LEMMA HeldType == ReleaseInv => held \subseteq {"context", "bio", "out"}
BY DEF ReleaseInv, Owned

LEMMA SameParse == ParseType /\ UNCHANGED parseVars => ParseType'
BY Zenon DEF ParseType, parseVars

LEMMA NoneBare == Bare(0) \in ResponseType /\ Bare(EmptyStatus) \in ResponseType
BY BareType DEF EmptyStatus

LEMMA ConnectingTypes ==
  ASSUME ReleaseInv, PcType, ParseType, OtherType, Connecting
  PROVE  PcType' /\ ParseType' /\ OtherType'
<1> USE DEF PcType
<1>e. <<>> \in Seq(Token) OBVIOUS
<1>1. ASSUME NEW u \in Uris, Refuse(u) PROVE PcType' /\ ParseType' /\ OtherType'
  <2>1. UNCHANGED <<pc, step, parseVars, headersToCollect, uri, collecting, added, left>>
    BY <1>1, Zenon DEF Refuse, ownVars, ctxVars
  <2>2. result' \in ResponseType /\ response' = <<>>
    BY <1>1, NoneBare, Zenon DEF Refuse, IoError
  <2> QED BY <2>1, <2>2, <1>e, SameParse DEF OtherType
<1>2. ASSUME NEW u \in Uris, ConnectPlain(u) PROVE PcType' /\ ParseType' /\ OtherType'
  <2>1. Open /\ uri' = u /\ step' = step BY <1>2, Zenon DEF ConnectPlain
  <2>2. Blank /\ pc' = "session" /\ collecting' = headersToCollect /\ result' = None
        /\ response' = <<>> /\ left' = <<>> /\ UNCHANGED <<headersToCollect, added>>
    BY <2>1, Zenon DEF Open
  <2> QED BY <2>1, <2>2, <1>e, BlankType DEF OtherType
<1>3. ASSUME NEW u \in Uris, ConnectPlainFails(u) PROVE PcType' /\ ParseType' /\ OtherType'
  <2>1. UNCHANGED <<pc, step, parseVars, headersToCollect, uri, collecting, added, left>>
    BY <1>3, Zenon DEF ConnectPlainFails, ctxVars
  <2>2. result' \in ResponseType /\ response' = <<>>
    BY <1>3, NoneBare, Zenon DEF ConnectPlainFails, IoError
  <2> QED BY <2>1, <2>2, <1>e, SameParse DEF OtherType
<1>4. ASSUME NEW u \in Uris, BeginTls(u) PROVE PcType' /\ ParseType' /\ OtherType'
  <2>1. UNCHANGED <<parseVars, headersToCollect, collecting, added, response, left, result>>
    BY <1>4, Zenon DEF BeginTls, wireVars
  <2>2. uri' = u /\ pc' = "ladder" /\ step' = 1 BY <1>4, Zenon DEF BeginTls
  <2> QED BY <2>1, <2>2, SameParse DEF OtherType
<1>5. CASE Climb
  <2>1. step \in Rungs BY <1>5 DEF Climb, ReleaseInv
  <2>2. CASE step < 12
    <3>1. UNCHANGED <<pc, headersToCollect, uri, collecting, added, response, left,
                      parseVars, result>> /\ step' = step + 1
      BY <1>5, <2>2, LadderLength, Zenon DEF Climb, ctxVars, wireVars
    <3> QED BY <2>1, <2>2, <3>1, SameParse DEF OtherType, Rungs
  <2>3. CASE ~(step < 12)
    <3>1. Open /\ uri' = uri /\ step' = 0
      BY <1>5, <2>3, LadderLength, Zenon DEF Climb
    <3>2. Blank /\ pc' = "session" /\ collecting' = headersToCollect /\ result' = None
          /\ response' = <<>> /\ left' = <<>> /\ UNCHANGED <<headersToCollect, added>>
      BY <3>1, Zenon DEF Open
    <3> QED BY <3>1, <3>2, <1>e, BlankType DEF OtherType
  <2> QED BY <2>2, <2>3
<1>6. CASE Fall
  <2>1. UNCHANGED <<parseVars, headersToCollect, collecting, added, left>> /\ uri' = None
    BY <1>6, Zenon DEF Fall
  <2>2. result' \in ResponseType /\ response' = <<>> /\ pc' = "idle" /\ step' = 0
    BY <1>6, NoneBare, Zenon DEF Fall, IoError
  <2> QED BY <2>1, <2>2, <1>e, SameParse DEF OtherType
<1>7. CASE EndSession
  <2>1. UNCHANGED <<step, parseVars, headersToCollect, response, left, result>>
    BY <1>7, Zenon DEF EndSession, Forgets
  <2>2. uri' = None /\ collecting' = {} /\ pc' = "idle" /\ added' = NoRequestHeaders
    BY <1>7, Zenon DEF EndSession, Forgets
  <2> QED BY <2>1, <2>2, SameParse DEF OtherType, NoRequestHeaders
<1> QED BY <1>1, <1>2, <1>3, <1>4, <1>5, <1>6, <1>7 DEF Connecting

LEMMA RequestTypes ==
  ASSUME PcType, ParseType, OtherType,
         Preparing \/ SendUnconnected \/ SendRequest \/ SendDies \/ RecvFails \/ RecvEnd
  PROVE  PcType' /\ ParseType' /\ OtherType'
<1> USE DEF PcType
<1>1. UNCHANGED <<step, parseVars>>
  BY Zenon DEF Preparing, HeadersToCollect, AddHeader, SendUnconnected, SendRequest,
     SendDies, RecvFails, RecvEnd, ownVars
<1>2. ParseType' BY <1>1, SameParse
<1>3. CASE Preparing
  <2>1. UNCHANGED <<pc, uri, collecting, response, left, result>>
    BY <1>3, Zenon DEF Preparing, HeadersToCollect, AddHeader, InSession, wireVars
  <2>2. headersToCollect' \subseteq Key
    BY <1>3, CollectsAssumption DEF Preparing, HeadersToCollect, AddHeader, OtherType
  <2>3. added' \in [HeaderKey -> HeaderValue \union {None}]
    BY <1>3 DEF Preparing, HeadersToCollect, AddHeader, OtherType
  <2> QED BY <1>1, <1>2, <2>1, <2>2, <2>3 DEF OtherType
<1>4. CASE SendUnconnected
  <2>1. UNCHANGED <<headersToCollect, uri, collecting, added, response, left>>
        /\ pc' = "session" /\ result' = Bare(0)
    BY <1>4, Zenon DEF SendUnconnected, InSession, ctxVars, wireVars, IoError
  <2> QED BY <1>1, <1>2, <2>1, NoneBare DEF OtherType
<1>5. CASE SendRequest \/ SendDies
  <2>1. UNCHANGED <<headersToCollect, uri, collecting, added, result>>
        /\ response' \in Responses /\ left' = response' /\ pc' \in {"recv", "dead"}
    BY <1>5 DEF SendRequest, SendDies, InSession, ctxVars, Asks
  <2> QED BY <1>1, <1>2, <2>1, ResponsesAssumption DEF OtherType
<1>6. CASE RecvFails \/ RecvEnd
  <2>1. UNCHANGED <<headersToCollect, uri, collecting, added, response, left>>
        /\ pc' = "session"
    BY <1>6, Zenon DEF RecvFails, RecvEnd, Finish, ctxVars, wireVars
  <2>2. result' \in ResponseType
    <3>1. [status |-> status, headers |-> headers, payload |-> payload] \in ResponseType
      BY DEF ParseType, Header, ResponseType
    <3> QED BY <1>6, <3>1, NoneBare DEF RecvFails, RecvEnd, Finish, IoError
  <2> QED BY <1>1, <1>2, <2>1, <2>2 DEF OtherType
<1> QED BY <1>3, <1>4, <1>5, <1>6

\* What find() returns is never negative, so that what is dropped is a prefix.
LEMMA FindType ==
  ASSUME NEW v \in Seq(Token)
  PROVE  Find(v, CRLF) \in Nat /\ Find(v, <<"LF">>) \in Nat
<1>1. Find(v, CRLF) \in Nat BY FirstEnd
<1>2. Len(v) \in Nat /\ Find(v, <<"LF">>) \in 0..Len(v) BY FirstOne, LenProperties
<1> QED BY <1>1, <1>2

LEMMA RecvTypes ==
  ASSUME PcType, ParseType, OtherType, Recv
  PROVE  PcType' /\ ParseType' /\ OtherType'
<1>1. PICK n \in ReadSizes(left, BufferSize) :
        /\ left' = Drop(left, n)
        /\ buff' = AfterBlankLine(Take(left, n))
        /\ isPayload' = (isPayload \/ buff' # Take(left, n))
        /\ pc' = IF ~isPayload' /\ ~Contains(buff', <<"LF">>) THEN "panic"
                 ELSE IF firstLine THEN "first" ELSE "headers"
  BY Zenon DEF Recv
<1>2. left \in Seq(Token) BY DEF OtherType
<1>3. n \in Nat /\ n \in 0..Len(left)
  <2>1. n \in 1..Len(left) BY <1>2, ReadSizesType, BufferAssumption
  <2> QED BY <2>1
<1>4. left' \in Seq(Token) BY <1>1, <1>2, <1>3, DropType
<1>5. Take(left, n) \in Seq(Token) BY <1>2, <1>3, TakeType
<1>6. Drop(Take(left, n), 2) \in Seq(Token) BY <1>5, DropType
<1>7. buff' \in Seq(Token) BY <1>1, <1>5, <1>6, Zenon DEF AfterBlankLine
<1>8. isPayload' \in BOOLEAN BY <1>1, Zenon
<1>9. UNCHANGED <<step, headersToCollect, uri, collecting, added, response, firstLine,
                  status, headers, payload, result>>
  BY Zenon DEF Recv, ownVars, ctxVars
<1>10. ParseType' BY <1>7, <1>8, <1>9, Zenon DEF ParseType
<1>11. OtherType' BY <1>4, <1>9, Zenon DEF OtherType
<1>12. pc' \in {"panic", "first", "headers"} BY <1>1, Zenon
<1> QED BY <1>9, <1>10, <1>11, <1>12 DEF PcType

LEMMA ParsingTypes ==
  ASSUME PcType, ParseType, OtherType, Parsing
  PROVE  PcType' /\ ParseType' /\ OtherType'
<1>1. UNCHANGED <<step, headersToCollect, uri, collecting, added, response, left>>
  BY Zenon DEF Parsing, StatusLine, StatusLineGarbled, StatusLineBad, HeaderEnd,
     HeaderLine, HeaderTooBig, AppendPayload, ownVars, ctxVars, wireVars
<1>2. pc' \in {"session", "recv", "headers"}
  BY DEF Parsing, StatusLine, StatusLineGarbled, StatusLineBad, HeaderEnd,
     HeaderLine, HeaderTooBig, AppendPayload, Finish, InHeaders
<1>3. result' = None \/ result' \in ResponseType
  <2>1. result' = result \/ result' = Bare(0)
    BY Zenon DEF Parsing, StatusLine, StatusLineGarbled, StatusLineBad, HeaderEnd,
       HeaderLine, HeaderTooBig, AppendPayload, Finish, IoError
  <2> QED BY <2>1, NoneBare, Zenon DEF OtherType
<1>4. PcType' /\ OtherType'
  <2>1. OtherType' BY <1>1, <1>3, Zenon DEF OtherType
  <2> QED BY <1>1, <1>2, <2>1 DEF PcType
<1>5. buff \in Seq(Token) /\ payload \in Seq(Token) BY DEF ParseType
<1>6. \A j \in Nat : Drop(buff, j) \in Seq(Token) BY <1>5, DropType
<1>7. CASE StatusLine
  <2>1. buff' \in Seq(Token) BY <1>5, <1>6, <1>7, FindType DEF StatusLine
  <2>2. status' \in Int
    <3>1. Len(buff) >= 3 BY <1>5, <1>7, LenProperties DEF StatusLine, CodeEnds
    <3>2. buff[2] \in Token BY <1>5, <3>1, ElementOfSeq, LenProperties
    <3> QED BY <1>7, <3>2, TokensAssumption DEF StatusLine
  <2>3. firstLine' = FALSE /\ UNCHANGED <<isPayload, headers, payload>>
    BY <1>7, Zenon DEF StatusLine
  <2> QED BY <1>4, <2>1, <2>2, <2>3 DEF ParseType
<1>8. CASE StatusLineGarbled
  <2>1. buff' \in Seq(Token) BY <1>5, <1>6, <1>8, FindType DEF StatusLineGarbled
  <2>2. status' \in Int BY <1>8, TokensAssumption DEF StatusLineGarbled
  <2>3. firstLine' = FALSE /\ UNCHANGED <<isPayload, headers, payload>>
    BY <1>8, Zenon DEF StatusLineGarbled
  <2> QED BY <1>4, <2>1, <2>2, <2>3 DEF ParseType
<1>9. CASE StatusLineBad \/ HeaderTooBig
  <2>1. UNCHANGED parseVars BY <1>9, Zenon DEF StatusLineBad, HeaderTooBig
  <2> QED BY <1>4, <2>1, SameParse
<1>10. CASE HeaderEnd
  <2>1. buff' \in Seq(Token) BY <1>6, <1>10 DEF HeaderEnd
  <2>2. isPayload' = TRUE /\ UNCHANGED <<firstLine, status, headers, payload>>
    BY <1>10, Zenon DEF HeaderEnd
  <2> QED BY <1>4, <2>1, <2>2 DEF ParseType
<1>11. CASE HeaderLine
  <2>1. Find(buff, CRLF) + 1 \in Nat BY <1>5, FindType
  <2>2. buff' \in Seq(Token) BY <1>6, <1>11, <2>1 DEF HeaderLine
  <2>3. buff[1] \in Token
    <3>1. Len(buff) # 0 BY <1>5, <1>11, EmptySeq DEF HeaderLine, InHeaders
    <3> QED BY <1>5, <3>1, ElementOfSeq, LenProperties
  <2>4. headers' \in Header
    BY <1>11, <2>3 DEF HeaderLine, Collected, ParseType, Header
  <2>5. UNCHANGED <<firstLine, isPayload, status, payload>> BY <1>11, Zenon DEF HeaderLine
  <2> QED BY <1>4, <2>2, <2>4, <2>5 DEF ParseType
<1>12. CASE AppendPayload
  <2>1. buff' \in Seq(Token) /\ payload' \in Seq(Token)
    BY <1>5, <1>12, ConcatProperties DEF AppendPayload
  <2>2. UNCHANGED <<firstLine, isPayload, status, headers>> BY <1>12, Zenon DEF AppendPayload
  <2> QED BY <1>4, <2>1, <2>2 DEF ParseType
<1> QED BY <1>7, <1>8, <1>9, <1>10, <1>11, <1>12 DEF Parsing

TypeInv == ReleaseInv /\ PcType /\ ParseType /\ OtherType

LEMMA TypeInvInit == Init => TypeInv
BY TypeInit, ReleaseInit, TypeParts DEF TypeInv

LEMMA TypeInvNext == TypeInv /\ [Next]_vars => TypeInv'
<1> SUFFICES ASSUME TypeInv, [Next]_vars PROVE TypeInv' OBVIOUS
<1>1. ReleaseInv /\ PcType /\ ParseType /\ OtherType /\ ReleaseInv'
  BY ReleaseNext DEF TypeInv
<1>2. CASE UNCHANGED vars
  <2>1. PcType' /\ ParseType' /\ OtherType'
    BY <1>1, <1>2 DEF vars, ownVars, ctxVars, wireVars, parseVars, PcType, ParseType,
       OtherType
  <2> QED BY <1>1, <2>1 DEF TypeInv
<1>3. CASE Next
  <2>1. PcType' /\ ParseType' /\ OtherType'
    BY <1>1, <1>3, ConnectingTypes, RequestTypes, RecvTypes, ParsingTypes DEF Next, Receiving
  <2> QED BY <1>1, <2>1 DEF TypeInv
<1> QED BY <1>2, <1>3

\* The response and its parts are well-formed in every state, and the steps of
\* begin() stay on the ladder.
THEOREM TypeCorrect == Spec => []TypeOK
<1>1. TypeInv => TypeOK BY TypeParts, HeldType DEF TypeInv
<1> QED BY <1>1, TypeInvInit, TypeInvNext, PTL DEF Spec

-----------------------------------------------------------------------------
\* What has been sent, in the words of HttpExchange and in those of the parser.
Keyed(r, n, k) == {i \in 1..n : k \in KeysOf[r[i]]}

\* What is assumed of the lines of a response, by its positions.
LEMMA Lines ==
  ASSUME NEW r \in Responses
  PROVE  /\ r \in Seq(Token) /\ Len(r) \in Nat /\ Len(r) >= 2
         /\ HeadEnd(r) \in 0..Len(r)
         /\ Find(r, EmptyLine) \in Nat
         /\ Find(r, EmptyLine) = 0 => /\ HeadEnd(r) = Len(r)
                                      /\ \A i \in 1..(Len(r) - 3) : ~BlankAt(r, i)
         /\ Find(r, EmptyLine) # 0 =>
              /\ HeadEnd(r) = Find(r, EmptyLine) + 1
              /\ Find(r, EmptyLine) + 3 <= Len(r)
              /\ BlankAt(r, Find(r, EmptyLine))
              /\ \A i \in 1..(Find(r, EmptyLine) - 1) : ~BlankAt(r, i)
         /\ r[1] = Version => \A i \in 1..HeadEnd(r) :
              /\ r[i] = "LF" => i > 1 /\ r[i - 1] = "CR"
              /\ KeysOf[r[i]] # {} => i > 2 /\ r[i - 2] = "CR" /\ r[i - 1] = "LF"
<1>1. r \in Seq(Token) /\ Len(r) >= 2 BY ResponsesAssumption
<1>2. Len(r) \in Nat BY <1>1, LenProperties
<1> DEFINE e == Find(r, EmptyLine)
<1>3. /\ e \in Nat
      /\ e = 0 => \A i \in 1..(Len(r) - 3) : ~BlankAt(r, i)
      /\ e # 0 => /\ e + 3 <= Len(r)
                  /\ BlankAt(r, e)
                  /\ \A i \in 1..(e - 1) : ~BlankAt(r, i)
  BY <1>1, FirstBlank
<1>4. HeadEnd(r) = IF e # 0 THEN e + 1 ELSE Len(r) BY DEF HeadEnd, Contains
<1> HIDE DEF e
<1>5. HeadEnd(r) \in 0..Len(r) BY <1>2, <1>3, <1>4
<1>6. r[1] = Version => \A i \in 1..HeadEnd(r) :
        /\ r[i] = "LF" => i > 1 /\ r[i - 1] = "CR"
        /\ KeysOf[r[i]] # {} => i > 2 /\ r[i - 2] = "CR" /\ r[i - 1] = "LF"
  BY HttpAssumption, Zenon
<1> QED BY <1>1, <1>2, <1>3, <1>4, <1>5, <1>6 DEF e

\* Tokens that no line starts with do not matter for the first value of a key.
LEMMA FirstSame ==
  ASSUME NEW r, NEW k, NEW n \in Nat, NEW m \in Nat, n <= m,
         \A i \in (n + 1)..m : k \notin KeysOf[r[i]]
  PROVE  FirstOf(r, m, k) = FirstOf(r, n, k)
<1>1. Keyed(r, m, k) = Keyed(r, n, k) BY DEF Keyed
<1> DEFINE Value(at) == IF at = {} THEN None
                       ELSE ValueOf[r[CHOOSE i \in at : \A j \in at : i <= j]]
<1>2. FirstOf(r, m, k) = Value(Keyed(r, m, k)) BY Zenon DEF FirstOf, Keyed
<1>3. FirstOf(r, n, k) = Value(Keyed(r, n, k)) BY Zenon DEF FirstOf, Keyed
<1> HIDE DEF Value
<1> QED BY <1>1, <1>2, <1>3

\* The least of a set of positions is the CHOOSEn one.
LEMMA Least ==
  ASSUME NEW at, at \subseteq Nat, NEW x \in at, \A j \in at : x <= j
  PROVE  (CHOOSE i \in at : \A j \in at : i <= j) = x
<1> DEFINE y == CHOOSE i \in at : \A j \in at : i <= j
<1>1. y \in at /\ \A j \in at : y <= j OBVIOUS
<1> HIDE DEF y
<1>2. y = x BY <1>1
<1> QED BY <1>2 DEF y

\* Once there is a first value it stays the first.
LEMMA FirstStays ==
  ASSUME NEW r, NEW k, NEW n \in Nat, NEW m \in Nat, n <= m, Keyed(r, n, k) # {}
  PROVE  FirstOf(r, m, k) = FirstOf(r, n, k)
<1> DEFINE a == Keyed(r, n, k)
           b == Keyed(r, m, k)
<1>1. a \subseteq Nat /\ b \subseteq Nat /\ a \subseteq b BY DEF Keyed
<1>2. \A j \in b : j \in a \/ j > n BY DEF Keyed
<1>3. \A j \in a : j <= n BY DEF Keyed
<1> HIDE DEF a, b
<1>4. PICK x \in a : \A j \in a : x <= j BY <1>1, Smallest DEF a
<1>5. x \in b /\ \A j \in b : x <= j BY <1>1, <1>2, <1>3, <1>4
<1>6. (CHOOSE i \in a : \A j \in a : i <= j) = x BY <1>1, <1>4, Least, Zenon
<1>7. (CHOOSE i \in b : \A j \in b : i <= j) = x BY <1>1, <1>5, Least, Zenon
<1>8. a # {} /\ b # {} BY <1>4, <1>5
<1>9. FirstOf(r, n, k) = ValueOf[r[x]]
  BY <1>6, <1>8, Zenon DEF FirstOf, a, Keyed
<1>10. FirstOf(r, m, k) = ValueOf[r[x]]
  BY <1>7, <1>8, Zenon DEF FirstOf, b, Keyed
<1> QED BY <1>9, <1>10

\* The token behind n without the key has the first value if it has the key.
LEMMA FirstNew ==
  ASSUME NEW r, NEW k, NEW n \in Nat, Keyed(r, n, k) = {}, k \in KeysOf[r[n + 1]]
  PROVE  FirstOf(r, n + 1, k) = ValueOf[r[n + 1]]
<1>1. Keyed(r, n + 1, k) = {n + 1} BY DEF Keyed
<1>2. (CHOOSE i \in {n + 1} : \A j \in {n + 1} : i <= j) = n + 1
  BY Least
<1>3. Keyed(r, n + 1, k) # {} BY <1>1
<1>4. FirstOf(r, n + 1, k) =
        ValueOf[r[CHOOSE i \in Keyed(r, n + 1, k) : \A j \in Keyed(r, n + 1, k) : i <= j]]
  BY <1>3, Zenon DEF FirstOf, Keyed
<1> QED BY <1>1, <1>2, <1>4

\* FirstOf() is None exactly when no token has the key.
LEMMA FirstNone ==
  ASSUME NEW r \in Seq(Token), NEW k, NEW n \in 0..Len(r)
  PROVE  FirstOf(r, n, k) = None <=> Keyed(r, n, k) = {}
<1>1. ASSUME Keyed(r, n, k) # {} PROVE FirstOf(r, n, k) # None
  <2> DEFINE a == Keyed(r, n, k)
             y == CHOOSE i \in a : \A j \in a : i <= j
  <2>1. a \subseteq Nat /\ a \subseteq 1..Len(r) BY LenProperties DEF Keyed
  <2> HIDE DEF a
  <2>2. \E x \in a : \A j \in a : x <= j BY <1>1, <2>1, Smallest DEF a
  <2>3. y \in a BY <2>2
  <2> HIDE DEF y
  <2>4. r[y] \in Token BY <2>1, <2>3, ElementOfSeq
  <2>5. FirstOf(r, n, k) = ValueOf[r[y]]
    BY <1>1, Zenon DEF FirstOf, Keyed, a, y
  <2> QED BY <2>4, <2>5, ValueAssumption
<1>2. Keyed(r, n, k) = {} => FirstOf(r, n, k) = None
  BY Zenon DEF FirstOf, Keyed
<1> QED BY <1>1, <1>2

LEMMA SameFind ==
  /\ Exchange!EmptyLine = EmptyLine
  /\ \A v, p : Exchange!Find(v, p) = Find(v, p)
  /\ \A v, p : Exchange!Contains(v, p) <=> Find(v, p) # 0
  /\ \A v, n : Exchange!Take(v, n) = Take(v, n)
  /\ \A v, n : Exchange!Drop(v, n) = Drop(v, n)
  /\ \A v, w : Exchange!PrefixOf(v, w) <=> PrefixOf(v, w)
BY Zenon DEF Exchange!EmptyLine, EmptyLine, Exchange!CRLF, CRLF, Exchange!Find, Find,
   Exchange!Contains, Exchange!Take, Take, Exchange!Drop, Drop, Exchange!PrefixOf, PrefixOf

\* The body of a response, and the value of a header that its head holds.
LEMMA SentIs ==
  ASSUME NEW r \in Responses, r[1] = Version
  PROVE  /\ Exchange!Body(r) = IF Find(r, EmptyLine) # 0 THEN Drop(r, Find(r, EmptyLine) + 3)
                               ELSE <<>>
         /\ \A k \in Key : Exchange!HeaderSent(r, k) = FirstOf(r, HeadEnd(r), k)
<1>1. Exchange!Body(r) = IF Find(r, EmptyLine) # 0 THEN Drop(r, Find(r, EmptyLine) + 3)
                         ELSE <<>>
  BY SameFind, Zenon DEF Exchange!Body
<1> DEFINE e == Find(r, EmptyLine)
           h == Exchange!HeadLines(r)
<1>2. h = IF e # 0 THEN Take(r, e) ELSE r
  BY SameFind, Zenon DEF Exchange!HeadLines
<1>3. /\ r \in Seq(Token) /\ Len(r) \in Nat /\ e \in Nat
      /\ e = 0 => HeadEnd(r) = Len(r)
      /\ e # 0 => HeadEnd(r) = e + 1 /\ e + 3 <= Len(r) /\ BlankAt(r, e)
      /\ \A i \in 1..HeadEnd(r) : KeysOf[r[i]] # {} =>
            i > 2 /\ r[i - 2] = "CR" /\ r[i - 1] = "LF"
  BY Lines, Zenon
<1> HIDE DEF e
<1>4. Len(h) = IF e # 0 THEN e ELSE Len(r)
  <2>1. e # 0 => e \in 0..Len(r) BY <1>3
  <2> QED BY <1>2, <1>3, <2>1, TakeType
<1> HIDE DEF h
<1>5. ASSUME NEW k \in Key PROVE Exchange!HeaderSent(r, k) = FirstOf(r, HeadEnd(r), k)
  <2>1. Exchange!HeaderSent(r, k) = FirstOf(r, Len(h), k)
    BY Zenon DEF Exchange!HeaderSent, FirstOf, h
  <2>2. CASE e = 0 BY <1>3, <1>4, <2>1, <2>2
  <2>3. CASE e # 0
    <3>1. e + 1 \in 1..HeadEnd(r) /\ e + 1 - 1 = e /\ HeadEnd(r) = e + 1 BY <1>3, <2>3
    <3>2. r[e] = "CR" BY <1>3, <2>3 DEF BlankAt, EndAt
    <3>3. KeysOf[r[e + 1]] = {} BY <1>3, <3>1, <3>2
    <3>4. (e + 1)..(e + 1) = {e + 1} BY <1>3
    <3>5. FirstOf(r, e + 1, k) = FirstOf(r, e, k)
      <4>1. \A i \in (e + 1)..(e + 1) : k \notin KeysOf[r[i]] BY <3>3, <3>4
      <4> QED BY <1>3, <4>1, FirstSame
    <3> QED BY <1>4, <2>1, <2>3, <3>1, <3>5
  <2> QED BY <2>2, <2>3
<1> QED BY <1>1, <1>5

-----------------------------------------------------------------------------
\* The first d tokens of a response are whole lines of its head.
HeadLines(r, d) ==
  /\ d >= 2
  /\ r[d - 1] = "CR" /\ r[d] = "LF"
  /\ Find(r, EmptyLine) = 0 \/ Find(r, EmptyLine) >= d - 1

\* Dropped up to its first line feed, a response has lost its first line, and
\* no header was in that.
LEMMA HeadBegins ==
  ASSUME NEW r \in Responses, r[1] = Version, NEW m \in Nat, m <= Len(r),
         NEW f \in Nat, f = Find(SubSeq(r, 1, m), <<"LF">>), f # 0
  PROVE  f <= m /\ HeadLines(r, f) /\ \A k \in Key : FirstOf(r, f, k) = None
<1> DEFINE b == SubSeq(r, 0 + 1, m)
           e == Find(r, EmptyLine)
<1>1. /\ r \in Seq(Token) /\ Len(r) \in Nat /\ e \in Nat
      /\ e = 0 => HeadEnd(r) = Len(r)
      /\ e # 0 => HeadEnd(r) = e + 1 /\ BlankAt(r, e)
      /\ \A i \in 1..HeadEnd(r) :
           /\ r[i] = "LF" => i > 1 /\ r[i - 1] = "CR"
           /\ KeysOf[r[i]] # {} => i > 2 /\ r[i - 2] = "CR" /\ r[i - 1] = "LF"
  BY Lines, Zenon
<1>2. b = SubSeq(r, 1, m) OBVIOUS
<1>3. b \in Seq(Token) /\ Len(b) = m /\ \A i \in 1..m : b[i] = r[i]
  <2>1. 0 \in Nat /\ 0 <= m /\ m - 0 = m /\ \A i \in 1..m : 0 + i = i OBVIOUS
  <2>2. b \in Seq(Token) /\ Len(b) = m - 0 /\ \A i \in 1..(m - 0) : b[i] = r[0 + i]
    BY <1>1, <2>1, PieceAfter
  <2> HIDE DEF b
  <2> QED BY <2>1, <2>2
<1> HIDE DEF b, e
<1>4. f \in 1..m /\ b[f] = "LF" /\ \A i \in 1..(f - 1) : b[i] # "LF"
  <2>0. f = Find(b, <<"LF">>) BY DEF b
  <2>1. /\ f \in 0..Len(b)
        /\ b[f] = "LF" /\ \A i \in 1..(f - 1) : b[i] # "LF"
    BY <1>3, <2>0, FirstOne
  <2> QED BY <1>3, <2>1
<1>5. r[f] = "LF" /\ \A i \in 1..(f - 1) : r[i] # "LF" BY <1>3, <1>4
<1>6. e # 0 => f <= e + 1
  <2>1. e # 0 => r[e + 1] = "LF" BY <1>1 DEF BlankAt, EndAt
  <2>2. e # 0 /\ e + 1 < f => e + 1 \in 1..(f - 1) BY <1>1, <1>4
  <2> QED BY <1>1, <1>4, <1>5, <2>1, <2>2
<1>7. f <= HeadEnd(r) /\ HeadEnd(r) \in Nat BY <1>1, <1>4, <1>6
<1>8. f > 1 /\ r[f - 1] = "CR"
  <2>1. f \in 1..HeadEnd(r) BY <1>4, <1>7
  <2> QED BY <1>1, <1>5, <2>1
<1>9. e = 0 \/ e >= f - 1 BY <1>1, <1>4, <1>6
<1>10. ASSUME NEW k \in Key PROVE FirstOf(r, f, k) = None
  <2>1. ASSUME NEW i \in 1..f, k \in KeysOf[r[i]] PROVE FALSE
    <3>1. i \in 1..HeadEnd(r) BY <1>4, <1>7
    <3>2. i > 2 /\ r[i - 1] = "LF" BY <1>1, <2>1, <3>1
    <3>3. i - 1 \in 1..(f - 1) BY <1>4, <3>2
    <3> QED BY <1>5, <3>2, <3>3
  <2>2. Keyed(r, f, k) = {} BY <2>1 DEF Keyed
  <2> QED BY <2>2, Zenon DEF FirstOf, Keyed
<1>11. f >= 2 BY <1>4, <1>8
<1> QED BY <1>4, <1>5, <1>8, <1>9, <1>10, <1>11 DEF HeadLines, e

\* Behind whole lines of the head, a line end is the empty line.
LEMMA HeadEnds ==
  ASSUME NEW r \in Responses, NEW d \in Nat, HeadLines(r, d), d + 2 <= Len(r), EndAt(r, d + 1)
  PROVE  Find(r, EmptyLine) = d - 1 /\ HeadEnd(r) = d
<1> DEFINE e == Find(r, EmptyLine)
<1>1. /\ Len(r) \in Nat /\ e \in Nat
      /\ e = 0 => \A i \in 1..(Len(r) - 3) : ~BlankAt(r, i)
      /\ e # 0 => HeadEnd(r) = e + 1 /\ \A i \in 1..(e - 1) : ~BlankAt(r, i)
  BY Lines, Zenon
<1>2. d >= 2 /\ r[d - 1] = "CR" /\ r[d] = "LF" /\ (e = 0 \/ e >= d - 1) BY DEF HeadLines
<1> HIDE DEF e
<1>3. BlankAt(r, d - 1)
  <2>1. d - 1 + 1 = d /\ d - 1 + 2 = d + 1 OBVIOUS
  <2> QED BY <1>2, <2>1 DEF BlankAt, EndAt
<1>4. d - 1 \in 1..(Len(r) - 3) BY <1>1, <1>2
<1>5. e # 0 BY <1>1, <1>3, <1>4
<1>6. ~(d - 1 \in 1..(e - 1)) BY <1>1, <1>3, <1>5
<1>7. e = d - 1 BY <1>1, <1>2, <1>5, <1>6
<1> QED BY <1>1, <1>5, <1>7 DEF e

\* Dropped up to its first line end, the rest of the head has lost one line, and
\* the only token of it that may be a header is its first.
LEMMA HeadGrows ==
  ASSUME NEW r \in Responses, r[1] = Version, NEW d \in Nat, HeadLines(r, d),
         NEW m \in Nat, d <= m, m <= Len(r),
         NEW f \in Nat, f = Find(SubSeq(r, d + 1, m), CRLF), f # 0, f # 1
  PROVE  /\ d + f + 1 <= m /\ HeadLines(r, d + f + 1)
         /\ \A k \in Key : FirstOf(r, d + f + 1, k) = FirstOf(r, d + 1, k)
<1> DEFINE b == SubSeq(r, d + 1, m)
           e == Find(r, EmptyLine)
<1>1. /\ r \in Seq(Token) /\ Len(r) \in Nat /\ e \in Nat
      /\ e = 0 => HeadEnd(r) = Len(r)
      /\ e # 0 => HeadEnd(r) = e + 1 /\ e + 3 <= Len(r) /\ BlankAt(r, e)
      /\ \A i \in 1..HeadEnd(r) : KeysOf[r[i]] # {} =>
            i > 2 /\ r[i - 2] = "CR" /\ r[i - 1] = "LF"
  BY Lines, Zenon
<1>2. d >= 2 /\ r[d - 1] = "CR" /\ r[d] = "LF" /\ (e = 0 \/ e >= d - 1) BY DEF HeadLines
<1>3. /\ b \in Seq(Token)
      /\ Len(b) = m - d
      /\ \A i \in 1..(m - d - 1) : EndAt(b, i) <=> EndAt(r, d + i)
  BY <1>1, EndsOfPiece, Zenon
<1> HIDE DEF b, e
<1>4. f + 1 <= m - d /\ EndAt(b, f) /\ \A i \in 1..(f - 1) : ~EndAt(b, i)
  BY <1>3, FirstEnd DEF b
<1>5. EndAt(r, d + f) /\ \A i \in 1..(f - 1) : ~EndAt(r, d + i)
  <2>1. f \in 1..(m - d - 1) /\ \A i \in 1..(f - 1) : i \in 1..(m - d - 1) BY <1>4
  <2> QED BY <1>3, <1>4, <2>1
<1>6. \A j \in (d - 1)..(d + f - 1) : j >= d => ~EndAt(r, j)
  <2> SUFFICES ASSUME NEW j \in (d - 1)..(d + f - 1), j >= d PROVE ~EndAt(r, j)
    OBVIOUS
  <2>1. CASE j = d BY <1>2, <2>1 DEF EndAt
  <2>2. CASE j # d
    <3>1. j - d \in 1..(f - 1) /\ d + (j - d) = j BY <2>2
    <3> QED BY <1>5, <3>1
  <2> QED BY <2>1, <2>2
<1>7. e = 0 \/ e >= d + f
  <2> SUFFICES ASSUME e # 0, e < d + f PROVE FALSE BY <1>1
  <2>1. EndAt(r, e) /\ EndAt(r, e + 2) BY <1>1 DEF BlankAt
  <2>2. CASE e = d - 1
    <3>1. e + 2 \in (d - 1)..(d + f - 1) /\ e + 2 >= d BY <1>2, <2>2
    <3> QED BY <1>6, <2>1, <3>1
  <2>3. CASE e # d - 1
    <3>1. e \in (d - 1)..(d + f - 1) /\ e >= d BY <1>1, <1>2, <2>3
    <3> QED BY <1>6, <2>1, <3>1
  <2> QED BY <2>2, <2>3
<1>8. HeadLines(r, d + f + 1)
  <2>1. d + f + 1 >= 2 /\ d + f + 1 - 1 = d + f BY <1>2
  <2> QED BY <1>5, <1>7, <2>1 DEF HeadLines, EndAt, e
<1>9. d + f + 1 <= HeadEnd(r) BY <1>1, <1>4, <1>7
<1>10. ASSUME NEW k \in Key, NEW i \in (d + 1 + 1)..(d + f + 1) PROVE k \notin KeysOf[r[i]]
  <2> SUFFICES ASSUME k \in KeysOf[r[i]] PROVE FALSE OBVIOUS
  <2>1. HeadEnd(r) \in Nat BY <1>1
  <2>2. i \in 1..HeadEnd(r) BY <1>2, <1>9, <2>1
  <2>3. r[i - 2] = "CR" /\ r[i - 1] = "LF" BY <1>1, <2>2
  <2>4. i - 2 + 1 = i - 1 /\ i - 2 \in (d - 1)..(d + f - 1) /\ i - 2 >= d BY <1>2
  <2>5. EndAt(r, i - 2) BY <2>3, <2>4 DEF EndAt
  <2> QED BY <1>6, <2>4, <2>5
<1>11. ASSUME NEW k \in Key PROVE FirstOf(r, d + f + 1, k) = FirstOf(r, d + 1, k)
  <2>1. d + 1 \in Nat /\ d + f + 1 \in Nat /\ d + 1 <= d + f + 1 OBVIOUS
  <2> QED BY <1>10, <2>1, FirstSame
<1> QED BY <1>4, <1>8, <1>11

\* Whole lines of the head are in front of its end.
LEMMA HeadWithin ==
  ASSUME NEW r \in Responses, NEW d \in Nat, d <= Len(r), HeadLines(r, d)
  PROVE  d <= HeadEnd(r)
BY Lines DEF HeadLines

-----------------------------------------------------------------------------
\* What is being read of a response.
LEMMA BeingRead ==
  ASSUME TypeInv, ParserInv, pc \in {"recv", "first", "headers"}
  PROVE  /\ response \in Responses /\ response \in Seq(Token) /\ Len(response) \in Nat
         /\ result = None
         /\ Got \in Nat /\ Got <= Len(response) /\ left = Drop(response, Got)
         /\ Dropped \in Nat /\ Dropped <= Got
         /\ buff = SubSeq(response, Dropped + 1, Got)
         /\ buff \in Seq(Token) /\ Len(buff) = Got - Dropped
         /\ left \in Seq(Token) /\ Len(left) = Len(response) - Got
         /\ pc = "recv" => buff = <<>> /\ Dropped = Got
         /\ pc = "first" => Unparsed /\ Contains(buff, <<"LF">>)
         /\ pc = "headers" => ~firstLine
         /\ firstLine => Unparsed
         /\ ~firstLine /\ response[1] = Version => Parsed
<1>1. /\ response \in Responses /\ result = None
      /\ Got \in 0..Len(response) /\ left = Drop(response, Got)
      /\ Dropped \in 0..Got /\ buff = SubSeq(response, Dropped + 1, Got)
      /\ pc = "recv" => buff = <<>>
      /\ pc = "first" => Unparsed /\ Contains(buff, <<"LF">>)
      /\ pc = "headers" => ~firstLine
      /\ firstLine => Unparsed
      /\ ~firstLine /\ response[1] = Version => Parsed
  BY Zenon DEF ParserInv
<1>2. response \in Seq(Token) /\ Len(response) \in Nat
  BY <1>1, ResponsesAssumption, LenProperties
<1>3. buff \in Seq(Token) /\ left \in Seq(Token) BY DEF TypeInv, ParseType, OtherType
<1>4. Len(buff) \in Nat /\ Len(left) \in Nat BY <1>3, LenProperties
<1>5. Got \in Nat /\ Got <= Len(response) /\ Dropped \in Nat /\ Dropped <= Got
  BY <1>1, <1>2
<1>6. Len(left) = Len(response) - Got BY <1>2, <1>4 DEF Got
<1>7. Len(buff) = Got - Dropped BY <1>4, <1>5 DEF Dropped
<1>8. pc = "recv" => Dropped = Got
  <2>1. pc = "recv" => Len(buff) = 0 BY <1>1
  <2> QED BY <1>5, <1>7, <2>1
<1> QED BY <1>1, <1>2, <1>3, <1>5, <1>6, <1>7, <1>8, Zenon

\* Outside of a request, and once its outcome is known, nothing is being read.
LEMMA NotReading ==
  ASSUME pc' \in {"idle", "ladder", "panic", "dead"} \/ (pc' = "session" /\ response' # <<>>)
  PROVE  ParserInv'
BY DEF ParserInv

LEMMA NotEmpty == \A r \in Responses : r # <<>>
<1> SUFFICES ASSUME NEW r \in Responses, r = <<>> PROVE FALSE OBVIOUS
<1>1. Len(r) >= 2 BY ResponsesAssumption
<1>2. Len(r) = 0 OBVIOUS
<1> QED BY <1>1, <1>2

\* A step that drops tokens from the buffer and nothing else.
LEMMA DropStep ==
  ASSUME TypeInv, ParserInv, pc \in {"recv", "first", "headers"},
         UNCHANGED <<response, left>>,
         NEW j \in Nat, Dropped + j <= Got, buff' = Drop(buff, j)
  PROVE  /\ Got' = Got /\ Dropped' = Dropped + j
         /\ buff' = SubSeq(response, Dropped + j + 1, Got)
<1>1. /\ response \in Seq(Token)
      /\ Got \in Nat /\ Got <= Len(response)
      /\ Dropped \in Nat /\ buff = SubSeq(response, Dropped + 1, Got)
  BY BeingRead, Zenon
<1>2. Got' = Got BY Zenon DEF Got
<1> DEFINE d == Dropped
           g == Got
<1>3. d \in Nat /\ g \in Nat /\ d + j <= g /\ g <= Len(response) BY <1>1
<1>4. buff' = Drop(SubSeq(response, d + 1, g), j) BY <1>1
<1>5. Dropped' = g - Len(buff') BY <1>2, Zenon DEF Dropped
<1> HIDE DEF d, g
<1>6. /\ Drop(SubSeq(response, d + 1, g), j) = SubSeq(response, d + j + 1, g)
      /\ Len(SubSeq(response, d + j + 1, g)) = g - d - j
  BY <1>1, <1>3, DropPiece, SMTT(30)
<1>7. Dropped' = d + j BY <1>3, <1>4, <1>5, <1>6
<1> QED BY <1>2, <1>4, <1>6, <1>7 DEF d, g

LEMMA ConnectingParses ==
  ASSUME TypeInv, ParserInv, Connecting
  PROVE  ParserInv'
<1>1. CASE Open
  <2>1. /\ pc' = "session" /\ response' = <<>> /\ left' = <<>> /\ buff' = <<>>
        /\ firstLine' = TRUE /\ isPayload' = FALSE /\ headers' = NoHeaders /\ payload' = <<>>
    BY <1>1, Zenon DEF Open, Blank
  <2>2. Dropped' = 0
    <3>1. Len(response') = 0 /\ Len(left') = 0 /\ Len(buff') = 0 BY <2>1
    <3> QED BY <3>1 DEF Dropped, Got
  <2>3. headers' = NoHeaders' BY <2>1, Zenon DEF NoHeaders
  <2>4. Unparsed' BY <2>1, <2>2, <2>3 DEF Unparsed
  <2> QED BY <2>1, <2>4 DEF ParserInv
<1>2. CASE ~Open
  <2>1. pc' \in {"idle", "ladder"}
    BY <1>2 DEF Connecting, Refuse, ConnectPlain, ConnectPlainFails, BeginTls, Climb, Fall,
       EndSession
  <2> QED BY <2>1, NotReading
<1> QED BY <1>1, <1>2

LEMMA PreparingParses ==
  ASSUME ParserInv, Preparing \/ SendUnconnected
  PROVE  ParserInv'
<1>1. pc' \in {"idle", "session"} /\ (pc' = "session" => pc = "session")
  BY DEF Preparing, HeadersToCollect, AddHeader, SendUnconnected, InSession
<1>2. UNCHANGED <<response, left, firstLine, isPayload, buff, headers, payload>>
  BY Zenon DEF Preparing, HeadersToCollect, AddHeader, SendUnconnected, wireVars, parseVars
<1>3. Unparsed' <=> Unparsed BY <1>2 DEF Unparsed, Dropped, Got, NoHeaders
<1> QED BY <1>1, <1>2, <1>3 DEF ParserInv

LEMMA AskingParses ==
  ASSUME TypeInv, ParserInv, SendRequest \/ SendDies
  PROVE  ParserInv'
<1>1. CASE SendDies
  BY <1>1, NotReading DEF SendDies, InSession
<1>2. CASE SendRequest
  <2>1. /\ pc = "session" /\ response = <<>> /\ result = None /\ pc' = "recv"
        /\ response' \in Responses /\ left' = response'
        /\ UNCHANGED <<firstLine, isPayload, buff, headers, payload, result>>
    BY <1>2, Zenon DEF SendRequest, InSession, Asks, parseVars
  <2>2. buff = <<>> /\ Unparsed BY <2>1 DEF ParserInv
  <2>3. response' \in Seq(Token) /\ Len(response') \in Nat /\ Len(buff) = 0
    BY <2>1, <2>2, ResponsesAssumption, LenProperties
  <2>4. Got' = 0
    <3>1. Len(response') - Len(response') = 0 BY <2>3
    <3> QED BY <2>1, <3>1, Zenon DEF Got
  <2>5. Dropped' = 0
    <3>1. Dropped' = Got' - Len(buff') BY Zenon DEF Dropped
    <3>2. Len(buff') = 0 BY <2>1, <2>3
    <3> QED BY <2>4, <3>1, <3>2
  <2>6. left' = Drop(response', 0)
    <3>1. SubSeq(response', 1, Len(response')) = response' BY <2>3, SubSeqFull
    <3>2. 0 + 1 = 1 OBVIOUS
    <3> QED BY <2>1, <3>1, <3>2 DEF Drop
  <2>7. SubSeq(response', 1, 0) = <<>> /\ 0 + 1 = 1 BY SubSeqEmpty
  <2>8. Unparsed' BY <2>1, <2>2, <2>5 DEF Unparsed, NoHeaders
  <2>9. firstLine' BY <2>8 DEF Unparsed
  <2>10. Got' \in 0..Len(response') /\ left' = Drop(response', Got')
    BY <2>3, <2>4, <2>6
  <2>11. Dropped' \in 0..Got' /\ buff' = SubSeq(response', Dropped' + 1, Got')
    BY <2>1, <2>2, <2>4, <2>5, <2>7
  <2>12. buff' = <<>> /\ result' = None BY <2>1, <2>2
  <2> QED BY <2>1, <2>8, <2>9, <2>10, <2>11, <2>12 DEF ParserInv
<1> QED BY <1>1, <1>2

\* The steps that end a request with an outcome.
LEMMA SettlingParses ==
  ASSUME TypeInv, ParserInv, RecvFails \/ RecvEnd \/ StatusLineBad \/ HeaderTooBig
  PROVE  ParserInv'
<1>1. pc \in {"recv", "first", "headers"} /\ pc' = "session" /\ response' = response
  BY Zenon DEF RecvFails, RecvEnd, StatusLineBad, HeaderTooBig, Finish, InHeaders, wireVars
<1>2. response' # <<>>
  <2>1. response \in Responses BY <1>1, BeingRead, Zenon
  <2> QED BY <1>1, <2>1, NotEmpty
<1> QED BY <1>1, <1>2, NotReading, Zenon

\* What a turn of the header loop starts from, while the head is being parsed.
LEMMA InHead ==
  ASSUME Parsed, ~isPayload
  PROVE  /\ status = Atoi[response[2]] /\ payload = <<>>
         /\ HeadLines(response, Dropped)
         /\ \A k \in Key : headers[k] =
              IF k \notin collecting THEN None ELSE FirstOf(response, Dropped, k)
BY DEF Parsed, HeadLines

LEMMA StillInHead ==
  ASSUME status' = Atoi[response'[2]], payload' = <<>>, ~isPayload',
         HeadLines(response', Dropped'),
         \A k \in Key : headers'[k] =
           IF k \notin collecting' THEN None ELSE FirstOf(response', Dropped', k)
  PROVE  Parsed'
BY DEF Parsed, HeadLines

\* The empty line is dropped: by the header loop, or where a recv() starts with it.
LEMMA EmptyLineDropped ==
  ASSUME Parsed, ~isPayload, isPayload', response \in Responses,
         UNCHANGED <<response, status, headers, payload, collecting>>,
         Dropped \in Nat, Dropped' = Dropped + 2, Dropped' <= Len(response),
         EndAt(response, Dropped + 1)
  PROVE  Parsed'
<1>1. /\ status = Atoi[response[2]] /\ payload = <<>>
      /\ HeadLines(response, Dropped)
      /\ \A k \in Key : headers[k] =
           IF k \notin collecting THEN None ELSE FirstOf(response, Dropped, k)
  BY InHead
<1> DEFINE e == Find(response, EmptyLine)
<1>2. e = Dropped - 1 /\ HeadEnd(response) = Dropped
  BY <1>1, HeadEnds
<1>3. Dropped >= 2 BY <1>1 DEF HeadLines
<1>4. e # 0 /\ Dropped' >= e + 3 BY <1>2, <1>3
<1>5. SubSeq(response, e + 4, Dropped') = <<>>
  <2>1. e + 4 = Dropped + 3 /\ Dropped + 3 > Dropped + 2 BY <1>2
  <2>2. SubSeq(response, Dropped + 3, Dropped + 2) = <<>> BY <2>1, SubSeqEmpty
  <2> QED BY <2>1, <2>2
<1> HIDE DEF e
<1>6. HeadEnd(response)' = HeadEnd(response) /\ Find(response, EmptyLine)' = e
  BY DEF HeadEnd, e
<1> QED BY <1>1, <1>2, <1>4, <1>5, <1>6 DEF Parsed, e

LEMMA DropOf ==
  \A r \in Seq(Token) : \A d, m, k \in Nat : m <= Len(r) /\ d + k <= m =>
    /\ Drop(SubSeq(r, d + 1, m), k) = SubSeq(r, d + k + 1, m)
    /\ Len(SubSeq(r, d + k + 1, m)) = m - d - k
BY DropPiece

LEMMA RecvParses ==
  ASSUME TypeInv, ParserInv, Recv
  PROVE  ParserInv'
<1>1. PICK n \in ReadSizes(left, BufferSize) :
        /\ left' = Drop(left, n)
        /\ buff' = AfterBlankLine(Take(left, n))
        /\ isPayload' = (isPayload \/ buff' # Take(left, n))
        /\ pc' = IF ~isPayload' /\ ~Contains(buff', <<"LF">>) THEN "panic"
                 ELSE IF firstLine THEN "first" ELSE "headers"
  BY Zenon DEF Recv
<1>2. UNCHANGED <<collecting, response, firstLine, status, headers, payload, result>>
      /\ pc = "recv"
  BY Zenon DEF Recv, ctxVars
<1> DEFINE r == response
           g == Got
<1>3. /\ r \in Responses /\ r \in Seq(Token) /\ Len(r) \in Nat /\ result = None
      /\ g \in Nat /\ g <= Len(r) /\ left = Drop(r, g)
      /\ Dropped = g
      /\ left \in Seq(Token) /\ Len(left) = Len(r) - g
      /\ firstLine => Unparsed
      /\ ~firstLine /\ response[1] = Version => Parsed
  BY <1>2, BeingRead, Zenon
<1>4. n \in Nat /\ n \in 1..Len(left) /\ g + n \in Nat /\ g + n <= Len(r)
  <2>1. n \in 1..Len(left) BY <1>3, ReadSizesType, BufferAssumption
  <2> QED BY <1>3, <2>1
<1>5. left = SubSeq(r, g + 1, Len(r)) BY <1>3 DEF Drop
<1> DEFINE view == Take(left, n)
<1> HIDE DEF r, g
<1>6. view = SubSeq(r, g + 1, g + n)
  BY <1>3, <1>4, <1>5, TakePiece, SMTT(30)
<1>7. left' = Drop(r, g + n) /\ Len(left') = Len(r) - g - n
  <2>1. /\ Drop(SubSeq(r, g + 1, Len(r)), n) = SubSeq(r, g + n + 1, Len(r))
        /\ Len(SubSeq(r, g + n + 1, Len(r))) = Len(r) - g - n
    <3>1. Len(r) <= Len(r) BY <1>3
    <3>2. \A d, m, k \in Nat : m <= Len(r) /\ d + k <= m =>
           /\ Drop(SubSeq(r, d + 1, m), k) = SubSeq(r, d + k + 1, m)
           /\ Len(SubSeq(r, d + k + 1, m)) = m - d - k
      BY <1>3, DropOf, Zenon
    <3> QED BY <1>3, <1>4, <3>1, <3>2
  <2> QED BY <1>1, <1>5, <2>1 DEF Drop
<1>8. Got' = g + n
  <2>1. Got' = Len(r) - Len(left') BY <1>2, Zenon DEF Got, r
  <2> QED BY <1>3, <1>4, <1>7, <2>1
<1>9. view \in Seq(Token) /\ Len(view) = n
  BY <1>3, <1>4, TakeType
<1>10. Got' \in 0..Len(r) /\ left' = Drop(response', Got')
  BY <1>2, <1>3, <1>4, <1>7, <1>8 DEF r
<1> HIDE DEF view
<1>11. ASSUME buff' = view
       PROVE  /\ Dropped' = Dropped /\ isPayload' = isPayload
              /\ Dropped' \in 0..Got' /\ buff' = SubSeq(response', Dropped' + 1, Got')
  <2>1. Dropped' = Got' - Len(buff') BY Zenon DEF Dropped
  <2>2. Dropped' = g BY <1>3, <1>4, <1>8, <1>9, <1>11, <2>1
  <2>3. isPayload' = isPayload
    <3>1. isPayload \in BOOLEAN BY DEF TypeInv, ParseType
    <3> QED BY <1>1, <1>11, <3>1 DEF view
  <2>4. Dropped' \in 0..Got' BY <1>3, <1>4, <1>8, <2>2
  <2>5. buff' = SubSeq(response', Dropped' + 1, Got')
    BY <1>2, <1>6, <1>8, <1>11, <2>2 DEF r
  <2> QED BY <1>3, <2>2, <2>3, <2>4, <2>5
<1>12. CASE pc' = "panic" BY <1>12, NotReading
<1>13. CASE pc' = "first"
  <2>0. firstLine BY <1>1, <1>13
  <2>2. buff' = view BY <1>1, <2>0 DEF AfterBlankLine, view
  <2>1. firstLine /\ ~isPayload' /\ Contains(buff', <<"LF">>)
    <3>1. ~isPayload' BY <1>3, <1>11, <2>0, <2>2 DEF Unparsed
    <3> QED BY <1>1, <1>13, <2>0, <3>1
  <2>3. Unparsed' BY <1>2, <1>3, <1>11, <2>1, <2>2 DEF Unparsed, NoHeaders
  <2> QED BY <1>2, <1>3, <1>10, <1>11, <1>13, <2>1, <2>2, <2>3 DEF ParserInv, r
<1>14. CASE pc' = "headers"
  <2>1. ~firstLine BY <1>1, <1>14
  <2>2. CASE buff' = view
    <3>1. Parsed => Parsed'
      BY <1>2, <1>11, <2>2 DEF Parsed, HeadEnd
    <3> QED BY <1>2, <1>3, <1>10, <1>11, <1>14, <2>1, <2>2, <3>1 DEF ParserInv, r
  <2>3. CASE buff' # view
    <3>1. /\ ~isPayload /\ StartsWith(view, CRLF) /\ buff' = Drop(view, 2)
      BY <1>1, <2>3 DEF AfterBlankLine, view
    <3>2. isPayload' BY <1>1, <2>3 DEF view
    <3>3. 1 + 1 <= n /\ EndAt(view, 1)
      BY <1>9, <3>1, FirstEnd DEF StartsWith
    <3>4. EndAt(r, g + 1)
      <4>1. g <= g + n /\ g + n - g - 1 = n - 1 /\ 1 \in 1..(n - 1)
        BY <1>3, <1>4, <3>3
      <4>2. \A i \in 1..(g + n - g - 1) : EndAt(SubSeq(r, g + 1, g + n), i) <=> EndAt(r, g + i)
        BY <1>3, <1>4, <4>1, EndsOfPiece
      <4> QED BY <1>6, <3>3, <4>1, <4>2
    <3>5. buff' = SubSeq(r, g + 2 + 1, g + n) /\ Len(buff') = g + n - g - 2
      <4>1. g + 2 <= g + n BY <1>3, <1>4, <3>3
      <4>2. /\ Drop(SubSeq(r, g + 1, g + n), 2) = SubSeq(r, g + 2 + 1, g + n)
            /\ Len(SubSeq(r, g + 2 + 1, g + n)) = g + n - g - 2
        <5>1. 2 \in Nat OBVIOUS
        <5>2. \A d, m, k \in Nat : m <= Len(r) /\ d + k <= m =>
               /\ Drop(SubSeq(r, d + 1, m), k) = SubSeq(r, d + k + 1, m)
               /\ Len(SubSeq(r, d + k + 1, m)) = m - d - k
          BY <1>3, DropOf, Zenon
        <5> DEFINE q == g + n
        <5>3. q \in Nat /\ q <= Len(r) /\ g + 2 <= q /\ g \in Nat BY <1>3, <1>4, <4>1
        <5> HIDE DEF q
        <5>4. /\ Drop(SubSeq(r, g + 1, q), 2) = SubSeq(r, g + 2 + 1, q)
              /\ Len(SubSeq(r, g + 2 + 1, q)) = q - g - 2
          BY <5>1, <5>2, <5>3, Zenon
        <5> QED BY <1>3, <1>4, <5>4 DEF q
      <4> QED BY <1>6, <3>1, <4>2
    <3>6. Dropped' = g + 2
      <4>1. Dropped' = Got' - Len(buff') BY Zenon DEF Dropped
      <4> QED BY <1>3, <1>4, <1>8, <3>5, <4>1
    <3>7. /\ Dropped' \in 0..Got'
          /\ buff' = SubSeq(response', Dropped' + 1, Got')
      BY <1>2, <1>3, <1>4, <1>8, <3>3, <3>5, <3>6 DEF r
    <3>8. Parsed => Parsed'
      <4>1. Dropped' <= Len(response) BY <1>3, <1>4, <3>3, <3>6 DEF r
      <4>2. Dropped \in Nat /\ Dropped' = Dropped + 2 /\ EndAt(response, Dropped + 1)
        BY <1>3, <3>4, <3>6 DEF r
      <4>3. response \in Responses BY <1>3 DEF r
      <4> QED BY <1>2, <3>1, <3>2, <4>1, <4>2, <4>3, EmptyLineDropped
    <3> QED BY <1>2, <1>3, <1>10, <1>14, <2>1, <3>7, <3>8 DEF ParserInv, r
  <2> QED BY <2>2, <2>3
<1> QED BY <1>1, <1>12, <1>13, <1>14

\* A step of the parser that goes on with the same response.
LEMMA GoesOn ==
  ASSUME TypeInv, ParserInv, pc \in {"recv", "first", "headers"},
         UNCHANGED <<response, left, result>>, ~firstLine',
         Got' = Got, Dropped' \in Nat, Dropped' <= Got,
         buff' = SubSeq(response, Dropped' + 1, Got),
         pc' = "headers" \/ (pc' = "recv" /\ buff' = <<>>),
         response[1] = Version => Parsed'
  PROVE  ParserInv'
<1>1. /\ response \in Responses /\ result = None /\ Len(response) \in Nat
      /\ Got \in Nat /\ Got <= Len(response) /\ left = Drop(response, Got)
  BY BeingRead, Zenon
<1>2. Got' \in 0..Len(response') /\ Dropped' \in 0..Got' BY <1>1
<1>3. left' = Drop(response', Got') /\ buff' = SubSeq(response', Dropped' + 1, Got')
  BY <1>1
<1>4. pc' \notin {"session", "first"} /\ (pc' = "recv" => buff' = <<>>) OBVIOUS
<1> QED BY <1>1, <1>2, <1>3, <1>4 DEF ParserInv

\* The first line's bytes are those of the response.
LEMMA FirstBytes ==
  ASSUME TypeInv, ParserInv, pc = "first"
  PROVE  /\ Dropped = 0 /\ buff = SubSeq(response, 1, Got) /\ Len(buff) = Got
         /\ \A i \in 1..Got : buff[i] = response[i]
         /\ Find(buff, <<"LF">>) \in 1..Got
<1>1. /\ response \in Seq(Token) /\ Len(response) \in Nat
      /\ Got \in Nat /\ Got <= Len(response)
      /\ buff = SubSeq(response, Dropped + 1, Got)
      /\ buff \in Seq(Token) /\ Len(buff) = Got - Dropped
      /\ Unparsed /\ Contains(buff, <<"LF">>)
  BY BeingRead, Zenon
<1>2. Dropped = 0 BY <1>1 DEF Unparsed
<1>3. Len(buff) = Got BY <1>1, <1>2
<1> DEFINE g == Got
<1>4. g \in Nat /\ g <= Len(response) /\ buff = SubSeq(response, 0 + 1, g)
  BY <1>1, <1>2
<1> HIDE DEF g
<1>5. \A i \in 1..g : buff[i] = response[i]
  <2>1. 0 \in Nat /\ 0 <= g /\ g - 0 = g /\ \A i \in 1..g : 0 + i = i BY <1>4
  <2>2. \A d, m \in Nat : d <= m /\ m <= Len(response) =>
          \A i \in 1..(m - d) : SubSeq(response, d + 1, m)[i] = response[d + i]
    BY <1>1, PieceAfter
  <2>3. \A i \in 1..(g - 0) : SubSeq(response, 0 + 1, g)[i] = response[0 + i]
    BY <1>4, <2>1, <2>2, Zenon
  <2> QED BY <1>4, <2>1, <2>3
<1>6. Find(buff, <<"LF">>) \in 0..Len(buff) BY <1>1, FirstOne
<1>7. Find(buff, <<"LF">>) # 0 BY <1>1 DEF Contains
<1>8. Find(buff, <<"LF">>) \in 1..Got BY <1>1, <1>3, <1>6, <1>7
<1> QED BY <1>2, <1>3, <1>4, <1>5, <1>8 DEF g

LEMMA StatusLineParses ==
  ASSUME TypeInv, ParserInv, StatusLine \/ StatusLineGarbled
  PROVE  ParserInv'
<1> DEFINE f == Find(buff, <<"LF">>)
<1>1. /\ pc = "first" /\ pc' = "headers" /\ firstLine' = FALSE
      /\ buff' = Drop(buff, f)
      /\ UNCHANGED <<collecting, response, left, isPayload, headers, payload, result>>
  BY Zenon DEF StatusLine, StatusLineGarbled, ctxVars, wireVars
<1>2. /\ response \in Responses /\ Got \in Nat /\ Got <= Len(response)
      /\ Unparsed
  BY <1>1, BeingRead, Zenon
<1>3. /\ Dropped = 0 /\ buff = SubSeq(response, 1, Got) /\ Len(buff) = Got
      /\ \A i \in 1..Got : buff[i] = response[i]
      /\ f \in 1..Got
  BY <1>1, FirstBytes
<1> HIDE DEF f
<1>4. f \in Nat /\ Dropped + f <= Got /\ f # 0 /\ 1 \in 1..Got BY <1>2, <1>3
<1>5. /\ Got' = Got /\ Dropped' = Dropped + f
      /\ buff' = SubSeq(response, Dropped + f + 1, Got)
  BY <1>1, <1>4, DropStep
<1>6. Dropped' = f BY <1>3, <1>4, <1>5
<1>7. buff' = SubSeq(response, Dropped' + 1, Got)
  <2>1. Dropped + f + 1 = Dropped' + 1 BY <1>3, <1>4, <1>6
  <2> QED BY <1>5, <2>1
<1>8. ASSUME response[1] = Version PROVE Parsed'
  <2>1. buff[1] = Version BY <1>3, <1>4, <1>8
  <2>2. StatusLine BY <2>1 DEF StatusLineGarbled
  <2>3. status' = Atoi[response'[2]]
    <3>1. status' = Atoi[buff[2]] /\ CodeEnds BY <2>2, Zenon DEF StatusLine
    <3>2. 2 \in 1..Got BY <1>2, <1>3, <3>1 DEF CodeEnds
    <3> QED BY <1>1, <1>3, <3>1, <3>2
  <2>4. f <= Got /\ HeadLines(response, f) /\ \A k \in Key : FirstOf(response, f, k) = None
    <3>1. f = Find(SubSeq(response, 1, Got), <<"LF">>) BY <1>3 DEF f
    <3> QED BY <1>2, <1>4, <1>8, <3>1, HeadBegins
  <2>5. ~isPayload' /\ payload' = <<>> /\ \A k \in Key : headers'[k] = None
    BY <1>1, <1>2 DEF Unparsed, NoHeaders
  <2>6. HeadLines(response', Dropped') BY <1>1, <1>6, <2>4
  <2>7. \A k \in Key : headers'[k] =
          IF k \notin collecting' THEN None ELSE FirstOf(response', Dropped', k)
    BY <1>1, <1>6, <2>4, <2>5
  <2> QED BY <2>3, <2>5, <2>6, <2>7, StillInHead
<1>9. Dropped' \in Nat /\ Dropped' <= Got BY <1>3, <1>4, <1>6
<1> QED BY <1>1, <1>5, <1>7, <1>8, <1>9, GoesOn

LEMMA HeaderEndParses ==
  ASSUME TypeInv, ParserInv, HeaderEnd
  PROVE  ParserInv'
<1>1. /\ pc = "headers" /\ pc' = "headers" /\ ~isPayload /\ isPayload' = TRUE
      /\ StartsWith(buff, CRLF) /\ buff' = Drop(buff, 2)
      /\ UNCHANGED <<collecting, response, left, firstLine, status, headers, payload, result>>
  BY Zenon DEF HeaderEnd, InHeaders, ctxVars, wireVars
<1>2. /\ response \in Responses /\ response \in Seq(Token) /\ Len(response) \in Nat
      /\ Got \in Nat /\ Got <= Len(response)
      /\ Dropped \in Nat /\ Dropped <= Got /\ buff = SubSeq(response, Dropped + 1, Got)
      /\ buff \in Seq(Token) /\ Len(buff) = Got - Dropped
      /\ ~firstLine /\ (response[1] = Version => Parsed)
  BY <1>1, BeingRead, Zenon
<1>3. 1 + 1 <= Len(buff) /\ EndAt(buff, 1)
  <2>1. buff \in Seq(Token) /\ Find(buff, CRLF) = 1 BY <1>1, <1>2, Zenon DEF StartsWith
  <2>2. Find(buff, CRLF) # 0 =>
          Find(buff, CRLF) + 1 <= Len(buff) /\ EndAt(buff, Find(buff, CRLF))
    BY <2>1, FirstEnd
  <2> QED BY <2>1, <2>2
<1>4. EndAt(response, Dropped + 1)
  <2> DEFINE d == Dropped
             g == Got
  <2>1. d \in Nat /\ g \in Nat /\ d <= g /\ g <= Len(response) /\ 1 \in 1..(g - d - 1)
        /\ buff = SubSeq(response, d + 1, g)
    BY <1>2, <1>3
  <2> HIDE DEF d, g
  <2>2. \A i \in 1..(g - d - 1) :
          EndAt(SubSeq(response, d + 1, g), i) <=> EndAt(response, d + i)
    <3>1. response \in Seq(Token) BY <1>2
    <3> QED BY <2>1, <3>1, EndsOfPiece
  <2> QED BY <1>3, <2>1, <2>2 DEF d
<1>5. Dropped + 2 <= Got BY <1>2, <1>3
<1>6. /\ Got' = Got /\ Dropped' = Dropped + 2
      /\ buff' = SubSeq(response, Dropped + 2 + 1, Got)
  BY <1>1, <1>5, DropStep
<1>7. Dropped' \in Nat /\ Dropped' <= Got /\ Dropped' <= Len(response)
      /\ buff' = SubSeq(response, Dropped' + 1, Got)
  BY <1>2, <1>5, <1>6
<1>8. response[1] = Version => Parsed'
  BY <1>1, <1>2, <1>4, <1>6, <1>7, EmptyLineDropped
<1> QED BY <1>1, <1>2, <1>6, <1>7, <1>8, GoesOn

\* A line's value is taken unless its key has one: the first value stays.
LEMMA CollectedFirst ==
  ASSUME NEW r \in Seq(Token), NEW d \in Nat, d + 1 <= Len(r),
         NEW k \in Key, k \in collecting, headers[k] = FirstOf(r, d, k)
  PROVE  Collected(r[d + 1])[k] = FirstOf(r, d + 1, k)
<1>1. Collected(r[d + 1])[k] = IF k \in KeysOf[r[d + 1]] /\ headers[k] = None
                              THEN ValueOf[r[d + 1]] ELSE headers[k]
  BY DEF Collected
<1>2. headers[k] = None <=> Keyed(r, d, k) = {}
  <2>1. d \in 0..Len(r) BY LenProperties
  <2> QED BY <2>1, FirstNone
<1>3. CASE Keyed(r, d, k) # {} BY <1>1, <1>2, <1>3, FirstStays
<1>4. CASE Keyed(r, d, k) = {} /\ k \in KeysOf[r[d + 1]]
  BY <1>1, <1>2, <1>4, FirstNew
<1>5. CASE Keyed(r, d, k) = {} /\ k \notin KeysOf[r[d + 1]]
  <2>1. (d + 1)..(d + 1) = {d + 1} OBVIOUS
  <2>2. FirstOf(r, d + 1, k) = FirstOf(r, d, k) BY <1>5, <2>1, FirstSame
  <2> QED BY <1>1, <1>5, <2>2
<1> QED BY <1>3, <1>4, <1>5

LEMMA HeaderLineParses ==
  ASSUME TypeInv, ParserInv, HeaderLine
  PROVE  ParserInv'
<1> DEFINE f == Find(buff, CRLF)
<1>1. /\ pc = "headers" /\ pc' = "headers" /\ ~isPayload /\ isPayload' = isPayload
      /\ f # 0 /\ f # 1 /\ buff' = Drop(buff, f + 1)
      /\ headers' = Collected(buff[1])
      /\ UNCHANGED <<collecting, response, left, firstLine, status, payload, result>>
  BY Zenon DEF HeaderLine, InHeaders, ctxVars, wireVars, Contains, StartsWith
<1>2. /\ response \in Responses /\ response \in Seq(Token) /\ Len(response) \in Nat
      /\ Got \in Nat /\ Got <= Len(response)
      /\ Dropped \in Nat /\ Dropped <= Got /\ buff = SubSeq(response, Dropped + 1, Got)
      /\ buff \in Seq(Token) /\ Len(buff) = Got - Dropped
      /\ ~firstLine /\ (response[1] = Version => Parsed)
  BY <1>1, BeingRead, Zenon
<1>3. f \in Nat /\ f + 1 <= Len(buff)
  BY <1>1, <1>2, FirstEnd
<1> HIDE DEF f
<1>4. f + 1 \in Nat /\ Dropped + (f + 1) <= Got BY <1>2, <1>3
<1>5. /\ Got' = Got /\ Dropped' = Dropped + (f + 1)
      /\ buff' = SubSeq(response, Dropped + (f + 1) + 1, Got)
  BY <1>1, <1>4, DropStep
<1>6. Dropped' \in Nat /\ Dropped' <= Got /\ Dropped' = Dropped + f + 1
      /\ buff' = SubSeq(response, Dropped' + 1, Got)
  BY <1>2, <1>3, <1>4, <1>5
<1>7. ASSUME response[1] = Version PROVE Parsed'
  <2>1. /\ status = Atoi[response[2]] /\ payload = <<>>
        /\ HeadLines(response, Dropped)
        /\ \A k \in Key : headers[k] =
             IF k \notin collecting THEN None ELSE FirstOf(response, Dropped, k)
    BY <1>1, <1>2, <1>7, InHead
  <2>2. /\ HeadLines(response, Dropped + f + 1)
        /\ \A k \in Key : FirstOf(response, Dropped + f + 1, k) = FirstOf(response, Dropped + 1, k)
    <3>1. f = Find(SubSeq(response, Dropped + 1, Got), CRLF) BY <1>2 DEF f
    <3> DEFINE d == Dropped
               g == Got
    <3>2. d \in Nat /\ g \in Nat /\ d <= g /\ g <= Len(response) /\ HeadLines(response, d)
          /\ f = Find(SubSeq(response, d + 1, g), CRLF)
      BY <1>2, <2>1, <3>1
    <3> HIDE DEF d, g
    <3>3. /\ HeadLines(response, d + f + 1)
          /\ \A k \in Key : FirstOf(response, d + f + 1, k) = FirstOf(response, d + 1, k)
      BY <1>1, <1>2, <1>3, <1>7, <3>2, HeadGrows
    <3> QED BY <3>3 DEF d
  <2>3. buff[1] = response[Dropped + 1] /\ Dropped + 1 <= Len(response)
    <3> DEFINE d == Dropped
               g == Got
    <3>1. d \in Nat /\ g \in Nat /\ d <= g /\ g <= Len(response) /\ 1 \in 1..(g - d)
          /\ buff = SubSeq(response, d + 1, g)
      BY <1>2, <1>3
    <3> HIDE DEF d, g
    <3>2. \A i \in 1..(g - d) : SubSeq(response, d + 1, g)[i] = response[d + i]
      BY <1>2, <3>1, PieceAfter
    <3> QED BY <3>1, <3>2 DEF d
  <2>4. ASSUME NEW k \in Key
        PROVE  headers'[k] =
                 IF k \notin collecting' THEN None ELSE FirstOf(response', Dropped', k)
    <3>1. CASE k \in collecting
      <4>1. headers'[k] = FirstOf(response, Dropped + 1, k)
        BY <1>1, <1>2, <2>1, <2>3, <3>1, CollectedFirst
      <4> QED BY <1>1, <1>6, <2>2, <3>1, <4>1
    <3>2. CASE k \notin collecting
      BY <1>1, <2>1, <3>2 DEF Collected
    <3> QED BY <3>1, <3>2
  <2>5. HeadLines(response', Dropped') BY <1>1, <1>6, <2>2
  <2> QED BY <1>1, <2>1, <2>4, <2>5, StillInHead
<1> QED BY <1>1, <1>2, <1>5, <1>6, <1>7, GoesOn

LEMMA AppendParses ==
  ASSUME TypeInv, ParserInv, AppendPayload
  PROVE  ParserInv'
<1>1. /\ pc = "headers" /\ ~InHeaders /\ pc' = "recv"
      /\ payload' = payload \o buff /\ buff' = <<>>
      /\ UNCHANGED <<collecting, response, left, firstLine, isPayload, status, headers, result>>
  BY Zenon DEF AppendPayload, ctxVars, wireVars
<1>2. /\ response \in Responses /\ response \in Seq(Token) /\ Len(response) \in Nat
      /\ Got \in Nat /\ Got <= Len(response)
      /\ Dropped \in Nat /\ Dropped <= Got /\ buff = SubSeq(response, Dropped + 1, Got)
      /\ buff \in Seq(Token) /\ Len(buff) = Got - Dropped
      /\ ~firstLine /\ (response[1] = Version => Parsed)
  BY <1>1, BeingRead, Zenon
<1>3. Got' = Got BY <1>1, Zenon DEF Got
<1>4. Dropped' = Got
  <2>1. Len(buff') = 0 BY <1>1
  <2> QED BY <1>2, <1>3, <2>1 DEF Dropped
<1>5. buff' = SubSeq(response, Dropped' + 1, Got)
  <2>1. Got + 1 > Got BY <1>2
  <2> QED BY <1>1, <1>2, <1>4, <2>1, SubSeqEmpty
<1>6. ASSUME response[1] = Version, isPayload PROVE Parsed'
  <2> DEFINE e == Find(response, EmptyLine)
  <2>1. /\ status = Atoi[response[2]]
        /\ \A k \in Key : headers[k] =
             IF k \notin collecting THEN None ELSE FirstOf(response, HeadEnd(response), k)
        /\ e # 0 /\ Dropped >= e + 3 /\ payload = SubSeq(response, e + 4, Dropped)
    BY <1>2, <1>6 DEF Parsed
  <2>2. e \in Nat BY <1>2, Lines
  <2> DEFINE d == Dropped
             g == Got
             a == e + 3
  <2>3. payload' = SubSeq(response, e + 4, Got)
    <3>1. /\ a \in Nat /\ d \in Nat /\ g \in Nat /\ a <= d /\ d <= g /\ g <= Len(response)
          /\ a + 1 = e + 4
      BY <1>2, <2>1, <2>2, SMTT(30)
    <3>2. payload' = SubSeq(response, a + 1, d) \o SubSeq(response, d + 1, g)
      BY <1>1, <1>2, <2>1, <3>1
    <3> HIDE DEF a, d, g
    <3>3. payload' = SubSeq(response, a + 1, g)
      BY <1>2, <3>1, <3>2, JoinPieces, SMTT(30)
    <3> QED BY <3>1, <3>3 DEF g
  <2>4. HeadEnd(response)' = HeadEnd(response) /\ Find(response, EmptyLine)' = e
    BY <1>1 DEF HeadEnd
  <2>5. Dropped' >= e + 3 BY <1>2, <1>4, <2>1, <2>2
  <2> HIDE DEF e
  <2> QED BY <1>1, <1>4, <1>6, <2>1, <2>3, <2>4, <2>5 DEF Parsed, e
<1>7. ASSUME response[1] = Version, ~isPayload PROVE Parsed'
  <2>1. buff = <<>> BY <1>1, <1>7 DEF InHeaders
  <2>2. Dropped' = Dropped
    <3>1. Len(buff) = 0 BY <2>1
    <3> QED BY <1>2, <1>4, <3>1
  <2>3. /\ status = Atoi[response[2]] /\ payload = <<>>
        /\ HeadLines(response, Dropped)
        /\ \A k \in Key : headers[k] =
             IF k \notin collecting THEN None ELSE FirstOf(response, Dropped, k)
    BY <1>2, <1>7, InHead
  <2>4. payload' = <<>> BY <1>1, <2>1, <2>3, ConcatEmptySeq
  <2>5. HeadLines(response', Dropped') BY <1>1, <2>2, <2>3
  <2> QED BY <1>1, <1>7, <2>2, <2>3, <2>4, <2>5, StillInHead
<1>8. isPayload \in BOOLEAN BY DEF TypeInv, ParseType
<1> QED BY <1>1, <1>2, <1>3, <1>4, <1>5, <1>6, <1>7, <1>8, GoesOn

LEMMA ParserInvInit == Init => ParserInv
BY DEF Init, ParserInv

LEMMA ParserInvNext == TypeInv /\ ParserInv /\ [Next]_vars => ParserInv'
<1> SUFFICES ASSUME TypeInv, ParserInv, [Next]_vars PROVE ParserInv' OBVIOUS
<1>1. CASE UNCHANGED vars
  <2>1. UNCHANGED <<pc, collecting, response, left, firstLine, isPayload, buff, status,
                    headers, payload, result>>
    BY <1>1, Zenon DEF vars, ctxVars, wireVars, parseVars
  <2>2. Got' = Got /\ Dropped' = Dropped BY <2>1, Zenon DEF Got, Dropped
  <2>3. /\ pc = "session" /\ response = <<>> => buff = <<>> /\ left = <<>> /\ Unparsed
        /\ pc \in {"recv", "first", "headers"} =>
             /\ response \in Responses /\ result = None
             /\ Got \in 0..Len(response) /\ left = Drop(response, Got)
             /\ Dropped \in 0..Got /\ buff = SubSeq(response, Dropped + 1, Got)
             /\ pc = "recv" => buff = <<>>
             /\ pc = "first" => Unparsed /\ Contains(buff, <<"LF">>)
             /\ pc = "headers" => ~firstLine
             /\ firstLine => Unparsed
             /\ ~firstLine /\ response[1] = Version => Parsed
    BY Zenon DEF ParserInv
  <2>4. Unparsed' <=> Unparsed BY <2>1, <2>2, Zenon DEF Unparsed, NoHeaders
  <2>5. Parsed' <=> Parsed BY <2>1, <2>2, Zenon DEF Parsed, HeadEnd
  <2> QED BY <2>1, <2>2, <2>3, <2>4, <2>5, Zenon DEF ParserInv
<1>2. CASE Connecting BY <1>2, ConnectingParses
<1>3. CASE Preparing \/ SendUnconnected BY <1>3, PreparingParses
<1>4. CASE SendRequest \/ SendDies BY <1>4, AskingParses
<1>5. CASE Receiving BY <1>5, SettlingParses, RecvParses DEF Receiving
<1>6. CASE Parsing
  BY <1>6, SettlingParses, StatusLineParses, HeaderEndParses, HeaderLineParses,
     AppendParses DEF Parsing
<1> QED BY <1>1, <1>2, <1>3, <1>4, <1>5, <1>6 DEF Next

-----------------------------------------------------------------------------
\* Between two recv()s what has been parsed is true of the response, and all of
\* it when nothing is left.
LEMMA ParsedIsTrue ==
  ASSUME TypeInv, ParserInv, pc = "recv", ~firstLine, response[1] = Version
  PROVE  /\ status = Atoi[response[2]]
         /\ \A k \in Key : headers[k] \in {None, Exchange!HeaderSent(response, k)}
         /\ PrefixOf(payload, Exchange!Body(response))
         /\ left = <<>> =>
              /\ payload = Exchange!Body(response)
              /\ \A k \in collecting : headers[k] = Exchange!HeaderSent(response, k)
<1> DEFINE r == response
           e == Find(r, EmptyLine)
           d == Dropped
           body == Exchange!Body(r)
<1>1. /\ r \in Responses /\ r \in Seq(Token) /\ Len(r) \in Nat
      /\ d \in Nat /\ d <= Len(r) /\ Parsed
      /\ left = <<>> => d = Len(r)
  <2>1. /\ response \in Responses /\ response \in Seq(Token) /\ Len(response) \in Nat
        /\ Got \in Nat /\ Got <= Len(response) /\ Dropped = Got
        /\ Len(left) = Len(response) - Got /\ Parsed
    BY BeingRead, Zenon
  <2>2. left = <<>> => Len(left) = 0 OBVIOUS
  <2> QED BY <2>1, <2>2
<1>2. /\ e \in Nat /\ HeadEnd(r) \in Nat /\ HeadEnd(r) <= Len(r)
      /\ e = 0 => HeadEnd(r) = Len(r)
      /\ e # 0 => e + 3 <= Len(r)
  <2>1. HeadEnd(r) \in 0..Len(r) BY <1>1, Lines, Zenon
  <2>2. e \in Nat /\ (e = 0 => HeadEnd(r) = Len(r)) /\ (e # 0 => e + 3 <= Len(r))
    BY <1>1, Lines, Zenon
  <2> QED BY <1>1, <2>1, <2>2
<1>3. /\ body = IF e # 0 THEN Drop(r, e + 3) ELSE <<>>
      /\ \A k \in Key : Exchange!HeaderSent(r, k) = FirstOf(r, HeadEnd(r), k)
  BY <1>1, SentIs, Zenon
<1>4. collecting \subseteq Key BY DEF TypeInv, OtherType
<1>5. CASE isPayload
  <2>1. /\ status = Atoi[r[2]] /\ e # 0 /\ d >= e + 3 /\ payload = SubSeq(r, e + 4, d)
        /\ \A k \in Key : headers[k] =
             IF k \notin collecting THEN None ELSE FirstOf(r, HeadEnd(r), k)
    BY <1>1, <1>5 DEF Parsed
  <2> DEFINE a == e + 3
             n == Len(r)
             j == d - a
  <2> HIDE DEF e, d, r
  <2>2. /\ a \in Nat /\ n \in Nat /\ j \in Nat /\ a + j <= n /\ a + j = d
        /\ a + 1 = e + 4 /\ a <= n
    BY <1>1, <1>2, <2>1
  <2>3. body = SubSeq(r, a + 1, n) BY <1>3, <2>1, <2>2 DEF Drop
  <2>4. payload = SubSeq(r, a + 1, a + j) BY <2>1, <2>2
  <2>5. left = <<>> => a + j = n BY <1>1, <2>2
  <2> HIDE DEF a, n, j, body
  <2>6. r \in Seq(Token) /\ n = Len(r) BY <1>1 DEF n
  <2>7. Take(SubSeq(r, a + 1, n), j) = SubSeq(r, a + 1, a + j)
    <3>1. \A x, m, k \in Nat : m <= Len(r) /\ x + k <= m =>
            Take(SubSeq(r, x + 1, m), k) = SubSeq(r, x + 1, x + k)
      BY <2>6, TakePiece
    <3>2. n <= Len(r) BY <2>2, <2>6
    <3> QED BY <2>2, <3>1, <3>2, Zenon
  <2>8. Len(SubSeq(r, a + 1, n)) = n - a /\ Len(SubSeq(r, a + 1, a + j)) = j
    <3>1. \A x, m \in Nat : x <= m /\ m <= Len(r) => Len(SubSeq(r, x + 1, m)) = m - x
      BY <2>6, PieceAfter
    <3>2. a <= a + j /\ a + j <= Len(r) /\ a + j \in Nat /\ a + j - a = j /\ n <= Len(r)
      BY <2>2, <2>6
    <3> QED BY <2>2, <3>1, <3>2
  <2>9. PrefixOf(payload, body)
    <3>1. j <= n - a BY <2>2
    <3> QED BY <2>3, <2>4, <2>7, <2>8, <3>1 DEF PrefixOf
  <2>10. left = <<>> => payload = body BY <2>3, <2>4, <2>5
  <2> QED BY <1>3, <1>4, <2>1, <2>9, <2>10 DEF body, r
<1>6. CASE ~isPayload
  <2>1. /\ status = Atoi[r[2]] /\ payload = <<>> /\ HeadLines(r, d)
        /\ \A k \in Key : headers[k] =
             IF k \notin collecting THEN None ELSE FirstOf(r, d, k)
    BY <1>1, <1>6, InHead
  <2>2. d <= HeadEnd(r) BY <1>1, <2>1, HeadWithin
  <2>3. ASSUME NEW k \in Key PROVE headers[k] \in {None, Exchange!HeaderSent(r, k)}
    <3>1. CASE Keyed(r, d, k) = {}
      <4>1. FirstOf(r, d, k) = None
        <5>1. d \in 0..Len(r) BY <1>1
        <5> QED BY <1>1, <3>1, <5>1, FirstNone, Zenon
      <4> QED BY <2>1, <4>1
    <3>2. CASE Keyed(r, d, k) # {}
      <4>1. FirstOf(r, HeadEnd(r), k) = FirstOf(r, d, k)
        BY <1>1, <1>2, <2>2, <3>2, FirstStays, Zenon
      <4> QED BY <1>3, <2>1, <4>1
    <3> QED BY <3>1, <3>2
  <2>4. PrefixOf(payload, body)
    <3>1. body \in Seq(Token)
      <4>1. e + 3 \in Nat BY <1>2
      <4>2. Drop(r, e + 3) \in Seq(Token) BY <1>1, <4>1, DropType, Zenon
      <4>3. <<>> \in Seq(Token) OBVIOUS
      <4> QED BY <1>3, <4>2, <4>3, Zenon
    <3> HIDE DEF body
    <3>2. Len(payload) = 0 /\ Len(body) >= 0 BY <2>1, <3>1, LenProperties
    <3>3. Take(body, 0) = <<>> BY <3>1, SubSeqEmpty DEF Take
    <3> QED BY <2>1, <3>2, <3>3 DEF PrefixOf
  <2>5. ASSUME left = <<>>
        PROVE  payload = body /\ \A k \in collecting : headers[k] = Exchange!HeaderSent(r, k)
    <3>1. d = Len(r) BY <1>1, <2>5
    <3>2. e = 0
      <4>1. e = 0 \/ e >= d - 1 BY <2>1 DEF HeadLines
      <4> QED BY <1>1, <1>2, <3>1, <4>1
    <3>3. payload = body BY <1>3, <2>1, <3>2, Zenon
    <3>4. HeadEnd(r) = d BY <1>2, <3>1, <3>2
    <3> QED BY <1>3, <1>4, <2>1, <3>3, <3>4
  <2> QED BY <2>1, <2>3, <2>4, <2>5
<1>7. isPayload \in BOOLEAN BY DEF TypeInv, ParseType
<1> QED BY <1>5, <1>6, <1>7

\* The end of a response makes an outcome that is empty, or that is true of it.
LEMMA EndIsTrue ==
  ASSUME TypeInv, ParserInv, RecvEnd
  PROVE  /\ response \in Responses /\ result = None
         /\ \/ result' = Bare(EmptyStatus)
            \/ /\ result' = [status |-> status, headers |-> headers, payload |-> payload]
               /\ response[1] = Version =>
                    /\ result'.status = Atoi[response[2]]
                    /\ \A k \in Key :
                         result'.headers[k] \in {None, Exchange!HeaderSent(response, k)}
                    /\ PrefixOf(result'.payload, Exchange!Body(response))
                    /\ left = <<>> =>
                         /\ result'.payload = Exchange!Body(response)
                         /\ \A k \in collecting :
                              result'.headers[k] = Exchange!HeaderSent(response, k)
<1>1. /\ pc = "recv"
      /\ result' = IF firstLine THEN Bare(EmptyStatus)
                   ELSE [status |-> status, headers |-> headers, payload |-> payload]
  BY Zenon DEF RecvEnd, Finish
<1>2. response \in Responses /\ result = None BY <1>1, BeingRead, Zenon
<1>3. CASE firstLine BY <1>1, <1>2, <1>3
<1>4. CASE ~firstLine
  <2>1. result' = [status |-> status, headers |-> headers, payload |-> payload]
    BY <1>1, <1>4
  <2>2. /\ result'.status = status /\ result'.headers = headers
        /\ result'.payload = payload
    BY <2>1
  <2>3. ASSUME response[1] = Version
        PROVE  /\ status = Atoi[response[2]]
               /\ \A k \in Key : headers[k] \in {None, Exchange!HeaderSent(response, k)}
               /\ PrefixOf(payload, Exchange!Body(response))
               /\ left = <<>> =>
                    /\ payload = Exchange!Body(response)
                    /\ \A k \in collecting : headers[k] = Exchange!HeaderSent(response, k)
    BY <1>1, <1>4, <2>3, ParsedIsTrue
  <2> QED BY <1>2, <2>1, <2>2, <2>3, Zenon
<1> QED BY <1>3, <1>4

LEMMA NothingLostInit == Init => NothingLost
BY DEF Init, NothingLost

LEMMA NothingLostNext ==
  TypeInv /\ ParserInv /\ NothingLost /\ [Next]_vars => NothingLost'
<1> SUFFICES ASSUME TypeInv, ParserInv, NothingLost, [Next]_vars PROVE NothingLost'
  OBVIOUS
<1>1. CASE result' = None BY <1>1, Zenon DEF NothingLost
<1>2. CASE result' = IoError
  <2>1. result'.status = 0 BY <1>2 DEF IoError, Bare
  <2> QED BY <2>1 DEF NothingLost
<1>3. CASE UNCHANGED <<result, left, response>> /\ (collecting' = collecting \/ collecting' = {})
  BY <1>3, Zenon DEF NothingLost
<1>4. CASE RecvEnd
  <2>1. UNCHANGED <<left, response, collecting>> BY <1>4, Zenon DEF RecvEnd, wireVars, ctxVars
  <2>2. CASE result' = Bare(EmptyStatus)
    <3>1. result'.status = EmptyStatus BY <2>2 DEF Bare
    <3> QED BY <3>1 DEF NothingLost
  <2>3. CASE result' # Bare(EmptyStatus)
    <3>1. response[1] = Version /\ left = <<>> =>
            /\ result'.payload = Exchange!Body(response)
            /\ \A k \in collecting :
                 result'.headers[k] = Exchange!HeaderSent(response, k)
      BY <1>4, <2>3, EndIsTrue, Zenon
    <3> QED BY <2>1, <3>1, Zenon DEF NothingLost
  <2> QED BY <2>2, <2>3
<1>5. CASE UNCHANGED vars BY <1>3, <1>5 DEF vars, ctxVars, wireVars
<1>6. CASE Connecting
  <2>1. ASSUME NEW u \in Uris, Refuse(u) \/ ConnectPlain(u) \/ ConnectPlainFails(u)
        PROVE  NothingLost'
    BY <1>1, <1>2, <2>1, Zenon DEF Refuse, ConnectPlain, ConnectPlainFails, Open
  <2>2. ASSUME NEW u \in Uris, BeginTls(u) PROVE NothingLost'
    BY <1>3, <2>2, Zenon DEF BeginTls, wireVars
  <2>3. CASE Climb BY <1>1, <1>3, <2>3, Zenon DEF Climb, Open, wireVars, ctxVars
  <2>4. CASE Fall BY <1>2, <2>4, Zenon DEF Fall
  <2>5. CASE EndSession BY <1>3, <2>5, Zenon DEF EndSession, Forgets
  <2> QED BY <1>6, <2>1, <2>2, <2>3, <2>4, <2>5 DEF Connecting
<1>7. CASE Preparing
  BY <1>3, <1>7, Zenon DEF Preparing, HeadersToCollect, AddHeader, wireVars
<1>8. CASE SendUnconnected BY <1>2, <1>8, Zenon DEF SendUnconnected
<1>9. CASE SendRequest \/ SendDies
  BY <1>1, <1>9, Zenon DEF SendRequest, SendDies, InSession
<1>10. CASE RecvFails BY <1>2, <1>10, Zenon DEF RecvFails, Finish
<1>11. CASE Recv
  <2>1. result = None /\ result' = result
    <3>1. pc = "recv" /\ result' = result BY <1>11, Zenon DEF Recv
    <3> QED BY <3>1, BeingRead, Zenon
  <2> QED BY <1>1, <2>1
<1>12. CASE Parsing
  <2>1. result' = IoError \/ UNCHANGED <<result, left, response, collecting>>
    BY <1>12, Zenon DEF Parsing, StatusLine, StatusLineGarbled, StatusLineBad, HeaderEnd,
       HeaderLine, HeaderTooBig, AppendPayload, Finish, ctxVars, wireVars
  <2> QED BY <1>2, <1>3, <2>1
<1> QED BY <1>4, <1>5, <1>6, <1>7, <1>8, <1>9, <1>10, <1>11, <1>12 DEF Next, Receiving

\* However a response that is sent to its end is cut into recv()s, its outcome
\* has all of its body and the first value of every header that was asked for.
THEOREM AllIsReported == Spec => []NothingLost
BY TypeInvInit, TypeInvNext, ParserInvInit, ParserInvNext, NothingLostInit,
   NothingLostNext, PTL DEF Spec

-----------------------------------------------------------------------------
\* The refinement.
Phase == IF pc \in {"idle", "ladder"} THEN "idle"
         ELSE IF pc \in {"panic", "dead"} THEN "dead" ELSE "open"

LEMMA SameErrors == Exchange!IoError = IoError /\ Exchange!Empty = Bare(EmptyStatus)
<1>1. Exchange!IoError = IoError
  BY DEF Exchange!IoError, IoError, Bare, NoHeaders
<1>2. Exchange!Empty = [IoError EXCEPT !.status = 1000]
  BY <1>1, Zenon DEF Exchange!Empty
<1>3. [IoError EXCEPT !.status = 1000] = Bare(1000) BY DEF IoError, Bare
<1> QED BY <1>1, <1>2, <1>3 DEF EmptyStatus

\* The steps of the promise, with the phase spelled out.
LEMMA ExchangeSteps ==
  /\ Phase = "idle" /\ Phase' = "idle" /\ result' = IoError /\ response' = <<>> =>
       Exchange!Next
  /\ Phase = "idle" /\ Phase' = "open" /\ result' = None /\ response' = <<>> =>
       Exchange!Next
  /\ Phase = "open" /\ Phase' = "open" /\ response = <<>> /\ result = None
       /\ response' \in Responses /\ result' = result => Exchange!Next
  /\ Phase = "open" /\ Phase' = "open" /\ result = None /\ response' = response
       /\ result' = IoError => Exchange!Next
  /\ Phase = "open" /\ Phase' = "open" /\ result = None /\ response' = response
       /\ response # <<>> /\ result' # None
       /\ (result' = Exchange!Empty \/ Exchange!Truthful(result', response)) =>
       Exchange!Next
  /\ Phase = "open" /\ Phase' = "idle" /\ UNCHANGED <<response, result>> => Exchange!Next
  /\ Phase = "open" /\ Phase' = "dead" /\ response' \in Responses
       /\ (response # <<>> => response' = response) /\ result' = result => Exchange!Next
  /\ Phase' = Phase /\ UNCHANGED <<response, result>> => UNCHANGED Exchange!vars
BY SameErrors, Zenon DEF Exchange!Next, Exchange!Refuse, Exchange!Open, Exchange!Ask,
   Exchange!Settle, Exchange!Close, Exchange!Die, Exchange!vars, Phase

LEMMA ConnectingRefines ==
  ASSUME Connecting
  PROVE  [Exchange!Next]_(Exchange!vars)
<1>1. ASSUME NEW u \in Uris, Refuse(u) \/ ConnectPlainFails(u)
      PROVE  Exchange!Next
  <2>1. pc = "idle" /\ pc' = pc /\ result' = IoError /\ response' = <<>>
    BY <1>1, Zenon DEF Refuse, ConnectPlainFails
  <2> QED BY <2>1, ExchangeSteps DEF Phase
<1>2. ASSUME pc \in {"idle", "ladder"}, Open PROVE Exchange!Next
  <2>1. pc' = "session" /\ result' = None /\ response' = <<>> BY <1>2, Zenon DEF Open
  <2> QED BY <1>2, <2>1, ExchangeSteps DEF Phase
<1>3. ASSUME NEW u \in Uris, ConnectPlain(u) PROVE Exchange!Next
  BY <1>2, <1>3 DEF ConnectPlain
<1>4. ASSUME NEW u \in Uris, BeginTls(u) PROVE UNCHANGED Exchange!vars
  <2>1. pc = "idle" /\ pc' = "ladder" /\ UNCHANGED <<response, result>>
    BY <1>4, Zenon DEF BeginTls, wireVars
  <2> QED BY <2>1, ExchangeSteps DEF Phase
<1>5. CASE Climb
  <2>1. pc = "ladder" /\ (Open \/ UNCHANGED <<pc, response, result>>)
    BY <1>5, Zenon DEF Climb, wireVars
  <2> QED BY <1>2, <2>1, ExchangeSteps DEF Phase
<1>6. CASE Fall
  <2>1. pc = "ladder" /\ pc' = "idle" /\ result' = IoError /\ response' = <<>>
    BY <1>6, Zenon DEF Fall
  <2> QED BY <2>1, ExchangeSteps DEF Phase
<1>7. CASE EndSession
  <2>1. pc = "session" /\ pc' = "idle" /\ UNCHANGED <<response, result>>
    BY <1>7, Zenon DEF EndSession
  <2> QED BY <2>1, ExchangeSteps DEF Phase
<1> QED BY <1>1, <1>3, <1>4, <1>5, <1>6, <1>7 DEF Connecting

\* A request: asked, or refused, or the process dies of it.
LEMMA AskingRefines ==
  ASSUME TypeInv, ParserInv,
         Preparing \/ SendUnconnected \/ SendRequest \/ SendDies \/ Recv \/ RecvFails
  PROVE  [Exchange!Next]_(Exchange!vars)
<1>1. CASE Preparing
  <2>1. UNCHANGED <<pc, response, result>>
    BY <1>1, Zenon DEF Preparing, HeadersToCollect, AddHeader, InSession, wireVars
  <2> QED BY <2>1, ExchangeSteps DEF Phase
<1>2. CASE SendUnconnected
  <2>1. /\ pc = "session" /\ pc' = "session" /\ result = None
        /\ result' = IoError /\ response' = response
    BY <1>2, Zenon DEF SendUnconnected, InSession, wireVars
  <2> QED BY <2>1, ExchangeSteps DEF Phase
<1>3. CASE SendRequest \/ SendDies
  <2>1. /\ pc = "session" /\ pc' \in {"recv", "dead"} /\ result = None /\ response = <<>>
        /\ result' = result /\ response' \in Responses
    BY <1>3 DEF SendRequest, SendDies, InSession, Asks
  <2> QED BY <2>1, ExchangeSteps DEF Phase
<1>4. CASE Recv
  <2>1. pc = "recv" /\ UNCHANGED <<response, result>> BY <1>4, Zenon DEF Recv
  <2>2. pc' \in {"panic", "first", "headers"} BY <1>4, Zenon DEF Recv
  <2>3. response \in Responses BY <2>1, BeingRead, Zenon
  <2> QED BY <2>1, <2>2, <2>3, ExchangeSteps DEF Phase
<1>5. CASE RecvFails
  <2>1. pc = "recv" /\ pc' = "session" /\ result' = IoError /\ response' = response
    BY <1>5, Zenon DEF RecvFails, Finish, wireVars
  <2>2. result = None BY <2>1, BeingRead, Zenon
  <2> QED BY <2>1, <2>2, ExchangeSteps DEF Phase
<1> QED BY <1>1, <1>2, <1>3, <1>4, <1>5

\* The end of a response settles its outcome truthfully.
LEMMA EndRefines ==
  ASSUME TypeInv, ParserInv, RecvEnd
  PROVE  [Exchange!Next]_(Exchange!vars)
<1>1. pc = "recv" /\ pc' = "session" /\ response' = response
  BY Zenon DEF RecvEnd, Finish, wireVars
<1>2. response \in Responses /\ result = None BY EndIsTrue, Zenon
<1>3. response # <<>> BY <1>2, NotEmpty
<1>4. result' = Exchange!Empty \/ Exchange!Truthful(result', response)
  <2>1. CASE result' = Bare(EmptyStatus) BY <2>1, SameErrors
  <2>2. CASE result' # Bare(EmptyStatus)
    <3>1. response[1] = Version =>
            /\ result'.status = Atoi[response[2]]
            /\ \A k \in Key :
                 result'.headers[k] \in {None, Exchange!HeaderSent(response, k)}
            /\ PrefixOf(result'.payload, Exchange!Body(response))
      BY <2>2, EndIsTrue, Zenon
    <3> QED BY <3>1, SameFind, Zenon DEF Exchange!Truthful
  <2> QED BY <2>1, <2>2
<1>5. Phase = "open" /\ Phase' = "open" BY <1>1 DEF Phase
<1>6. CASE result' = None BY <1>1, <1>2, <1>5, <1>6, ExchangeSteps, Zenon
<1>7. CASE result' # None BY <1>1, <1>2, <1>3, <1>4, <1>5, <1>7, ExchangeSteps, Zenon
<1> QED BY <1>6, <1>7

LEMMA ParsingRefines ==
  ASSUME TypeInv, ParserInv, Parsing
  PROVE  [Exchange!Next]_(Exchange!vars)
<1>1. pc \in {"first", "headers"} /\ pc' \in {"session", "recv", "headers"}
  BY DEF Parsing, StatusLine, StatusLineGarbled, StatusLineBad, HeaderEnd, HeaderLine,
     HeaderTooBig, AppendPayload, Finish, InHeaders
<1>2. response' = response /\ (result' = result \/ result' = IoError)
  BY Zenon DEF Parsing, StatusLine, StatusLineGarbled, StatusLineBad, HeaderEnd,
     HeaderLine, HeaderTooBig, AppendPayload, Finish, wireVars
<1>3. result = None BY <1>1, BeingRead, Zenon
<1>4. Phase = "open" /\ Phase' = "open" BY <1>1 DEF Phase
<1> QED BY <1>2, <1>3, <1>4, ExchangeSteps, Zenon

\* The client keeps the promise of HttpExchange: each call has one outcome, which
\* is an error or tells the truth about what the server sent.
THEOREM KeepsItsPromise == Spec => OneTruthfulOutcome
<1>1. Init => Exchange!Init
  BY DEF Init, Exchange!Init
<1>2. TypeInv /\ ParserInv /\ [Next]_vars => [Exchange!Next]_(Exchange!vars)
  <2> SUFFICES ASSUME TypeInv, ParserInv, [Next]_vars
               PROVE  [Exchange!Next]_(Exchange!vars)
    OBVIOUS
  <2>1. CASE UNCHANGED vars
    <3>1. UNCHANGED <<pc, response, result>> BY <2>1, Zenon DEF vars, wireVars
    <3> QED BY <3>1, ExchangeSteps DEF Phase
  <2> QED BY <2>1, ConnectingRefines, AskingRefines, EndRefines, ParsingRefines
          DEF Next, Receiving
<1> QED BY <1>1, <1>2, TypeInvInit, TypeInvNext, ParserInvInit, ParserInvNext, PTL
        DEF Spec, OneTruthfulOutcome, Exchange!Spec

-----------------------------------------------------------------------------
\* The text of a URI: its host, the port with its colon, its path.
UriChar == Char \union {":", "/"}
Colon(u) == IF u.port = <<>> THEN <<>> ELSE <<":">> \o u.port
HostLen(u) == Len(u.host)
ColonLen(u) == Len(Colon(u))
PathLen(u) == Len(u.path)

LEMMA PutTogether ==
  \A s, t, u \in Seq(UriChar) :
    /\ (s \o t) \o u \in Seq(UriChar)
    /\ Len((s \o t) \o u) = Len(s) + Len(t) + Len(u)
    /\ \A i \in 1..Len(s) : ((s \o t) \o u)[i] = s[i]
    /\ \A i \in 1..Len(t) : ((s \o t) \o u)[Len(s) + i] = t[i]
    /\ \A i \in 1..Len(u) : ((s \o t) \o u)[Len(s) + Len(t) + i] = u[i]
    /\ Take((s \o t) \o u, Len(s)) = s
    /\ Drop((s \o t) \o u, Len(s) + Len(t)) = u
BY ThreeParts

\* Where they stand in the text, and what is left of it in front and behind.
LEMMA RestParts ==
  ASSUME NEW u \in UriType
  PROVE  /\ HostLen(u) \in Nat /\ ColonLen(u) \in Nat /\ PathLen(u) \in Nat
         /\ u.host \in Seq(UriChar) /\ u.port \in Seq(UriChar) /\ u.path \in Seq(UriChar)
         /\ Rest(u) \in Seq(UriChar) /\ Len(Rest(u)) = HostLen(u) + ColonLen(u) + PathLen(u)
         /\ ColonLen(u) = IF u.port = <<>> THEN 0 ELSE 1 + Len(u.port)
         /\ \A i \in 1..HostLen(u) : Rest(u)[i] = u.host[i] /\ u.host[i] \notin {":", "/"}
         /\ ColonLen(u) # 0 => Rest(u)[HostLen(u) + 1] = ":"
         /\ \A i \in 2..ColonLen(u) : Rest(u)[HostLen(u) + i] \notin {":", "/"}
         /\ \A i \in 1..PathLen(u) : Rest(u)[HostLen(u) + ColonLen(u) + i] = u.path[i]
         /\ u.path # <<>> => PathLen(u) >= 1 /\ u.path[1] = "/"
         /\ Take(Rest(u), HostLen(u)) = u.host
         /\ Drop(Rest(u), HostLen(u) + ColonLen(u)) = u.path
         /\ ColonLen(u) # 0 => Drop(Rest(u), HostLen(u) + 1) = u.port \o u.path
<1> DEFINE S == UriChar
           h == HostLen(u)
           m == ColonLen(u)
           n == PathLen(u)
           c == Colon(u)
           host == u.host
           port == u.port
           path == u.path
           r == Rest(u)
<1>1. /\ host \in Seq(Char \ {":", "/"}) /\ port \in Seq(Char \ {":", "/"})
      /\ path \in Seq(Char) /\ (path = <<>> \/ path[1] = "/")
  BY DEF UriType, Name
<1>2. host \in Seq(S) /\ port \in Seq(S) /\ path \in Seq(S)
  <2>1. Char \ {":", "/"} \subseteq S /\ Char \subseteq S BY DEF UriChar
  <2> HIDE DEF S
  <2> QED BY <1>1, <2>1, SeqMonotonic
<1>3. \A i \in 1..Len(host) : host[i] \notin {":", "/"}
  <2>1. \A i \in 1..Len(host) : host[i] \in Char \ {":", "/"}
    BY <1>1, ElementOfSeq, Zenon
  <2> QED BY <2>1
<1>4. \A i \in 1..Len(port) : port[i] \notin {":", "/"}
  <2>1. \A i \in 1..Len(port) : port[i] \in Char \ {":", "/"}
    BY <1>1, ElementOfSeq, Zenon
  <2> QED BY <2>1
<1>5. <<":">> \in Seq(S) /\ Len(<<":">>) = 1 /\ <<":">>[1] = ":" BY DEF UriChar
<1>6. c = IF port = <<>> THEN <<>> ELSE <<":">> \o port BY DEF Colon
<1>7. r = (host \o c) \o path BY <1>6 DEF Rest
<1>8. c \in Seq(S)
  <2>1. <<":">> \o port \in Seq(S) BY <1>2, <1>5, ConcatProperties, Zenon
  <2>2. <<>> \in Seq(S) OBVIOUS
  <2> QED BY <1>6, <2>1, <2>2, Zenon
<1> HIDE DEF S, r, c, host, port, path, h, m, n
<1>9. /\ h = Len(host) /\ m = Len(c) /\ n = Len(path)
      /\ h \in Nat /\ m \in Nat /\ n \in Nat
  <2>1. h = Len(host) /\ m = Len(c) /\ n = Len(path)
    BY DEF host, c, path, h, m, n, HostLen, ColonLen, PathLen
  <2> QED BY <1>2, <1>8, <2>1, LenProperties
<1>10. /\ r \in Seq(S) /\ Len(r) = h + m + n
       /\ \A i \in 1..h : r[i] = host[i]
       /\ \A i \in 1..m : r[h + i] = c[i]
       /\ \A i \in 1..n : r[h + m + i] = path[i]
       /\ Take(r, h) = host
       /\ Drop(r, h + m) = path
  <2> DEFINE all == (host \o c) \o path
  <2>1. /\ all \in Seq(S) /\ Len(all) = Len(host) + Len(c) + Len(path)
        /\ \A i \in 1..Len(host) : all[i] = host[i]
        /\ \A i \in 1..Len(c) : all[Len(host) + i] = c[i]
        /\ \A i \in 1..Len(path) : all[Len(host) + Len(c) + i] = path[i]
        /\ Take(all, Len(host)) = host
        /\ Drop(all, Len(host) + Len(c)) = path
    <3>1. host \in Seq(UriChar) /\ c \in Seq(UriChar) /\ path \in Seq(UriChar)
      BY <1>2, <1>8 DEF S
    <3>2. all \in Seq(UriChar) BY <3>1, PutTogether
    <3>3. Len(all) = Len(host) + Len(c) + Len(path) BY <3>1, PutTogether
    <3>4. \A i \in 1..Len(host) : all[i] = host[i] BY <3>1, PutTogether
    <3>5. \A i \in 1..Len(c) : all[Len(host) + i] = c[i] BY <3>1, PutTogether
    <3>6. \A i \in 1..Len(path) : all[Len(host) + Len(c) + i] = path[i] BY <3>1, PutTogether
    <3>7. Take(all, Len(host)) = host BY <3>1, PutTogether
    <3>8. Drop(all, Len(host) + Len(c)) = path BY <3>1, PutTogether
    <3> QED BY <3>2, <3>3, <3>4, <3>5, <3>6, <3>7, <3>8 DEF S
  <2> HIDE DEF all
  <2>2. r = all BY <1>7 DEF all
  <2> QED BY <1>9, <2>1, <2>2, Zenon
<1>11. path # <<>> => n >= 1 BY <1>2, <1>9, EmptySeq
<1>12. /\ m = IF port = <<>> THEN 0 ELSE 1 + Len(port)
       /\ m # 0 => r[h + 1] = ":" /\ Drop(r, h + 1) = port \o path
       /\ \A i \in 2..m : r[h + i] \notin {":", "/"}
  <2>1. CASE port = <<>>
    <3>1. c = <<>> BY <1>6, <2>1
    <3>2. m = 0 /\ 2..m = {} BY <1>9, <3>1
    <3> QED BY <2>1, <3>2
  <2>2. CASE port # <<>>
    <3> DEFINE k == <<":">>
               q == Len(port)
    <3>1. k \in Seq(S) /\ Len(k) = 1 /\ k[1] = ":" BY <1>5
    <3> HIDE DEF k
    <3>2. c = k \o port BY <1>6, <2>2 DEF k
    <3>3. q \in Nat BY <1>2, LenProperties
    <3>4. /\ Len(c) = 1 + q
          /\ \A i \in 1..(1 + q) : c[i] = IF i <= 1 THEN k[i] ELSE port[i - 1]
      <4>1. /\ Len(k \o port) = Len(k) + q
            /\ \A i \in 1..(Len(k) + q) :
                 (k \o port)[i] = IF i <= Len(k) THEN k[i] ELSE port[i - Len(k)]
        BY <1>2, <3>1, ConcatProperties, Zenon
      <4> QED BY <3>1, <3>2, <4>1
    <3>5. m = 1 + q BY <1>9, <3>4
    <3>6. r[h + 1] = ":"
      <4>1. 1 \in 1..m BY <3>3, <3>5
      <4>2. c[1] = ":" BY <3>1, <3>4, <3>5, <4>1
      <4> QED BY <1>10, <4>1, <4>2
    <3>7. ASSUME NEW i \in 2..m PROVE r[h + i] \notin {":", "/"}
      <4>1. i \in 1..m /\ i \in 1..(1 + q) /\ ~(i <= 1) /\ i - 1 \in 1..q
        BY <3>3, <3>5
      <4>2. c[i] = port[i - 1] BY <3>4, <4>1, Zenon
      <4>3. r[h + i] = c[i] BY <1>10, <4>1
      <4> QED BY <1>4, <4>1, <4>2, <4>3
    <3>8. Drop(r, h + 1) = port \o path
      <4>1. (host \o k) \o port = host \o (k \o port)
        <5>1. host \in Seq(S) /\ k \in Seq(S) /\ port \in Seq(S) BY <1>2, <3>1
        <5> QED BY <5>1, ConcatAssociative
      <4>2. r = ((host \o k) \o port) \o path BY <1>7, <3>2, <4>1
      <4> DEFINE x == host \o k
      <4>3. x \in Seq(S) /\ Len(x) = h + 1 /\ h + 1 \in Nat
        <5>1. x \in Seq(S) /\ Len(x) = Len(host) + Len(k)
          BY <1>2, <3>1, ConcatProperties, Zenon
        <5> QED BY <1>9, <3>1, <5>1
      <4> HIDE DEF x
      <4>4. (x \o port) \o path = x \o (port \o path)
        BY <1>2, <4>3, ConcatAssociative, SMTT(60)
      <4>5. port \o path \in Seq(S) BY <1>2, ConcatProperties, Zenon
      <4>6. Drop(x \o (port \o path), Len(x)) = port \o path
        BY <4>3, <4>5, ConcatParts, Zenon
      <4> QED BY <4>2, <4>3, <4>4, <4>6 DEF x
    <3> QED BY <2>2, <3>5, <3>6, <3>7, <3>8
  <2> QED BY <2>1, <2>2
<1>13. \A i \in 1..h : r[i] = host[i] /\ host[i] \notin {":", "/"}
  BY <1>3, <1>9, <1>10
<1> QED BY <1>1, <1>2, <1>9, <1>10, <1>11, <1>12, <1>13, Zenon DEF S, r, host, port, path, h, m, n

\* strtoul() stops where the path begins.
LEMMA DigitsOf ==
  ASSUME NEW port \in Seq(UriChar), NEW path \in Seq(UriChar),
         port \in Seq(DOMAIN Digit), path = <<>> \/ path[1] = "/"
  PROVE  LeadingDigits(port \o path) = port
<1> DEFINE S == UriChar
           text == port \o path
           q == Len(port)
           others == {i \in 1..Len(text) : text[i] \notin DOMAIN Digit}
           first == CHOOSE i \in others : \A j \in others : i <= j
<1>1. LeadingDigits(text) =
        IF others = {} THEN text
        ELSE Take(text, first - 1)
  BY Zenon DEF LeadingDigits
<1>2. /\ text \in Seq(S) /\ Len(text) = q + Len(path)
      /\ \A i \in 1..(q + Len(path)) : text[i] = IF i <= q THEN port[i] ELSE path[i - q]
  BY ConcatProperties, Zenon
<1>3. q \in Nat /\ Len(path) \in Nat BY LenProperties
<1>4. \A i \in 1..q : port[i] \in DOMAIN Digit BY ElementOfSeq
<1>5. Take(text, q) = port BY ConcatParts, Zenon
<1> HIDE DEF S
<1>6. CASE path = <<>>
  <2>1. Len(path) = 0 /\ text = port BY <1>6, ConcatEmptySeq
  <2>2. others = {} BY <1>2, <1>3, <1>4, <2>1
  <2> QED BY <1>1, <2>1, <2>2
<1>7. CASE path # <<>>
  <2>1. Len(path) >= 1 /\ path[1] = "/" BY <1>7, EmptySeq
  <2> HIDE DEF text, q
  <2>2. text[q + 1] = "/"
    <3> DEFINE x == q + 1
    <3>1. x \in 1..(q + Len(path)) /\ ~(x <= q) /\ x - q = 1 BY <1>3, <2>1
    <3> HIDE DEF x
    <3>2. text[x] = path[x - q] BY <1>2, <3>1
    <3> QED BY <2>1, <3>1, <3>2 DEF x
  <2>3. q + 1 \in others
    <3>1. "/" \notin DOMAIN Digit BY DigitAssumption
    <3>2. q + 1 \in 1..Len(text) BY <1>2, <1>3, <2>1
    <3> QED BY <2>2, <3>1, <3>2
  <2>4. ASSUME NEW j \in others PROVE q + 1 <= j
    <3>1. j \in Nat /\ j >= 1 /\ j <= q + Len(path) /\ text[j] \notin DOMAIN Digit
      BY <1>2, <1>3
    <3>2. CASE j <= q
      <4>1. text[j] = port[j] /\ j \in 1..q BY <1>2, <1>3, <3>1, <3>2
      <4> QED BY <1>4, <3>1, <4>1
    <3> QED BY <1>3, <3>1, <3>2
  <2>5. others \subseteq Nat BY <1>2, <1>3
  <2> HIDE DEF others
  <2>6. first = q + 1
    BY <2>3, <2>4, <2>5, Least, Zenon
  <2> HIDE DEF first
  <2>7. others # {} /\ first - 1 = q BY <1>3, <2>3, <2>6
  <2>8. LeadingDigits(text) = Take(text, q) BY <1>1, <2>7, Zenon
  <2> QED BY <1>5, <2>8 DEF text, q
<1> QED BY <1>6, <1>7

LEMMA SlashInPath ==
  ASSUME NEW u \in UriType
  PROVE  /\ u.path = <<>> => ~Contains(Rest(u), <<"/">>)
         /\ u.path # <<>> => Find(Rest(u), <<"/">>) = HostLen(u) + ColonLen(u) + 1
<1> DEFINE r == Rest(u)
           h == HostLen(u)
           m == ColonLen(u)
           n == PathLen(u)
<1>1. h \in Nat /\ m \in Nat /\ n \in Nat BY RestParts, Zenon
<1>2. /\ r \in Seq(UriChar) /\ Len(r) = h + m + n
      /\ \A i \in 1..h : r[i] = u.host[i] /\ u.host[i] \notin {":", "/"}
      /\ m # 0 => r[h + 1] = ":"
      /\ \A i \in 2..m : r[h + i] \notin {":", "/"}
      /\ \A i \in 1..n : r[h + m + i] = u.path[i]
      /\ u.path # <<>> => n >= 1 /\ u.path[1] = "/"
  BY RestParts, Zenon
<1> HIDE DEF r, h, m, n
<1>3. ASSUME NEW j \in 1..(h + m) PROVE r[j] # "/"
  <2>1. CASE j <= h BY <1>1, <1>2, <2>1
  <2>2. CASE j = h + 1 BY <1>1, <1>2, <2>2
  <2>3. CASE j > h + 1
    <3> DEFINE i == j - h
    <3>1. i \in 2..m /\ h + i = j BY <1>1, <2>3
    <3> HIDE DEF i
    <3>2. r[h + i] \notin {":", "/"} BY <1>2, <3>1
    <3> QED BY <3>1, <3>2
  <2> QED BY <1>1, <2>1, <2>2, <2>3
<1>4. CASE u.path = <<>>
  <2>1. n = 0 BY <1>4 DEF n, PathLen
  <2>2. Find(r, <<"/">>) \in 0..Len(r) /\ (Find(r, <<"/">>) # 0 => r[Find(r, <<"/">>)] = "/")
    BY <1>2, FirstOne
  <2>3. Find(r, <<"/">>) = 0 BY <1>1, <1>2, <1>3, <2>1, <2>2
  <2> QED BY <1>4, <2>3 DEF Contains, r
<1>5. CASE u.path # <<>>
  <2> DEFINE x == h + m + 1
  <2>1. x \in Nat /\ x >= 1 /\ x <= Len(r) /\ x - 1 = h + m BY <1>1, <1>2, <1>5
  <2>2. r[x] = "/"
    <3>1. 1 \in 1..n BY <1>1, <1>2, <1>5
    <3> QED BY <1>2, <1>5, <3>1
  <2>3. \A j \in 1..(x - 1) : r[j] # "/" BY <1>3, <2>1
  <2> HIDE DEF x
  <2>4. r \in Seq(UriChar) BY <1>2
  <2>5. Find(r, <<"/">>) = x BY <2>1, <2>2, <2>3, <2>4, FoundAt
  <2> QED BY <1>5, <2>5 DEF r, x, h, m
<1> QED BY <1>4, <1>5

\* No scheme but one in the path is found again.
LEMMA NoScheme ==
  ASSUME NEW u \in UriType, ~Contains(u.path, Scheme)
  PROVE  ~Contains(Rest(u), Scheme)
<1> DEFINE r == Rest(u)
           h == HostLen(u)
           m == ColonLen(u)
           n == PathLen(u)
<1>1. h \in Nat /\ m \in Nat /\ n \in Nat /\ u.path \in Seq(UriChar)
      /\ r \in Seq(UriChar) /\ Len(r) = h + m + n
  BY RestParts, Zenon
<1>2. /\ m = IF u.port = <<>> THEN 0 ELSE 1 + Len(u.port)
      /\ \A i \in 1..h : r[i] = u.host[i] /\ u.host[i] \notin {":", "/"}
      /\ \A i \in 2..m : r[h + i] \notin {":", "/"}
      /\ \A i \in 1..n : r[h + m + i] = u.path[i]
  BY RestParts, Zenon
<1> HIDE DEF h, m, n
<1>3. m # 1
  <2>1. u.port \in Seq(Char \ {":", "/"}) BY DEF UriType, Name
  <2>2. u.port # <<>> => Len(u.port) \in Nat \ {0} BY <2>1, EmptySeq
  <2> QED BY <1>2, <2>2
<1>4. /\ Scheme \in Seq(UriChar) /\ Len(Scheme) = 3
      /\ Scheme[1] = ":" /\ Scheme[2] = "/" /\ Scheme[3] = "/"
  BY DEF Scheme, UriChar
<1> HIDE DEF r
<1>5. ASSUME NEW i \in 1..(Len(r) - 3 + 1), r[i] = ":", r[i + 1] = "/", r[i + 2] = "/"
      PROVE  FALSE
  <2>a. i \in Nat /\ i >= 1 /\ i + 2 <= h + m + n BY <1>1
  <2>1. i > h
    <3>1. i \in 1..h => r[i] \notin {":", "/"} BY <1>2
    <3> QED BY <1>1, <1>5, <2>a, <3>1
  <2>2. i > h + m
    <3>1. CASE i = h + 1 /\ m # 0
      <4>1. 2 \in 2..m BY <1>1, <1>3, <3>1
      <4>2. r[h + 2] \notin {":", "/"} BY <1>2, <4>1
      <4>3. i + 1 = h + 2 BY <1>1, <3>1
      <4> QED BY <1>5, <4>2, <4>3
    <3>2. CASE i > h + 1 /\ i <= h + m
      <4> DEFINE k == i - h
      <4>1. k \in 2..m /\ h + k = i BY <1>1, <3>2
      <4> HIDE DEF k
      <4>2. r[h + k] \notin {":", "/"} BY <1>2, <4>1
      <4> QED BY <1>5, <4>1, <4>2
    <3> QED BY <1>1, <2>1, <3>1, <3>2
  <2> DEFINE j == i - h - m
  <2>b. j \in Nat /\ j >= 1 /\ j + 2 <= n /\ h + m + j = i BY <1>1, <2>a, <2>2
  <2>3. /\ j \in 1..(n - 3 + 1) /\ h + m + j = i
        /\ j \in 1..n /\ j + 1 \in 1..n /\ j + 2 \in 1..n
        /\ h + m + (j + 1) = i + 1 /\ h + m + (j + 2) = i + 2
    BY <1>1, <2>b
  <2> HIDE DEF j
  <2>4. u.path[j] = ":" /\ u.path[j + 1] = "/" /\ u.path[j + 2] = "/"
    BY <1>2, <1>5, <2>3
  <2>5. \A k \in 1..3 : u.path[j + k - 1] = Scheme[k]
    <3>1. j + 1 - 1 = j /\ j + 2 - 1 = j + 1 /\ j + 3 - 1 = j + 2 BY <2>3
    <3>2. \A k \in 1..3 : k = 1 \/ k = 2 \/ k = 3 OBVIOUS
    <3> QED BY <1>4, <2>4, <3>1, <3>2
  <2>6. Contains(u.path, Scheme) <=>
          \E x \in 1..(n - 3 + 1) : \A k \in 1..3 : u.path[x + k - 1] = Scheme[k]
    <3>1. Len(Scheme) >= 1 BY <1>4
    <3>2. Contains(u.path, Scheme) <=>
            \E x \in 1..(Len(u.path) - Len(Scheme) + 1) :
              \A k \in 1..Len(Scheme) : u.path[x + k - 1] = Scheme[k]
      BY <1>1, <1>4, <3>1, Occurs, Zenon
    <3> QED BY <1>4, <3>2 DEF n, PathLen
  <2> QED BY <2>3, <2>5, <2>6
<1>6. Contains(r, Scheme) =>
        \E i \in 1..(Len(r) - 3 + 1) : \A k \in 1..3 : r[i + k - 1] = Scheme[k]
  <2>1. Len(Scheme) >= 1 /\ Scheme \in Seq(UriChar) /\ r \in Seq(UriChar) BY <1>1, <1>4
  <2>2. Contains(r, Scheme) <=>
          \E x \in 1..(Len(r) - Len(Scheme) + 1) :
            \A k \in 1..Len(Scheme) : r[x + k - 1] = Scheme[k]
    BY <2>1, Occurs
  <2> QED BY <1>4, <2>2
<1>7. ASSUME NEW i \in 1..(Len(r) - 3 + 1), \A k \in 1..3 : r[i + k - 1] = Scheme[k]
      PROVE  FALSE
  <2>1. i + 1 - 1 = i /\ i + 2 - 1 = i + 1 /\ i + 3 - 1 = i + 2 BY <1>1, <1>2
  <2>2. r[i + 1 - 1] = Scheme[1] /\ r[i + 2 - 1] = Scheme[2] /\ r[i + 3 - 1] = Scheme[3]
    BY <1>7
  <2> QED BY <1>4, <1>5, <2>1, <2>2
<1> QED BY <1>6, <1>7 DEF r

\* A URI without a port whose text holds a colon names no host.
LEMMA NoColon ==
  ASSUME NEW u \in UriType, HostOf(u) \in Name, u.port = <<>>
  PROVE  ~Contains(Rest(u), <<":">>)
<1> DEFINE r == Rest(u)
           h == HostLen(u)
           n == PathLen(u)
           f == Find(r, <<":">>)
<1>1. h \in Nat /\ n \in Nat /\ ColonLen(u) = 0 BY RestParts, Zenon
<1>2. /\ r \in Seq(UriChar) /\ Len(r) = h + n
      /\ \A i \in 1..h : r[i] \notin {":", "/"}
      /\ \A i \in 1..n : r[h + 0 + i] = u.path[i]
      /\ u.path # <<>> => n >= 1 /\ u.path[1] = "/"
  <2>1. /\ r \in Seq(UriChar) /\ Len(r) = h + ColonLen(u) + n
        /\ \A i \in 1..h : r[i] = u.host[i] /\ u.host[i] \notin {":", "/"}
        /\ \A i \in 1..n : r[h + ColonLen(u) + i] = u.path[i]
        /\ u.path # <<>> => n >= 1 /\ u.path[1] = "/"
    BY RestParts, Zenon
  <2> HIDE DEF r, h, n
  <2> QED BY <1>1, <2>1
<1>3. u.path = <<>> => n = 0 BY DEF PathLen
<1> HIDE DEF r, h, n
<1>4. SUFFICES ASSUME f # 0 PROVE FALSE BY DEF r, Contains
<1>5. f \in 1..Len(r) /\ r[f] = ":"
  <2>1. f \in 0..Len(r) /\ (f # 0 => r[f] = ":") BY <1>2, FirstOne
  <2> HIDE DEF f
  <2> QED BY <1>1, <1>2, <1>4, <2>1
<1> HIDE DEF f
<1>6. f > h BY <1>1, <1>2, <1>5
<1>7. n >= 1 /\ r[h + 1] = "/"
  <2>1. n >= 1 /\ u.path[1] = "/" BY <1>1, <1>2, <1>3, <1>5, <1>6
  <2>2. r[h + 0 + 1] = u.path[1] BY <1>1, <1>2, <2>1
  <2> QED BY <1>1, <2>1, <2>2
<1>8. f > h + 1 BY <1>1, <1>2, <1>5, <1>6, <1>7
<1>9. HostOf(u) = Take(r, f - 1)
  BY <1>4, Zenon DEF HostOf, Contains, f, r
<1>10. f - 1 \in 0..Len(r) /\ h + 1 \in 1..(f - 1) BY <1>1, <1>2, <1>5, <1>8
<1> DEFINE k == f - 1
<1>11. k \in 0..Len(r) /\ h + 1 \in 1..k BY <1>10
<1> HIDE DEF k
<1>12. Len(Take(r, k)) = k /\ Take(r, k)[h + 1] = r[h + 1]
  BY <1>2, <1>11, TakeType
<1>13. Take(r, k) \in Seq(Char \ {":", "/"}) BY <1>9 DEF Name, k
<1>14. Take(r, k)[h + 1] \in Char \ {":", "/"}
  BY <1>11, <1>12, <1>13, ElementOfSeq
<1> QED BY <1>7, <1>12, <1>14

LEMMA Remainder ==
  ASSUME NEW n \in Nat, NEW k \in Nat, n < k
  PROVE  n % k = n
BY SMT

LEMMA SixteenBits ==
  ASSUME NEW n \in Port
  PROVE  Uint16(n) = n
<1>1. n \in Nat /\ n < 65536 BY DEF Port
<1>2. 65536 \in Nat OBVIOUS
<1>3. n % 65536 = n BY <1>1, <1>2, Remainder, SMT
<1> QED BY <1>3, SMT DEF Uint16

\* The port is what the 16 low bits of the number behind the first colon are.
LEMMA PortIs ==
  ASSUME NEW u
  PROVE  /\ ~Contains(Rest(u), <<":">>) => PortOf(u) = DefaultPort(u)
         /\ Contains(Rest(u), <<":">>) =>
              PortOf(u) = Uint16(Number(LeadingDigits(Drop(Rest(u), Find(Rest(u), <<":">>)))))
BY Zenon DEF PortOf

LEMMA UriReads ==
  ASSUME NEW u \in UriType, HostOf(u) \in Name
  PROVE  /\ HostOf(u) = u.host
         /\ u.port = <<>> => PortOf(u) = DefaultPort(u)
         /\ u.port \in Seq(DOMAIN Digit) \ {<<>>} /\ Number(u.port) \in Port =>
              PortOf(u) = Number(u.port)
         /\ ~Contains(u.path, Scheme) =>
              PathOf(u) = IF u.path = <<>> THEN <<"/">> ELSE u.path
<1> DEFINE r == Rest(u)
           h == HostLen(u)
           m == ColonLen(u)
           n == PathLen(u)
<1>1. /\ h \in Nat /\ m \in Nat /\ n \in Nat
      /\ u.port \in Seq(UriChar) /\ u.path \in Seq(UriChar)
      /\ r \in Seq(UriChar) /\ Len(r) = h + m + n
      /\ m = IF u.port = <<>> THEN 0 ELSE 1 + Len(u.port)
      /\ \A i \in 1..h : r[i] = u.host[i] /\ u.host[i] \notin {":", "/"}
      /\ m # 0 => r[h + 1] = ":"
      /\ u.path # <<>> => n >= 1 /\ u.path[1] = "/"
      /\ Take(r, h) = u.host
      /\ Drop(r, h + m) = u.path
      /\ m # 0 => Drop(r, h + 1) = u.port \o u.path
  BY RestParts, Zenon
<1>2. u.path = <<>> => n = 0 BY DEF PathLen
<1>3. /\ u.path = <<>> => ~Contains(r, <<"/">>)
      /\ u.path # <<>> => Find(r, <<"/">>) = h + m + 1
  BY SlashInPath, Zenon
<1>4. u.port = <<>> <=> m = 0
  <2>1. u.port # <<>> => Len(u.port) \in Nat \ {0} BY <1>1, EmptySeq
  <2> QED BY <1>1, <2>1
<1>5. m # 0 => Find(r, <<":">>) = h + 1
  <2> HIDE DEF r, h, m, n
  <2> SUFFICES ASSUME m # 0 PROVE Find(r, <<":">>) = h + 1 OBVIOUS
  <2> DEFINE x == h + 1
  <2>1. x \in Nat /\ x >= 1 /\ x <= Len(r) /\ x - 1 = h /\ r[x] = ":" BY <1>1
  <2>2. \A j \in 1..(x - 1) : r[j] # ":" BY <1>1, <2>1
  <2>3. r \in Seq(UriChar) BY <1>1
  <2> HIDE DEF x
  <2>4. Find(r, <<":">>) = x BY <2>1, <2>2, <2>3, FoundAt
  <2> QED BY <2>4 DEF x
<1>6. m = 0 => ~Contains(r, <<":">>) BY <1>4, NoColon, Zenon
<1>7. HostOf(u) =
        IF Find(r, <<":">>) # 0 THEN Take(r, Find(r, <<":">>) - 1)
        ELSE IF Find(r, <<"/">>) # 0 THEN Take(r, Find(r, <<"/">>) - 1) ELSE r
  BY Zenon DEF HostOf, Contains
<1>9. PathOf(u) =
        IF Find(AfterScheme(r), <<"/">>) = 0 THEN <<"/">>
        ELSE Drop(r, Find(AfterScheme(r), <<"/">>) - 1)
  BY Zenon DEF PathOf
<1>10. ~Contains(u.path, Scheme) => AfterScheme(r) = r
  BY NoScheme, Zenon DEF AfterScheme
<1> HIDE DEF r, h, m, n
<1>11. HostOf(u) = u.host
  <2>1. CASE m # 0
    <3>1. h + 1 # 0 /\ h + 1 - 1 = h BY <1>1
    <3> QED BY <1>1, <1>5, <1>7, <2>1, <3>1
  <2>2. CASE m = 0 /\ u.path # <<>>
    <3>1. Find(r, <<":">>) = 0 BY <1>6, <2>2 DEF Contains
    <3>2. Find(r, <<"/">>) = h + 1 BY <1>1, <1>3, <2>2
    <3>3. h + 1 # 0 /\ h + 1 - 1 = h BY <1>1
    <3> QED BY <1>1, <1>7, <3>1, <3>2, <3>3
  <2>3. CASE m = 0 /\ u.path = <<>>
    <3>1. Find(r, <<":">>) = 0 /\ Find(r, <<"/">>) = 0
      BY <1>3, <1>6, <2>3 DEF Contains
    <3>2. Len(r) = h BY <1>1, <1>2, <2>3
    <3>3. Take(r, h) = r BY <1>1, <3>2, SubSeqFull DEF Take
    <3> QED BY <1>1, <1>7, <3>1, <3>3
  <2> QED BY <2>1, <2>2, <2>3
<1>12. u.port = <<>> => PortOf(u) = DefaultPort(u)
  BY <1>4, <1>6, PortIs, Zenon DEF r
<1>13. ASSUME u.port \in Seq(DOMAIN Digit) \ {<<>>}, Number(u.port) \in Port
       PROVE  PortOf(u) = Number(u.port)
  <2>1. u.port # <<>> /\ u.port \in Seq(DOMAIN Digit) BY <1>13, Zenon
  <2> HIDE <1>13
  <2>2. m # 0 BY <1>4, <2>1, Zenon
  <2>3. h + 1 # 0 /\ Find(r, <<":">>) = h + 1 BY <1>1, <1>5, <2>2
  <2>4. Drop(r, Find(r, <<":">>)) = u.port \o u.path BY <1>1, <2>2, <2>3, Zenon
  <2>5. LeadingDigits(u.port \o u.path) = u.port
    <3>1. u.path = <<>> \/ u.path[1] = "/" BY <1>1, Zenon
    <3> QED BY <1>1, <2>1, <3>1, DigitsOf, Zenon
  <2>6. Contains(r, <<":">>) BY <2>3, Zenon DEF Contains
  <2>7. PortOf(u) = Uint16(Number(u.port))
    BY <2>4, <2>5, <2>6, PortIs, Zenon DEF r
  <2>8. Uint16(Number(u.port)) = Number(u.port) BY <1>13, SixteenBits, Zenon
  <2> QED BY <2>7, <2>8, Zenon
<1>14. ASSUME ~Contains(u.path, Scheme)
       PROVE  PathOf(u) = IF u.path = <<>> THEN <<"/">> ELSE u.path
  <2>1. AfterScheme(r) = r BY <1>10, <1>14
  <2>2. CASE u.path = <<>> BY <1>3, <1>9, <2>1, <2>2 DEF Contains
  <2>3. CASE u.path # <<>>
    <3>1. Find(r, <<"/">>) = h + m + 1 /\ h + m + 1 # 0 /\ h + m + 1 - 1 = h + m
      BY <1>1, <1>3, <2>3
    <3> QED BY <1>1, <1>9, <2>1, <2>3, <3>1
  <2> QED BY <2>2, <2>3
<1> QED BY <1>11, <1>12, <1>13, <1>14, Zenon

-----------------------------------------------------------------------------
\* What is asked stays what the URI of the session reads as.
LEMMA AskedInit == Init => AskedInv
BY Zenon DEF Init, AskedInv

\* Nothing that AskedInv is about changes, and the session stays open.
LEMMA AskedStays ==
  ASSUME AskedInv, UNCHANGED <<tls, uri, request>>,
         pc' = pc \/ (pc \notin {"idle", "ladder"} /\ pc' \notin {"idle", "ladder"})
  PROVE  AskedInv'
<1>1. /\ pc # "idle" => uri \in Uris /\ Reaches(uri) /\ tls = uri.tls
      /\ request # None =>
           /\ pc \notin {"idle", "ladder"}
           /\ request.tls = tls /\ request.host = HostOf(uri)
           /\ request.port = PortOf(uri) /\ request.path = PathOf(uri)
  BY Zenon DEF AskedInv
<1>2. pc' # "idle" => pc # "idle" OBVIOUS
<1>3. pc \notin {"idle", "ladder"} => pc' \notin {"idle", "ladder"} OBVIOUS
<1> QED BY <1>1, <1>2, <1>3, Zenon DEF AskedInv

LEMMA AskedConnecting ==
  ASSUME AskedInv, Connecting
  PROVE  AskedInv'
<1>1. pc \in {"idle", "ladder"} => request = None BY DEF AskedInv
<1>2. ASSUME NEW u \in Uris, Refuse(u) \/ ConnectPlainFails(u) PROVE AskedInv'
  <2>1. UNCHANGED <<pc, tls, uri, request>>
    BY <1>2, Zenon DEF Refuse, ConnectPlainFails, ownVars, ctxVars
  <2> QED BY <2>1, AskedStays, Zenon
<1>3. ASSUME NEW u \in Uris, ConnectPlain(u) \/ BeginTls(u) PROVE AskedInv'
  <2>1. pc = "idle" /\ Reaches(u) /\ uri' = u /\ request' = request
    BY <1>3, Zenon DEF ConnectPlain, BeginTls, Open, wireVars
  <2>2. tls' = u.tls
    <3>1. u.tls \in BOOLEAN BY UrisAssumption DEF UriType
    <3>2. CASE ConnectPlain(u)
      <4>1. tls' = FALSE /\ ~u.tls BY <3>2, Zenon DEF ConnectPlain
      <4>2. u.tls = FALSE BY <3>1, <4>1
      <4> QED BY <4>1, <4>2
    <3>3. CASE BeginTls(u)
      <4>1. tls' = TRUE /\ u.tls BY <3>3, Zenon DEF BeginTls
      <4>2. u.tls = TRUE BY <3>1, <4>1
      <4> QED BY <4>1, <4>2
    <3> QED BY <1>3, <3>2, <3>3
  <2>3. request' = None BY <1>1, <2>1
  <2> QED BY <2>1, <2>2, <2>3, Zenon DEF AskedInv
<1>4. CASE Climb
  <2>1. pc = "ladder" /\ UNCHANGED <<tls, uri, request>>
    BY <1>4, Zenon DEF Climb, Open, ctxVars, wireVars
  <2>2. request' = None BY <1>1, <2>1
  <2>3. uri \in Uris /\ Reaches(uri) /\ tls = uri.tls BY <2>1 DEF AskedInv
  <2> QED BY <2>1, <2>2, <2>3, Zenon DEF AskedInv
<1>5. CASE Fall \/ EndSession
  <2>1. pc' = "idle" /\ request' = None
    BY <1>1, <1>5 DEF Fall, EndSession, Forgets
  <2> QED BY <2>1 DEF AskedInv
<1> QED BY <1>2, <1>3, <1>4, <1>5 DEF Connecting

LEMMA AskedNext == AskedInv /\ [Next]_vars => AskedInv'
<1> SUFFICES ASSUME AskedInv, [Next]_vars PROVE AskedInv' OBVIOUS
<1>1. CASE UNCHANGED vars \/ Preparing
  <2>1. UNCHANGED <<pc, tls, uri, request>>
    BY <1>1, Zenon DEF vars, ownVars, ctxVars, wireVars, Preparing, HeadersToCollect,
       AddHeader, InSession
  <2> QED BY <2>1, AskedStays, Zenon
<1>2. CASE SendRequest \/ SendDies
  <2>1. /\ pc = "session" /\ pc' \in {"recv", "dead"} /\ UNCHANGED <<tls, uri>>
        /\ request' = [tls |-> tls, host |-> HostOf(uri), port |-> PortOf(uri),
                       path |-> PathOf(uri), headers |-> added]
    BY <1>2 DEF SendRequest, SendDies, InSession, Asks, ownVars, ctxVars
  <2>2. /\ request'.tls = tls /\ request'.host = HostOf(uri)
        /\ request'.port = PortOf(uri) /\ request'.path = PathOf(uri)
    BY <2>1
  <2>3. uri \in Uris /\ Reaches(uri) /\ tls = uri.tls BY <2>1 DEF AskedInv
  <2>4. pc' \notin {"idle", "ladder"} BY <2>1
  <2> QED BY <2>1, <2>2, <2>3, <2>4, Zenon DEF AskedInv
<1>3. CASE SendUnconnected \/ Receiving \/ Parsing
  <2>1. UNCHANGED <<tls, uri, request>>
    BY <1>3, Zenon DEF SendUnconnected, Receiving, RecvFails, RecvEnd, Recv, Parsing,
       StatusLine, StatusLineGarbled, StatusLineBad, HeaderEnd, HeaderLine, HeaderTooBig,
       AppendPayload, ownVars, ctxVars, wireVars
  <2>2. pc \in {"session", "recv", "first", "headers"}
    BY <1>3 DEF SendUnconnected, InSession, Receiving, RecvFails, RecvEnd, Recv, Parsing,
       StatusLine, StatusLineGarbled, StatusLineBad, InHeaders, HeaderEnd, HeaderLine,
       HeaderTooBig, AppendPayload
  <2>3. CASE Recv
    <3>1. pc' \in {"panic", "first", "headers"} BY <2>3, Zenon DEF Recv
    <3> QED BY <2>1, <2>2, <3>1, AskedStays
  <2>4. CASE ~Recv
    <3>1. pc' \in {"session", "recv", "headers"}
      BY <1>3, <2>2, <2>4 DEF SendUnconnected, InSession, Receiving, RecvFails, RecvEnd,
         Parsing, StatusLine, StatusLineGarbled, StatusLineBad, InHeaders, HeaderEnd,
         HeaderLine, HeaderTooBig, AppendPayload, Finish
    <3> QED BY <2>1, <2>2, <3>1, AskedStays
  <2> QED BY <2>3, <2>4
<1> QED BY <1>1, <1>2, <1>3, AskedConnecting DEF Next

\* A request goes to the server, the port and the path that the URI names.
THEOREM AsksWhatIsNamed == Spec => []AskedAsNamed
<1>1. AskedInv => AskedAsNamed
  <2> SUFFICES ASSUME AskedInv, request # None PROVE AskedAsNamed BY DEF AskedAsNamed
  <2>1. /\ uri \in Uris /\ Reaches(uri) /\ tls = uri.tls
        /\ request.tls = tls /\ request.host = HostOf(uri)
        /\ request.port = PortOf(uri) /\ request.path = PathOf(uri)
    BY DEF AskedInv
  <2>2. uri \in UriType /\ HostOf(uri) \in Name
    BY <2>1, UrisAssumption, Zenon DEF Reaches
  <2>3. /\ HostOf(uri) = uri.host
        /\ uri.port = <<>> => PortOf(uri) = DefaultPort(uri)
        /\ uri.port \in Seq(DOMAIN Digit) \ {<<>>} /\ Number(uri.port) \in Port =>
             PortOf(uri) = Number(uri.port)
        /\ ~Contains(uri.path, Scheme) =>
             PathOf(uri) = IF uri.path = <<>> THEN <<"/">> ELSE uri.path
    BY <2>2, UriReads, Zenon
  <2> QED BY <2>1, <2>3, Zenon DEF AskedAsNamed
<1> QED BY <1>1, AskedInit, AskedNext, PTL DEF Spec

\* The invariant of the client: types, the account of what the parser has dropped
\* and kept, what is asked, and that nothing of a whole response is lost.
THEOREM ClientInvariant == Spec => []ClientInv
<1>1. TypeInv => TypeOK BY TypeParts, HeldType DEF TypeInv
<1> QED BY <1>1, TypeInvInit, TypeInvNext, ParserInvInit, ParserInvNext, AskedInit,
        AskedNext, NothingLostInit, NothingLostNext, PTL DEF Spec, ClientInv

-----------------------------------------------------------------------------
\* What a request costs. The work at each place of sendRequest(), before a step and
\* after it.
LEMMA WorkIs ==
  /\ pc = "recv" => Work = 4 * Len(left) + Len(buff) + 1
  /\ pc = "headers" => Work = 4 * Len(left) + Len(buff) + 2
  /\ pc = "first" => Work = 4 * Len(left) + Len(buff) + 3
  /\ Rank # 0 => pc \in {"recv", "headers", "first"}
BY DEF Work, Rank

LEMMA WorkBecomes ==
  /\ pc' = "recv" => Work' = 4 * Len(left') + Len(buff') + 1
  /\ pc' = "headers" => Work' = 4 * Len(left') + Len(buff') + 2
  /\ pc' = "first" => Work' = 4 * Len(left') + Len(buff') + 3
  /\ pc' \notin {"recv", "headers", "first"} => Work' = 0
BY DEF Work, Rank

\* What is left of the buffer when a first part of it is dropped.
LEMMA Shorter ==
  ASSUME NEW view \in Seq(Token), NEW n \in Nat
  PROVE  /\ Len(Drop(view, n)) \in Nat /\ Len(Drop(view, n)) <= Len(view)
         /\ n # 0 /\ view # <<>> => Len(Drop(view, n)) < Len(view)
<1>1. Len(view) \in Nat /\ (view # <<>> => Len(view) # 0) BY LenProperties, EmptySeq
<1>2. Len(Drop(view, n)) = IF n < Len(view) THEN Len(view) - n ELSE 0 BY DropType
<1> QED BY <1>1, <1>2

\* Each token received costs four and is worth at most one in the buffer, so that
\* there is room for the two looks at what was received.
LEMMA RecvShrinks ==
  ASSUME TypeInv, ParserInv, Recv
  PROVE  Work' < Work
<1>1. PICK n \in ReadSizes(left, BufferSize) :
        /\ left' = Drop(left, n)
        /\ buff' = AfterBlankLine(Take(left, n))
        /\ pc' = IF ~isPayload' /\ ~Contains(buff', <<"LF">>) THEN "panic"
                 ELSE IF firstLine THEN "first" ELSE "headers"
  BY Zenon DEF Recv
<1>2. pc = "recv" BY Zenon DEF Recv
<1>3. left \in Seq(Token) /\ buff = <<>> BY <1>2, BeingRead
<1>4. Len(left) \in Nat /\ n \in 1..Len(left)
  <2>1. n \in 1..Len(left) BY <1>3, ReadSizesType, BufferAssumption
  <2> QED BY <1>3, <2>1, LenProperties
<1>5. Len(left') \in Nat /\ Len(left') <= Len(left) - n
  <2>1. n \in Nat BY <1>4
  <2>2. Len(Drop(left, n)) = IF n < Len(left) THEN Len(left) - n ELSE 0
    BY <1>3, <2>1, DropType
  <2>3. Len(left') = Len(Drop(left, n)) BY <1>1, Zenon
  <2> QED BY <1>4, <2>1, <2>2, <2>3
<1>6. Len(buff') \in Nat /\ Len(buff') <= n
  <2>1. Take(left, n) \in Seq(Token) /\ Len(Take(left, n)) = n
    <3>1. n \in 0..Len(left) BY <1>4
    <3> QED BY <1>3, <3>1, TakeType
  <2>2. Len(Drop(Take(left, n), 2)) \in Nat /\ Len(Drop(Take(left, n), 2)) <= n
    BY <2>1, Shorter
  <2>3. buff' = Take(left, n) \/ buff' = Drop(Take(left, n), 2)
    BY <1>1, Zenon DEF AfterBlankLine
  <2>4. n \in Nat /\ n <= n BY <1>4
  <2> QED BY <2>1, <2>2, <2>3, <2>4
<1>7. Work = 4 * Len(left) + 1
  <2>1. Work = 4 * Len(left) + Len(buff) + 1 BY <1>2, WorkIs
  <2>2. Len(buff) = 0 BY <1>3
  <2> QED BY <1>4, <2>1, <2>2
<1>8. pc' \in {"panic", "first", "headers"} BY <1>1, Zenon
<1>9. Work' = 0 \/ Work' = 4 * Len(left') + Len(buff') + 2
        \/ Work' = 4 * Len(left') + Len(buff') + 3
  BY <1>8, WorkBecomes
<1> DEFINE a == Len(left)
           b == Len(left')
           c == Len(buff')
<1> HIDE DEF a, b, c
<1>10. /\ a \in Nat /\ b \in Nat /\ c \in Nat /\ n \in 1..a /\ b <= a - n /\ c <= n
       /\ Work = 4 * a + 1
       /\ Work' = 0 \/ Work' = 4 * b + c + 2 \/ Work' = 4 * b + c + 3
  BY <1>4, <1>5, <1>6, <1>7, <1>9 DEF a, b, c
<1> QED BY <1>10

\* The first line: it is dropped, or the request is over.
LEMMA FirstLineShrinks ==
  ASSUME TypeInv, ParserInv, StatusLine \/ StatusLineGarbled
  PROVE  Work' < Work
<1>1. /\ pc = "first" /\ pc' = "headers" /\ UNCHANGED left
      /\ buff' = Drop(buff, Find(buff, <<"LF">>))
  BY Zenon DEF StatusLine, StatusLineGarbled, wireVars
<1>2. left \in Seq(Token) /\ buff \in Seq(Token) BY <1>1, BeingRead
<1>3. Find(buff, <<"LF">>) \in Nat BY <1>2, FindType
<1>4. Len(buff') \in Nat /\ Len(buff') <= Len(buff) BY <1>1, <1>2, <1>3, Shorter
<1>5. Len(left) \in Nat /\ Len(buff) \in Nat BY <1>2, LenProperties
<1>6. Work = 4 * Len(left) + Len(buff) + 3 /\ Work' = 4 * Len(left') + Len(buff') + 2
  BY <1>1, WorkIs, WorkBecomes
<1>7. Work' = 4 * Len(left) + Len(buff') + 2 BY <1>1, <1>6
<1> QED BY <1>4, <1>5, <1>6, <1>7

\* A turn of the header loop: a line end is in the buffer, and goes.
LEMMA HeaderShrinks ==
  ASSUME TypeInv, ParserInv, HeaderEnd \/ HeaderLine
  PROVE  Work' < Work
<1>1. pc = "headers" /\ pc' = "headers" /\ UNCHANGED left /\ buff # <<>>
  BY Zenon DEF HeaderEnd, HeaderLine, InHeaders, wireVars
<1>2. left \in Seq(Token) /\ buff \in Seq(Token) BY <1>1, BeingRead
<1>3. PICK n \in Nat : n # 0 /\ buff' = Drop(buff, n)
  <2>1. CASE HeaderEnd
    <3>1. 2 \in Nat /\ 2 # 0 OBVIOUS
    <3> QED BY <2>1, <3>1, Zenon DEF HeaderEnd
  <2>2. CASE HeaderLine
    <3>1. Find(buff, CRLF) \in Nat BY <1>2, FindType
    <3>2. Find(buff, CRLF) + 1 \in Nat /\ Find(buff, CRLF) + 1 # 0 BY <3>1
    <3> QED BY <2>2, <3>2, Zenon DEF HeaderLine
  <2> QED BY <2>1, <2>2
<1>4. Len(buff') \in Nat /\ Len(buff') < Len(buff) BY <1>1, <1>2, <1>3, Shorter
<1>5. Len(left) \in Nat /\ Len(buff) \in Nat BY <1>2, LenProperties
<1>6. Work = 4 * Len(left) + Len(buff) + 2 /\ Work' = 4 * Len(left') + Len(buff') + 2
  BY <1>1, WorkIs, WorkBecomes
<1>7. Work' = 4 * Len(left) + Len(buff') + 2 BY <1>1, <1>6
<1> QED BY <1>4, <1>5, <1>6, <1>7

\* The buffer goes to the payload, and another recv() is made.
LEMMA AppendShrinks ==
  ASSUME TypeInv, ParserInv, AppendPayload
  PROVE  Work' < Work
<1>1. pc = "headers" /\ pc' = "recv" /\ UNCHANGED left /\ buff' = <<>>
  BY Zenon DEF AppendPayload, wireVars
<1>2. left \in Seq(Token) /\ buff \in Seq(Token) BY <1>1, BeingRead
<1>3. Len(left) \in Nat /\ Len(buff) \in Nat BY <1>2, LenProperties
<1>4. Work = 4 * Len(left) + Len(buff) + 2 /\ Work' = 4 * Len(left') + Len(buff') + 1
  BY <1>1, WorkIs, WorkBecomes
<1>5. Len(buff') = 0 BY <1>1
<1>6. Work' = 4 * Len(left) + 1 BY <1>1, <1>3, <1>4, <1>5
<1> QED BY <1>3, <1>4, <1>6

\* The steps that end the request leave nothing to do.
LEMMA EndShrinks ==
  ASSUME TypeInv, ParserInv,
         RecvFails \/ RecvEnd \/ StatusLineBad \/ HeaderTooBig
  PROVE  Work' < Work
<1>1. pc \in {"recv", "first", "headers"} /\ pc' = "session"
  BY DEF RecvFails, RecvEnd, StatusLineBad, HeaderTooBig, Finish, InHeaders
<1>2. left \in Seq(Token) /\ buff \in Seq(Token) BY <1>1, BeingRead
<1>3. Len(left) \in Nat /\ Len(buff) \in Nat BY <1>2, LenProperties
<1>4. \/ Work = 4 * Len(left) + Len(buff) + 1
      \/ Work = 4 * Len(left) + Len(buff) + 2
      \/ Work = 4 * Len(left) + Len(buff) + 3
  BY <1>1, WorkIs
<1>5. Work' = 0 BY <1>1, WorkBecomes
<1> QED BY <1>3, <1>4, <1>5

\* Every step made while a request is in hand leaves less to do than there was, so
\* that no response, however it is cut, keeps the loops of sendRequest() turning:
\* the part of RequestEnds that needs no fairness.
THEOREM WorkAlwaysShrinks == Spec => WorkShrinks
<1>1. TypeInv /\ ParserInv /\ [Next]_vars => [Rank # 0 => Work' < Work]_vars
  <2> SUFFICES ASSUME TypeInv, ParserInv, Next, Rank # 0
               PROVE  Work' < Work
    BY DEF vars
  <2>1. pc \in {"recv", "headers", "first"} BY WorkIs
  <2>2. ~Connecting /\ ~Preparing /\ ~SendUnconnected /\ ~SendRequest /\ ~SendDies
    <3>1. ~(pc \in {"idle", "ladder", "session"}) BY <2>1
    <3> QED BY <3>1 DEF Connecting, Refuse, ConnectPlain, ConnectPlainFails, BeginTls,
               Climb, Fall, EndSession, Preparing, HeadersToCollect, AddHeader, InSession,
               SendUnconnected, SendRequest, SendDies
  <2>3. Receiving \/ Parsing BY <2>2 DEF Next
  <2> QED BY <2>3, RecvShrinks, FirstLineShrinks, HeaderShrinks, AppendShrinks, EndShrinks
          DEF Receiving, Parsing
<1> QED BY <1>1, TypeInvInit, TypeInvNext, ParserInvInit, ParserInvNext, PTL
        DEF Spec, WorkShrinks
=============================================================================
