----------------------------- MODULE HttpServer -----------------------------
(***************************************************************************)
(* The POSIX iop_hal::HttpServer (src/src/posix/server.hpp): a server that *)
(* handles one connection at a time inside handleClient(), which the       *)
(* program's loop() calls, and whose route handlers are application        *)
(* callbacks that run in the middle of handleClient() and may call back    *)
(* into the server.                                                        *)
(*                                                                         *)
(* handleClient() is broken at every point where the kernel, a peer or a   *)
(* callback decides what happens next: accept, read, one turn of the       *)
(* header loop, the dispatch, each call the callback makes, its return.    *)
(***************************************************************************)
EXTENDS ByteStreams

CONSTANTS
  Client,          \* the connections peers open during a run
  Token,           \* the runs of bytes requests are made of
  Request,         \* the byte strings peers may send
  Route,           \* the paths the application may register
  Garbled,         \* what a path read at the wrong offset looks like
  BufferSize,      \* tokens in HttpConnection::Buffer
  Code,            \* status codes a handler may pass to send()
  Header,          \* headers a handler may pass to sendHeader()
  Length,          \* lengths a handler may pass to setContentLength()
  None,            \* std::nullopt
  InitialAddress,  \* what the uninitialised member `address` may hold
  Faults,          \* the kernel calls that may fail
  MaxWrites,       \* bound: send()/sendData() calls per connection
  MaxHeaders,      \* bound: sendHeader() calls per connection
  MaxLeaks         \* bound: sockets begin() may lose

PanicReasons ==
  {"delete", "bind", "FD not found", "Already handling a request", "First line",
   "Bad code", "No active client", "Http code not known", "Sent failed"}

\* What a connection's handler was called with.
Dispatched == [route : Token \union {Garbled, None}, payload : Seq(Token)]

KernelCalls == {"socket", "fcntl", "bind", "listen", "read", "write"}

ASSUME BufferSizeAssumption == BufferSize \in Nat \ {0}
ASSUME BoundsAssumption ==
  MaxWrites \in Nat /\ MaxHeaders \in Nat /\ MaxLeaks \in Nat
ASSUME AddressAssumption == InitialAddress \subseteq {"null", "garbage"}
ASSUME FaultsAssumption == Faults \subseteq KernelCalls
ASSUME NoneAssumption ==
  /\ None \notin Client /\ None \notin PanicReasons
  /\ None \notin Dispatched
\* A request starts with its method word and its path.
ASSUME RequestAssumption ==
  \A r \in Request : r \in Seq(Token) /\ Len(r) >= 2

VARIABLES
  \* class HttpServer
  maybeFD,               \* maybeFD.has_value()
  address,               \* "null", "set" or, before the first begin(), "garbage"
  isHandlingRequest,
  router,                \* the registered paths
  customNotFound,        \* onNotFound() replaced the default handler
  \* handleClient() and its HttpConnection
  pc,
  currentClient, currentRoute, currentPayload, currentHeaders,
  currentContentLength, buff, isPayload,
  panic,                 \* which assertion stopped the process
  shouldFlush,           \* iop::Log's shouldFlush_
  \* the kernel and the peers
  listening, leaked, peer, request, left, closes,
  \* history
  served,                \* what was dispatched for each connection
  replies                \* what was written to each connection

serverVars == <<maybeFD, address, isHandlingRequest, router, customNotFound>>
responseVars == <<currentHeaders, currentContentLength>>
connVars == <<currentClient, currentRoute, currentPayload, responseVars>>
parseVars == <<buff, isPayload>>
socketVars == <<listening, leaked>>
peerVars == <<peer, request, left>>
historyVars == <<served, replies>>
vars == <<serverVars, pc, connVars, parseVars, panic, shouldFlush,
          socketVars, peerVars, closes, historyVars>>

Methods == <<"POST", "GET", "OPTIONS">>
KnownCodes == {200, 302, 404}   \* httpCodeToString
Running == {"idle", "read", "headers", "handler", "notFound"}

-----------------------------------------------------------------------------
Init ==
  /\ maybeFD = FALSE
  /\ address \in InitialAddress
  /\ isHandlingRequest = FALSE
  /\ router = {}
  /\ customNotFound = FALSE
  /\ pc = "idle"
  /\ currentClient = None
  /\ currentRoute = None
  /\ currentPayload = <<>>
  /\ currentHeaders = <<>>
  /\ currentContentLength = None
  /\ buff = <<>>
  /\ isPayload = FALSE
  /\ panic = None
  /\ shouldFlush = TRUE
  /\ listening = FALSE
  /\ leaked = 0
  /\ peer = [c \in Client |-> "away"]
  /\ request = [c \in Client |-> <<>>]
  /\ left = [c \in Client |-> <<>>]
  /\ closes = [c \in Client |-> 0]
  /\ served = [c \in Client |-> None]
  /\ replies = [c \in Client |-> <<>>]

\* iop_panic: the process never leaves the panic handler.
Panic(reason) == pc' = "panic" /\ panic' = reason

(***************************************************************************)
(* The peers.                                                              *)
(***************************************************************************)

\* A peer reaches the listening socket. listen() was given a backlog of 100,
\* which the connections of a run never fill. The kernel completes the
\* connection whether or not the server is begun: close() keeps the socket.
Connect(c) ==
  /\ peer[c] = "away"
  /\ listening
  /\ \E r \in Request :
       /\ request' = [request EXCEPT ![c] = r]
       /\ left' = [left EXCEPT ![c] = r]
  /\ peer' = [peer EXCEPT ![c] = "waiting"]
  /\ UNCHANGED <<serverVars, pc, connVars, parseVars, panic, shouldFlush,
                 socketVars, closes, historyVars>>

(***************************************************************************)
(* Calls the application makes from loop() or from inside a handler.       *)
(***************************************************************************)
Application == pc \in {"idle", "handler"}

\* begin() first calls close(). Deleting an uninitialised pointer is undefined:
\* the process dies, or the heap survives and begin() goes on.
BeginDies ==
  /\ Application
  /\ address = "garbage"
  /\ Panic("delete")
  /\ UNCHANGED <<serverVars, connVars, parseVars, shouldFlush, socketVars,
                 peerVars, closes, historyVars>>

\* The socket was kept by an earlier begin(): only the address is set again.
\* It is assumed to be listening, which a failed listen() belies.
BeginAgain ==
  /\ Application
  /\ maybeFD
  /\ address' = "set"
  /\ UNCHANGED <<maybeFD, isHandlingRequest, router, customNotFound, pc,
                 connVars, parseVars, panic, shouldFlush, socketVars,
                 peerVars, closes, historyVars>>

\* setsockopt() failing is only logged, so it is not told apart.
BeginFirst ==
  /\ Application
  /\ ~maybeFD
  /\ maybeFD' = TRUE
  /\ listening' = TRUE
  /\ address' = "set"
  /\ UNCHANGED <<isHandlingRequest, router, customNotFound, pc, connVars,
                 parseVars, panic, shouldFlush, leaked, peerVars, closes,
                 historyVars>>

\* Mutant of BeginFails: the address is made before the socket is.
BeginFailsAddressed ==
  /\ Application
  /\ ~maybeFD
  /\ address' = "set"
  /\ "socket" \in Faults
  /\ UNCHANGED <<maybeFD, isHandlingRequest, router, customNotFound, pc,
                 connVars, parseVars, panic, shouldFlush, socketVars,
                 peerVars, closes, historyVars>>

\* The early returns of begin(): no socket; a socket that is then forgotten
\* without being closed; a socket that is kept although it does not listen.
BeginFails ==
  /\ Application
  /\ ~maybeFD
  /\ address' = "null"
  /\ \/ "socket" \in Faults /\ UNCHANGED <<maybeFD, leaked>>
     \/ /\ "fcntl" \in Faults
        /\ leaked < MaxLeaks
        /\ leaked' = leaked + 1
        /\ UNCHANGED maybeFD
     \/ "listen" \in Faults /\ maybeFD' = TRUE /\ UNCHANGED leaked
  /\ UNCHANGED <<isHandlingRequest, router, customNotFound, pc, connVars,
                 parseVars, panic, shouldFlush, listening, peerVars, closes,
                 historyVars>>

BeginBindFails ==
  /\ Application
  /\ ~maybeFD
  /\ "bind" \in Faults
  /\ maybeFD' = TRUE
  /\ address' = "null"
  /\ Panic("bind")
  /\ UNCHANGED <<isHandlingRequest, router, customNotFound, connVars,
                 parseVars, shouldFlush, socketVars, peerVars, closes,
                 historyVars>>

Close ==
  /\ Application
  /\ address # "null"
  /\ \/ address' = "null" /\ UNCHANGED <<pc, panic>>
     \/ address = "garbage" /\ Panic("delete") /\ UNCHANGED address
  /\ UNCHANGED <<maybeFD, isHandlingRequest, router, customNotFound, connVars,
                 parseVars, shouldFlush, socketVars, peerVars, closes,
                 historyVars>>

\* on(): the map keeps the first handler of a path (emplace); which function
\* that is does not matter below, as a handler may make any calls.
On(r) ==
  /\ Application
  /\ router' = router \union {r}
  /\ UNCHANGED <<maybeFD, address, isHandlingRequest, customNotFound, pc,
                 connVars, parseVars, panic, shouldFlush, socketVars,
                 peerVars, closes, historyVars>>

OnNotFound ==
  /\ Application
  /\ customNotFound' = TRUE
  /\ UNCHANGED <<maybeFD, address, isHandlingRequest, router, pc, connVars,
                 parseVars, panic, shouldFlush, socketVars, peerVars, closes,
                 historyVars>>

(***************************************************************************)
(* HttpConnection::reset() and the way every return of handleClient() that *)
(* follows a successful accept() ends.                                     *)
(***************************************************************************)
ResetKeepsClient ==           \* mutant: the closed descriptor is remembered
  /\ currentHeaders' = <<>>
  /\ currentPayload' = <<>>
  /\ currentContentLength' = None
  /\ closes' = IF currentClient = None THEN closes
               ELSE [closes EXCEPT ![currentClient] = @ + 1]
  /\ UNCHANGED currentClient

Reset ==
  /\ currentHeaders' = <<>>
  /\ currentPayload' = <<>>
  /\ currentContentLength' = None
  /\ closes' = IF currentClient = None THEN closes
               ELSE [closes EXCEPT ![currentClient] = @ + 1]
  /\ currentClient' = None

ReturnStillBusy ==            \* mutant: a return that forgets the flag
  /\ Reset
  /\ pc' = "idle"
  /\ buff' = <<>>
  /\ isPayload' = FALSE
  /\ currentRoute' = None
  /\ UNCHANGED <<maybeFD, address, isHandlingRequest, router, customNotFound,
                 panic>>

Return ==
  /\ Reset
  /\ isHandlingRequest' = FALSE
  /\ pc' = "idle"
  /\ buff' = <<>>
  /\ isPayload' = FALSE
  /\ currentRoute' = None
  /\ UNCHANGED <<maybeFD, address, router, customNotFound, panic>>

(***************************************************************************)
(* handleClient().                                                         *)
(***************************************************************************)

\* A first call without begin() on an object whose address is garbage.
HandleClientUnbegun ==
  /\ pc = "idle"
  /\ address # "null"
  /\ ~isHandlingRequest
  /\ ~maybeFD
  /\ isHandlingRequest' = TRUE
  /\ Panic("FD not found")
  /\ UNCHANGED <<maybeFD, address, router, customNotFound, connVars, parseVars,
                 shouldFlush, socketVars, peerVars, closes, historyVars>>

\* A handler calls handleClient(), or an earlier call left the flag set.
HandleClientReentered ==
  /\ Application
  /\ address # "null"
  /\ isHandlingRequest
  /\ Panic("Already handling a request")
  /\ UNCHANGED <<serverVars, connVars, parseVars, shouldFlush, socketVars,
                 peerVars, closes, historyVars>>

\* Mutant of Accept: no assertion stops a handler that calls handleClient().
AcceptNested(c) ==
  /\ Application
  /\ address # "null" /\ maybeFD /\ listening
  /\ peer[c] = "waiting"
  /\ isHandlingRequest' = TRUE
  /\ peer' = [peer EXCEPT ![c] = "accepted"]
  /\ currentClient' = c
  /\ pc' = "read"
  /\ UNCHANGED <<maybeFD, address, router, customNotFound, currentRoute,
                 currentPayload, responseVars, parseVars, panic, shouldFlush,
                 socketVars, request, left, closes, historyVars>>

\* accept() succeeds. When nobody waits, or accept() fails, the flag is set and
\* reset within the call and the call changes nothing.
Accept(c) ==
  /\ pc = "idle"
  /\ address # "null" /\ maybeFD /\ listening
  /\ ~isHandlingRequest
  /\ peer[c] = "waiting"
  /\ isHandlingRequest' = TRUE
  /\ peer' = [peer EXCEPT ![c] = "accepted"]
  /\ currentClient' = c
  /\ pc' = "read"
  /\ UNCHANGED <<maybeFD, address, router, customNotFound, currentRoute,
                 currentPayload, responseVars, parseVars, panic, shouldFlush,
                 socketVars, request, left, closes, historyVars>>

\* read() fails for good. (EAGAIN sleeps and reads again: a stuttering step.)
ReadError ==
  /\ pc = "read"
  /\ "read" \in Faults
  /\ Return
  /\ UNCHANGED <<shouldFlush, socketVars, peerVars, historyVars>>

\* Mutant of ReadEmpty: this early return forgets the flag.
ReadEmptyStillBusy ==
  /\ pc = "read"
  /\ ReturnStillBusy
  /\ UNCHANGED <<shouldFlush, socketVars, peerVars, historyVars>>

\* read() returns 0: the peer hung up before sending anything.
ReadEmpty ==
  /\ pc = "read"
  /\ Return
  /\ UNCHANGED <<shouldFlush, socketVars, peerVars, historyVars>>

\* The method whose name occurs anywhere in what was read, tried in this order.
MethodIn(view) ==
  LET found == {i \in 1..Len(Methods) : Contains(view, <<Methods[i]>>)}
  IN  IF found = {} THEN None
      ELSE Methods[CHOOSE i \in found : \A j \in found : i <= j]

\* Mutant of RouteIn: the offset of POST for every method.
RouteAfterPost(view) ==
  IF view[1] = "POST" /\ Len(view) > 1 THEN view[2] ELSE Garbled

\* The path is cut out at the offset it has after the method found.
RouteIn(view) ==
  IF view[1] = MethodIn(view) /\ Len(view) > 1 THEN view[2] ELSE Garbled

\* The one read() that finds data returns what has arrived, up to the size of
\* the buffer; it returns no whole token when it cuts the method's word.
Arrivals == {0} \union ReadSizes(left[currentClient], BufferSize)

Received(n) == Take(left[currentClient], n)

Consume(n) == left' = [left EXCEPT ![currentClient] = Drop(@, n)]

ReadUnknownMethod ==
  /\ pc = "read"
  /\ \E n \in Arrivals : MethodIn(Received(n)) = None /\ Consume(n)
  /\ Return
  /\ UNCHANGED <<shouldFlush, socketVars, peer, request, historyVars>>

\* A substr() beyond the end, which terminates the process as well, is not told
\* apart from the assertion that follows it.
ReadNoFirstLine ==
  /\ pc = "read"
  /\ \E n \in Arrivals :
       /\ MethodIn(Received(n)) # None
       /\ ~Contains(Received(n), CRLF)
       /\ Consume(n)
       /\ currentRoute' = RouteIn(Received(n))
       /\ buff' = Received(n)
  /\ Panic("First line")
  /\ UNCHANGED <<serverVars, currentClient, currentPayload, responseVars,
                 isPayload, shouldFlush, socketVars, peer, request, closes,
                 historyVars>>

\* The first line gives the path and is dropped.
ReadFirstLine ==
  /\ pc = "read"
  /\ \E n \in Arrivals :
       /\ MethodIn(Received(n)) # None
       /\ Contains(Received(n), CRLF)
       /\ Consume(n)
       /\ currentRoute' = RouteIn(Received(n))
       /\ buff' = Drop(Received(n), Find(Received(n), CRLF) + 1)
  /\ pc' = "headers"
  /\ UNCHANGED <<serverVars, currentClient, currentPayload, responseVars,
                 isPayload, panic, shouldFlush, socketVars, peer, request,
                 closes, historyVars>>

InHeaders == pc = "headers" /\ buff # <<>> /\ ~isPayload

HeaderBroken ==
  /\ InHeaders
  /\ ~Contains(buff, CRLF)
  /\ Panic("Bad code")
  /\ UNCHANGED <<serverVars, connVars, parseVars, shouldFlush, socketVars,
                 peerVars, closes, historyVars>>

HeaderLastHalfDropped ==      \* mutant: drops half of the empty line
  /\ InHeaders
  /\ Contains(buff, CRLF)
  /\ Find(buff, CRLF) = Find(buff, EmptyLine)
  /\ isPayload' = TRUE
  /\ buff' = Drop(buff, Find(buff, CRLF) + 1)
  /\ UNCHANGED <<serverVars, pc, connVars, panic, shouldFlush, socketVars,
                 peerVars, closes, historyVars>>

HeaderLastStillHeader ==      \* mutant: the payload is parsed on as headers
  /\ InHeaders
  /\ Contains(buff, CRLF)
  /\ Find(buff, CRLF) = Find(buff, EmptyLine)
  /\ buff' = Drop(buff, Find(buff, CRLF) + 3)
  /\ UNCHANGED <<serverVars, pc, connVars, isPayload, panic, shouldFlush,
                 socketVars, peerVars, closes, historyVars>>

HeaderLast ==
  /\ InHeaders
  /\ Contains(buff, CRLF)
  /\ Find(buff, CRLF) = Find(buff, EmptyLine)
  /\ isPayload' = TRUE
  /\ buff' = Drop(buff, Find(buff, CRLF) + 3)
  /\ UNCHANGED <<serverVars, pc, connVars, panic, shouldFlush, socketVars,
                 peerVars, closes, historyVars>>

HeaderSkippedNotDropped ==    \* mutant: the buffer does not move on
  /\ InHeaders
  /\ Contains(buff, CRLF)
  /\ Find(buff, CRLF) # Find(buff, EmptyLine)
  /\ UNCHANGED vars

HeaderSkipped ==
  /\ InHeaders
  /\ Contains(buff, CRLF)
  /\ Find(buff, CRLF) # Find(buff, EmptyLine)
  /\ buff' = Drop(buff, Find(buff, CRLF) + 1)
  /\ UNCHANGED <<serverVars, pc, connVars, isPayload, panic, shouldFlush,
                 socketVars, peerVars, closes, historyVars>>

\* Mutant of Dispatch: logs keep flushing while the handler runs.
DispatchFlushing ==
  /\ pc = "headers" /\ ~InHeaders
  /\ currentPayload' = currentPayload \o buff
  /\ pc' = IF currentRoute \in router \/ customNotFound
           THEN "handler" ELSE "notFound"
  /\ served' = [served EXCEPT ![currentClient] =
                  [route |-> currentRoute, payload |-> currentPayload']]
  /\ UNCHANGED <<serverVars, currentClient, currentRoute, responseVars,
                 parseVars, panic, shouldFlush, socketVars, peerVars, closes,
                 replies>>

\* The handler of the path, or the not-found handler, is called; nothing that
\* is still unread of the request will be read.
Dispatch ==
  /\ pc = "headers" /\ ~InHeaders
  /\ currentPayload' = currentPayload \o buff
  /\ shouldFlush' = FALSE
  /\ pc' = IF currentRoute \in router \/ customNotFound
           THEN "handler" ELSE "notFound"
  /\ served' = [served EXCEPT ![currentClient] =
                  [route |-> currentRoute, payload |-> currentPayload']]
  /\ UNCHANGED <<serverVars, currentClient, currentRoute, responseVars,
                 parseVars, panic, socketVars, peerVars, closes, replies>>

(***************************************************************************)
(* What a handler may do with its HttpConnection.                          *)
(***************************************************************************)
SendHeader(h) ==
  /\ pc = "handler"
  /\ Len(currentHeaders) < MaxHeaders
  /\ currentHeaders' = Append(currentHeaders, h)
  /\ UNCHANGED <<serverVars, pc, currentClient, currentRoute, currentPayload,
                 currentContentLength, parseVars, panic, shouldFlush,
                 socketVars, peerVars, closes, historyVars>>

SetContentLength(n) ==
  /\ pc = "handler"
  /\ currentContentLength' = n
  /\ UNCHANGED <<serverVars, pc, currentClient, currentRoute, currentPayload,
                 currentHeaders, parseVars, panic, shouldFlush, socketVars,
                 peerVars, closes, historyVars>>

\* reset() is public: a handler may hang up early.
HandlerReset ==
  /\ pc = "handler"
  /\ Reset
  /\ UNCHANGED <<serverVars, pc, currentRoute, parseVars, panic, shouldFlush,
                 socketVars, peerVars, historyVars>>

ReplyHead(code) == [code |-> code, headers |-> currentHeaders,
                    length |-> currentContentLength]

Written(c, what) == replies' = [replies EXCEPT ![c] = Append(@, what)]

\* send(): the head with everything set so far, then the content.
Send(code) ==
  /\ pc = "handler"
  /\ currentClient # None
  /\ code \in KnownCodes
  /\ Len(replies[currentClient]) < MaxWrites
  /\ Written(currentClient, ReplyHead(code))
  /\ UNCHANGED <<serverVars, pc, connVars, parseVars, panic, shouldFlush,
                 socketVars, peerVars, closes, served>>

SendData ==
  /\ pc = "handler"
  /\ currentClient # None
  /\ Len(replies[currentClient]) < MaxWrites
  /\ Written(currentClient, [code |-> None, headers |-> <<>>, length |-> None])
  /\ UNCHANGED <<serverVars, pc, connVars, parseVars, panic, shouldFlush,
                 socketVars, peerVars, closes, served>>

\* The assertions in send() and sendData(): no client, a code without a text,
\* a write that fails (the peer hung up), waits too long or writes nothing.
SendPanics ==
  /\ pc = "handler"
  /\ \/ currentClient = None /\ Panic("No active client")
     \/ /\ currentClient # None
        /\ Code \ KnownCodes # {}
        /\ Panic("Http code not known")
     \/ currentClient # None /\ "write" \in Faults /\ Panic("Sent failed")
  /\ UNCHANGED <<serverVars, connVars, parseVars, shouldFlush, socketVars,
                 peerVars, closes, historyVars>>

HandlerReturnsUnflushed ==    \* mutant: shouldFlush(true) is forgotten
  /\ pc = "handler"
  /\ Return
  /\ UNCHANGED <<shouldFlush, socketVars, peerVars, historyVars>>

\* After the handler: logs flush again, the connection is closed.
HandlerReturns ==
  /\ pc = "handler"
  /\ shouldFlush' = TRUE
  /\ Return
  /\ UNCHANGED <<socketVars, peerVars, historyVars>>

\* The handler the constructor installs: one 404, then the same return.
DefaultNotFound ==
  /\ pc = "notFound"
  /\ \/ /\ Written(currentClient, ReplyHead(404))
        /\ shouldFlush' = TRUE
        /\ Return
     \/ /\ "write" \in Faults
        /\ Panic("Sent failed")
        /\ UNCHANGED <<serverVars, connVars, parseVars, shouldFlush, closes,
                       replies>>
  /\ UNCHANGED <<socketVars, peerVars, served>>

-----------------------------------------------------------------------------
Lifecycle ==
  \/ BeginDies \/ BeginAgain \/ BeginFirst \/ BeginFails \/ BeginBindFails
  \/ Close \/ OnNotFound
  \/ \E r \in Route : On(r)

Parse ==
  \/ ReadError \/ ReadEmpty \/ ReadUnknownMethod \/ ReadNoFirstLine
  \/ ReadFirstLine \/ HeaderBroken \/ HeaderLast \/ HeaderSkipped \/ Dispatch

Handler ==
  \/ HandlerReset \/ SendData \/ SendPanics \/ HandlerReturns
  \/ DefaultNotFound
  \/ \E h \in Header : SendHeader(h)
  \/ \E n \in Length : SetContentLength(n)
  \/ \E code \in Code : Send(code)

Next ==
  \/ Lifecycle
  \/ HandleClientUnbegun \/ HandleClientReentered
  \/ \E c \in Client : Connect(c) \/ Accept(c)
  \/ Parse
  \/ Handler

Spec == Init /\ [][Next]_vars

\* loop() keeps calling handleClient() (src/src/posix/runtime.hpp), a peer
\* sends or hangs up, and a handler returns. The application is not obliged to
\* begin the server, nor a peer to connect.
Fairness ==
  /\ WF_vars(\E c \in Client : Accept(c))
  /\ WF_vars(Parse)
  /\ WF_vars(HandlerReturns \/ DefaultNotFound)

FairSpec == Spec /\ Fairness

-----------------------------------------------------------------------------
Reply == [code : KnownCodes \union {None}, headers : Seq(Header),
          length : Length \union {None}]

FlagsTypeOK ==
  /\ maybeFD \in BOOLEAN
  /\ isHandlingRequest \in BOOLEAN
  /\ customNotFound \in BOOLEAN
  /\ isPayload \in BOOLEAN
  /\ shouldFlush \in BOOLEAN
  /\ listening \in BOOLEAN

ControlTypeOK ==
  /\ address \in {"null", "garbage", "set"}
  /\ router \subseteq Route
  /\ pc \in Running \union {"panic"}
  /\ panic \in PanicReasons \union {None}
  /\ leaked \in Nat

ConnectionTypeOK ==
  /\ currentClient \in Client \union {None}
  /\ currentRoute \in Token \union {Garbled, None}
  /\ currentPayload \in Seq(Token)
  /\ currentHeaders \in Seq(Header)
  /\ currentContentLength \in Length \union {None}
  /\ buff \in Seq(Token)

PeersTypeOK ==
  /\ peer \in [Client -> {"away", "waiting", "accepted"}]
  /\ request \in [Client -> Seq(Token)]
  /\ left \in [Client -> Seq(Token)]
  /\ closes \in [Client -> Nat]
  /\ served \in [Client -> {None} \union Dispatched]
  /\ replies \in [Client -> Seq(Reply)]

\* Every variable ranges over the values its C++ counterpart can hold.
TypeOK == FlagsTypeOK /\ ControlTypeOK /\ ConnectionTypeOK /\ PeersTypeOK

\* The assertion "Already handling a request" is about re-entry and nothing
\* else: whatever return handleClient() took, the flag is down once it has
\* returned, and it is up all the time a handler runs.
FlagMeansBusy ==
  pc \in Running => (isHandlingRequest <=> pc # "idle")

\* An accepted connection is the current one and open, or was closed exactly
\* once: no return of handleClient() leaks its descriptor, and reset(), which
\* a handler may already have called, never closes a number the kernel may
\* since have given to somebody else.
ClosedExactlyOnce ==
  \A c \in Client :
    /\ closes[c] <= 1
    /\ closes[c] = 1 => peer[c] = "accepted" /\ currentClient # c
    /\ peer[c] = "accepted" /\ closes[c] = 0 => currentClient = c

\* Between two calls of handleClient() nothing of the last request is left
\* behind: no connection is open, and the logs, whose flushing is held back
\* while a handler runs, flush again.
IdleIsClean ==
  pc = "idle" =>
    /\ currentClient = None
    /\ shouldFlush
    /\ \A c \in Client : peer[c] = "accepted" => closes[c] = 1

\* The assertion "FD not found": begin() leaves an address only with a socket.
AddressNeedsSocket ==
  /\ address = "set" => maybeFD
  /\ panic = "FD not found" => address = "garbage"

\* What holds while a connection is served: it has a descriptor until a handler
\* hangs up, it was shown to the application exactly from the dispatch on, and
\* logs are held back exactly while the handler runs.
Serving ==
  /\ currentClient # None => peer[currentClient] = "accepted"
  /\ pc \in {"read", "headers", "notFound"} => currentClient # None
  /\ pc \in {"read", "headers"} => served[currentClient] = None
  /\ pc \in {"handler", "notFound"} /\ currentClient # None =>
       served[currentClient] # None
  /\ pc \in Running => (shouldFlush <=> pc \notin {"handler", "notFound"})
  /\ pc # "panic" => panic = None
  /\ \A c \in Client : peer[c] # "accepted" => served[c] = None

\* The inductive invariant of the proofs in HttpServer_proofs.
ServerInv ==
  /\ TypeOK
  /\ FlagMeansBusy
  /\ ClosedExactlyOnce
  /\ IdleIsClean
  /\ AddressNeedsSocket
  /\ Serving

RequestPath(r) == r[2]
RequestBody(r) == Drop(r, Find(r, EmptyLine) + 3)
HasHeader(r) == Contains(r, EmptyLine) /\ Find(r, CRLF) < Find(r, EmptyLine)
NamesOneMethod(r) ==
  \A i \in 2..Len(r) : \A k \in 1..Len(Methods) : r[i] # Methods[k]

\* How much of the request being read has arrived, and how much of that the
\* parser has dropped from the front of the buffer.
Got == Len(request[currentClient]) - Len(left[currentClient])
Dropped == Got - Len(buff)

\* A request starts with nothing parsed, and none of it read.
ParserReset ==
  /\ pc \in {"idle", "read"} => ~isPayload
  /\ pc \in {"idle", "read", "headers"} => currentPayload = <<>>
  /\ \A c \in Client :
       peer[c] = "waiting" \/ (pc = "read" /\ currentClient = c) =>
         left[c] = request[c]

\* What one turn of the header loop leaves to the next: the buffer is a piece of
\* the request, and the empty line is still ahead, or was cut by the end of the
\* read and half of it was dropped as if it ended one more header, or is what
\* was dropped last.
HeadersAhead ==
  LET r == request[currentClient]
      e == Find(r, EmptyLine)
  IN  pc = "headers" =>
        /\ Got <= Len(r) /\ Dropped \in 0..Got
        /\ buff = SubSeq(r, Dropped + 1, Got)
        /\ NamesOneMethod(r) => currentRoute = RequestPath(r)
        /\ HasHeader(r) =>
             \/ ~isPayload /\ Dropped < e
             \/ ~isPayload /\ Dropped = e + 1 /\ Got < e + 3
             \/ isPayload /\ Dropped = e + 3

\* The inductive invariant of the proofs in HttpParser_proofs, with ServerInv.
ParserInv == ParserReset /\ HeadersAhead

\* However the network cuts a request that has a header, what the handler is
\* given is the beginning of its body, and all of it once all of it was read:
\* header bytes are never taken for payload, nor payload for headers.
PayloadAsSent ==
  \A c \in Client :
    served[c] # None /\ HasHeader(request[c]) =>
      /\ PrefixOf(served[c].payload, RequestBody(request[c]))
      /\ left[c] = <<>> => served[c].payload = RequestBody(request[c])

\* A request that names no second method anywhere is dispatched on its own
\* path.
RoutedAsAsked ==
  \A c \in Client :
    served[c] # None /\ NamesOneMethod(request[c]) =>
      served[c].route = RequestPath(request[c])

\* The parser's own assertions never stop the process on a request that has a
\* header and came in one read.
OneReadNeverPanics ==
  \A c \in Client :
    /\ currentClient = c
    /\ panic \in {"First line", "Bad code"}
    /\ HasHeader(request[c])
    => left[c] # <<>>

\* Where SerialService sees a connection, which ones it sees as shown to the
\* application, and how many writes it counts.
Stage ==
  [c \in Client |->
     IF closes[c] > 0 THEN "done"
     ELSE IF peer[c] = "accepted" THEN "served"
     ELSE IF peer[c] = "waiting" THEN "queued" ELSE "away"]
Handled == {c \in Client : served[c] # None}
Answers == [c \in Client |-> Len(replies[c])]

Service == INSTANCE SerialService WITH
  stage <- Stage, handled <- Handled, answers <- Answers

\* The server implements SerialService: one connection at a time, each shown to
\* the application at most once, answered only while it is being served.
ServesSerially == Service!Spec

\* A call of handleClient() that accepted a connection returns, or panics.
HandleClientReturns == pc = "read" ~> pc \in {"idle", "panic"}

\* A connection that waits at a server that stays begun is served in the end.
WaitingIsServed ==
  \A c \in Client :
    peer[c] = "waiting" ~>
      (peer[c] = "accepted" \/ address # "set" \/ pc = "panic")

\* The assertion on the first line says "bytes don't contain newline, the path
\* is too long" (server.hpp:222): a buffer could not have held the first line.
\* The run HttpPathTooLong refutes it: the first read() returned less.
NoNewlineMeansPathTooLong ==
  \A c \in Client :
    currentClient = c /\ panic = "First line" =>
      /\ BufferSize <= Len(request[c])
      /\ ~Contains(Take(request[c], BufferSize), CRLF)
=============================================================================
