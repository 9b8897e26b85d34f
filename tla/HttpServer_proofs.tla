------------------------- MODULE HttpServer_proofs -------------------------
(***************************************************************************)
(* HttpServer, for any number of connections, any requests and any buffer: *)
(* its types, the invariants of handleClient(), and the refinement of      *)
(* SerialService.                                                          *)
(***************************************************************************)
EXTENDS HttpServer, ByteStreams_proofs

USE DEF serverVars, responseVars, connVars, parseVars, socketVars, peerVars,
        historyVars

\* What one read leaves behind and delivers is again made of request tokens,
\* and a path cut out of it is a token or garbled.
LEMMA ReadType ==
  ASSUME TypeOK, currentClient # None, NEW n \in Arrivals
  PROVE  /\ Received(n) \in Seq(Token)
         /\ Drop(left[currentClient], n) \in Seq(Token)
         /\ RouteIn(Received(n)) \in Token \union {Garbled, None}
<1>1. currentClient \in Client /\ left[currentClient] \in Seq(Token)
  BY DEF TypeOK, ConnectionTypeOK, PeersTypeOK
<1>2. n \in 0..Len(left[currentClient])
  <2>1. Len(left[currentClient]) \in Nat BY <1>1, LenProperties
  <2>2. CASE n = 0 BY <2>1, <2>2
  <2>3. CASE n \in ReadSizes(left[currentClient], BufferSize)
    BY <1>1, <2>1, <2>3, ReadSizesType, BufferSizeAssumption
  <2> QED BY <2>2, <2>3 DEF Arrivals
<1>3. Received(n) \in Seq(Token)
  BY <1>1, <1>2, TakeType DEF Received
<1>4. Drop(left[currentClient], n) \in Seq(Token)
  BY <1>1, <1>2, DropType
<1>5. Len(Received(n)) > 1 => Received(n)[2] \in Token
  BY <1>3, ElementOfSeq, LenProperties
<1> QED BY <1>3, <1>4, <1>5 DEF RouteIn

\* Dropping a line, or the empty line, leaves request tokens.
LEMMA LineType ==
  ASSUME NEW view \in Seq(Token)
  PROVE  /\ Drop(view, Find(view, CRLF) + 1) \in Seq(Token)
         /\ Drop(view, Find(view, CRLF) + 3) \in Seq(Token)
<1> DEFINE S == Token \union {"CR", "LF"}
<1>1. view \in Seq(S)
  <2>1. Token \subseteq S OBVIOUS
  <2> QED BY <2>1, SeqMonotonic
<1>2. CRLF \in Seq(S) /\ Len(CRLF) = 2 BY DEF CRLF
<1>3. Find(view, CRLF) \in Nat
  <2>0. Len(CRLF) >= 1 BY <1>2
  <2> HIDE DEF S
  <2>1. Find(view, CRLF) \in 0..Len(view)
    BY <1>1, <1>2, <2>0, FindIsFirst, Zenon
  <2>2. Len(view) \in Nat BY LenProperties
  <2> QED BY <2>1, <2>2
<1>4. Find(view, CRLF) + 1 \in Nat /\ Find(view, CRLF) + 3 \in Nat
  BY <1>3
<1> QED BY <1>4, DropType, Zenon

-----------------------------------------------------------------------------
LEMMA InitType == Init => TypeOK
<1> SUFFICES ASSUME Init PROVE TypeOK OBVIOUS
<1>1. FlagsTypeOK BY Zenon DEF Init, FlagsTypeOK
<1>2. ControlTypeOK BY AddressAssumption DEF Init, ControlTypeOK, Running
<1>3. ConnectionTypeOK BY DEF Init, ConnectionTypeOK
<1>4. PeersTypeOK BY DEF Init, PeersTypeOK
<1> QED BY <1>1, <1>2, <1>3, <1>4 DEF TypeOK

\* What a step leaves alone keeps its type.
LEMMA Frames ==
  ASSUME TypeOK
  PROVE  /\ UNCHANGED <<maybeFD, isHandlingRequest, customNotFound, isPayload,
                        shouldFlush, listening>> => FlagsTypeOK'
         /\ UNCHANGED connVars /\ UNCHANGED buff => ConnectionTypeOK'
         /\ UNCHANGED <<peerVars, closes, historyVars>> => PeersTypeOK'
<1>1. UNCHANGED <<maybeFD, isHandlingRequest, customNotFound, isPayload,
                 shouldFlush, listening>> => FlagsTypeOK'
  BY Zenon DEF TypeOK, FlagsTypeOK
<1>2. UNCHANGED connVars /\ UNCHANGED buff => ConnectionTypeOK'
  BY Zenon DEF TypeOK, ConnectionTypeOK
<1>3. UNCHANGED <<peerVars, closes, historyVars>> => PeersTypeOK'
  BY Zenon DEF TypeOK, PeersTypeOK
<1> QED BY <1>1, <1>2, <1>3

LEMMA Successor == \A x \in Nat : \A y : y = x \/ y = x + 1 => y \in Nat
OBVIOUS

\* begin(), close(), on() and onNotFound().
LEMMA LifecycleType == TypeOK /\ Lifecycle => TypeOK'
<1> SUFFICES ASSUME TypeOK, Lifecycle PROVE TypeOK' OBVIOUS
<1> USE DEF Lifecycle, BeginDies, BeginAgain, BeginFirst, BeginFails,
            BeginBindFails, Close, OnNotFound, On
<1>1. ConnectionTypeOK' /\ PeersTypeOK'
  <2>1. UNCHANGED <<connVars, parseVars, peerVars, closes, historyVars>>
    BY Zenon
  <2> QED BY <2>1, Frames
<1>2. FlagsTypeOK'
  BY Zenon DEF TypeOK, FlagsTypeOK
<1>3. ControlTypeOK'
  <2> USE BoundsAssumption DEF TypeOK, ControlTypeOK, Panic, PanicReasons
  <2>1. CASE BeginDies BY <2>1
  <2>2. CASE BeginAgain BY <2>2
  <2>3. CASE BeginFirst BY <2>3
  <2>4. CASE BeginFails
    <3>1. leaked' = leaked \/ leaked' = leaked + 1 BY <2>4, Zenon
    <3>2. leaked' \in Nat
      <4>1. leaked \in Nat OBVIOUS
      <4> QED BY <3>1, <4>1, Successor, Zenon
    <3>3. pc' = pc /\ panic' = panic /\ router' = router /\ address' = "null"
      BY <2>4, Zenon
    <3> QED BY <3>2, <3>3
  <2>5. CASE BeginBindFails BY <2>5
  <2>6. CASE Close BY <2>6
  <2>7. CASE OnNotFound BY <2>7
  <2>8. CASE \E r \in Route : On(r) BY <2>8
  <2> QED BY <2>1, <2>2, <2>3, <2>4, <2>5, <2>6, <2>7, <2>8
<1> QED BY <1>1, <1>2, <1>3 DEF TypeOK

\* Connect, Accept and the two calls of handleClient() that panic.
LEMMA ArrivalType ==
  ASSUME TypeOK,
         \/ HandleClientUnbegun
         \/ HandleClientReentered
         \/ \E c \in Client : Connect(c) \/ Accept(c)
  PROVE  TypeOK'
<1> USE DEF HandleClientUnbegun, HandleClientReentered, Connect, Accept
<1>1. FlagsTypeOK' BY Zenon DEF TypeOK, FlagsTypeOK
<1>2. ControlTypeOK'
  <2>1. \/ pc' = "panic" /\ panic' \in PanicReasons
        \/ pc' \in {pc, "read"} /\ panic' = panic
    BY DEF Panic, PanicReasons
  <2>2. address' = address /\ router' = router /\ leaked' = leaked BY Zenon
  <2> QED BY <2>1, <2>2 DEF TypeOK, ControlTypeOK, Running
<1>3. ConnectionTypeOK'
  <2>1. currentClient' \in Client \union {None}
    BY DEF TypeOK, ConnectionTypeOK
  <2>2. UNCHANGED <<currentRoute, currentPayload, responseVars, buff>> BY Zenon
  <2> QED BY <2>1, <2>2 DEF TypeOK, ConnectionTypeOK
<1>4. PeersTypeOK'
  <2>1. UNCHANGED <<closes, historyVars>> BY Zenon
  <2>2. /\ peer' \in [Client -> {"away", "waiting", "accepted"}]
        /\ request' \in [Client -> Seq(Token)]
        /\ left' \in [Client -> Seq(Token)]
    <3>1. ASSUME NEW c \in Client, Connect(c)
          PROVE  /\ peer' \in [Client -> {"away", "waiting", "accepted"}]
                 /\ request' \in [Client -> Seq(Token)]
                 /\ left' \in [Client -> Seq(Token)]
      BY <3>1, RequestAssumption DEF TypeOK, PeersTypeOK
    <3>2. ASSUME NEW c \in Client, Accept(c)
          PROVE  /\ peer' \in [Client -> {"away", "waiting", "accepted"}]
                 /\ UNCHANGED <<request, left>>
      BY <3>2 DEF TypeOK, PeersTypeOK
    <3>3. HandleClientUnbegun \/ HandleClientReentered => UNCHANGED peerVars
      BY Zenon
    <3> HIDE DEF Connect, Accept, HandleClientUnbegun, HandleClientReentered
    <3> QED BY <3>1, <3>2, <3>3 DEF TypeOK, PeersTypeOK
  <2> QED BY <2>1, <2>2 DEF TypeOK, PeersTypeOK
<1> QED BY <1>1, <1>2, <1>3, <1>4 DEF TypeOK

\* Every return of handleClient() after an accept(), and reset() by itself.
LEMMA ResetType ==
  ASSUME TypeOK, Reset
  PROVE  /\ UNCHANGED <<currentRoute, buff>> => ConnectionTypeOK'
         /\ closes' \in [Client -> Nat]
<1>1. ConnectionTypeOK /\ closes \in [Client -> Nat]
  BY DEF TypeOK, PeersTypeOK
<1>2. closes' \in [Client -> Nat]
  BY <1>1 DEF Reset, ConnectionTypeOK
<1> QED BY <1>1, <1>2 DEF Reset, ConnectionTypeOK

LEMMA ReturnType ==
  ASSUME TypeOK, Return, UNCHANGED leaked
  PROVE  /\ shouldFlush' \in BOOLEAN /\ UNCHANGED listening => FlagsTypeOK'
         /\ ControlTypeOK'
         /\ ConnectionTypeOK'
         /\ closes' \in [Client -> Nat]
<1>1. shouldFlush' \in BOOLEAN /\ UNCHANGED listening => FlagsTypeOK'
  BY Zenon DEF TypeOK, FlagsTypeOK, Return
<1>2. ControlTypeOK'
  <2>1. pc' = "idle" /\ UNCHANGED <<address, router, panic>> BY Zenon DEF Return
  <2> QED BY <2>1 DEF TypeOK, ControlTypeOK, Running
<1>3. ConnectionTypeOK'
  <2>1. buff' = <<>> /\ currentRoute' = None /\ Reset BY Zenon DEF Return
  <2> QED BY <2>1 DEF Reset, TypeOK, ConnectionTypeOK
<1>4. closes' \in [Client -> Nat] BY ResetType DEF Return
<1> QED BY <1>1, <1>2, <1>3, <1>4

\* The read and the header loop.
LEMMA ParseType ==
  ASSUME TypeOK, Serving, Parse
  PROVE  TypeOK'
<1> USE DEF Parse
<1>1. CASE ReadError \/ ReadEmpty
  <2>1. /\ Return
        /\ UNCHANGED <<shouldFlush, socketVars, peerVars, historyVars>>
    BY <1>1, Zenon DEF ReadError, ReadEmpty
  <2>2. UNCHANGED <<peer, request, left, served, replies, leaked, listening>>
    BY <2>1, Zenon
  <2>3. shouldFlush' \in BOOLEAN BY <2>1, Zenon DEF TypeOK, FlagsTypeOK
  <2>4. FlagsTypeOK' /\ ControlTypeOK' /\ ConnectionTypeOK'
        /\ closes' \in [Client -> Nat]
    BY <2>1, <2>2, <2>3, ReturnType, Zenon
  <2> QED BY <2>2, <2>4, Zenon DEF TypeOK, PeersTypeOK
<1>2. CASE ReadUnknownMethod
  <2>1. /\ Return
        /\ UNCHANGED <<shouldFlush, leaked, listening, peer, request, served,
                       replies>>
    BY <1>2, Zenon DEF ReadUnknownMethod
  <2>2. PICK n \in Arrivals : Consume(n) BY <1>2, Zenon DEF ReadUnknownMethod
  <2>3. currentClient # None BY <1>2, Zenon DEF ReadUnknownMethod, Serving
  <2>4. Drop(left[currentClient], n) \in Seq(Token) BY <2>3, ReadType, Zenon
  <2>5. left' \in [Client -> Seq(Token)]
    BY <2>2, <2>4 DEF Consume, TypeOK, PeersTypeOK
  <2>6. shouldFlush' \in BOOLEAN BY <2>1, Zenon DEF TypeOK, FlagsTypeOK
  <2>7. FlagsTypeOK' /\ ControlTypeOK' /\ ConnectionTypeOK'
        /\ closes' \in [Client -> Nat]
    BY <2>1, <2>6, ReturnType, Zenon
  <2> QED BY <2>1, <2>5, <2>7, Zenon DEF TypeOK, PeersTypeOK
<1>3. CASE ReadNoFirstLine \/ ReadFirstLine
  <2>1. PICK n \in Arrivals :
          /\ Consume(n)
          /\ currentRoute' = RouteIn(Received(n))
          /\ \/ buff' = Received(n)
             \/ buff' = Drop(Received(n), Find(Received(n), CRLF) + 1)
    BY <1>3, Zenon DEF ReadNoFirstLine, ReadFirstLine
  <2>2. currentClient # None
    BY <1>3 DEF ReadNoFirstLine, ReadFirstLine, Serving
  <2>3. /\ Received(n) \in Seq(Token)
        /\ Drop(left[currentClient], n) \in Seq(Token)
        /\ currentRoute' \in Token \union {Garbled, None}
    BY <2>1, <2>2, ReadType, Zenon
  <2>4. left' \in [Client -> Seq(Token)]
    BY <2>1, <2>3 DEF Consume, TypeOK, PeersTypeOK
  <2>5. buff' \in Seq(Token) BY <2>1, <2>3, LineType, Zenon
  <2>6. /\ UNCHANGED <<serverVars, currentClient, currentPayload, responseVars,
                       isPayload, shouldFlush, listening, leaked, peer,
                       request, closes, historyVars>>
        /\ \/ pc' = "panic" /\ panic' = "First line"
           \/ pc' = "headers" /\ panic' = panic
    BY <1>3, Zenon DEF ReadNoFirstLine, ReadFirstLine, Panic
  <2>7. FlagsTypeOK' BY <2>6, Zenon DEF TypeOK, FlagsTypeOK
  <2>8. ControlTypeOK'
    <3>1. UNCHANGED <<address, router, leaked>> BY <2>6, Zenon
    <3> QED BY <3>1, <2>6 DEF TypeOK, ControlTypeOK, Running, PanicReasons
  <2>9. ConnectionTypeOK'
    BY <2>3, <2>5, <2>6, Zenon DEF TypeOK, ConnectionTypeOK
  <2>10. PeersTypeOK' BY <2>4, <2>6, Zenon DEF TypeOK, PeersTypeOK
  <2> QED BY <2>7, <2>8, <2>9, <2>10 DEF TypeOK
<1>4. CASE HeaderBroken \/ HeaderLast \/ HeaderSkipped
  <2> USE DEF HeaderBroken, HeaderLast, HeaderSkipped
  <2>1. /\ UNCHANGED <<serverVars, currentClient, currentRoute, currentPayload,
                       responseVars, shouldFlush, listening, leaked, peerVars,
                       closes, historyVars>>
        /\ \/ pc' = "panic" /\ panic' = "Bad code"
           \/ pc' = pc /\ panic' = panic
        /\ isPayload' = isPayload \/ isPayload' = TRUE
    BY <1>4, Zenon DEF Panic
  <2>2. buff' \in {buff, Drop(buff, Find(buff, CRLF) + 1),
                   Drop(buff, Find(buff, CRLF) + 3)}
    BY <1>4, Zenon
  <2> HIDE DEF HeaderBroken, HeaderLast, HeaderSkipped
  <2>3. buff \in Seq(Token) BY DEF TypeOK, ConnectionTypeOK
  <2>4. buff' \in Seq(Token) BY <2>2, <2>3, LineType
  <2>5. FlagsTypeOK' BY <2>1, Zenon DEF TypeOK, FlagsTypeOK
  <2>6. ControlTypeOK'
    <3>1. UNCHANGED <<address, router, leaked>> BY <2>1, Zenon
    <3> QED BY <3>1, <2>1 DEF TypeOK, ControlTypeOK, PanicReasons
  <2>7. ConnectionTypeOK' BY <2>1, <2>4, Zenon DEF TypeOK, ConnectionTypeOK
  <2>8. PeersTypeOK' BY <2>1, Frames, Zenon
  <2> QED BY <2>5, <2>6, <2>7, <2>8 DEF TypeOK
<1>5. CASE Dispatch
  <2>1. /\ UNCHANGED <<serverVars, currentClient, currentRoute, responseVars,
                       buff, isPayload, panic, listening, leaked, peerVars,
                       closes, replies>>
        /\ shouldFlush' = FALSE
        /\ currentPayload' = currentPayload \o buff
    BY <1>5, Zenon DEF Dispatch
  <2>2. pc' \in Running BY <1>5 DEF Dispatch, Running
  <2>3. currentPayload' \in Seq(Token)
    BY <2>1, ConcatProperties DEF TypeOK, ConnectionTypeOK
  <2>4. [route |-> currentRoute, payload |-> currentPayload'] \in Dispatched
    BY <2>3 DEF TypeOK, ConnectionTypeOK, Dispatched
  <2>5. served' \in [Client -> {None} \union Dispatched]
    BY <1>5, <2>4 DEF Dispatch, TypeOK, PeersTypeOK
  <2>6. FlagsTypeOK' BY <2>1, Zenon DEF TypeOK, FlagsTypeOK
  <2>7. ControlTypeOK'
    <3>1. UNCHANGED <<address, router, leaked, panic>> BY <2>1, Zenon
    <3> QED BY <3>1, <2>2 DEF TypeOK, ControlTypeOK
  <2>8. ConnectionTypeOK' BY <2>1, <2>3, Zenon DEF TypeOK, ConnectionTypeOK
  <2>9. PeersTypeOK' BY <2>1, <2>5, Zenon DEF TypeOK, PeersTypeOK
  <2> QED BY <2>6, <2>7, <2>8, <2>9 DEF TypeOK
<1> QED BY <1>1, <1>2, <1>3, <1>4, <1>5, Zenon

\* A write adds one reply to what a connection received.
LEMMA WrittenType ==
  ASSUME TypeOK, currentClient # None, NEW r \in Reply, Written(currentClient, r)
  PROVE  replies' \in [Client -> Seq(Reply)]
<1>1. currentClient \in Client /\ replies \in [Client -> Seq(Reply)]
  BY DEF TypeOK, ConnectionTypeOK, PeersTypeOK
<1>2. Append(replies[currentClient], r) \in Seq(Reply) BY <1>1
<1> QED BY <1>1, <1>2 DEF Written

\* The calls of a handler and its return.
LEMMA HandlerType ==
  ASSUME TypeOK, Serving, Handler
  PROVE  TypeOK'
<1> USE DEF Handler
<1>1. CASE \/ \E h \in Header : SendHeader(h)
           \/ \E n \in Length : SetContentLength(n)
  <2>1. UNCHANGED <<serverVars, pc, panic, isPayload, shouldFlush, listening,
                   leaked, peerVars, closes, historyVars, currentClient,
                   currentRoute, currentPayload, buff>>
    BY <1>1, Zenon DEF SendHeader, SetContentLength
  <2>2. /\ currentHeaders' \in Seq(Header)
        /\ currentContentLength' \in Length \union {None}
    <3>1. ASSUME NEW h \in Header, SendHeader(h)
          PROVE  /\ currentHeaders' \in Seq(Header)
                 /\ currentContentLength' \in Length \union {None}
      BY <3>1 DEF SendHeader, TypeOK, ConnectionTypeOK
    <3>2. ASSUME NEW n \in Length, SetContentLength(n)
          PROVE  /\ currentHeaders' \in Seq(Header)
                 /\ currentContentLength' \in Length \union {None}
      BY <3>2 DEF SetContentLength, TypeOK, ConnectionTypeOK
    <3> QED BY <1>1, <3>1, <3>2, Zenon
  <2>3. ConnectionTypeOK' BY <2>1, <2>2, Zenon DEF TypeOK, ConnectionTypeOK
  <2>4. ControlTypeOK' BY <2>1, Zenon DEF TypeOK, ControlTypeOK
  <2> QED BY <2>1, <2>3, <2>4, Frames, Zenon DEF TypeOK
<1>2. CASE HandlerReset
  <2>1. /\ Reset
        /\ UNCHANGED <<serverVars, pc, panic, isPayload, shouldFlush, listening,
                       leaked, peerVars, historyVars, currentRoute, buff>>
    BY <1>2, Zenon DEF HandlerReset
  <2>2. ConnectionTypeOK' /\ closes' \in [Client -> Nat]
    BY <2>1, ResetType, Zenon
  <2>3. ControlTypeOK' BY <2>1, Zenon DEF TypeOK, ControlTypeOK
  <2>4. FlagsTypeOK' BY <2>1, Frames, Zenon
  <2>5. PeersTypeOK' BY <2>1, <2>2, Zenon DEF TypeOK, PeersTypeOK
  <2> QED BY <2>2, <2>3, <2>4, <2>5, Zenon DEF TypeOK
<1>3. CASE SendData \/ \E code \in Code : Send(code)
  <2>1. /\ UNCHANGED <<serverVars, pc, panic, connVars, parseVars, shouldFlush,
                       listening, leaked, peerVars, closes, served>>
        /\ currentClient # None
        /\ \/ Written(currentClient,
                      [code |-> None, headers |-> <<>>, length |-> None])
           \/ \E code \in KnownCodes : Written(currentClient, ReplyHead(code))
    BY <1>3, Zenon DEF SendData, Send
  <2>2. \A code \in KnownCodes : ReplyHead(code) \in Reply
    BY DEF ReplyHead, Reply, TypeOK, ConnectionTypeOK
  <2>3. [code |-> None, headers |-> <<>>, length |-> None] \in Reply
    BY DEF Reply
  <2>4. replies' \in [Client -> Seq(Reply)]
    BY <2>1, <2>2, <2>3, WrittenType, Zenon
  <2>5. PeersTypeOK' BY <2>1, <2>4, Zenon DEF TypeOK, PeersTypeOK
  <2>6. ControlTypeOK' BY <2>1, Zenon DEF TypeOK, ControlTypeOK
  <2>7. FlagsTypeOK' /\ ConnectionTypeOK' BY <2>1, Frames, Zenon
  <2> QED BY <2>5, <2>6, <2>7, Zenon DEF TypeOK
<1>4. CASE SendPanics
  <2>1. UNCHANGED <<serverVars, leaked, connVars, parseVars, shouldFlush,
                   listening, peerVars, closes, historyVars>>
    BY <1>4, Zenon DEF SendPanics
  <2>2. pc' = "panic" /\ panic' \in PanicReasons
    BY <1>4 DEF SendPanics, Panic, PanicReasons
  <2>3. ControlTypeOK' BY <2>1, <2>2, Zenon DEF TypeOK, ControlTypeOK
  <2> QED BY <2>1, <2>3, Frames, Zenon DEF TypeOK
<1>5. CASE HandlerReturns
  <2>1. /\ Return
        /\ shouldFlush' = TRUE
        /\ UNCHANGED <<listening, leaked, peer, request, left, served, replies>>
    BY <1>5, Zenon DEF HandlerReturns
  <2>2. FlagsTypeOK' /\ ControlTypeOK' /\ ConnectionTypeOK'
        /\ closes' \in [Client -> Nat]
    BY <2>1, ReturnType, Zenon
  <2> QED BY <2>1, <2>2, Zenon DEF TypeOK, PeersTypeOK
<1>6. CASE DefaultNotFound
  <2>1. UNCHANGED <<listening, leaked, peer, request, left, served>>
    BY <1>6, Zenon DEF DefaultNotFound
  <2>2. CASE Written(currentClient, ReplyHead(404)) /\ shouldFlush' = TRUE /\ Return
    <3>1. ReplyHead(404) \in Reply
      BY DEF ReplyHead, Reply, TypeOK, ConnectionTypeOK, KnownCodes
    <3>2. replies' \in [Client -> Seq(Reply)]
      <4>1. currentClient # None BY <1>6, Zenon DEF DefaultNotFound, Serving
      <4> QED BY <2>2, <3>1, <4>1, WrittenType, Zenon
    <3>3. FlagsTypeOK' /\ ControlTypeOK' /\ ConnectionTypeOK'
          /\ closes' \in [Client -> Nat]
      BY <2>1, <2>2, ReturnType, Zenon
    <3> QED BY <2>1, <3>2, <3>3, Zenon DEF TypeOK, PeersTypeOK
  <2>3. CASE /\ Panic("Sent failed")
             /\ UNCHANGED <<serverVars, connVars, parseVars, shouldFlush, closes,
                            replies>>
    <3>1. pc' = "panic" /\ panic' \in PanicReasons
      BY <2>3 DEF Panic, PanicReasons
    <3>2. ControlTypeOK' BY <2>1, <2>3, <3>1, Zenon DEF TypeOK, ControlTypeOK
    <3> QED BY <2>1, <2>3, <3>2, Frames, Zenon DEF TypeOK
  <2> QED BY <1>6, <2>2, <2>3, Zenon DEF DefaultNotFound
<1> QED BY <1>1, <1>2, <1>3, <1>4, <1>5, <1>6, Zenon

-----------------------------------------------------------------------------
(***************************************************************************)
(* The control invariants: what a step must keep besides the types.        *)
(***************************************************************************)
ControlInv ==
  /\ FlagMeansBusy
  /\ ClosedExactlyOnce
  /\ IdleIsClean
  /\ AddressNeedsSocket
  /\ Serving

\* A panic leaves the connections as they are and ends everything else.
LEMMA PanicKeeps ==
  ASSUME ControlInv, pc' = "panic", panic' # "FD not found",
         address' = "set" => maybeFD',
         UNCHANGED <<currentClient, peer, closes, served>>
  PROVE  ControlInv'
<1>1. FlagMeansBusy' /\ IdleIsClean' BY DEF FlagMeansBusy, IdleIsClean, Running
<1>2. ClosedExactlyOnce' BY Zenon DEF ControlInv, ClosedExactlyOnce
<1>3. AddressNeedsSocket' BY Zenon DEF AddressNeedsSocket
<1>4. Serving' BY DEF ControlInv, Serving, Running
<1> QED BY <1>1, <1>2, <1>3, <1>4 DEF ControlInv

\* So does a step that only touches data the invariants do not mention.
LEMMA QuietKeeps ==
  ASSUME ControlInv, address' = "set" => maybeFD',
         panic' = "FD not found" => address' = "garbage",
         UNCHANGED <<pc, panic, isHandlingRequest, shouldFlush, currentClient,
                     peer, closes, served>>
  PROVE  ControlInv'
<1>1. FlagMeansBusy' /\ IdleIsClean' /\ ClosedExactlyOnce' /\ Serving'
  BY Zenon DEF ControlInv, FlagMeansBusy, IdleIsClean, ClosedExactlyOnce,
               Serving
<1>2. AddressNeedsSocket' BY Zenon DEF AddressNeedsSocket
<1> QED BY <1>1, <1>2 DEF ControlInv

\* A return of handleClient() closes the connection it served.
LEMMA ReturnKeeps ==
  ASSUME TypeOK, ControlInv, pc \in Running \ {"idle"}, Return, shouldFlush',
         UNCHANGED <<peer, served>>
  PROVE  ControlInv'
<1>1. /\ pc' = "idle" /\ ~isHandlingRequest' /\ currentClient' = None
      /\ UNCHANGED <<maybeFD, address, panic>>
  BY Zenon DEF Return, Reset
<1>2. \A c \in Client :
        /\ c = currentClient => peer[c] = "accepted" /\ closes[c] = 0
        /\ c # currentClient => closes'[c] = closes[c]
        /\ c = currentClient => closes'[c] = 1
  <2>1. \A c \in Client : c = currentClient => peer[c] = "accepted"
    BY NoneAssumption DEF ControlInv, Serving
  <2>2. \A c \in Client : c = currentClient => closes[c] = 0
    BY DEF ControlInv, ClosedExactlyOnce, TypeOK, PeersTypeOK
  <2>3. closes' = IF currentClient = None THEN closes
                 ELSE [closes EXCEPT ![currentClient] = @ + 1]
    BY Zenon DEF Return, Reset
  <2>4. closes \in [Client -> Nat] BY DEF TypeOK, PeersTypeOK
  <2> QED BY <2>1, <2>2, <2>3, <2>4, NoneAssumption
<1>3. FlagMeansBusy' BY <1>1, Zenon DEF FlagMeansBusy
<1>4. ClosedExactlyOnce'
  <2>1. closes \in [Client -> Nat] BY DEF TypeOK, PeersTypeOK
  <2> QED BY <1>1, <1>2, <2>1, NoneAssumption DEF ControlInv, ClosedExactlyOnce
<1>5. IdleIsClean'
  <2>1. \A c \in Client : peer[c] = "accepted" => closes'[c] = 1
    <3>1. closes \in [Client -> Nat] BY DEF TypeOK, PeersTypeOK
    <3> QED BY <1>2, <3>1 DEF ControlInv, ClosedExactlyOnce
  <2> QED BY <1>1, <2>1, Zenon DEF IdleIsClean
<1>6. AddressNeedsSocket' BY <1>1, Zenon DEF ControlInv, AddressNeedsSocket
<1>7. Serving'
  <2>1. panic = None BY DEF ControlInv, Serving, Running
  <2>2. \A c \in Client : peer[c] # "accepted" => served[c] = None
    BY Zenon DEF ControlInv, Serving
  <2>3. /\ pc' \notin {"read", "headers", "handler", "notFound"}
        /\ pc' # "panic"
    BY <1>1
  <2> QED BY <1>1, <2>1, <2>2, <2>3, Zenon DEF Serving
<1> QED BY <1>3, <1>4, <1>5, <1>6, <1>7 DEF ControlInv

\* No assertion has fired before the process panics.
LEMMA NotPanicking ==
  ASSUME ControlInv, pc # "panic"
  PROVE  panic # "FD not found"
BY NoneAssumption DEF ControlInv, Serving, PanicReasons

LEMMA LifecycleKeeps ==
  ASSUME TypeOK, ControlInv, Lifecycle
  PROVE  ControlInv'
<1> USE DEF Lifecycle, BeginDies, BeginAgain, BeginFirst, BeginFails,
            BeginBindFails, Close, OnNotFound, On
<1>1. UNCHANGED <<currentClient, peer, closes, served, isHandlingRequest,
                 shouldFlush>>
  BY Zenon
<1>2. address' = "set" => maybeFD'
  <2>1. address = "set" => maybeFD BY DEF ControlInv, AddressNeedsSocket
  <2>2. \/ address' = "null"
        \/ maybeFD' = TRUE
        \/ maybeFD' = maybeFD /\ maybeFD
        \/ address' = address /\ maybeFD' = maybeFD
    BY Zenon
  <2> HIDE DEF Lifecycle
  <2>3. CASE address' = "null" BY <2>3
  <2>4. CASE maybeFD' = TRUE BY <2>4
  <2>5. CASE maybeFD' = maybeFD /\ maybeFD BY <2>5
  <2>6. CASE address' = address /\ maybeFD' = maybeFD BY <2>1, <2>6, Zenon
  <2> QED BY <2>2, <2>3, <2>4, <2>5, <2>6
<1>3. \/ pc' = "panic" /\ panic' \in {"delete", "bind"}
      \/ pc' = pc /\ panic' = panic
  BY Zenon DEF Panic
<1>4. pc # "panic" BY DEF Application
<1> HIDE DEF Lifecycle
<1>5. CASE pc' = "panic" /\ panic' \in {"delete", "bind"}
  <2>1. panic' # "FD not found" BY <1>5
  <2> QED BY <1>1, <1>2, <1>5, <2>1, PanicKeeps, Zenon
<1>6. CASE pc' = pc /\ panic' = panic
  BY <1>1, <1>2, <1>4, <1>6, NotPanicking, QuietKeeps, Zenon
<1> QED BY <1>3, <1>5, <1>6

LEMMA ConnectKeeps ==
  ASSUME TypeOK, ControlInv, NEW c \in Client, Connect(c)
  PROVE  ControlInv'
<1>1. /\ peer[c] = "away" /\ peer' = [peer EXCEPT ![c] = "waiting"]
      /\ UNCHANGED <<maybeFD, address, isHandlingRequest, pc, currentClient,
                     panic, shouldFlush, closes, served>>
  BY Zenon DEF Connect
<1>2. peer \in [Client -> {"away", "waiting", "accepted"}]
  BY DEF TypeOK, PeersTypeOK
<1>3. \A d \in Client : peer'[d] = "accepted" <=> peer[d] = "accepted"
  BY <1>1, <1>2
<1>4. currentClient # None => currentClient \in Client
  BY DEF TypeOK, ConnectionTypeOK
<1>5. FlagMeansBusy' BY <1>1, Zenon DEF ControlInv, FlagMeansBusy
<1>6. ClosedExactlyOnce' BY <1>1, <1>3, Zenon DEF ControlInv, ClosedExactlyOnce
<1>7. IdleIsClean' BY <1>1, <1>3, Zenon DEF ControlInv, IdleIsClean
<1>8. AddressNeedsSocket' BY <1>1, Zenon DEF ControlInv, AddressNeedsSocket
<1>9. Serving' BY <1>1, <1>3, <1>4, Zenon DEF ControlInv, Serving
<1> QED BY <1>5, <1>6, <1>7, <1>8, <1>9 DEF ControlInv

LEMMA AcceptKeeps ==
  ASSUME TypeOK, ControlInv, NEW c \in Client, Accept(c)
  PROVE  ControlInv'
<1>1. /\ pc = "idle" /\ pc' = "read"
      /\ isHandlingRequest' = TRUE
      /\ peer[c] = "waiting" /\ peer' = [peer EXCEPT ![c] = "accepted"]
      /\ currentClient' = c
      /\ UNCHANGED <<maybeFD, address, panic, shouldFlush, closes, served>>
  BY Zenon DEF Accept
<1>2. /\ peer \in [Client -> {"away", "waiting", "accepted"}]
      /\ closes \in [Client -> Nat]
  BY DEF TypeOK, PeersTypeOK
<1>3. closes[c] = 0 /\ served[c] = None
  BY <1>1, <1>2 DEF ControlInv, ClosedExactlyOnce, Serving
<1>4. FlagMeansBusy' BY <1>1 DEF FlagMeansBusy
<1>5. ClosedExactlyOnce'
  <2>1. \A d \in Client : /\ closes[d] <= 1
                          /\ d # c /\ peer[d] = "accepted" => closes[d] = 1
                          /\ d # c => peer'[d] = peer[d]
                          /\ closes[d] = 1 => peer[d] = "accepted"
    BY <1>1, <1>2 DEF ControlInv, ClosedExactlyOnce, IdleIsClean
  <2> QED BY <1>1, <1>2, <1>3, <2>1 DEF ClosedExactlyOnce
<1>6. IdleIsClean' BY <1>1 DEF IdleIsClean
<1>7. AddressNeedsSocket' BY <1>1, Zenon DEF ControlInv, AddressNeedsSocket
<1>8. Serving'
  <2>1. panic = None /\ shouldFlush
    BY <1>1 DEF ControlInv, Serving, IdleIsClean
  <2>2. \A d \in Client : peer'[d] # "accepted" => served[d] = None
    BY <1>1, <1>2 DEF ControlInv, Serving
  <2>3. /\ pc' \notin {"handler", "notFound"} /\ pc' # "panic"
        /\ peer'[c] = "accepted" /\ c # None
    BY <1>1, <1>2, NoneAssumption
  <2> QED BY <1>1, <1>3, <2>1, <2>2, <2>3, Zenon DEF Serving
<1> QED BY <1>4, <1>5, <1>6, <1>7, <1>8 DEF ControlInv

\* The two assertions at the head of handleClient().
LEMMA CallKeeps ==
  ASSUME TypeOK, ControlInv, HandleClientUnbegun \/ HandleClientReentered
  PROVE  ControlInv'
<1>1. CASE HandleClientReentered
  <2>1. pc' = "panic" /\ panic' # "FD not found"
    BY <1>1 DEF HandleClientReentered, Panic
  <2>2. UNCHANGED <<maybeFD, address, currentClient, peer, closes, served>>
    BY <1>1, Zenon DEF HandleClientReentered
  <2> QED BY <2>1, <2>2, PanicKeeps, Zenon DEF ControlInv, AddressNeedsSocket
<1>2. CASE HandleClientUnbegun
  <2>1. /\ pc' = "panic" /\ panic' = "FD not found"
        /\ address # "null" /\ ~maybeFD
        /\ UNCHANGED <<maybeFD, address, currentClient, peer, closes, served>>
    BY <1>2, Zenon DEF HandleClientUnbegun, Panic
  <2>2. address = "garbage"
    <3>1. address \in {"null", "garbage", "set"} BY DEF TypeOK, ControlTypeOK
    <3>2. address # "set" BY <2>1, Zenon DEF ControlInv, AddressNeedsSocket
    <3> QED BY <2>1, <3>1, <3>2
  <2>3. FlagMeansBusy' /\ IdleIsClean' BY <2>1 DEF FlagMeansBusy, IdleIsClean, Running
  <2>4. ClosedExactlyOnce' BY <2>1, Zenon DEF ControlInv, ClosedExactlyOnce
  <2>5. AddressNeedsSocket'
    BY <2>1, <2>2, Zenon DEF ControlInv, AddressNeedsSocket
  <2>6. Serving' BY <2>1 DEF ControlInv, Serving, Running
  <2> QED BY <2>3, <2>4, <2>5, <2>6 DEF ControlInv
<1> QED BY <1>1, <1>2

LEMMA ParseKeeps ==
  ASSUME TypeOK, ControlInv, Parse
  PROVE  ControlInv'
<1> USE DEF Parse
<1>1. CASE ReadError \/ ReadEmpty \/ ReadUnknownMethod
  <2>1. pc = "read" /\ Return /\ UNCHANGED <<shouldFlush, peer, served>>
    BY <1>1, Zenon DEF ReadError, ReadEmpty, ReadUnknownMethod
  <2>2. shouldFlush' BY <2>1 DEF ControlInv, Serving, Running
  <2>3. pc \in Running \ {"idle"} BY <2>1 DEF Running
  <2> QED BY <2>1, <2>2, <2>3, ReturnKeeps, Zenon
<1>2. CASE ReadNoFirstLine \/ HeaderBroken
  <2>1. pc' = "panic" /\ panic' # "FD not found"
    BY <1>2 DEF ReadNoFirstLine, HeaderBroken, Panic
  <2>2. UNCHANGED <<maybeFD, address, currentClient, peer, closes, served>>
    BY <1>2, Zenon DEF ReadNoFirstLine, HeaderBroken
  <2> QED BY <2>1, <2>2, PanicKeeps, Zenon DEF ControlInv, AddressNeedsSocket
<1>3. CASE HeaderLast \/ HeaderSkipped
  <2>1. UNCHANGED <<maybeFD, address, pc, panic, isHandlingRequest, shouldFlush,
                   currentClient, peer, closes, served>>
    BY <1>3, Zenon DEF HeaderLast, HeaderSkipped
  <2> QED BY <2>1, QuietKeeps, Zenon DEF ControlInv, AddressNeedsSocket
<1>4. CASE ReadFirstLine
  <2>1. /\ pc = "read" /\ pc' = "headers"
        /\ UNCHANGED <<maybeFD, address, panic, isHandlingRequest, shouldFlush,
                       currentClient, peer, closes, served>>
    BY <1>4, Zenon DEF ReadFirstLine
  <2>2. FlagMeansBusy' BY <2>1 DEF ControlInv, FlagMeansBusy, Running
  <2>3. IdleIsClean' BY <2>1 DEF IdleIsClean
  <2>4. ClosedExactlyOnce' /\ AddressNeedsSocket'
    BY <2>1, Zenon DEF ControlInv, ClosedExactlyOnce, AddressNeedsSocket
  <2>5. Serving' BY <2>1 DEF ControlInv, Serving, Running
  <2> QED BY <2>2, <2>3, <2>4, <2>5 DEF ControlInv
<1>5. CASE Dispatch
  <2>1. /\ pc = "headers" /\ pc' \in {"handler", "notFound"}
        /\ shouldFlush' = FALSE
        /\ UNCHANGED <<maybeFD, address, panic, isHandlingRequest,
                       currentClient, peer, closes>>
        /\ served' = [served EXCEPT ![currentClient] =
                        [route |-> currentRoute, payload |-> currentPayload']]
    BY <1>5, Zenon DEF Dispatch
  <2>2. currentClient # None /\ peer[currentClient] = "accepted"
        /\ currentClient \in Client
    BY <2>1 DEF ControlInv, Serving, TypeOK, ConnectionTypeOK
  <2>3. [route |-> currentRoute, payload |-> currentPayload'] \in Dispatched
    <3>1. TypeOK' BY ParseType DEF ControlInv
    <3>2. currentPayload' \in Seq(Token)
      BY <3>1, Zenon DEF TypeOK, ConnectionTypeOK
    <3> QED BY <3>2 DEF TypeOK, ConnectionTypeOK, Dispatched
  <2>4. served'[currentClient] # None
        /\ \A d \in Client : d # currentClient => served'[d] = served[d]
    <3>1. served \in [Client -> {None} \union Dispatched]
      BY DEF TypeOK, PeersTypeOK
    <3>2. \A x \in Dispatched : x # None BY NoneAssumption
    <3> HIDE DEF Dispatched
    <3> QED BY <2>1, <2>2, <2>3, <3>1, <3>2
  <2>5. FlagMeansBusy' BY <2>1 DEF ControlInv, FlagMeansBusy, Running
  <2>6. IdleIsClean' BY <2>1 DEF IdleIsClean
  <2>7. ClosedExactlyOnce' /\ AddressNeedsSocket'
    BY <2>1, Zenon DEF ControlInv, ClosedExactlyOnce, AddressNeedsSocket
  <2>8. Serving'
    <3>1. \A d \in Client : peer[d] # "accepted" => served'[d] = None
      BY <2>2, <2>4, Zenon DEF ControlInv, Serving
    <3>2. panic = None BY <2>1 DEF ControlInv, Serving
    <3>3. pc' \notin {"read", "headers"} /\ pc' # "panic" BY <2>1
    <3> QED BY <2>1, <2>2, <2>4, <3>1, <3>2, <3>3, Zenon DEF Serving
  <2> QED BY <2>5, <2>6, <2>7, <2>8 DEF ControlInv
<1> QED BY <1>1, <1>2, <1>3, <1>4, <1>5, Zenon

LEMMA HandlerKeeps ==
  ASSUME TypeOK, ControlInv, Handler
  PROVE  ControlInv'
<1> USE DEF Handler
<1>1. CASE \/ \E h \in Header : SendHeader(h)
           \/ \E n \in Length : SetContentLength(n)
           \/ SendData \/ \E code \in Code : Send(code)
  <2>1. UNCHANGED <<maybeFD, address, pc, panic, isHandlingRequest, shouldFlush,
                   currentClient, peer, closes, served>>
    BY <1>1, Zenon DEF SendHeader, SetContentLength, SendData, Send
  <2> QED BY <2>1, QuietKeeps, Zenon DEF ControlInv, AddressNeedsSocket
<1>2. CASE SendPanics
  <2>1. pc' = "panic" /\ panic' # "FD not found" BY <1>2 DEF SendPanics, Panic
  <2>2. UNCHANGED <<maybeFD, address, currentClient, peer, closes, served>>
    BY <1>2, Zenon DEF SendPanics
  <2> QED BY <2>1, <2>2, PanicKeeps, Zenon DEF ControlInv, AddressNeedsSocket
<1>3. CASE HandlerReset
  <2>1. /\ pc = "handler" /\ currentClient' = None
        /\ closes' = IF currentClient = None THEN closes
                     ELSE [closes EXCEPT ![currentClient] = @ + 1]
        /\ UNCHANGED <<maybeFD, address, pc, panic, isHandlingRequest,
                       shouldFlush, peer, served>>
    BY <1>3, Zenon DEF HandlerReset, Reset
  <2>2. FlagMeansBusy' BY <2>1, Zenon DEF ControlInv, FlagMeansBusy
  <2>3. IdleIsClean' BY <2>1 DEF IdleIsClean
  <2>4. AddressNeedsSocket' BY <2>1, Zenon DEF ControlInv, AddressNeedsSocket
  <2>5. ClosedExactlyOnce'
    <3>1. closes \in [Client -> Nat] BY DEF TypeOK, PeersTypeOK
    <3>2. \A c \in Client : /\ c # currentClient => closes'[c] = closes[c]
                            /\ c = currentClient => closes'[c] = closes[c] + 1
      BY <2>1, <3>1, NoneAssumption
    <3>3. \A c \in Client :
            c = currentClient => peer[c] = "accepted" /\ closes[c] = 0
      BY <3>1, NoneAssumption DEF ControlInv, Serving, ClosedExactlyOnce
    <3> QED BY <2>1, <3>1, <3>2, <3>3, NoneAssumption
            DEF ControlInv, ClosedExactlyOnce
  <2>6. Serving' BY <2>1 DEF ControlInv, Serving
  <2> QED BY <2>2, <2>3, <2>4, <2>5, <2>6 DEF ControlInv
<1>4. CASE HandlerReturns
  <2>1. pc = "handler" /\ Return /\ shouldFlush' /\ UNCHANGED <<peer, served>>
    BY <1>4, Zenon DEF HandlerReturns
  <2>2. pc \in Running \ {"idle"} BY <2>1 DEF Running
  <2> QED BY <2>1, <2>2, ReturnKeeps, Zenon
<1>5. CASE DefaultNotFound
  <2>1. pc = "notFound" /\ UNCHANGED <<peer, served>>
    BY <1>5, Zenon DEF DefaultNotFound
  <2>2. pc \in Running \ {"idle"} BY <2>1 DEF Running
  <2>3. CASE Return /\ shouldFlush'
    BY <2>1, <2>2, <2>3, ReturnKeeps, Zenon
  <2>4. CASE Panic("Sent failed") /\ UNCHANGED <<serverVars, connVars, closes>>
    <3>1. pc' = "panic" /\ panic' # "FD not found" BY <2>4 DEF Panic
    <3> QED BY <2>1, <2>4, <3>1, PanicKeeps, Zenon
            DEF ControlInv, AddressNeedsSocket
  <2>5. (Return /\ shouldFlush')
        \/ (Panic("Sent failed") /\ UNCHANGED <<serverVars, connVars, closes>>)
    BY <1>5, Zenon DEF DefaultNotFound
  <2> QED BY <2>3, <2>4, <2>5
<1> QED BY <1>1, <1>2, <1>3, <1>4, <1>5, Zenon

-----------------------------------------------------------------------------
LEMMA InvIsTypesAndControl == ServerInv <=> TypeOK /\ ControlInv
BY Zenon DEF ServerInv, ControlInv

LEMMA InvInit == Init => ServerInv
<1> SUFFICES ASSUME Init PROVE ServerInv OBVIOUS
<1>1. TypeOK BY InitType
<1>2. FlagMeansBusy BY Zenon DEF Init, FlagMeansBusy
<1>3. ClosedExactlyOnce /\ IdleIsClean
  BY DEF Init, ClosedExactlyOnce, IdleIsClean
<1>4. AddressNeedsSocket
  BY AddressAssumption, NoneAssumption DEF Init, AddressNeedsSocket, PanicReasons
<1>5. Serving BY DEF Init, Serving
<1> QED BY <1>1, <1>2, <1>3, <1>4, <1>5 DEF ServerInv

LEMMA InvNext == ServerInv /\ [Next]_vars => ServerInv'
<1> SUFFICES ASSUME TypeOK, ControlInv, [Next]_vars PROVE ServerInv'
  BY InvIsTypesAndControl
<1>0. Serving BY DEF ControlInv
<1>1. CASE Lifecycle
  BY <1>1, LifecycleType, LifecycleKeeps, InvIsTypesAndControl DEF ServerInv, ControlInv
<1>2. CASE HandleClientUnbegun \/ HandleClientReentered
  BY <1>2, ArrivalType, CallKeeps, Zenon DEF ServerInv, ControlInv
<1>3. ASSUME NEW c \in Client, Connect(c) \/ Accept(c) PROVE ServerInv'
  BY <1>3, ArrivalType, ConnectKeeps, AcceptKeeps, Zenon DEF ServerInv, ControlInv
<1>4. CASE Parse
  BY <1>0, <1>4, ParseType, ParseKeeps, Zenon DEF ServerInv, ControlInv
<1>5. CASE Handler
  BY <1>0, <1>5, HandlerType, HandlerKeeps, Zenon DEF ServerInv, ControlInv
<1>6. CASE UNCHANGED vars
  <2>1. TypeOK'
    <3>1. ControlTypeOK' BY <1>6, Zenon DEF vars, TypeOK, ControlTypeOK
    <3>2. UNCHANGED <<maybeFD, isHandlingRequest, customNotFound, isPayload,
                     shouldFlush, listening, connVars, buff, peerVars, closes,
                     historyVars>>
      BY <1>6, Zenon DEF vars
    <3> QED BY <3>1, <3>2, Frames, Zenon DEF TypeOK
  <2>2. UNCHANGED <<maybeFD, address, pc, panic, isHandlingRequest, shouldFlush,
                   currentClient, peer, closes, served>>
    BY <1>6, Zenon DEF vars
  <2>3. ControlInv'
    BY <2>2, QuietKeeps, Zenon DEF ControlInv, AddressNeedsSocket
  <2> QED BY <2>1, <2>3, Zenon DEF ServerInv, ControlInv
<1> QED BY <1>1, <1>2, <1>3, <1>4, <1>5, <1>6, Zenon DEF Next

\* The inductive invariant holds of every reachable state.
THEOREM ServerInvariant == Spec => []ServerInv
BY InvInit, InvNext, PTL DEF Spec

\* Every variable keeps its type, whatever peers send and handlers do.
THEOREM TypeCorrect == Spec => []TypeOK
<1>1. ServerInv => TypeOK BY DEF ServerInv
<1> QED BY <1>1, ServerInvariant, PTL

\* The re-entrancy flag is up exactly while a call of handleClient() runs, so
\* the assertion on it fires only for a handler that calls handleClient().
THEOREM FlagCorrect == Spec => []FlagMeansBusy
<1>1. ServerInv => FlagMeansBusy BY DEF ServerInv
<1> QED BY <1>1, ServerInvariant, PTL

\* No return of handleClient() leaks a connection's descriptor or closes it
\* twice.
THEOREM ConnectionsClosed == Spec => []ClosedExactlyOnce
<1>1. ServerInv => ClosedExactlyOnce BY DEF ServerInv
<1> QED BY <1>1, ServerInvariant, PTL

\* Between two calls of handleClient() no connection is open, whatever handlers
\* and kernel did, and logs flush again.
THEOREM IdleClean == Spec => []IdleIsClean
<1>1. ServerInv => IdleIsClean BY DEF ServerInv
<1> QED BY <1>1, ServerInvariant, PTL

\* The assertion "FD not found" fires only on a server whose address member
\* was never initialised.
THEOREM AddressCorrect == Spec => []AddressNeedsSocket
<1>1. ServerInv => AddressNeedsSocket BY DEF ServerInv
<1> QED BY <1>1, ServerInvariant, PTL

-----------------------------------------------------------------------------
(***************************************************************************)
(* The refinement: each step of the server is a step of SerialService, or  *)
(* changes nothing it can see.                                             *)
(***************************************************************************)
Unseen == UNCHANGED <<peer, closes, served, replies>>

LEMMA UnseenStutters == Unseen => UNCHANGED Service!vars
BY Zenon DEF Unseen, Service!vars, Stage, Handled, Answers

\* Moving one connection on moves that one and no other.
LEMMA OneMoves ==
  ASSUME NEW f, NEW g, NEW c \in Client, NEW v,
         f = [d \in Client |-> f[d]], g = [d \in Client |-> g[d]],
         g[c] = v, \A d \in Client \ {c} : g[d] = f[d]
  PROVE  g = [f EXCEPT ![c] = v]
OBVIOUS

LEMMA StageMoves ==
  ASSUME NEW c \in Client, NEW v,
         Stage'[c] = v, \A d \in Client \ {c} : Stage'[d] = Stage[d]
  PROVE  Stage' = [Stage EXCEPT ![c] = v]
<1>1. /\ Stage = [d \in Client |-> Stage[d]]
      /\ Stage' = [d \in Client |-> Stage'[d]]
  BY DEF Stage
<1> HIDE DEF Stage
<1> QED BY <1>1, OneMoves

\* A connection that is current is being served, in SerialService's eyes.
LEMMA CurrentIsServed ==
  ASSUME ServerInv, currentClient # None
  PROVE  /\ currentClient \in Client
         /\ peer[currentClient] = "accepted"
         /\ closes[currentClient] = 0
         /\ Stage[currentClient] = "served"
<1>1. currentClient \in Client /\ closes \in [Client -> Nat]
  BY DEF ServerInv, TypeOK, ConnectionTypeOK, PeersTypeOK
<1>2. peer[currentClient] = "accepted" BY DEF ServerInv, Serving
<1>3. closes[currentClient] = 0 BY <1>1 DEF ServerInv, ClosedExactlyOnce
<1> QED BY <1>1, <1>2, <1>3 DEF Stage

\* Closing the current connection, with at most one last write to it.
LEMMA ResetFinishes ==
  ASSUME ServerInv, Reset, UNCHANGED <<peer, served>>,
         \/ UNCHANGED replies
         \/ /\ currentClient # None /\ served[currentClient] # None
            /\ \E r : Written(currentClient, r)
  PROVE  Service!Next \/ UNCHANGED Service!vars
<1>1. CASE currentClient = None
  <2>1. Unseen BY <1>1, Zenon DEF Reset, Unseen
  <2> QED BY <2>1, UnseenStutters
<1>2. CASE currentClient # None
  <2>1. /\ currentClient \in Client
        /\ peer[currentClient] = "accepted"
        /\ closes[currentClient] = 0
        /\ Stage[currentClient] = "served"
    BY <1>2, CurrentIsServed
  <2>2. /\ closes \in [Client -> Nat]
        /\ closes' = [closes EXCEPT ![currentClient] = @ + 1]
    BY <1>2 DEF Reset, ServerInv, TypeOK, PeersTypeOK
  <2>3. Stage' = [Stage EXCEPT ![currentClient] = "done"]
    <3>1. Stage'[currentClient] = "done" BY <2>1, <2>2 DEF Stage
    <3>2. \A d \in Client \ {currentClient} : Stage'[d] = Stage[d]
      BY <2>1, <2>2 DEF Stage
    <3> QED BY <2>1, <3>1, <3>2, StageMoves
  <2>4. Handled' = Handled BY Zenon DEF Handled
  <2>5. \/ UNCHANGED Answers
        \/ /\ currentClient \in Handled
           /\ Answers' = [Answers EXCEPT ![currentClient] = @ + 1]
    <3>1. CASE UNCHANGED replies BY <3>1, Zenon DEF Answers
    <3>2. CASE /\ served[currentClient] # None
               /\ \E r : Written(currentClient, r)
      <4>1. replies \in [Client -> Seq(Reply)]
        BY DEF ServerInv, TypeOK, PeersTypeOK
      <4>2. PICK r : replies' = [replies EXCEPT ![currentClient] = Append(@, r)]
        BY <3>2 DEF Written
      <4>3. Len(Append(replies[currentClient], r)) = Len(replies[currentClient]) + 1
        BY <2>1, <4>1
      <4>4. currentClient \in Handled BY <2>1, <3>2 DEF Handled
      <4>5. Answers' = [Answers EXCEPT ![currentClient] = @ + 1]
        BY <2>1, <4>1, <4>2, <4>3 DEF Answers
      <4> QED BY <4>4, <4>5
    <3> QED BY <3>1, <3>2
  <2>6. Service!Finish(currentClient)
    BY <2>1, <2>3, <2>4, <2>5, Zenon DEF Service!Finish
  <2> QED BY <2>1, <2>6 DEF Service!Next
<1> QED BY <1>1, <1>2

LEMMA StepRefines ==
  ASSUME ServerInv, [Next]_vars
  PROVE  [Service!Next]_Service!vars
<1> SUFFICES Service!Next \/ UNCHANGED Service!vars OBVIOUS
<1>1. CASE Lifecycle \/ HandleClientUnbegun \/ HandleClientReentered
  <2>1. Unseen
    BY <1>1, Zenon DEF Lifecycle, BeginDies, BeginAgain, BeginFirst, BeginFails,
         BeginBindFails, Close, OnNotFound, On, HandleClientUnbegun,
         HandleClientReentered, Unseen
  <2> QED BY <2>1, UnseenStutters
<1>2. ASSUME NEW c \in Client, Connect(c) PROVE Service!Next
  <2>1. /\ peer[c] = "away" /\ peer' = [peer EXCEPT ![c] = "waiting"]
        /\ UNCHANGED <<closes, served, replies>>
    BY <1>2, Zenon DEF Connect
  <2>2. /\ closes \in [Client -> Nat]
        /\ peer \in [Client -> {"away", "waiting", "accepted"}]
    BY DEF ServerInv, TypeOK, PeersTypeOK
  <2>3. closes[c] = 0 BY <2>1, <2>2 DEF ServerInv, ClosedExactlyOnce
  <2>4. Stage[c] = "away" /\ Stage' = [Stage EXCEPT ![c] = "queued"]
    <3>1. Stage[c] = "away" /\ Stage'[c] = "queued"
      BY <2>1, <2>2, <2>3 DEF Stage
    <3>2. \A d \in Client \ {c} : Stage'[d] = Stage[d]
      BY <2>1, <2>2 DEF Stage
    <3> QED BY <3>1, <3>2, StageMoves
  <2>5. Handled' = Handled /\ Answers' = Answers
    BY <2>1, Zenon DEF Handled, Answers
  <2>6. Service!Arrive(c) BY <2>4, <2>5, Zenon DEF Service!Arrive
  <2> QED BY <2>6 DEF Service!Next
<1>3. ASSUME NEW c \in Client, Accept(c) PROVE Service!Next
  <2>1. /\ pc = "idle" /\ peer[c] = "waiting"
        /\ peer' = [peer EXCEPT ![c] = "accepted"]
        /\ UNCHANGED <<closes, served, replies>>
    BY <1>3, Zenon DEF Accept
  <2>2. /\ closes \in [Client -> Nat]
        /\ peer \in [Client -> {"away", "waiting", "accepted"}]
    BY DEF ServerInv, TypeOK, PeersTypeOK
  <2>3. closes[c] = 0 BY <2>1, <2>2 DEF ServerInv, ClosedExactlyOnce
  <2>4. Stage[c] = "queued" /\ Stage' = [Stage EXCEPT ![c] = "served"]
    <3>1. Stage[c] = "queued" /\ Stage'[c] = "served"
      BY <2>1, <2>2, <2>3 DEF Stage
    <3>2. \A d \in Client \ {c} : Stage'[d] = Stage[d]
      BY <2>1, <2>2 DEF Stage
    <3> QED BY <3>1, <3>2, StageMoves
  <2>5. \A d \in Client : Stage[d] # "served"
    BY <2>1, <2>2 DEF Stage, ServerInv, IdleIsClean
  <2>6. Handled' = Handled /\ Answers' = Answers
    BY <2>1, Zenon DEF Handled, Answers
  <2>7. Service!Serve(c) BY <2>4, <2>5, <2>6, Zenon DEF Service!Serve
  <2> QED BY <2>7 DEF Service!Next
<1>4. CASE Parse
  <2>1. CASE ReadError \/ ReadEmpty \/ ReadUnknownMethod
    <3>1. Reset /\ UNCHANGED <<peer, served, replies>>
      BY <2>1, Zenon DEF ReadError, ReadEmpty, ReadUnknownMethod, Return
    <3> QED BY <3>1, ResetFinishes
  <2>2. CASE ReadNoFirstLine \/ ReadFirstLine \/ HeaderBroken \/ HeaderLast
             \/ HeaderSkipped
    <3>1. Unseen
      BY <2>2, Zenon DEF ReadNoFirstLine, ReadFirstLine, HeaderBroken,
           HeaderLast, HeaderSkipped, Unseen
    <3> QED BY <3>1, UnseenStutters
  <2>3. CASE Dispatch
    <3>1. /\ pc = "headers"
          /\ served' = [served EXCEPT ![currentClient] =
                [route |-> currentRoute, payload |-> currentPayload']]
          /\ UNCHANGED <<peer, closes, replies>>
      BY <2>3, Zenon DEF Dispatch
    <3>2. currentClient # None /\ served[currentClient] = None
      BY <3>1 DEF ServerInv, Serving
    <3>3. currentClient \in Client /\ Stage[currentClient] = "served"
      BY <3>2, CurrentIsServed
    <3>4. served'[currentClient] # None
          /\ \A d \in Client : d # currentClient => served'[d] = served[d]
      <4>1. ServerInv' BY InvNext
      <4>2. served'[currentClient] # None
        <5>1. /\ pc' \in {"handler", "notFound"}
              /\ currentClient' = currentClient
          BY <2>3, Zenon DEF Dispatch
        <5> QED BY <3>2, <4>1, <5>1, Zenon DEF ServerInv, Serving
      <4>3. served \in [Client -> {None} \union Dispatched]
        BY DEF ServerInv, TypeOK, PeersTypeOK
      <4> HIDE DEF Dispatched
      <4> QED BY <3>1, <4>2, <4>3
    <3>5. currentClient \notin Handled
          /\ Handled' = Handled \union {currentClient}
      BY <3>2, <3>3, <3>4 DEF Handled
    <3>6. Stage' = Stage /\ Answers' = Answers BY <3>1, Zenon DEF Stage, Answers
    <3>7. Service!Handle(currentClient)
      BY <3>3, <3>5, <3>6, Zenon DEF Service!Handle
    <3> QED BY <3>3, <3>7 DEF Service!Next
  <2> QED BY <1>4, <2>1, <2>2, <2>3, Zenon DEF Parse
<1>5. CASE Handler
  <2>1. CASE \/ SendPanics
             \/ \E h \in Header : SendHeader(h)
             \/ \E n \in Length : SetContentLength(n)
    <3>1. Unseen
      BY <2>1, Zenon DEF SendPanics, SendHeader, SetContentLength, Unseen
    <3> QED BY <3>1, UnseenStutters
  <2>2. CASE HandlerReset \/ HandlerReturns
    <3>1. Reset /\ UNCHANGED <<peer, served, replies>>
      BY <2>2, Zenon DEF HandlerReset, HandlerReturns, Return
    <3> QED BY <3>1, ResetFinishes
  <2>3. CASE SendData \/ \E code \in Code : Send(code)
    <3>1. /\ pc = "handler" /\ currentClient # None
          /\ \E r : Written(currentClient, r)
          /\ UNCHANGED <<peer, closes, served>>
      BY <2>3, Zenon DEF SendData, Send
    <3>2. currentClient \in Client /\ Stage[currentClient] = "served"
      BY <3>1, CurrentIsServed
    <3>3. currentClient \in Handled
      BY <3>1, <3>2 DEF ServerInv, Serving, Handled
    <3>4. replies \in [Client -> Seq(Reply)]
      BY DEF ServerInv, TypeOK, PeersTypeOK
    <3>5. PICK r : replies' = [replies EXCEPT ![currentClient] = Append(@, r)]
      BY <3>1 DEF Written
    <3>6. Len(Append(replies[currentClient], r)) = Len(replies[currentClient]) + 1
      BY <3>2, <3>4
    <3>7. Answers' = [Answers EXCEPT ![currentClient] = @ + 1]
      BY <3>2, <3>4, <3>5, <3>6 DEF Answers
    <3>8. Stage' = Stage /\ Handled' = Handled
      BY <3>1, Zenon DEF Stage, Handled
    <3>9. Service!Answer(currentClient)
      BY <3>2, <3>3, <3>7, <3>8, Zenon DEF Service!Answer
    <3> QED BY <3>2, <3>9 DEF Service!Next
  <2>4. CASE DefaultNotFound
    <3>1. CASE Written(currentClient, ReplyHead(404)) /\ Return
      <4>1. Reset /\ UNCHANGED <<peer, served>>
        BY <2>4, <3>1, Zenon DEF DefaultNotFound, Return
      <4>2. currentClient # None /\ served[currentClient] # None
        BY <2>4 DEF DefaultNotFound, ServerInv, Serving
      <4> QED BY <3>1, <4>1, <4>2, ResetFinishes
    <3>2. CASE UNCHANGED <<closes, replies>>
      <4>1. Unseen BY <2>4, <3>2, Zenon DEF DefaultNotFound, Unseen
      <4> QED BY <4>1, UnseenStutters
    <3> QED BY <2>4, <3>1, <3>2, Zenon DEF DefaultNotFound
  <2> QED BY <1>5, <2>1, <2>2, <2>3, <2>4, Zenon DEF Handler
<1>6. CASE UNCHANGED vars
  <2>1. Unseen BY <1>6, Zenon DEF vars, Unseen
  <2> QED BY <2>1, UnseenStutters
<1> QED BY <1>1, <1>2, <1>3, <1>4, <1>5, <1>6, Zenon DEF Next

\* The server implements SerialService: it serves one connection at a time,
\* shows each to the application at most once, and writes to a connection
\* only after showing it and before closing it.
THEOREM ImplementsSerialService == Spec => ServesSerially
<1>1. Init => Service!Init
  <2> SUFFICES ASSUME Init PROVE Service!Init OBVIOUS
  <2>1. Stage = [c \in Client |-> "away"] BY DEF Init, Stage
  <2>2. Handled = {} BY DEF Init, Handled
  <2>3. Answers = [c \in Client |-> 0] BY DEF Init, Answers
  <2> QED BY <2>1, <2>2, <2>3 DEF Service!Init
<1>2. ServerInv /\ [Next]_vars => [Service!Next]_Service!vars
  BY StepRefines
<1> QED BY <1>1, <1>2, ServerInvariant, PTL
        DEF Spec, ServesSerially, Service!Spec
=============================================================================
