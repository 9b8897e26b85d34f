------------------------- MODULE HttpParser_proofs -------------------------
(***************************************************************************)
(* What the parser of handleClient() makes of a request, for any requests, *)
(* any buffer and any cut of the network: the invariant of its header loop *)
(* and the three properties of what handlers are given that rest on it.    *)
(* Last, what arg() reads of a form, for any form in any encoding: that    *)
(* percentDecode() undoes the escapes of a value, that the first field of  *)
(* a name is found, and that both give the handler what was filled in.     *)
(***************************************************************************)
EXTENDS HttpServer_proofs, HttpForm

USE DEF serverVars, responseVars, connVars, parseVars, socketVars, peerVars,
        historyVars

Bytes == Token \union {"CR", "LF"} \union {"POST", "GET", "OPTIONS"}

\* One turn of the header loop over a request whose empty line is ahead: a line
\* that is not the last leaves it ahead, or drops a half of it that the read
\* had cut from the other; only at the empty line do the two searches agree.
LEMMA Turn ==
  ASSUME NEW r \in Seq(Bytes), NEW d \in Nat, NEW n \in Nat,
         d <= n, n <= Len(r),
         Find(r, EmptyLine) # 0, d < Find(r, EmptyLine)
  PROVE  LET b == SubSeq(r, d + 1, n)
             e == Find(r, EmptyLine)
             f == Find(b, CRLF)
         IN  /\ f # 0 /\ f = Find(b, EmptyLine) => d + f = e /\ e + 3 <= n
             /\ f # 0 /\ f # Find(b, EmptyLine) =>
                  /\ d + f + 1 <= n
                  /\ d + f + 1 < e \/ (d + f + 1 = e + 1 /\ n < e + 3)
             /\ f = 0 => n <= e
<1> DEFINE b == SubSeq(r, d + 1, n)
           e == Find(r, EmptyLine)
           f == Find(b, CRLF)
           g == Find(b, EmptyLine)
<1>1. Len(r) \in Nat BY LenProperties
<1>2. /\ e \in Nat /\ e # 0 /\ e + 3 <= Len(r)
      /\ BlankAt(r, e)
      /\ \A i \in 1..(e - 1) : ~BlankAt(r, i)
  BY FirstBlank
<1>3. /\ b \in Seq(Bytes)
      /\ Len(b) = n - d
      /\ \A i \in 1..(n - d - 1) : EndAt(b, i) <=> EndAt(r, d + i)
      /\ \A i \in 1..(n - d - 3) : BlankAt(b, i) <=> BlankAt(r, d + i)
  BY EndsOfPiece, Zenon
<1> HIDE DEF b, e
<1>4. /\ f \in Nat
      /\ f = 0 => \A i \in 1..(n - d - 1) : ~EndAt(b, i)
      /\ f # 0 => /\ f + 1 <= n - d
                  /\ EndAt(b, f)
                  /\ \A i \in 1..(f - 1) : ~EndAt(b, i)
  BY <1>3, FirstEnd
<1>5. /\ g \in Nat
      /\ g = 0 => \A i \in 1..(n - d - 3) : ~BlankAt(b, i)
      /\ g # 0 => /\ g + 3 <= n - d
                  /\ BlankAt(b, g)
                  /\ \A i \in 1..(g - 1) : ~BlankAt(b, i)
  BY <1>3, FirstBlank
<1> HIDE DEF f, g
<1>6. d < e /\ d + (e - d) = e BY <1>2 DEF e
<1>7. EndAt(r, e) /\ EndAt(r, e + 2) BY <1>2 DEF BlankAt
<1>8. e + 1 <= n => EndAt(b, e - d)
  <2>1. e + 1 <= n => e - d \in 1..(n - d - 1) BY <1>2, <1>6
  <2> QED BY <1>3, <1>6, <1>7, <2>1
<1>9. f = 0 => n <= e
  <2>1. e + 1 <= n => e - d \in 1..(n - d - 1) BY <1>2, <1>6
  <2>2. f = 0 => ~(e + 1 <= n) BY <1>4, <1>8, <2>1
  <2> QED BY <1>2, <2>2
<1>10. f # 0 /\ e + 1 <= n => d + f <= e
  <2>1. f # 0 /\ e + 1 <= n /\ e < d + f => e - d \in 1..(f - 1)
    BY <1>2, <1>4, <1>6
  <2>2. ~(f # 0 /\ e + 1 <= n /\ e < d + f) BY <1>4, <1>8, <2>1
  <2> QED BY <1>2, <1>4, <2>2
<1>11. ASSUME f # 0, f = g PROVE d + f = e /\ e + 3 <= n
  <2>1. g \in 1..(n - d - 3) /\ g + 3 <= n - d BY <1>4, <1>5, <1>11
  <2>2. BlankAt(r, d + g) BY <1>3, <1>5, <1>11, <2>1
  <2>3. ~(d + g \in 1..(e - 1)) BY <1>2, <2>2
  <2>4. e <= d + g BY <1>2, <2>1, <2>3
  <2>5. e + 1 <= n BY <1>2, <2>1, <2>4
  <2> QED BY <1>2, <1>10, <1>11, <2>1, <2>4, <2>5
<1>12. ASSUME f # 0, f # g
       PROVE  /\ d + f + 1 <= n
              /\ d + f + 1 < e \/ (d + f + 1 = e + 1 /\ n < e + 3)
  <2>1. d + f + 1 <= n BY <1>4, <1>12
  <2>2. CASE d + f = e
    <3>1. ASSUME e + 3 <= n PROVE FALSE
      <4>1. f \in 1..(n - d - 3) BY <1>4, <1>12, <2>2, <3>1
      <4>2. BlankAt(b, f) BY <1>2, <1>3, <2>2, <4>1
      <4>3. g # 0 /\ ~(f \in 1..(g - 1)) BY <1>5, <4>1, <4>2
      <4>4. g < f BY <1>4, <1>5, <1>12, <4>1, <4>3
      <4>5. g \in 1..(f - 1) /\ EndAt(b, g)
        BY <1>4, <1>5, <4>3, <4>4 DEF BlankAt
      <4> QED BY <1>4, <1>12, <4>5
    <3>2. n < e + 3 BY <1>2, <3>1
    <3> QED BY <1>2, <1>4, <2>1, <2>2, <3>2
  <2>3. CASE d + f # e
    <3>1. d + f < e
      <4>1. CASE e + 1 <= n BY <1>2, <1>4, <1>10, <1>12, <2>3, <4>1
      <4>2. CASE ~(e + 1 <= n) BY <1>2, <1>4, <2>1, <4>2
      <4> QED BY <4>1, <4>2
    <3>2. d + f + 1 # e
      <4>1. f \in 1..(n - d - 1) BY <1>4, <1>12
      <4>2. EndAt(r, d + f) BY <1>3, <1>4, <1>12, <4>1
      <4>3. r[d + f + 1] = "LF" BY <4>2 DEF EndAt
      <4>4. r[e] = "CR" BY <1>7 DEF EndAt
      <4> QED BY <4>3, <4>4
    <3> QED BY <1>2, <1>4, <2>1, <3>1, <3>2
  <2> QED BY <2>2, <2>3
<1> QED BY <1>9, <1>11, <1>12 DEF b, e, f, g

\* Half of an empty line that was cut from the other holds no line end.
LEMMA CutBlank ==
  ASSUME NEW b \in Seq(Bytes), Len(b) <= 1
  PROVE  Find(b, CRLF) = 0
<1>1. Len(b) \in Nat BY LenProperties
<1> QED BY <1>1, FirstEnd

\* The first line of a request with a header ends before the empty line begins.
LEMMA FirstLine ==
  ASSUME NEW r \in Seq(Bytes), HasHeader(r), NEW n \in Nat, n <= Len(r)
  PROVE  LET f == Find(SubSeq(r, 1, n), CRLF)
         IN  /\ Find(r, EmptyLine) # 0
             /\ f # 0 => f + 1 < Find(r, EmptyLine)
             /\ f = 0 => n < Len(r)
<1> DEFINE b == SubSeq(r, 0 + 1, n)
           e == Find(r, EmptyLine)
           f == Find(b, CRLF)
           h == Find(r, CRLF)
<1>1. Len(r) \in Nat BY LenProperties
<1>2. /\ e \in Nat /\ e # 0 /\ e + 3 <= Len(r)
      /\ BlankAt(r, e)
  BY FirstBlank DEF HasHeader, Contains
<1>3. /\ h \in Nat /\ h < e
      /\ h # 0 => EndAt(r, h) /\ \A i \in 1..(h - 1) : ~EndAt(r, i)
      /\ h = 0 => \A i \in 1..(Len(r) - 1) : ~EndAt(r, i)
  BY FirstEnd DEF HasHeader
<1>4. /\ b \in Seq(Bytes)
      /\ Len(b) = n
      /\ \A i \in 1..(n - 1) : EndAt(b, i) <=> EndAt(r, i)
  <2>1. 0 <= n /\ n - 0 = n /\ n - 0 - 1 = n - 1 /\ \A i \in Int : 0 + i = i
    OBVIOUS
  <2> HIDE DEF b
  <2>2. /\ b \in Seq(Bytes)
        /\ Len(b) = n - 0
        /\ \A i \in 1..(n - 0 - 1) : EndAt(b, i) <=> EndAt(r, 0 + i)
    BY <2>1, EndsOfPiece DEF b
  <2> QED BY <2>1, <2>2
<1> HIDE DEF b, e, h
<1>5. /\ f \in Nat
      /\ f = 0 => \A i \in 1..(n - 1) : ~EndAt(b, i)
      /\ f # 0 => f + 1 <= n /\ EndAt(b, f) /\ \A i \in 1..(f - 1) : ~EndAt(b, i)
  BY <1>4, FirstEnd
<1> HIDE DEF f
<1>6. h # 0
  <2>1. e \in 1..(Len(r) - 1) /\ EndAt(r, e) BY <1>1, <1>2 DEF BlankAt
  <2> QED BY <1>3, <2>1
<1>7. ASSUME f # 0 PROVE f + 1 < e
  <2>1. f \in 1..(n - 1) BY <1>5, <1>7
  <2>2. EndAt(r, f) BY <1>4, <1>5, <1>7, <2>1
  <2>3. f <= h
    <3>1. h < f => h \in 1..(n - 1) /\ h \in 1..(f - 1) BY <1>3, <1>6, <2>1
    <3>2. h < f => EndAt(b, h) BY <1>3, <1>4, <1>6, <3>1
    <3> QED BY <1>3, <1>5, <1>7, <3>1, <3>2
  <2>4. f + 1 # e
    <3>1. r[f + 1] = "LF" BY <2>2 DEF EndAt
    <3>2. r[e] = "CR" BY <1>2 DEF BlankAt, EndAt
    <3> QED BY <3>1, <3>2
  <2> QED BY <1>2, <1>3, <1>5, <2>3, <2>4
<1>8. ASSUME f = 0, n = Len(r) PROVE FALSE
  <2>1. e \in 1..(n - 1) /\ EndAt(r, e) BY <1>1, <1>2, <1>8 DEF BlankAt
  <2> QED BY <1>4, <1>5, <1>8, <2>1
<1>9. f = 0 => n < Len(r) BY <1>1, <1>8
<1>10. b = SubSeq(r, 1, n) BY DEF b
<1> QED BY <1>2, <1>7, <1>9, <1>10 DEF e, f

LEMMA TokensAreBytes == \A v \in Seq(Token) : v \in Seq(Bytes)
<1>1. Token \subseteq Bytes BY DEF Bytes
<1> QED BY <1>1, SeqMonotonic

\* A request that names one method is cut at the offset of its own.
LEMMA RouteOf ==
  ASSUME NEW r \in Seq(Bytes), NEW n \in Nat, n <= Len(r), NamesOneMethod(r),
         MethodIn(SubSeq(r, 1, n)) # None, Find(SubSeq(r, 1, n), CRLF) # 0
  PROVE  RouteIn(SubSeq(r, 1, n)) = RequestPath(r)
<1> DEFINE v == SubSeq(r, 1, n)
           found == {k \in 1..Len(Methods) : Contains(v, <<Methods[k]>>)}
           m == CHOOSE k \in found : \A j \in found : k <= j
<1>1. /\ v \in Seq(Bytes) /\ Len(v) = n
      /\ \A i \in 1..n : v[i] = r[i]
  <2>1. 0 <= n /\ 0 + 1 = 1 /\ n - 0 = n /\ \A i \in 1..n : 0 + i = i OBVIOUS
  <2>2. /\ SubSeq(r, 0 + 1, n) \in Seq(Bytes)
        /\ Len(SubSeq(r, 0 + 1, n)) = n - 0
        /\ \A i \in 1..(n - 0) : SubSeq(r, 0 + 1, n)[i] = r[0 + i]
    BY <2>1, PieceAfter
  <2> QED BY <2>1, <2>2
<1>2. Len(r) \in Nat BY LenProperties
<1> HIDE DEF v
<1>3. n > 1
  <2>1. /\ Find(v, CRLF) \in Nat
        /\ Find(v, CRLF) # 0 => Find(v, CRLF) + 1 <= Len(v)
    BY <1>1, FirstEnd
  <2> QED BY <1>1, <2>1 DEF v
<1>4. /\ Len(Methods) = 3
      /\ \A k \in 1..3 : Methods[k] \in Bytes
  <2>1. 1..3 = {1, 2, 3} OBVIOUS
  <2> QED BY <2>1 DEF Methods, Bytes
<1>5. m \in found /\ MethodIn(v) = Methods[m]
  <2>1. MethodIn(v) = IF found = {} THEN None ELSE Methods[m] BY DEF MethodIn
  <2>2. found # {} /\ MethodIn(v) = Methods[m] BY <2>1 DEF v
  <2>3. found \subseteq Nat BY <1>4
  <2>4. \E x \in found : \A y \in found : x <= y BY <2>2, <2>3, Smallest
  <2> HIDE DEF found
  <2> QED BY <2>2, <2>4
<1>6. m \in 1..Len(Methods) /\ Contains(v, <<Methods[m]>>) BY <1>5
<1> HIDE DEF m, found
<1>7. PICK i \in 1..n : v[i] = Methods[m]
  <2> DEFINE p == <<Methods[m]>>
  <2>1. p \in Seq(Bytes) /\ Len(p) = 1 /\ p[1] = Methods[m] BY <1>4, <1>6
  <2> HIDE DEF p
  <2>2. Find(v, p) # 0 BY <1>6 DEF p, Contains
  <2>3. At(v, p) # {}
    <3>1. Len(p) >= 1 BY <2>1
    <3>2. Find(v, p) = 0 <=> At(v, p) = {}
      BY <1>1, <2>1, <3>1, FindIsFirst, Zenon
    <3> QED BY <2>2, <3>2
  <2>4. PICK i \in At(v, p) : TRUE BY <2>3
  <2>5. i \in 1..n /\ SubSeq(v, i, i + Len(p) - 1) = p BY <1>1, <2>1, <2>4 DEF At
  <2>6. i + Len(p) - 1 <= Len(v) /\ i >= 1 /\ i + 1 - 1 = i BY <1>1, <2>1, <2>5
  <2>7. \A k \in 1..Len(p) : v[i + k - 1] = p[k]
    BY <1>1, <2>1, <2>5, <2>6, Stands
  <2>8. v[i] = p[1] BY <2>1, <2>6, <2>7
  <2> QED BY <2>1, <2>5, <2>8
<1>8. i = 1
  <2>1. i # 1 => i \in 2..Len(r) BY <1>2
  <2> QED BY <1>1, <1>6, <1>7, <2>1 DEF NamesOneMethod
<1>9. v[1] = MethodIn(v) BY <1>5, <1>7, <1>8
<1>10. v[2] = r[2] BY <1>1, <1>3
<1> QED BY <1>1, <1>3, <1>9, <1>10 DEF v, RouteIn, RequestPath

-----------------------------------------------------------------------------
\* The steps outside of the parser's loop, and those that leave it.
LEMMA OutsideLoop ==
  ASSUME ParserInv, pc' \notin {"read", "headers"},
         \A c \in Client : peer'[c] = "waiting" =>
           /\ peer[c] = "waiting"
           /\ left'[c] = left[c] /\ request'[c] = request[c],
         pc' = "idle" => /\ pc = "idle" => UNCHANGED <<isPayload, currentPayload>>
                         /\ pc # "idle" => ~isPayload' /\ currentPayload' = <<>>
  PROVE  ParserInv'
<1>1. ParserReset' BY DEF ParserInv, ParserReset
<1>2. HeadersAhead' BY Zenon DEF HeadersAhead
<1> QED BY <1>1, <1>2 DEF ParserInv

\* A peer that connects is not the one whose request is being read.
LEMMA ConnectParses ==
  ASSUME ServerInv, ParserInv, NEW c \in Client, Connect(c)
  PROVE  ParserInv'
<1>1. /\ peer[c] = "away"
      /\ peer' = [peer EXCEPT ![c] = "waiting"]
      /\ UNCHANGED <<pc, currentClient, currentRoute, currentPayload, buff, isPayload>>
  BY Zenon DEF Connect
<1>2. PICK r \in Request : /\ request' = [request EXCEPT ![c] = r]
                           /\ left' = [left EXCEPT ![c] = r]
  BY Zenon DEF Connect
<1>3. /\ request \in [Client -> Seq(Token)] /\ left \in [Client -> Seq(Token)]
      /\ peer \in [Client -> {"away", "waiting", "accepted"}]
  BY DEF ServerInv, TypeOK, PeersTypeOK
<1>4. request'[c] = r /\ left'[c] = r BY <1>2, <1>3
<1>5. \A d \in Client \ {c} :
        request'[d] = request[d] /\ left'[d] = left[d] /\ peer'[d] = peer[d]
  BY <1>1, <1>2, <1>3
<1>6. pc \in {"read", "headers"} =>
        currentClient \in Client /\ currentClient # c
  <2>1. currentClient \in Client \union {None}
    BY DEF ServerInv, TypeOK, ConnectionTypeOK
  <2> QED BY <1>1, <2>1 DEF ServerInv, Serving
<1>7. ParserReset'
  BY <1>1, <1>4, <1>5, <1>6, Zenon DEF ParserInv, ParserReset
<1>8. HeadersAhead'
  <2>1. pc = "headers" => /\ request'[currentClient'] = request[currentClient]
                          /\ left'[currentClient'] = left[currentClient]
    BY <1>1, <1>5, <1>6
  <2> QED BY <1>1, <2>1, Zenon DEF ParserInv, HeadersAhead, Got, Dropped
<1> QED BY <1>7, <1>8 DEF ParserInv

LEMMA AcceptParses ==
  ASSUME ServerInv, ParserInv, NEW c \in Client, Accept(c)
  PROVE  ParserInv'
<1>1. /\ pc = "idle" /\ pc' = "read" /\ peer[c] = "waiting" /\ currentClient' = c
      /\ peer' = [peer EXCEPT ![c] = "accepted"]
      /\ UNCHANGED <<request, left, currentPayload, isPayload>>
  BY Zenon DEF Accept
<1>2. peer \in [Client -> {"away", "waiting", "accepted"}]
  BY DEF ServerInv, TypeOK, PeersTypeOK
<1>3. \A d \in Client : peer'[d] = "waiting" => peer[d] = "waiting"
  BY <1>1, <1>2
<1>4. ParserReset'
  BY <1>1, <1>3, Zenon DEF ParserInv, ParserReset
<1>5. HeadersAhead' BY <1>1 DEF HeadersAhead
<1> QED BY <1>4, <1>5 DEF ParserInv

\* What is known of the connection whose request is being read.
LEMMA BeingRead ==
  ASSUME ServerInv, pc \in {"read", "headers"}
  PROVE  /\ currentClient \in Client /\ peer[currentClient] = "accepted"
         /\ request[currentClient] \in Seq(Bytes)
         /\ left[currentClient] \in Seq(Bytes)
         /\ left \in [Client -> Seq(Token)]
         /\ buff \in Seq(Bytes)
<1>1. /\ currentClient \in Client \union {None} /\ buff \in Seq(Token)
      /\ request \in [Client -> Seq(Token)] /\ left \in [Client -> Seq(Token)]
  BY DEF ServerInv, TypeOK, ConnectionTypeOK, PeersTypeOK
<1>2. currentClient # None /\ peer[currentClient] = "accepted"
  BY DEF ServerInv, Serving
<1> QED BY <1>1, <1>2, TokensAreBytes

\* The read: what arrived of the request, and what is then left of it.
LEMMA Arrived ==
  ASSUME ServerInv, ParserInv, pc = "read", NEW n \in Arrivals, Consume(n)
  PROVE  LET r == request[currentClient]
         IN  /\ n \in 0..Len(r)
             /\ Received(n) = SubSeq(r, 1, n)
             /\ Len(left'[currentClient]) = Len(r) - n
             /\ \A c \in Client : c # currentClient => left'[c] = left[c]
<1> DEFINE r == request[currentClient]
<1>1. /\ currentClient \in Client /\ left[currentClient] = r /\ r \in Seq(Bytes)
      /\ left \in [Client -> Seq(Token)]
  BY BeingRead, Zenon DEF ParserInv, ParserReset
<1> HIDE DEF r
<1>2. Len(r) \in Nat BY <1>1, LenProperties
<1>3. n \in 0..Len(r)
  <2>1. CASE n = 0 BY <1>2, <2>1
  <2>2. CASE n \in ReadSizes(r, BufferSize)
    BY <1>1, <1>2, <2>2, ReadSizesType, BufferSizeAssumption
  <2> QED BY <1>1, <2>1, <2>2 DEF Arrivals
<1>4. Received(n) = SubSeq(r, 1, n) BY <1>1 DEF Received, Take
<1>5. left' = [left EXCEPT ![currentClient] = Drop(r, n)]
  BY <1>1 DEF Consume
<1>6. Len(Drop(r, n)) = Len(r) - n
  <2>1. Len(Drop(r, n)) = IF n < Len(r) THEN Len(r) - n ELSE 0
    BY <1>1, <1>3, DropType
  <2> QED BY <1>2, <1>3, <2>1
<1>7. left'[currentClient] = Drop(r, n)
      /\ \A c \in Client : c # currentClient => left'[c] = left[c]
  BY <1>1, <1>5
<1> QED BY <1>3, <1>4, <1>6, <1>7 DEF r

\* The first line is dropped from what the read returned.
LEMMA FirstLineParses ==
  ASSUME ServerInv, ParserInv, ReadFirstLine
  PROVE  ParserInv'
<1> DEFINE c == currentClient
           r == request[c]
<1>1. /\ pc = "read" /\ pc' = "headers"
      /\ UNCHANGED <<currentClient, currentPayload, isPayload, peer, request>>
  BY Zenon DEF ReadFirstLine
<1>2. PICK n \in Arrivals :
        /\ MethodIn(Received(n)) # None
        /\ Contains(Received(n), CRLF)
        /\ Consume(n)
        /\ currentRoute' = RouteIn(Received(n))
        /\ buff' = Drop(Received(n), Find(Received(n), CRLF) + 1)
  BY Zenon DEF ReadFirstLine
<1>3. /\ n \in 0..Len(r)
      /\ Received(n) = SubSeq(r, 1, n)
      /\ Len(left'[c]) = Len(r) - n
      /\ \A d \in Client : d # c => left'[d] = left[d]
  BY <1>1, <1>2, Arrived, Zenon
<1>4. c \in Client /\ r \in Seq(Bytes) /\ peer[c] = "accepted"
  BY <1>1, BeingRead
<1>5. Len(r) \in Nat BY <1>4, LenProperties
<1> DEFINE k == SubSeq(r, 1, n)
           f == Find(k, CRLF)
<1>6. ParserReset'
  <2>1. ~isPayload /\ currentPayload = <<>>
    BY <1>1 DEF ParserInv, ParserReset
  <2>2. \A d \in Client : peer'[d] = "waiting" => left'[d] = request'[d]
    BY <1>1, <1>3, <1>4 DEF ParserInv, ParserReset
  <2> QED BY <1>1, <2>1, <2>2 DEF ParserReset
<1>7. Got' = n
  <2>1. Got' = Len(r) - (Len(r) - n) BY <1>1, <1>3, Zenon DEF Got
  <2> QED BY <1>3, <1>5, <2>1
<1>8. f \in Nat /\ f # 0 /\ f + 1 <= n
  <2>1. k \in Seq(Bytes) /\ Len(k) = n
    <3>1. 0 <= n /\ 0 + 1 = 1 /\ n - 0 = n /\ n \in Nat BY <1>3, <1>5
    <3> HIDE DEF r
    <3>2. SubSeq(r, 0 + 1, n) \in Seq(Bytes) /\ Len(SubSeq(r, 0 + 1, n)) = n - 0
      BY <1>3, <1>4, <1>5, <3>1, PieceAfter
    <3> QED BY <3>1, <3>2
  <2>2. f # 0 BY <1>2, <1>3 DEF Contains
  <2> HIDE DEF k
  <2> QED BY <2>1, <2>2, FirstEnd
<1> HIDE DEF f
<1>9. /\ buff' = SubSeq(r, f + 1 + 1, n)
      /\ Len(buff') = n - (f + 1)
  <2>1. /\ 0 \in Nat /\ n \in Nat /\ f + 1 \in Nat /\ 0 + (f + 1) <= n
        /\ 0 + 1 = 1 /\ 0 + (f + 1) + 1 = f + 1 + 1 /\ n - 0 - (f + 1) = n - (f + 1)
    BY <1>3, <1>5, <1>8
  <2>2. n <= Len(r) BY <1>3
  <2> HIDE DEF r
  <2>3. /\ Drop(SubSeq(r, 0 + 1, n), f + 1) = SubSeq(r, 0 + (f + 1) + 1, n)
        /\ Len(SubSeq(r, 0 + (f + 1) + 1, n)) = n - 0 - (f + 1)
    <3> HIDE DEF f
    <3>1. r \in Seq(Bytes) BY <1>4
    <3>2. f + 1 \in Nat /\ 0 + (f + 1) <= n BY <2>1
    <3>3. \A d, m, j \in Nat : m <= Len(r) /\ d + j <= m =>
            /\ Drop(SubSeq(r, d + 1, m), j) = SubSeq(r, d + j + 1, m)
            /\ Len(SubSeq(r, d + j + 1, m)) = m - d - j
      BY <3>1, DropPiece
    <3> QED BY <2>1, <2>2, <3>2, <3>3, Zenon
  <2>4. buff' = Drop(k, f + 1) BY <1>2, <1>3, Zenon DEF f
  <2> QED BY <2>1, <2>3, <2>4
<1>10. Dropped' = f + 1
  <2>1. Dropped' = n - (n - (f + 1)) BY <1>7, <1>9, Zenon DEF Dropped
  <2> QED BY <1>3, <1>5, <1>8, <2>1
<1>11. NamesOneMethod(r) => currentRoute' = RequestPath(r)
  <2>1. n \in Nat /\ n <= Len(r) BY <1>3, <1>5
  <2>2. MethodIn(k) # None /\ Find(k, CRLF) # 0 BY <1>2, <1>3, <1>8 DEF f
  <2>3. currentRoute' = RouteIn(k) BY <1>2, <1>3
  <2> HIDE DEF r
  <2> QED BY <1>4, <2>1, <2>2, <2>3, RouteOf
<1>12. HasHeader(r) => f + 1 < Find(r, EmptyLine)
  <2>1. n \in Nat /\ n <= Len(r) BY <1>3, <1>5
  <2> HIDE DEF r
  <2>2. HasHeader(r) => /\ Find(SubSeq(r, 1, n), CRLF) # 0 =>
                             Find(SubSeq(r, 1, n), CRLF) + 1 < Find(r, EmptyLine)
    BY <1>4, <2>1, FirstLine, Zenon
  <2> QED BY <1>8, <2>2 DEF f
<1>13. HeadersAhead'
  <2>1. request'[currentClient'] = r BY <1>1
  <2>2. ~isPayload' BY <1>1 DEF ParserInv, ParserReset
  <2>3. n <= Len(r) /\ f + 1 \in 0..n BY <1>3, <1>5, <1>8
  <2> HIDE DEF r, c
  <2> QED
    BY <1>7, <1>9, <1>10, <1>11, <1>12, <2>1, <2>2, <2>3, Zenon DEF HeadersAhead
<1> QED BY <1>6, <1>13 DEF ParserInv

\* What the header loop knows at the start of a turn.
LEMMA InLoop ==
  ASSUME ServerInv, ParserInv, InHeaders
  PROVE  LET r == request[currentClient]
         IN  /\ r \in Seq(Bytes) /\ Len(r) \in Nat
             /\ Dropped \in Nat /\ Got \in Nat /\ Dropped <= Got /\ Got <= Len(r)
             /\ buff = SubSeq(r, Dropped + 1, Got)
             /\ buff \in Seq(Bytes) /\ Len(buff) = Got - Dropped
             /\ HasHeader(r) =>
                  /\ Find(r, EmptyLine) \in Nat /\ Find(r, EmptyLine) # 0
                  /\ Find(r, EmptyLine) + 3 <= Len(r)
                  /\ \/ Dropped < Find(r, EmptyLine)
                     \/ /\ Dropped = Find(r, EmptyLine) + 1
                        /\ Got < Find(r, EmptyLine) + 3
                        /\ Find(buff, CRLF) = 0
<1> DEFINE r == request[currentClient]
           e == Find(r, EmptyLine)
<1>1. pc = "headers" /\ ~isPayload BY DEF InHeaders
<1>2. /\ r \in Seq(Bytes) /\ left[currentClient] \in Seq(Bytes)
      /\ buff \in Seq(Bytes)
  BY <1>1, BeingRead
<1>3. Len(r) \in Nat /\ Len(left[currentClient]) \in Nat BY <1>2, LenProperties
<1>4. /\ Got <= Len(r) /\ Dropped \in 0..Got
      /\ buff = SubSeq(r, Dropped + 1, Got)
      /\ HasHeader(r) => \/ Dropped < e
                         \/ Dropped = e + 1 /\ Got < e + 3
  BY <1>1, Zenon DEF ParserInv, HeadersAhead
<1>5. Got \in Int BY <1>3 DEF Got
<1>6. Dropped \in Nat /\ Got \in Nat /\ Dropped <= Got BY <1>4, <1>5
<1> HIDE DEF r
<1>7. Len(buff) = Got - Dropped BY <1>2, <1>4, <1>6, PieceAfter
<1>8. HasHeader(r) => e \in Nat /\ e # 0 /\ e + 3 <= Len(r)
  BY <1>2, FirstBlank DEF HasHeader, Contains
<1> HIDE DEF e
<1>9. HasHeader(r) /\ Dropped = e + 1 /\ Got < e + 3 => Find(buff, CRLF) = 0
  <2>1. HasHeader(r) /\ Dropped = e + 1 /\ Got < e + 3 => Len(buff) <= 1
    BY <1>6, <1>7, <1>8
  <2> QED BY <1>2, <2>1, CutBlank
<1> QED BY <1>2, <1>3, <1>4, <1>6, <1>7, <1>8, <1>9 DEF r, e

\* Dropping k bytes from the buffer, whatever they are.
LEMMA DropsOn ==
  ASSUME ServerInv, ParserInv, InHeaders, NEW k \in Nat, Dropped + k <= Got,
         buff' = Drop(buff, k),
         UNCHANGED <<pc, currentClient, currentRoute, currentPayload, peer,
                     request, left>>
  PROVE  LET r == request[currentClient]
             e == Find(r, EmptyLine)
         IN  /\ Dropped' = Dropped + k
             /\ (HasHeader(r) =>
                   \/ ~isPayload' /\ Dropped + k < e
                   \/ ~isPayload' /\ Dropped + k = e + 1 /\ Got < e + 3
                   \/ isPayload' /\ Dropped + k = e + 3)
                => ParserInv'
<1> DEFINE r == request[currentClient]
           e == Find(r, EmptyLine)
<1>1. /\ r \in Seq(Bytes) /\ Len(r) \in Nat
      /\ Dropped \in Nat /\ Got \in Nat /\ Got <= Len(r)
      /\ buff = SubSeq(r, Dropped + 1, Got)
  BY InLoop, Zenon
<1>2. pc = "headers" BY DEF InHeaders
<1>3. Got' = Got BY Zenon DEF Got
<1>4. /\ buff' = SubSeq(r, Dropped + k + 1, Got)
      /\ Len(buff') = Got - Dropped - k
  <2> HIDE DEF r
  <2>1. /\ Drop(SubSeq(r, Dropped + 1, Got), k) = SubSeq(r, Dropped + k + 1, Got)
        /\ Len(SubSeq(r, Dropped + k + 1, Got)) = Got - Dropped - k
    BY <1>1, DropPiece
  <2>2. buff' = Drop(SubSeq(r, Dropped + 1, Got), k) BY <1>1, Zenon
  <2> QED BY <2>1, <2>2, Zenon
<1>5. Dropped' = Dropped + k
  <2>1. Dropped' = Got - (Got - Dropped - k) BY <1>3, <1>4, Zenon DEF Dropped
  <2> QED BY <1>1, <2>1
<1>6. ParserReset'
  <2>1. currentPayload = <<>> BY <1>2 DEF ParserInv, ParserReset
  <2> QED BY <1>2, <2>1 DEF ParserInv, ParserReset
<1>7. ASSUME HasHeader(r) =>
               \/ ~isPayload' /\ Dropped + k < e
               \/ ~isPayload' /\ Dropped + k = e + 1 /\ Got < e + 3
               \/ isPayload' /\ Dropped + k = e + 3
      PROVE  ParserInv'
  <2>1. request'[currentClient'] = r OBVIOUS
  <2>2. NamesOneMethod(r) => currentRoute' = RequestPath(r)
    BY <1>2 DEF ParserInv, HeadersAhead
  <2>3. Dropped + k \in 0..Got BY <1>1
  <2> HIDE DEF r
  <2>4. HeadersAhead'
    BY <1>1, <1>3, <1>4, <1>5, <1>7, <2>1, <2>2, <2>3, Zenon DEF HeadersAhead, e
  <2> QED BY <1>6, <2>4 DEF ParserInv
<1> QED BY <1>5, <1>7

\* A header line is dropped; its two searches disagree.
LEMMA SkippedParses ==
  ASSUME ServerInv, ParserInv, HeaderSkipped
  PROVE  ParserInv'
<1> DEFINE r == request[currentClient]
           e == Find(r, EmptyLine)
           f == Find(buff, CRLF)
<1>1. /\ InHeaders /\ f # 0 /\ f # Find(buff, EmptyLine)
      /\ buff' = Drop(buff, f + 1)
      /\ UNCHANGED <<pc, currentClient, currentRoute, currentPayload, peer,
                     request, left, isPayload>>
  BY Zenon DEF HeaderSkipped, Contains
<1>2. /\ r \in Seq(Bytes) /\ Len(r) \in Nat
      /\ Dropped \in Nat /\ Got \in Nat /\ Dropped <= Got /\ Got <= Len(r)
      /\ buff = SubSeq(r, Dropped + 1, Got)
      /\ buff \in Seq(Bytes) /\ Len(buff) = Got - Dropped
  BY <1>1, InLoop, Zenon
<1>3. f \in Nat /\ f + 1 <= Len(buff) BY <1>1, <1>2, FirstEnd
<1>4. HasHeader(r) => \/ Dropped + f + 1 < e
                      \/ Dropped + f + 1 = e + 1 /\ Got < e + 3
  <2>1. HasHeader(r) => Dropped < e /\ e # 0 BY <1>1, InLoop
  <2>2. HasHeader(r) =>
          LET b == SubSeq(r, Dropped + 1, Got)
          IN  Find(b, CRLF) # 0 /\ Find(b, CRLF) # Find(b, EmptyLine) =>
                \/ Dropped + Find(b, CRLF) + 1 < e
                \/ Dropped + Find(b, CRLF) + 1 = e + 1 /\ Got < e + 3
    <3> HIDE DEF r
    <3> QED BY <1>2, <2>1, Turn, Zenon DEF e
  <2> HIDE DEF r, e
  <2> QED BY <1>1, <1>2, <2>2, Zenon
<1>5. ~isPayload' BY <1>1 DEF InHeaders
<1>6. f + 1 \in Nat /\ Dropped + (f + 1) <= Got /\ Dropped + (f + 1) = Dropped + f + 1
  <2> HIDE DEF f
  <2>1. /\ Dropped \in Nat /\ Got \in Nat /\ f \in Nat
        /\ f + 1 <= Got - Dropped
    BY <1>2, <1>3, Zenon
  <2> HIDE DEF Dropped, Got
  <2> QED BY <2>1
<1> HIDE DEF f
<1> QED BY <1>1, <1>4, <1>5, <1>6, DropsOn, Zenon

\* The last line and the empty one are dropped.
LEMMA LastParses ==
  ASSUME ServerInv, ParserInv, HeaderLast
  PROVE  ParserInv'
<1> DEFINE r == request[currentClient]
           e == Find(r, EmptyLine)
           f == Find(buff, CRLF)
<1>1. /\ InHeaders /\ f # 0 /\ f = Find(buff, EmptyLine)
      /\ buff' = Drop(buff, f + 3) /\ isPayload'
      /\ UNCHANGED <<pc, currentClient, currentRoute, currentPayload, peer,
                     request, left>>
  BY Zenon DEF HeaderLast, Contains
<1>2. /\ r \in Seq(Bytes) /\ Len(r) \in Nat
      /\ Dropped \in Nat /\ Got \in Nat /\ Dropped <= Got /\ Got <= Len(r)
      /\ buff = SubSeq(r, Dropped + 1, Got)
      /\ buff \in Seq(Bytes) /\ Len(buff) = Got - Dropped
  BY <1>1, InLoop, Zenon
<1>3. f \in Nat /\ f + 3 <= Len(buff) BY <1>1, <1>2, FirstBlank
<1>4. HasHeader(r) => Dropped + f = e
  <2>1. HasHeader(r) => Dropped < e /\ e # 0 BY <1>1, InLoop
  <2>2. HasHeader(r) =>
          LET b == SubSeq(r, Dropped + 1, Got)
          IN  Find(b, CRLF) # 0 /\ Find(b, CRLF) = Find(b, EmptyLine) =>
                Dropped + Find(b, CRLF) = e
    <3> HIDE DEF r
    <3> QED BY <1>2, <2>1, Turn, Zenon DEF e
  <2> HIDE DEF r, e
  <2> QED BY <1>1, <1>2, <2>2, Zenon
<1>5. f + 3 \in Nat /\ Dropped + (f + 3) <= Got /\ Dropped + (f + 3) = Dropped + f + 3
  <2> HIDE DEF f
  <2>1. /\ Dropped \in Nat /\ Got \in Nat /\ f \in Nat
        /\ f + 3 <= Got - Dropped
    BY <1>2, <1>3, Zenon
  <2> HIDE DEF Dropped, Got
  <2> QED BY <2>1
<1> HIDE DEF f
<1> QED BY <1>1, <1>4, <1>5, DropsOn, Zenon

LEMMA ParserInit == Init => ParserInv
BY DEF Init, ParserInv, ParserReset, HeadersAhead

\* The parser's invariant goes through every step.
LEMMA ParserNext == ServerInv /\ ParserInv /\ [Next]_vars => ParserInv'
<1> SUFFICES ASSUME ServerInv, ParserInv, [Next]_vars PROVE ParserInv' OBVIOUS
<1>1. CASE Lifecycle \/ HandleClientUnbegun \/ HandleClientReentered
  <2>1. /\ pc \in {"idle", "handler"} /\ pc' \in {pc, "panic"}
        /\ UNCHANGED <<peer, request, left, isPayload, currentPayload>>
    BY <1>1, Zenon DEF Lifecycle, BeginDies, BeginAgain, BeginFirst, BeginFails,
       BeginBindFails, Close, OnNotFound, On, Application, Panic,
       HandleClientUnbegun, HandleClientReentered
  <2> QED BY <2>1, OutsideLoop
<1>2. ASSUME NEW c \in Client, Connect(c) \/ Accept(c) PROVE ParserInv'
  BY <1>2, ConnectParses, AcceptParses
<1>3. CASE Handler
  <2>1. UNCHANGED <<peer, request, left>>
    BY <1>3, Zenon DEF Handler, HandlerReset, SendData, SendPanics,
       HandlerReturns, DefaultNotFound, SendHeader, SetContentLength, Send
  <2>2. \/ pc' = "idle" /\ ~isPayload' /\ currentPayload' = <<>>
        \/ pc' = "handler" \/ pc' = "panic"
    BY <1>3, Zenon DEF Handler, HandlerReset, SendData, SendPanics,
       HandlerReturns, DefaultNotFound, SendHeader, SetContentLength, Send,
       Panic, Return, Reset
  <2>3. pc # "idle"
    BY <1>3 DEF Handler, HandlerReset, SendData, SendPanics,
       HandlerReturns, DefaultNotFound, SendHeader, SetContentLength, Send
  <2> QED BY <2>1, <2>2, <2>3, OutsideLoop
<1>4. CASE ReadError \/ ReadEmpty
  <2>1. /\ pc = "read" /\ pc' = "idle" /\ ~isPayload' /\ currentPayload' = <<>>
        /\ UNCHANGED <<peer, request, left>>
    BY <1>4, Zenon DEF ReadError, ReadEmpty, Return, Reset
  <2> QED BY <2>1, OutsideLoop
<1>5. CASE ReadUnknownMethod \/ ReadNoFirstLine
  <2>1. /\ pc = "read"
        /\ \/ pc' = "idle" /\ ~isPayload' /\ currentPayload' = <<>>
           \/ pc' = "panic"
        /\ UNCHANGED <<peer, request>>
    BY <1>5, Zenon DEF ReadUnknownMethod, ReadNoFirstLine, Return, Reset, Panic
  <2>2. PICK n \in Arrivals : Consume(n)
    BY <1>5, Zenon DEF ReadUnknownMethod, ReadNoFirstLine
  <2>3. /\ peer[currentClient] = "accepted"
        /\ \A c \in Client : c # currentClient => left'[c] = left[c]
    BY <2>1, <2>2, BeingRead, Arrived, Zenon
  <2>4. \A c \in Client : peer'[c] = "waiting" =>
           peer[c] = "waiting" /\ left'[c] = left[c] /\ request'[c] = request[c]
    BY <2>1, <2>3
  <2> QED BY <2>1, <2>4, OutsideLoop
<1>6. CASE HeaderBroken \/ Dispatch
  <2>1. /\ pc = "headers" /\ pc' \in {"panic", "handler", "notFound"}
        /\ UNCHANGED <<peer, request, left>>
    BY <1>6 DEF HeaderBroken, Dispatch, InHeaders, Panic
  <2> QED BY <2>1, OutsideLoop
<1>7. CASE ReadFirstLine BY <1>7, FirstLineParses
<1>8. CASE HeaderSkipped BY <1>8, SkippedParses
<1>9. CASE HeaderLast BY <1>9, LastParses
<1>10. CASE UNCHANGED vars
  BY <1>10, Zenon DEF vars, ParserInv, ParserReset, HeadersAhead, Got, Dropped
<1> QED
  BY <1>1, <1>2, <1>3, <1>4, <1>5, <1>6, <1>7, <1>8, <1>9, <1>10, Zenon
  DEF Next, Parse

\* What the header loop believes of the bytes it holds is true of the request,
\* wherever the network and the buffer cut it.
THEOREM ParserInvariant == Spec => []ParserInv
BY ParserInit, ParserNext, ServerInvariant, PTL DEF Spec

-----------------------------------------------------------------------------
\* What a handler was given, and the request it was given from, stay as they
\* are from the dispatch on; only a dispatch shows a request.
LEMMA ServedKept ==
  ASSUME ServerInv, ParserInv, [Next]_vars, ~Dispatch
  PROVE  /\ UNCHANGED served
         /\ \A c \in Client : served[c] # None =>
              request'[c] = request[c] /\ left'[c] = left[c]
<1>1. CASE \/ Lifecycle \/ HandleClientUnbegun \/ HandleClientReentered
           \/ Handler \/ ReadError \/ ReadEmpty \/ HeaderBroken
           \/ HeaderLast \/ HeaderSkipped \/ UNCHANGED vars
           \/ \E c \in Client : Accept(c)
  <2>1. UNCHANGED <<served, request, left>>
    BY <1>1, Zenon DEF Lifecycle, BeginDies, BeginAgain, BeginFirst, BeginFails,
       BeginBindFails, Close, OnNotFound, On, HandleClientUnbegun,
       HandleClientReentered, Handler, HandlerReset, SendData, SendPanics,
       HandlerReturns, DefaultNotFound, SendHeader, SetContentLength, Send,
       ReadError, ReadEmpty, HeaderBroken, HeaderLast, HeaderSkipped, vars, Accept
  <2> QED BY <2>1
<1>2. ASSUME NEW c \in Client, Connect(c)
      PROVE  /\ UNCHANGED served
             /\ \A d \in Client : served[d] # None =>
                  request'[d] = request[d] /\ left'[d] = left[d]
  <2>1. /\ peer[c] = "away" /\ UNCHANGED served
        /\ \E r : request' = [request EXCEPT ![c] = r] /\ left' = [left EXCEPT ![c] = r]
    BY <1>2, Zenon DEF Connect
  <2>2. served[c] = None BY <2>1 DEF ServerInv, Serving
  <2>3. request \in [Client -> Seq(Token)] /\ left \in [Client -> Seq(Token)]
    BY DEF ServerInv, TypeOK, PeersTypeOK
  <2> QED BY <2>1, <2>2, <2>3
<1>3. CASE ReadUnknownMethod \/ ReadNoFirstLine \/ ReadFirstLine
  <2>1. pc = "read" /\ UNCHANGED <<served, request>>
    BY <1>3, Zenon DEF ReadUnknownMethod, ReadNoFirstLine, ReadFirstLine
  <2>2. PICK n \in Arrivals : Consume(n)
    BY <1>3, Zenon DEF ReadUnknownMethod, ReadNoFirstLine, ReadFirstLine
  <2>3. \A c \in Client : c # currentClient => left'[c] = left[c]
    BY <2>1, <2>2, Arrived, Zenon
  <2>4. served[currentClient] = None BY <2>1 DEF ServerInv, Serving
  <2> QED BY <2>1, <2>3, <2>4
<1> QED BY <1>1, <1>2, <1>3, Zenon DEF Next, Parse

\* What a dispatch shows, of which request.
LEMMA Dispatches ==
  ASSUME ServerInv, ParserInv, Dispatch
  PROVE  /\ currentClient \in Client
         /\ pc = "headers" /\ ~InHeaders
         /\ served'[currentClient] = [route |-> currentRoute, payload |-> buff]
         /\ \A c \in Client : c # currentClient => served'[c] = served[c]
         /\ UNCHANGED <<request, left>>
<1>1. /\ pc = "headers" /\ ~InHeaders /\ UNCHANGED <<request, left>>
      /\ currentPayload' = currentPayload \o buff
      /\ served' = [served EXCEPT ![currentClient] =
                      [route |-> currentRoute, payload |-> currentPayload']]
  BY Zenon DEF Dispatch
<1>2. currentClient \in Client /\ buff \in Seq(Bytes) BY <1>1, BeingRead
<1>3. currentPayload = <<>> BY <1>1 DEF ParserInv, ParserReset
<1>4. <<>> \o buff = buff BY <1>2, ConcatEmptySeq
<1>5. currentPayload' = buff BY <1>1, <1>3, <1>4, Zenon
<1>6. served \in [Client -> {None} \union Dispatched]
  BY DEF ServerInv, TypeOK, PeersTypeOK
<1> HIDE DEF Dispatched
<1> QED BY <1>1, <1>2, <1>5, <1>6

\* What the handler is given of a request with a header is the beginning of its
\* body, wherever the request was cut, and all of it if all of it was read:
\* HttpConnection::currentPayload never holds bytes of a header.
THEOREM PayloadCorrect == Spec => []PayloadAsSent
<1>1. Init => PayloadAsSent BY DEF Init, PayloadAsSent
<1>2. ASSUME ServerInv, ParserInv, PayloadAsSent, [Next]_vars
      PROVE  PayloadAsSent'
  <2>1. CASE ~Dispatch
    <3>1. /\ UNCHANGED served
          /\ \A c \in Client : served[c] # None =>
               request'[c] = request[c] /\ left'[c] = left[c]
      BY <1>2, <2>1, ServedKept
    <3> QED BY <1>2, <3>1, Zenon DEF PayloadAsSent
  <2>2. CASE Dispatch
    <3> DEFINE r == request[currentClient]
               e == Find(r, EmptyLine)
    <3>1. /\ currentClient \in Client /\ pc = "headers"
          /\ buff = <<>> \/ isPayload
          /\ served'[currentClient].payload = buff
          /\ \A c \in Client : c # currentClient => served'[c] = served[c]
          /\ UNCHANGED <<request, left>>
      BY <1>2, <2>2, Dispatches DEF InHeaders
    <3>2. /\ r \in Seq(Bytes) /\ left[currentClient] \in Seq(Bytes)
          /\ buff \in Seq(Bytes)
      BY <1>2, <3>1, BeingRead
    <3>3. /\ Got <= Len(r) /\ Dropped \in 0..Got
          /\ buff = SubSeq(r, Dropped + 1, Got)
          /\ HasHeader(r) =>
               \/ ~isPayload /\ Dropped < e
               \/ ~isPayload /\ Dropped = e + 1 /\ Got < e + 3
               \/ isPayload /\ Dropped = e + 3
      BY <1>2, <3>1, Zenon DEF ParserInv, HeadersAhead
    <3>4. /\ Len(r) \in Nat /\ Len(left[currentClient]) \in Nat
          /\ Got = Len(r) - Len(left[currentClient])
      BY <3>2, LenProperties DEF Got
    <3>5. Got \in Nat /\ Dropped \in Nat /\ Dropped <= Got BY <3>3, <3>4
    <3>6. left[currentClient] = <<>> => Got = Len(r) BY <3>4
    <3> HIDE DEF r
    <3>7. Len(buff) = Got - Dropped BY <3>2, <3>3, <3>5, PieceAfter
    <3>8. HasHeader(r) => e \in Nat /\ e # 0 /\ e + 3 <= Len(r)
      BY <3>2, FirstBlank DEF HasHeader, Contains
    <3> HIDE DEF e
    <3>9. ASSUME HasHeader(r)
          PROVE  /\ PrefixOf(buff, RequestBody(r))
                 /\ left[currentClient] = <<>> => buff = RequestBody(r)
      <4>1. RequestBody(r) = SubSeq(r, e + 4, Len(r))
        <5>1. e + 3 + 1 = e + 4 BY <3>8, <3>9
        <5> QED BY <5>1 DEF RequestBody, Drop, e
      <4>2. /\ RequestBody(r) \in Seq(Bytes)
            /\ Len(RequestBody(r)) = Len(r) - (e + 3)
            /\ \A i \in 1..(Len(r) - (e + 3)) : RequestBody(r)[i] = r[e + 3 + i]
        <5>1. e + 3 \in Nat /\ e + 3 + 1 = e + 4 /\ e + 3 <= Len(r)
          BY <3>8, <3>9
        <5> HIDE DEF RequestBody
        <5> QED BY <3>2, <3>4, <4>1, <5>1, PieceAfter
      <4>3. CASE isPayload
        <5>1. Dropped = e + 3 /\ Dropped + 1 = e + 4 BY <3>3, <3>8, <3>9, <4>3
        <5>2. left[currentClient] = <<>> => buff = RequestBody(r)
          BY <3>3, <3>6, <4>1, <5>1
        <5>3. \A i \in 1..Len(buff) : buff[i] = r[e + 3 + i]
          <6>1. Got <= Len(r) BY <3>3
          <6>2. \A i \in 1..(Got - Dropped) :
                  SubSeq(r, Dropped + 1, Got)[i] = r[Dropped + i]
            BY <3>2, <3>5, <6>1, PieceAfter, Zenon
          <6> QED BY <3>3, <3>7, <5>1, <6>2, Zenon
        <5>4. Len(buff) <= Len(RequestBody(r))
          BY <3>3, <3>4, <3>5, <3>7, <3>8, <3>9, <4>2, <5>1, SMTT(30)
        <5>5. Len(buff) \in 0..Len(RequestBody(r))
          <6>1. Len(buff) \in Nat BY <3>2, LenProperties
          <6>2. Len(RequestBody(r)) \in Nat BY <4>2, LenProperties
          <6> QED BY <5>4, <6>1, <6>2
        <5>6. /\ Take(RequestBody(r), Len(buff)) \in Seq(Bytes)
              /\ Len(Take(RequestBody(r), Len(buff))) = Len(buff)
              /\ \A i \in 1..Len(buff) :
                   Take(RequestBody(r), Len(buff))[i] = RequestBody(r)[i]
          BY <4>2, <5>5, TakeType, Zenon
        <5>7. \A i \in 1..Len(buff) : buff[i] = Take(RequestBody(r), Len(buff))[i]
          <6>1. Len(buff) <= Len(r) - (e + 3) BY <4>2, <5>4
          <6>2. \A i \in 1..Len(buff) : i \in 1..(Len(r) - (e + 3))
            BY <3>4, <3>8, <3>9, <6>1
          <6> QED BY <4>2, <5>3, <5>6, <6>2
        <5>8. buff = Take(RequestBody(r), Len(buff))
          BY <3>2, <5>6, <5>7, SeqEqual, Zenon
        <5> QED BY <5>2, <5>4, <5>8 DEF PrefixOf
      <4>4. CASE ~isPayload
        <5>1. buff = <<>> BY <3>1, <4>4
        <5>2. Len(buff) = 0 BY <5>1
        <5>3. Got < Len(r)
          <6>1. Dropped < e \/ (Dropped = e + 1 /\ Got < e + 3)
            BY <3>3, <3>9, <4>4, Zenon
          <6> QED BY <3>4, <3>5, <3>7, <3>8, <3>9, <5>2, <6>1
        <5>4. left[currentClient] # <<>> BY <3>4, <3>6, <5>3
        <5>5. PrefixOf(<<>>, RequestBody(r))
          <6>1. Len(<<>>) = 0 /\ 0 <= Len(RequestBody(r))
            BY <3>4, <3>8, <3>9, <4>2
          <6>2. Take(RequestBody(r), 0) = <<>> BY SubSeqEmpty DEF Take
          <6> QED BY <6>1, <6>2 DEF PrefixOf
        <5> QED BY <5>1, <5>4, <5>5
      <4> QED BY <4>3, <4>4
    <3>10. PayloadAsSent'
      <4>1. ASSUME NEW c \in Client, served'[c] # None, HasHeader(request'[c])
            PROVE  /\ PrefixOf(served'[c].payload, RequestBody(request'[c]))
                   /\ left'[c] = <<>> => served'[c].payload = RequestBody(request'[c])
        <5>1. CASE c = currentClient
          <6>1. /\ served'[c].payload = buff /\ request'[c] = r
                /\ left'[c] = left[currentClient]
            BY <3>1, <5>1 DEF r
          <6> QED BY <3>9, <4>1, <6>1
        <5>2. CASE c # currentClient
          <6>1. served'[c] = served[c] /\ request'[c] = request[c] /\ left'[c] = left[c]
            BY <3>1, <5>2
          <6> QED BY <1>2, <4>1, <6>1, Zenon DEF PayloadAsSent
        <5> QED BY <5>1, <5>2
      <4> QED BY <4>1, Zenon DEF PayloadAsSent
    <3> QED BY <3>10
  <2> QED BY <2>1, <2>2
<1> QED BY <1>1, <1>2, ServerInvariant, ParserInvariant, PTL DEF Spec

\* A request that names one method is dispatched on its own path, wherever it
\* was cut, although the method is searched for in all that was read.
THEOREM RouteCorrect == Spec => []RoutedAsAsked
<1>1. Init => RoutedAsAsked BY DEF Init, RoutedAsAsked
<1>2. ASSUME ServerInv, ParserInv, RoutedAsAsked, [Next]_vars
      PROVE  RoutedAsAsked'
  <2>1. CASE ~Dispatch
    <3>1. /\ UNCHANGED served
          /\ \A c \in Client : served[c] # None =>
               request'[c] = request[c] /\ left'[c] = left[c]
      BY <1>2, <2>1, ServedKept
    <3> QED BY <1>2, <3>1, Zenon DEF RoutedAsAsked
  <2>2. CASE Dispatch
    <3>1. /\ currentClient \in Client /\ pc = "headers"
          /\ served'[currentClient].route = currentRoute
          /\ \A c \in Client : c # currentClient => served'[c] = served[c]
          /\ UNCHANGED request
      BY <1>2, <2>2, Dispatches
    <3>2. NamesOneMethod(request[currentClient]) =>
            currentRoute = RequestPath(request[currentClient])
      BY <1>2, <3>1 DEF ParserInv, HeadersAhead
    <3> QED BY <1>2, <3>1, <3>2, Zenon DEF RoutedAsAsked
  <2> QED BY <2>1, <2>2
<1> QED BY <1>1, <1>2, ServerInvariant, ParserInvariant, PTL DEF Spec

\* The assertions "First line" and "Bad code" stop the process only on a request
\* that a read cut, or that has no header.
THEOREM OneReadIsSafe == Spec => []OneReadNeverPanics
<1>1. Init => OneReadNeverPanics
  BY NoneAssumption DEF Init, OneReadNeverPanics, PanicReasons
<1>2. ASSUME ServerInv, ParserInv, OneReadNeverPanics, [Next]_vars
      PROVE  OneReadNeverPanics'
  <2> DEFINE Parses == {"First line", "Bad code"}
  <2>1. CASE ReadNoFirstLine
    <3> DEFINE r == request[currentClient]
    <3>1. pc = "read" /\ UNCHANGED <<currentClient, request>>
      BY <2>1, Zenon DEF ReadNoFirstLine
    <3>2. PICK n \in Arrivals : Consume(n) /\ ~Contains(Received(n), CRLF)
      BY <2>1, Zenon DEF ReadNoFirstLine
    <3>3. /\ n \in 0..Len(r) /\ Received(n) = SubSeq(r, 1, n)
          /\ Len(left'[currentClient]) = Len(r) - n
      BY <1>2, <3>1, <3>2, Arrived, Zenon
    <3>4. r \in Seq(Bytes) /\ currentClient \in Client BY <1>2, <3>1, BeingRead
    <3>5. Len(r) \in Nat BY <3>4, LenProperties
    <3>6. Find(SubSeq(r, 1, n), CRLF) = 0 BY <3>2, <3>3 DEF Contains
    <3>7. n \in Nat /\ n <= Len(r) BY <3>3, <3>5
    <3>8. HasHeader(r) => n < Len(r)
      <4> HIDE DEF r
      <4> QED BY <3>4, <3>6, <3>7, FirstLine, Zenon
    <3>9. HasHeader(r) => Len(left'[currentClient]) # 0 BY <3>3, <3>5, <3>8
    <3>10. HasHeader(r) => left'[currentClient] # <<>>
      <4>1. Len(<<>>) = 0 OBVIOUS
      <4> QED BY <3>9, <4>1
    <3> QED BY <3>1, <3>10 DEF OneReadNeverPanics
  <2>2. CASE HeaderBroken
    <3> DEFINE r == request[currentClient]
    <3>1. /\ InHeaders /\ Find(buff, CRLF) = 0
          /\ UNCHANGED <<currentClient, request, left>>
      BY <2>2, Zenon DEF HeaderBroken, Contains
    <3>2. /\ r \in Seq(Bytes) /\ Len(r) \in Nat
          /\ Dropped \in Nat /\ Got \in Nat /\ Dropped <= Got /\ Got <= Len(r)
          /\ buff = SubSeq(r, Dropped + 1, Got)
          /\ HasHeader(r) =>
               /\ Find(r, EmptyLine) \in Nat /\ Find(r, EmptyLine) # 0
               /\ Find(r, EmptyLine) + 3 <= Len(r)
               /\ \/ Dropped < Find(r, EmptyLine)
                  \/ /\ Dropped = Find(r, EmptyLine) + 1
                     /\ Got < Find(r, EmptyLine) + 3
                     /\ Find(buff, CRLF) = 0
      BY <1>2, <3>1, InLoop, Zenon
    <3>3. Got = Len(r) - Len(left[currentClient]) BY DEF Got
    <3> HIDE DEF r
    <3>4. HasHeader(r) /\ Dropped < Find(r, EmptyLine) => Got <= Find(r, EmptyLine)
      <4>1. HasHeader(r) /\ Dropped < Find(r, EmptyLine) =>
              (Find(SubSeq(r, Dropped + 1, Got), CRLF) = 0 => Got <= Find(r, EmptyLine))
        BY <3>2, Turn, Zenon
      <4> QED BY <3>1, <3>2, <4>1, Zenon
    <3>5. HasHeader(r) => Got < Len(r) BY <3>2, <3>4
    <3>6. HasHeader(r) => left[currentClient] # <<>>
      <4>1. Len(<<>>) = 0 OBVIOUS
      <4> QED BY <3>2, <3>3, <3>5, <4>1
    <3> QED BY <3>1, <3>6 DEF OneReadNeverPanics, r
  <2>3. CASE ~ReadNoFirstLine /\ ~HeaderBroken
    <3>1. CASE pc # "panic"
      <4>1. panic = None BY <1>2, <3>1 DEF ServerInv, Serving
      <4>2. panic' = panic \/ panic' \in PanicReasons \ Parses
        BY <1>2, <2>3 DEF Next, Lifecycle, BeginDies, BeginAgain, BeginFirst,
           BeginFails, BeginBindFails, Close, OnNotFound, On,
           HandleClientUnbegun, HandleClientReentered, Connect, Accept, Parse,
           ReadError, ReadEmpty, ReadUnknownMethod, ReadFirstLine, HeaderLast,
           HeaderSkipped, Dispatch, Handler, HandlerReset, SendData, SendPanics,
           HandlerReturns, DefaultNotFound, SendHeader, SetContentLength, Send,
           Return, Panic, PanicReasons, vars
      <4>3. panic' \notin Parses
        BY <4>1, <4>2, NoneAssumption DEF PanicReasons
      <4> QED BY <4>3, Zenon DEF OneReadNeverPanics
    <3>2. CASE pc = "panic"
      <4>1. (\E c \in Client : Connect(c)) \/ UNCHANGED vars
        BY <1>2, <3>2 DEF Next, Lifecycle, BeginDies, BeginAgain, BeginFirst,
           BeginFails, BeginBindFails, Close, OnNotFound, On, Application,
           HandleClientUnbegun, HandleClientReentered, Accept, Parse,
           ReadError, ReadEmpty, ReadUnknownMethod, ReadNoFirstLine,
           ReadFirstLine, HeaderLast, HeaderBroken, HeaderSkipped, Dispatch,
           InHeaders, Handler, HandlerReset, SendData, SendPanics,
           HandlerReturns, DefaultNotFound, SendHeader, SetContentLength, Send
      <4>2. CASE UNCHANGED vars
        BY <1>2, <4>2, Zenon DEF vars, OneReadNeverPanics
      <4>3. ASSUME NEW c \in Client, Connect(c) PROVE OneReadNeverPanics'
        <5>1. /\ peer[c] = "away" /\ UNCHANGED <<currentClient, panic>>
              /\ \E r : /\ request' = [request EXCEPT ![c] = r]
                        /\ left' = [left EXCEPT ![c] = r]
          BY <4>3, Zenon DEF Connect
        <5>2. currentClient # c
          BY <1>2, <5>1, NoneAssumption DEF ServerInv, Serving
        <5>3. request \in [Client -> Seq(Token)] /\ left \in [Client -> Seq(Token)]
          BY <1>2 DEF ServerInv, TypeOK, PeersTypeOK
        <5>4. \A d \in Client \ {c} :
                request'[d] = request[d] /\ left'[d] = left[d]
          BY <5>1, <5>3
        <5> QED BY <1>2, <5>1, <5>2, <5>4, Zenon DEF OneReadNeverPanics
      <4> QED BY <4>1, <4>2, <4>3
    <3> QED BY <3>1, <3>2
  <2> QED BY <2>1, <2>2, <2>3
<1> QED BY <1>1, <1>2, ServerInvariant, ParserInvariant, PTL DEF Spec

-----------------------------------------------------------------------------
\* A field of this name begins at s.
FieldAt(payload, name, s) ==
  /\ s = 1 \/ payload[s - 1] = "&"
  /\ s + Len(name) <= Len(payload)
  /\ \A i \in 1..Len(name) : payload[s + i - 1] = name[i]
  /\ payload[s + Len(name)] = "="

\* The two patterns that arg() searches for.
LEMMA Keys ==
  ASSUME NEW S, NEW name \in Seq(S), "=" \in S, "&" \in S
  PROVE  LET key == name \o <<"=">>
             amp == <<"&">> \o key
         IN  /\ key \in Seq(S) /\ Len(key) = Len(name) + 1
             /\ \A i \in 1..Len(name) : key[i] = name[i]
             /\ key[Len(name) + 1] = "="
             /\ amp \in Seq(S) /\ Len(amp) = Len(name) + 2
             /\ amp[1] = "&"
             /\ \A i \in 1..(Len(name) + 1) : amp[i + 1] = key[i]
<1> DEFINE key == name \o <<"=">>
           amp == <<"&">> \o key
<1>1. Len(name) \in Nat BY LenProperties
<1>2. /\ key \in Seq(S) /\ Len(key) = Len(name) + 1
      /\ \A i \in 1..Len(name) : key[i] = name[i]
      /\ key[Len(name) + 1] = "="
  BY <1>1, SMTT(30)
<1> HIDE DEF key
<1>3. /\ amp \in Seq(S) /\ Len(amp) = Len(key) + 1 /\ amp[1] = "&"
      /\ \A i \in 1..Len(key) : amp[i + 1] = key[i]
  BY <1>1, <1>2, SMTT(30)
<1> QED BY <1>1, <1>2, <1>3 DEF key

\* Where they occur a field begins, or one byte before it does.
LEMMA KeysAreFields ==
  ASSUME NEW S, NEW payload \in Seq(S), NEW name \in Seq(S), "=" \in S, "&" \in S,
         NEW i \in Nat \ {0}
  PROVE  LET key == name \o <<"=">>
         IN  /\ i = 1 => (i \in At(payload, key) <=> FieldAt(payload, name, i))
             /\ i \in At(payload, <<"&">> \o key) <=>
                  payload[i] = "&" /\ FieldAt(payload, name, i + 1)
<1> DEFINE key == name \o <<"=">>
           amp == <<"&">> \o key
           n == Len(name)
<1>1. n \in Nat /\ Len(payload) \in Nat BY LenProperties
<1>2. /\ key \in Seq(S) /\ Len(key) = n + 1
      /\ \A k \in 1..n : key[k] = name[k]
      /\ key[n + 1] = "="
      /\ amp \in Seq(S) /\ Len(amp) = n + 2
      /\ amp[1] = "&"
      /\ \A k \in 1..(n + 1) : amp[k + 1] = key[k]
  BY Keys
<1> HIDE DEF key, amp, n
<1>0. ASSUME NEW p \in Seq(S), Len(p) >= 1, i + Len(p) - 1 <= Len(payload)
      PROVE  SubSeq(payload, i, i + Len(p) - 1) = p <=>
               \A k \in 1..Len(p) : payload[i + k - 1] = p[k]
  <2>1. i \in Nat /\ i >= 1 OBVIOUS
  <2> QED BY <1>0, <2>1, Stands
<1>3. i \in At(payload, key) <=>
        /\ i + n <= Len(payload)
        /\ \A k \in 1..(n + 1) : payload[i + k - 1] = key[k]
  <2>1. CASE i + n <= Len(payload)
    <3>1. i \in Nat /\ i >= 1 /\ Len(key) >= 1 /\ i + Len(key) - 1 <= Len(payload)
      BY <1>1, <1>2, <2>1
    <3>2. SubSeq(payload, i, i + Len(key) - 1) = key <=>
            \A k \in 1..Len(key) : payload[i + k - 1] = key[k]
      BY <1>0, <1>2, <3>1, Zenon
    <3> QED BY <1>1, <1>2, <2>1, <3>2 DEF At
  <2>2. CASE ~(i + n <= Len(payload))
    BY <1>1, <1>2, <2>2 DEF At
  <2> QED BY <2>1, <2>2
<1>4. i \in At(payload, amp) <=>
        /\ i + n + 1 <= Len(payload)
        /\ \A k \in 1..(n + 2) : payload[i + k - 1] = amp[k]
  <2>1. CASE i + n + 1 <= Len(payload)
    <3>1. i \in Nat /\ i >= 1 /\ Len(amp) >= 1 /\ i + Len(amp) - 1 <= Len(payload)
      BY <1>1, <1>2, <2>1
    <3>2. SubSeq(payload, i, i + Len(amp) - 1) = amp <=>
            \A k \in 1..Len(amp) : payload[i + k - 1] = amp[k]
      BY <1>0, <1>2, <3>1, Zenon
    <3> QED BY <1>1, <1>2, <2>1, <3>2 DEF At
  <2>2. CASE ~(i + n + 1 <= Len(payload))
    BY <1>1, <1>2, <2>2 DEF At
  <2> QED BY <2>1, <2>2
<1>5. (\A k \in 1..(n + 1) : payload[i + k - 1] = key[k]) <=>
        (\A k \in 1..n : payload[i + k - 1] = name[k]) /\ payload[i + n] = "="
  <2>1. n + 1 \in 1..(n + 1) /\ i + (n + 1) - 1 = i + n BY <1>1
  <2>2. \A k \in 1..(n + 1) : k \in 1..n \/ k = n + 1 BY <1>1
  <2>3. \A k \in 1..n : k \in 1..(n + 1) BY <1>1
  <2>4. ASSUME \A k \in 1..(n + 1) : payload[i + k - 1] = key[k]
        PROVE  (\A k \in 1..n : payload[i + k - 1] = name[k]) /\ payload[i + n] = "="
    <3>1. payload[i + (n + 1) - 1] = key[n + 1] BY <2>1, <2>4
    <3>2. ASSUME NEW k \in 1..n PROVE payload[i + k - 1] = name[k]
      BY <1>2, <2>3, <2>4
    <3> QED BY <1>2, <2>1, <3>1, <3>2
  <2>5. ASSUME \A k \in 1..n : payload[i + k - 1] = name[k], payload[i + n] = "=",
               NEW k \in 1..(n + 1)
        PROVE  payload[i + k - 1] = key[k]
    <3>1. CASE k \in 1..n BY <1>2, <2>5, <3>1
    <3>2. CASE k = n + 1 BY <1>2, <2>1, <2>5, <3>2
    <3> QED BY <2>2, <3>1, <3>2
  <2> QED BY <2>4, <2>5, Zenon
<1>6. (\A k \in 1..(n + 2) : payload[i + k - 1] = amp[k]) <=>
        /\ payload[i] = "&"
        /\ \A k \in 1..n : payload[(i + 1) + k - 1] = name[k]
        /\ payload[(i + 1) + n] = "="
  <2>1. ASSUME \A k \in 1..(n + 2) : payload[i + k - 1] = amp[k]
        PROVE  /\ payload[i] = "&"
               /\ \A k \in 1..n : payload[(i + 1) + k - 1] = name[k]
               /\ payload[(i + 1) + n] = "="
    <3>1. 1 \in 1..(n + 2) /\ i + 1 - 1 = i BY <1>1
    <3>2. ASSUME NEW k \in 1..(n + 1) PROVE payload[i + k] = key[k]
      <4>1. k + 1 \in 1..(n + 2) /\ i + (k + 1) - 1 = i + k BY <1>1
      <4>2. payload[i + (k + 1) - 1] = amp[k + 1] BY <2>1, <4>1
      <4> QED BY <1>2, <4>1, <4>2
    <3>3. n + 1 \in 1..(n + 1) /\ i + (n + 1) = (i + 1) + n BY <1>1
    <3>4. ASSUME NEW k \in 1..n PROVE payload[(i + 1) + k - 1] = name[k]
      <4>1. k \in 1..(n + 1) /\ (i + 1) + k - 1 = i + k BY <1>1
      <4> QED BY <1>2, <3>2, <4>1
    <3> QED BY <1>2, <2>1, <3>1, <3>2, <3>3, <3>4
  <2>2. ASSUME payload[i] = "&",
               \A k \in 1..n : payload[(i + 1) + k - 1] = name[k],
               payload[(i + 1) + n] = "=",
               NEW k \in 1..(n + 2)
        PROVE  payload[i + k - 1] = amp[k]
    <3>1. CASE k = 1 BY <1>1, <1>2, <2>2, <3>1
    <3>2. CASE k = n + 2
      <4>1. n + 1 \in 1..(n + 1) /\ (n + 1) + 1 = k /\ i + k - 1 = (i + 1) + n
        BY <1>1, <3>2
      <4> QED BY <1>2, <2>2, <4>1
    <3>3. CASE k # 1 /\ k # n + 2
      <4> DEFINE j == k - 1
      <4>1. j \in 1..n /\ j \in 1..(n + 1) /\ j + 1 = k /\ i + k - 1 = (i + 1) + j - 1
        BY <1>1, <3>3
      <4> QED BY <1>2, <2>2, <4>1
    <3> QED BY <3>1, <3>2, <3>3
  <2> QED BY <2>1, <2>2
<1>7. (i + 1) - 1 = i /\ i + 1 # 1 /\ i + n + 1 = (i + 1) + n BY <1>1
<1> QED BY <1>3, <1>4, <1>5, <1>6, <1>7 DEF FieldAt, key, amp, n

\* Of a form that does not begin with an ampersand arg() reads the first field
\* of the name, up to the next ampersand, and of no other: not of a longer name
\* that ends so, nor of a value that holds it.
THEOREM FirstFieldIsRead ==
  ASSUME NEW payload \in Seq(Token), NEW name \in Seq(Token),
         payload # <<>> => payload[1] # "&"
  PROVE  LET fields == {s \in 1..Len(payload) : FieldAt(payload, name, s)}
         IN  /\ fields = {} => Arg(payload, name) = None
             /\ \A s \in fields :
                  (\A j \in fields : s <= j) =>
                    Arg(payload, name) =
                      PercentDecode(UpToAmpersand(Drop(payload, s + Len(name))))
<1> DEFINE S == Token \union {"=", "&"}
           key == name \o <<"=">>
           amp == <<"&">> \o key
           n == Len(name)
           g == Find(payload, amp)
           fields == {s \in 1..Len(payload) : FieldAt(payload, name, s)}
<1>1. n \in Nat /\ Len(payload) \in Nat BY LenProperties
<1>2. payload \in Seq(S) /\ name \in Seq(S) /\ "=" \in S /\ "&" \in S
  OBVIOUS
<1>3. /\ key \in Seq(S) /\ Len(key) = n + 1
      /\ amp \in Seq(S) /\ Len(amp) = n + 2
  BY <1>2, Keys
<1>4. /\ 1 \in At(payload, key) <=> FieldAt(payload, name, 1)
      /\ \A i \in Nat \ {0} :
           i \in At(payload, amp) <=> payload[i] = "&" /\ FieldAt(payload, name, i + 1)
  BY <1>2, KeysAreFields
<1> HIDE DEF S, key, amp, n
<1>5. StartsWith(payload, key) <=> FieldAt(payload, name, 1)
  <2>1. /\ Find(payload, key) \in 0..Len(payload)
        /\ Find(payload, key) = 0 <=> At(payload, key) = {}
        /\ At(payload, key) # {} =>
             /\ Find(payload, key) \in At(payload, key)
             /\ \A j \in At(payload, key) : Find(payload, key) <= j
    BY <1>1, <1>2, <1>3, FindIsFirst
  <2>2. Find(payload, key) = 1 <=> 1 \in At(payload, key)
    BY <2>1
  <2> QED BY <1>4, <2>2 DEF StartsWith
<1>6. /\ g \in 0..Len(payload)
      /\ g = 0 <=> At(payload, amp) = {}
      /\ At(payload, amp) # {} =>
           /\ g \in At(payload, amp)
           /\ \A j \in At(payload, amp) : g <= j
  BY <1>1, <1>2, <1>3, FindIsFirst
<1> HIDE DEF g
<1>7. Arg(payload, name) =
        LET index == IF FieldAt(payload, name, 1) THEN 1 ELSE g
            length == IF index = 1 THEN n + 1 ELSE n + 2
        IN  IF index = 0 THEN None
            ELSE PercentDecode(UpToAmpersand(Drop(payload, index - 1 + length)))
  <2>1. n + 1 + 1 = n + 2 BY <1>1
  <2> QED BY <1>3, <1>5, <2>1 DEF Arg, g, amp, key
<1>8. ASSUME NEW s \in fields, s # 1
      PROVE  s - 1 \in At(payload, amp) /\ g # 0 /\ g <= s - 1
  <2>1. s - 1 \in Nat \ {0} /\ (s - 1) + 1 = s BY <1>1, <1>8
  <2>2. payload[s - 1] = "&" /\ FieldAt(payload, name, s) BY <1>8 DEF FieldAt
  <2> QED BY <1>4, <1>6, <2>1, <2>2
<1>9. CASE FieldAt(payload, name, 1)
  <2>1. 1 + n <= Len(payload) BY <1>9 DEF FieldAt, n
  <2>2. 1 \in fields BY <1>1, <1>9, <2>1
  <2>3. Arg(payload, name) = PercentDecode(UpToAmpersand(Drop(payload, 1 + n)))
    <3>1. 1 - 1 + (n + 1) = 1 + n BY <1>1
    <3> QED BY <1>7, <1>9, <3>1
  <2>4. \A s \in fields : (\A j \in fields : s <= j) => s = 1 BY <2>2
  <2> QED BY <2>2, <2>3, <2>4 DEF n
<1>10. CASE ~FieldAt(payload, name, 1) /\ g = 0
  <2>1. Arg(payload, name) = None BY <1>7, <1>10
  <2>2. fields = {} BY <1>8, <1>10
  <2> QED BY <2>1, <2>2
<1>11. CASE ~FieldAt(payload, name, 1) /\ g # 0
  <2>1. g \in Nat \ {0} /\ payload[g] = "&" /\ FieldAt(payload, name, g + 1)
    BY <1>4, <1>6, <1>11
  <2>2. g # 1
    <3>1. Len(payload) # 0 BY <1>6, <1>11
    <3>2. payload # <<>> BY <3>1
    <3> QED BY <2>1, <3>2
  <2>3. g + 1 \in fields
    <3>1. g + 1 + n <= Len(payload) BY <2>1 DEF FieldAt, n
    <3> QED BY <1>1, <2>1, <3>1
  <2>4. \A s \in fields : (\A j \in fields : s <= j) => s = g + 1
    <3>1. \A s \in fields : s # 1 BY <1>11
    <3> QED BY <1>8, <2>1, <2>3, <3>1
  <2>5. Arg(payload, name) = PercentDecode(UpToAmpersand(Drop(payload, (g + 1) + n)))
    <3>1. g - 1 + (n + 2) = (g + 1) + n BY <1>1, <2>1
    <3> QED BY <1>7, <1>11, <2>2, <3>1
  <2> QED BY <2>3, <2>4, <2>5 DEF n
<1> QED BY <1>9, <1>10, <1>11

-----------------------------------------------------------------------------
\* What percentDecode() computes at each byte from what it does behind it. A
\* function is a decoding of a text when it is computed so throughout.
DecodedAt(text, from, i) ==
  IF i = Len(text) + 1 \/ text[i] = "NUL" THEN <<>>
  ELSE IF text[i] # "%" THEN Before(text[i], from[i + 1])
  ELSE IF i + 2 <= Len(text) /\ {text[i + 1], text[i + 2]} \subseteq DOMAIN Hex
       THEN Before(Byte[16 * Hex[text[i + 1]] + Hex[text[i + 2]]], from[i + 3])
       ELSE None
IsDecoding(text, from) ==
  from = [i \in 1..(Len(text) + 1) |-> DecodedAt(text, from, i)]

\* Each text has one: a decoding of its last bytes is one byte longer each time.
LEMMA DecodingExists ==
  ASSUME NEW S, NEW text \in Seq(S)
  PROVE  \E from : IsDecoding(text, from)
<1> DEFINE n == Len(text)
           Last(k, g) == g = [i \in (n + 1 - k)..(n + 1) |-> DecodedAt(text, g, i)]
           T == {k \in 0..n : ~\E g : Last(k, g)}
<1>1. n \in Nat BY LenProperties
<1>2. ASSUME T # {} PROVE FALSE
  <2>1. T \subseteq Nat OBVIOUS
  <2>2. PICK k \in T : \A j \in T : k <= j BY <1>2, <2>1, Smallest
  <2>3. CASE k = 0
    <3> DEFINE g == [i \in (n + 1)..(n + 1) |-> <<>>]
    <3>1. \A i \in (n + 1)..(n + 1) : DecodedAt(text, g, i) = <<>>
      BY <1>1 DEF DecodedAt
    <3>2. g = [i \in (n + 1 - k)..(n + 1) |-> DecodedAt(text, g, i)]
      BY <1>1, <2>3, <3>1
    <3> QED BY <2>2, <3>2
  <2>4. CASE k # 0
    <3>1. k - 1 \in 0..n /\ k - 1 \notin T
      <4>1. T \subseteq 0..n OBVIOUS
      <4> HIDE DEF T
      <4> QED BY <1>1, <2>2, <2>4, <4>1
    <3>2. PICK g : Last(k - 1, g) BY <3>1
    <3> DEFINE a == n + 1 - k
               h == [i \in a..(n + 1) |-> IF i = a THEN DecodedAt(text, g, i) ELSE g[i]]
    <3>3. a \in 1..n /\ n + 1 - (k - 1) = a + 1 BY <1>1, <2>2, <2>4
    <3>4. g = [i \in (a + 1)..(n + 1) |-> DecodedAt(text, g, i)] BY <3>2, <3>3
    <3> HIDE DEF a, n
    <3>5. \A i \in (a + 1)..(n + 1) : h[i] = g[i] BY <1>1, <3>3
    <3>6. ASSUME NEW i \in a..(n + 1) PROVE DecodedAt(text, h, i) = DecodedAt(text, g, i)
      <4> HIDE DEF h
      <4>1. CASE i = n + 1 BY <4>1 DEF DecodedAt, n
      <4>2. CASE i # n + 1
        <5>1. i + 1 \in (a + 1)..(n + 1) BY <1>1, <3>3, <4>2
        <5>2. i + 2 <= n => i + 3 \in (a + 1)..(n + 1) BY <1>1, <3>3
        <5>3. h[i + 1] = g[i + 1] /\ (i + 2 <= n => h[i + 3] = g[i + 3])
          BY <3>5, <5>1, <5>2
        <5> QED BY <5>3 DEF DecodedAt, n
      <4> QED BY <4>1, <4>2
    <3>7. \A i \in a..(n + 1) : h[i] = DecodedAt(text, g, i)
      BY <1>1, <3>3, <3>4, SMTT(30)
    <3>8. h = [i \in a..(n + 1) |-> DecodedAt(text, h, i)]
      <4>1. \A i \in a..(n + 1) : h[i] = DecodedAt(text, h, i) BY <3>6, <3>7
      <4>2. h = [i \in a..(n + 1) |-> h[i]] OBVIOUS
      <4> HIDE DEF h
      <4> QED BY <4>1, <4>2
    <3>9. Last(k, h) BY <3>8 DEF a
    <3> QED BY <2>2, <3>9
  <2> QED BY <2>3, <2>4
<1>3. n \in 0..n /\ n + 1 - n = 1 BY <1>1
<1>4. PICK g : Last(n, g) BY <1>2, <1>3
<1> QED BY <1>3, <1>4 DEF IsDecoding

\* Decodings only look ahead, so that those of two texts agree on what the texts
\* end with alike; a text has no second decoding.
LEMMA DecodingsAgree ==
  ASSUME NEW S, NEW front \in Seq(S), NEW rest \in Seq(S),
         NEW f, IsDecoding(front \o rest, f),
         NEW g, IsDecoding(rest, g)
  PROVE  f[Len(front) + 1] = g[1]
<1> DEFINE d == Len(front)
           n == Len(rest)
           text == front \o rest
<1>1. d \in Nat /\ n \in Nat BY LenProperties
<1>2. Len(text) = d + n /\ \A i \in 1..n : text[d + i] = rest[i]
  <2>1. /\ Len(text) = d + n
        /\ \A i \in 1..(d + n) : text[i] = IF i <= d THEN front[i] ELSE rest[i - d]
    BY ConcatProperties, Zenon
  <2>2. ASSUME NEW i \in 1..n PROVE text[d + i] = rest[i]
    <3> DEFINE j == d + i
    <3>1. j \in 1..(d + n) /\ ~(j <= d) /\ j - d = i BY <1>1
    <3> HIDE DEF d, n, j, text
    <3>2. text[j] = rest[j - d] BY <2>1, <3>1
    <3> QED BY <3>1, <3>2 DEF j
  <2> QED BY <2>1, <2>2
<1> HIDE DEF d, n, text
<1>3. /\ f = [i \in 1..(d + n + 1) |-> DecodedAt(text, f, i)]
      /\ g = [i \in 1..(n + 1) |-> DecodedAt(rest, g, i)]
  BY <1>2 DEF IsDecoding, text, n
<1> DEFINE T == {k \in 0..n : f[d + (n + 1 - k)] # g[n + 1 - k]}
<1>4. ASSUME T # {} PROVE FALSE
  <2>1. T \subseteq Nat OBVIOUS
  <2>2. PICK k \in T : \A j \in T : k <= j BY <1>4, <2>1, Smallest
  <2> DEFINE i == n + 1 - k
  <2>3. i \in 1..(n + 1) /\ d + i \in 1..(d + n + 1) BY <1>1, <2>2
  <2>4. ASSUME NEW j \in 1..(n + 1), j > i PROVE f[d + j] = g[j]
    <3> DEFINE l == n + 1 - j
    <3>1. l \in 0..n /\ l < k /\ n + 1 - l = j BY <1>1, <2>2, <2>4
    <3>2. l \notin T
      <4>1. T \subseteq 0..n OBVIOUS
      <4> HIDE DEF T, l
      <4> QED BY <2>2, <3>1, <4>1
    <3> HIDE DEF l
    <3> QED BY <3>1, <3>2
  <2> HIDE DEF i
  <2>5. DecodedAt(text, f, d + i) = DecodedAt(rest, g, i)
    <3>1. CASE i = n + 1
      <4>1. d + i = Len(text) + 1 BY <1>1, <1>2, <3>1
      <4> QED BY <3>1, <4>1 DEF DecodedAt, n
    <3>2. CASE i # n + 1
      <4>1. i \in 1..n /\ d + i # Len(text) + 1 /\ text[d + i] = rest[i]
        BY <1>1, <1>2, <2>3, <3>2
      <4>2. f[d + i + 1] = g[i + 1]
        <5>1. i + 1 \in 1..(n + 1) /\ i + 1 > i /\ d + (i + 1) = d + i + 1
          BY <1>1, <4>1
        <5> QED BY <2>4, <5>1
      <4>3. d + i + 2 <= Len(text) <=> i + 2 <= n BY <1>1, <1>2, <4>1
      <4>4. i + 2 <= n =>
              /\ text[d + i + 1] = rest[i + 1] /\ text[d + i + 2] = rest[i + 2]
              /\ f[d + i + 3] = g[i + 3]
        <5>1. SUFFICES ASSUME i + 2 <= n
                       PROVE  /\ text[d + i + 1] = rest[i + 1]
                              /\ text[d + i + 2] = rest[i + 2]
                              /\ f[d + i + 3] = g[i + 3]
          OBVIOUS
        <5>2. /\ i + 1 \in 1..n /\ i + 2 \in 1..n /\ i + 3 \in 1..(n + 1) /\ i + 3 > i
              /\ d + (i + 1) = d + i + 1 /\ d + (i + 2) = d + i + 2
              /\ d + (i + 3) = d + i + 3
          BY <1>1, <4>1, <5>1
        <5> QED BY <1>2, <2>4, <5>2
      <4> QED BY <3>2, <4>1, <4>2, <4>3, <4>4 DEF DecodedAt, n
    <3> QED BY <3>1, <3>2
  <2>6. f[d + i] = g[i] BY <1>3, <2>3, <2>5
  <2> QED BY <2>2, <2>6 DEF i
<1>5. n \in 0..n /\ n + 1 - n = 1 BY <1>1
<1> QED BY <1>4, <1>5 DEF d

\* What percentDecode() returns, by its first byte.
LEMMA Decoded ==
  ASSUME NEW S, NEW text \in Seq(S)
  PROVE  /\ \A f : IsDecoding(text, f) => PercentDecode(text) = f[1]
         /\ \E f : IsDecoding(text, f)
<1>1. \E f : IsDecoding(text, f) BY DecodingExists
<1> DEFINE c == CHOOSE f : IsDecoding(text, f)
<1>2. PercentDecode(text) = c[1]
  BY DEF PercentDecode, IsDecoding, DecodedAt
<1>3. IsDecoding(text, c) BY <1>1
<1> DEFINE e == <<>>
<1>4. e \in Seq(S) /\ Len(e) + 1 = 1 /\ e \o text = text
  BY ConcatEmptySeq, EmptySeq
<1> HIDE DEF c, e
<1>5. ASSUME NEW f, IsDecoding(text, f) PROVE f[1] = c[1]
  <2>1. IsDecoding(e \o text, f) BY <1>4, <1>5
  <2>2. f[Len(e) + 1] = c[1] BY <1>3, <1>4, <2>1, DecodingsAgree
  <2> QED BY <1>4, <2>2
<1> QED BY <1>1, <1>2, <1>5

LEMMA DecodedOne ==
  ASSUME NEW S, NEW front \in Seq(S), NEW rest \in Seq(S), front # <<>>
  PROVE  /\ front[1] \notin {"%", "NUL"} /\ Len(front) = 1 =>
              PercentDecode(front \o rest) = Before(front[1], PercentDecode(rest))
         /\ front[1] = "%" /\ Len(front) = 3
            /\ {front[2], front[3]} \subseteq DOMAIN Hex =>
              PercentDecode(front \o rest) =
                Before(Byte[16 * Hex[front[2]] + Hex[front[3]]], PercentDecode(rest))
<1> DEFINE text == front \o rest
           d == Len(front)
           n == Len(rest)
<1>1. d \in Nat \ {0} /\ n \in Nat BY EmptySeq, LenProperties
<1>2. /\ text \in Seq(S) /\ Len(text) = d + n
      /\ \A i \in 1..(d + n) : text[i] = IF i <= d THEN front[i] ELSE rest[i - d]
  BY ConcatProperties, Zenon
<1> HIDE DEF text, d, n
<1>3. PICK f : IsDecoding(text, f) BY <1>2, Decoded
<1>4. PICK g : IsDecoding(rest, g) BY Decoded
<1>5. PercentDecode(text) = f[1] /\ PercentDecode(rest) = g[1]
  BY <1>2, <1>3, <1>4, Decoded
<1>6. f[d + 1] = g[1] BY <1>3, <1>4, DecodingsAgree DEF text, d
<1>7. f[1] = DecodedAt(text, f, 1)
  <2>1. f = [i \in 1..(d + n + 1) |-> DecodedAt(text, f, i)] BY <1>2, <1>3 DEF IsDecoding
  <2>2. 1 \in 1..(d + n + 1) BY <1>1
  <2> QED BY <2>1, <2>2
<1>8. \A i \in 1..d : text[i] = front[i] BY <1>1, <1>2
<1>9. ASSUME front[1] \notin {"%", "NUL"}, d = 1
      PROVE  f[1] = Before(front[1], g[1])
  <2>1. text[1] = front[1] /\ 1 # Len(text) + 1 /\ 1 + 1 = d + 1
    BY <1>1, <1>2, <1>8, <1>9
  <2> QED BY <1>6, <1>7, <1>9, <2>1 DEF DecodedAt
<1>10. ASSUME front[1] = "%", d = 3, {front[2], front[3]} \subseteq DOMAIN Hex
       PROVE  f[1] = Before(Byte[16 * Hex[front[2]] + Hex[front[3]]], g[1])
  <2>1. /\ text[1] = "%" /\ text[1 + 1] = front[2] /\ text[1 + 2] = front[3]
        /\ 1 # Len(text) + 1 /\ 1 + 2 <= Len(text) /\ 1 + 3 = d + 1
    BY <1>1, <1>2, <1>8, <1>10
  <2> QED BY <1>6, <1>7, <1>10, <2>1 DEF DecodedAt
<1> QED BY <1>5, <1>9, <1>10 DEF text, d

LEMMA JoinedParts ==
  ASSUME NEW heads, NEW tails, NEW text \in Joined(heads, tails)
  PROVE  \E s \in heads, t \in tails : text = s \o t
BY DEF Joined

JoinedAt(sets, first, i) ==
  IF i = 0 THEN {<<>>} ELSE Joined(first[i - 1], sets[i])
IsJoining(sets, k, first) == first = [i \in 0..k |-> JoinedAt(sets, first, i)]

\* Concatenations() takes one string more at each step.
LEMMA Concatenated ==
  ASSUME NEW sets, Len(sets) \in Nat
  PROVE  \E first :
           /\ Concatenations(sets) = first[Len(sets)]
           /\ first[0] = {<<>>}
           /\ \A i \in 1..Len(sets) : first[i] = Joined(first[i - 1], sets[i])
<1> DEFINE n == Len(sets)
           T == {k \in 0..n : ~\E f : IsJoining(sets, k, f)}
<1>1. n \in Nat OBVIOUS
<1>c. Concatenations(sets) = (CHOOSE f : IsJoining(sets, n, f))[n]
  BY DEF Concatenations, IsJoining, JoinedAt
<1> HIDE DEF n
<1>2. ASSUME T # {} PROVE FALSE
  <2>1. T \subseteq Nat /\ T \subseteq 0..n OBVIOUS
  <2>2. PICK k \in T : \A j \in T : k <= j
    <3> HIDE DEF T
    <3> QED BY <1>2, <2>1, Smallest
  <2>3. CASE k = 0
    <3> DEFINE f == [i \in 0..0 |-> {<<>>}]
    <3>1. \A i \in 0..0 : JoinedAt(sets, f, i) = {<<>>} BY DEF JoinedAt
    <3>2. f = [i \in 0..0 |-> JoinedAt(sets, f, i)]
      <4> QED BY <3>1
    <3> HIDE DEF f
    <3>3. IsJoining(sets, 0, f) BY <3>2 DEF IsJoining
    <3> QED BY <2>2, <2>3, <3>3
  <2>4. CASE k # 0
    <3>1. k \in 1..n /\ k - 1 \in 0..n /\ k - 1 \notin T
      <4> HIDE DEF T
      <4>1. k \in 0..n BY <2>1, <2>2
      <4>2. k - 1 \in 0..n /\ ~(k <= k - 1) BY <1>1, <2>4, <4>1
      <4> QED BY <1>1, <2>2, <2>4, <4>1, <4>2
    <3>2. PICK f : IsJoining(sets, k - 1, f) BY <3>1
    <3> DEFINE h == [i \in 0..k |-> IF i = k THEN JoinedAt(sets, f, i) ELSE f[i]]
    <3>3. \A i \in 0..(k - 1) : h[i] = f[i] /\ f[i] = JoinedAt(sets, f, i)
      <4>1. \A i \in 0..(k - 1) : f[i] = JoinedAt(sets, f, i) BY <3>2 DEF IsJoining
      <4>2. \A i \in 0..(k - 1) : h[i] = f[i] BY <3>1
      <4> QED BY <4>1, <4>2
    <3>4. h[k] = JoinedAt(sets, f, k) BY <3>1
    <3>5. ASSUME NEW i \in 0..k PROVE h[i] = JoinedAt(sets, h, i)
      <4> HIDE DEF h
      <4>1. i # 0 => i - 1 \in 0..(k - 1) BY <3>1
      <4>2. JoinedAt(sets, h, i) = JoinedAt(sets, f, i) BY <3>3, <4>1 DEF JoinedAt
      <4>3. i \in 0..(k - 1) \/ i = k BY <3>1
      <4> QED BY <3>3, <3>4, <4>2, <4>3
    <3>6. h = [i \in 0..k |-> JoinedAt(sets, h, i)]
      <4>1. h = [i \in 0..k |-> h[i]] OBVIOUS
      <4> HIDE DEF h
      <4> QED BY <3>5, <4>1
    <3> HIDE DEF h
    <3>7. IsJoining(sets, k, h) BY <3>6 DEF IsJoining
    <3> QED BY <2>2, <3>7
  <2> QED BY <2>3, <2>4
<1>3. \E f : IsJoining(sets, n, f)
  <2>1. n \in 0..n BY <1>1
  <2> QED BY <1>2, <2>1
<1> DEFINE c == CHOOSE f : IsJoining(sets, n, f)
<1>4. Concatenations(sets) = c[n] BY <1>c
<1>5. IsJoining(sets, n, c) BY <1>3
<1> HIDE DEF c
<1>6. \A i \in 0..n : c[i] = JoinedAt(sets, c, i) BY <1>5 DEF IsJoining
<1>7. c[0] = {<<>>} BY <1>1, <1>6 DEF JoinedAt
<1>8. \A i \in 1..n : c[i] = Joined(c[i - 1], sets[i]) BY <1>1, <1>6 DEF JoinedAt
<1> QED BY <1>4, <1>7, <1>8 DEF n

Texts == Seq(Token \union {"%"})

LEMMA DecodedNone ==
  \E e \in Texts : e = <<>> /\ e \in Seq(Token) /\ PercentDecode(e) = e
<1> DEFINE e == <<>>
<1>1. e \in Texts /\ Len(e) = 0 /\ e \in Seq(Token) BY DEF Texts
<1>2. PercentDecode(e) = e
  <2> HIDE DEF e
  <2>1. PICK f : IsDecoding(e, f) BY <1>1, Decoded DEF Texts
  <2>2. PercentDecode(e) = f[1] BY <1>1, <2>1, Decoded DEF Texts
  <2>3. f[1] = <<>> BY <1>1, <2>1 DEF IsDecoding, DecodedAt
  <2> QED BY <2>2, <2>3 DEF e
<1> QED BY <1>1, <1>2

\* The bytes of a value decode to what they stand for, and hold no ampersand.
LEMMA PieceDecodes ==
  ASSUME NEW byte \in Token, NEW piece \in Pieces(byte),
         NEW rest \in Texts, PercentDecode(rest) \in Seq(Token)
  PROVE  /\ piece \in Texts /\ \A i \in 1..Len(piece) : piece[i] # "&"
         /\ PercentDecode(piece \o rest) = <<byte>> \o PercentDecode(rest)
<1> DEFINE S == Token \union {"%"}
<1>1. PercentDecode(rest) # None BY HexAssumption
<1>2. CASE piece \in Escapes(byte)
  <2>1. PICK digits \in Digits \X Digits :
          /\ Byte[16 * Hex[digits[1]] + Hex[digits[2]]] = byte
          /\ piece = <<"%">> \o digits
    BY <1>2 DEF Escapes
  <2>2. PICK a \in Digits, b \in Digits : digits = <<a, b>> BY <2>1
  <2>3. a \in Token /\ b \in Token /\ a # "&" /\ b # "&"
    BY HexAssumption DEF Digits
  <2>4. piece = <<"%">> \o <<a, b>> BY <2>1, <2>2
  <2>5. /\ piece \in Seq(S) /\ Len(piece) = 3 /\ piece # <<>>
        /\ piece[1] = "%" /\ piece[2] = a /\ piece[3] = b
    <3> DEFINE x == <<"%">>
               y == <<a, b>>
    <3>1. /\ x \in Seq(S) /\ Len(x) = 1 /\ x[1] = "%"
          /\ y \in Seq(S) /\ Len(y) = 2 /\ y[1] = a /\ y[2] = b
      BY <2>3
    <3> HIDE DEF x, y, S
    <3>2. /\ x \o y \in Seq(S) /\ Len(x \o y) = Len(x) + Len(y)
          /\ \A i \in 1..(Len(x) + Len(y)) :
               (x \o y)[i] = IF i <= Len(x) THEN x[i] ELSE y[i - Len(x)]
      BY <3>1, ConcatProperties, Zenon
    <3>3. 1 \in 1..3 /\ 2 \in 1..3 /\ 3 \in 1..3 /\ 2 - 1 = 1 /\ 3 - 1 = 2
      OBVIOUS
    <3>4. /\ Len(x \o y) = 3 /\ (x \o y)[1] = "%" /\ (x \o y)[2] = a
          /\ (x \o y)[3] = b
      BY <3>1, <3>2, <3>3
    <3>5. x \o y # <<>> BY <3>4
    <3>6. piece = x \o y BY <2>4 DEF x, y
    <3> QED BY <3>2, <3>4, <3>5, <3>6
  <2>6. \A i \in 1..Len(piece) : piece[i] # "&"
    <3>1. \A i \in 1..3 : i = 1 \/ i = 2 \/ i = 3 OBVIOUS
    <3> QED BY <2>3, <2>5, <3>1
  <2>7. {piece[2], piece[3]} \subseteq DOMAIN Hex BY <2>5 DEF Digits
  <2>8. PercentDecode(piece \o rest) = Before(byte, PercentDecode(rest))
    <3>1. PercentDecode(piece \o rest) =
            Before(Byte[16 * Hex[piece[2]] + Hex[piece[3]]], PercentDecode(rest))
      <4> HIDE DEF S
      <4> QED BY <2>5, <2>7, DecodedOne DEF Texts, S
    <3> QED BY <2>1, <2>2, <2>5, <3>1
  <2> QED BY <1>1, <2>5, <2>6, <2>8 DEF Before, Texts
<1>3. CASE piece \notin Escapes(byte)
  <2>1. byte \notin {"&", "%", "NUL"} /\ piece = <<byte>> BY <1>3 DEF Pieces
  <2>2. /\ piece \in Seq(S) /\ Len(piece) = 1 /\ piece # <<>> /\ piece[1] = byte
    BY <2>1
  <2>3. \A i \in 1..Len(piece) : piece[i] # "&" BY <2>1, <2>2
  <2>4. PercentDecode(piece \o rest) = Before(byte, PercentDecode(rest))
    <3> HIDE DEF S
    <3> QED BY <2>1, <2>2, DecodedOne DEF Texts, S
  <2> QED BY <1>1, <2>2, <2>3, <2>4 DEF Before, Texts
<1> QED BY <1>2, <1>3

\* The first k bytes in front of a text, and the first k - 1 in front of the k-th.
LEMMA TakeOneMore ==
  ASSUME NEW value \in Seq(Token), NEW k \in 1..Len(value), NEW d \in Seq(Token)
  PROVE  Take(value, k - 1) \o (<<value[k]>> \o d) = Take(value, k) \o d
<1> DEFINE x == Take(value, k - 1)
           y == <<value[k]>>
<1>1. Len(value) \in Nat /\ value[k] \in Token BY LenProperties, ElementOfSeq
<1>2. 1 \in 1..Len(value) /\ k - 1 \in 0..Len(value) BY <1>1
<1>3. x \in Seq(Token) BY <1>2, TakeType
<1>4. y \in Seq(Token) BY <1>1
<1>5. x \o y = Take(value, k) BY <1>2, SubSeqRecursiveSecond DEF Take
<1> HIDE DEF x, y
<1>6. (x \o y) \o d = x \o (y \o d) BY <1>3, <1>4, ConcatAssociative, SMTT(60)
<1> QED BY <1>5, <1>6 DEF x, y

\* percentDecode() undoes every way to send a value, byte by byte: no escape is
\* left, none is cut in two, and nothing that is not one is taken for one.
THEOREM DecodingUndoesEncoding ==
  \A value \in Seq(Token) : \A text \in Encodings(value) :
    /\ text \in Texts /\ \A i \in 1..Len(text) : text[i] # "&"
    /\ PercentDecode(text) = value
<1> SUFFICES ASSUME NEW value \in Seq(Token)
             PROVE  \A text \in Encodings(value) :
                      /\ text \in Texts /\ \A i \in 1..Len(text) : text[i] # "&"
                      /\ PercentDecode(text) = value
  OBVIOUS
<1> DEFINE n == Len(value)
           sets == [i \in 1..n |-> Pieces(value[i])]
<1>1. n \in Nat /\ \A i \in 1..n : value[i] \in Token BY LenProperties, ElementOfSeq
<1>2. Len(sets) = n /\ \A i \in 1..n : sets[i] = Pieces(value[i]) BY <1>1
<1>3. Encodings(value) = Concatenations(sets) BY DEF Encodings, sets, n
<1> HIDE DEF n, sets
<1>4. PICK first :
        /\ Concatenations(sets) = first[n]
        /\ first[0] = {<<>>}
        /\ \A i \in 1..n : first[i] = Joined(first[i - 1], sets[i])
  BY <1>1, <1>2, Concatenated
<1> DEFINE Good(k, text) ==
             /\ text \in Texts /\ \A i \in 1..Len(text) : text[i] # "&"
             /\ \A rest \in Texts : PercentDecode(rest) \in Seq(Token) =>
                  PercentDecode(text \o rest) = Take(value, k) \o PercentDecode(rest)
           T == {k \in 0..n : ~\A text \in first[k] : Good(k, text)}
<1>5. ASSUME T # {} PROVE FALSE
  <2>1. T \subseteq Nat /\ T \subseteq 0..n OBVIOUS
  <2>2. PICK k \in T : \A j \in T : k <= j
    <3> HIDE DEF T
    <3> QED BY <1>5, <2>1, Smallest
  <2>3. PICK text \in first[k] : ~Good(k, text) BY <2>2
  <2>4. CASE k = 0
    <3>1. text = <<>> BY <1>4, <2>3, <2>4
    <3>2. text \in Texts /\ \A i \in 1..Len(text) : text[i] # "&" BY <3>1 DEF Texts
    <3>3. Take(value, 0) = <<>> BY SubSeqEmpty DEF Take
    <3>4. ASSUME NEW rest \in Texts, PercentDecode(rest) \in Seq(Token)
          PROVE  PercentDecode(text \o rest) = Take(value, 0) \o PercentDecode(rest)
      <4>1. text \o rest = rest BY <3>1, ConcatEmptySeq DEF Texts
      <4>2. <<>> \o PercentDecode(rest) = PercentDecode(rest) BY <3>4, ConcatEmptySeq
      <4> QED BY <3>3, <4>1, <4>2
    <3> QED BY <2>3, <2>4, <3>2, <3>4
  <2>5. CASE k # 0
    <3>1. k \in 1..n /\ k - 1 \in 0..n /\ k - 1 \notin T
      <4> HIDE DEF T
      <4> QED BY <1>1, <2>1, <2>2, <2>5
    <3>2. PICK s \in first[k - 1], t \in Pieces(value[k]) : text = s \o t
      <4>1. first[k] = Joined(first[k - 1], Pieces(value[k])) BY <1>2, <1>4, <3>1
      <4>2. text \in Joined(first[k - 1], Pieces(value[k])) BY <2>3, <4>1
      <4> DEFINE A == first[k - 1]
                 B == Pieces(value[k])
      <4> HIDE DEF A, B
      <4>3. text \in Joined(A, B) BY <4>2 DEF A, B
      <4>4. \E s \in A, t \in B : text = s \o t BY <4>3, JoinedParts
      <4> QED BY <4>4 DEF A, B
    <3>3. Good(k - 1, s) BY <3>1, <3>2
    <3>4. value[k] \in Token BY <1>1, <3>1
    <3>5. t \in Texts /\ \A i \in 1..Len(t) : t[i] # "&"
      <4>1. PICK rest \in Texts : PercentDecode(rest) \in Seq(Token) BY DecodedNone
      <4> QED BY <3>2, <3>4, <4>1, PieceDecodes
    <3>6. text \in Texts /\ \A i \in 1..Len(text) : text[i] # "&"
      <4>1. /\ s \o t \in Texts /\ Len(s \o t) = Len(s) + Len(t)
            /\ \A i \in 1..(Len(s) + Len(t)) :
                 (s \o t)[i] = IF i <= Len(s) THEN s[i] ELSE t[i - Len(s)]
        BY <3>3, <3>5, ConcatProperties DEF Texts
      <4>2. Len(s) \in Nat /\ Len(t) \in Nat BY <3>3, <3>5, LenProperties DEF Texts
      <4>3. ASSUME NEW i \in 1..(Len(s) + Len(t)) PROVE (s \o t)[i] # "&"
        <5>1. CASE i <= Len(s) BY <3>3, <4>1, <4>2, <5>1
        <5>2. CASE ~(i <= Len(s))
          <6>1. i - Len(s) \in 1..Len(t) BY <4>2, <5>2
          <6> QED BY <3>5, <4>1, <5>2, <6>1
        <5> QED BY <5>1, <5>2
      <4> QED BY <3>2, <4>1, <4>3
    <3>7. ASSUME NEW rest \in Texts, PercentDecode(rest) \in Seq(Token)
          PROVE  PercentDecode(text \o rest) = Take(value, k) \o PercentDecode(rest)
      <4> DEFINE d == PercentDecode(rest)
                 u == t \o rest
      <4>1. PercentDecode(u) = <<value[k]>> \o d
        BY <3>2, <3>4, <3>7, PieceDecodes
      <4>2. u \in Texts BY <3>5, ConcatProperties DEF Texts
      <4>3. <<value[k]>> \in Seq(Token) /\ <<value[k]>> \o d \in Seq(Token)
        BY <3>4, <3>7, ConcatProperties
      <4>4. text \o rest = s \o u
        <5>1. s \in Texts /\ t \in Texts /\ rest \in Texts BY <3>3, <3>5
        <5> DEFINE S == Token \union {"%"}
        <5>2. s \in Seq(S) /\ t \in Seq(S) /\ rest \in Seq(S) BY <5>1, Zenon DEF Texts
        <5> HIDE DEF S, T
        <5>3. (s \o t) \o rest = s \o (t \o rest) BY <5>2, ConcatAssociative, SMTT(60)
        <5> QED BY <3>2, <5>3
      <4>5. PercentDecode(s \o u) = Take(value, k - 1) \o (<<value[k]>> \o d)
        BY <3>3, <4>1, <4>2, <4>3
      <4>6. Take(value, k - 1) \o (<<value[k]>> \o d) = Take(value, k) \o d
        <5>1. d \in Seq(Token) /\ k \in 1..Len(value) BY <3>1, <3>7 DEF n
        <5> HIDE DEF T, d
        <5> QED BY <5>1, TakeOneMore, Zenon
      <4> HIDE DEF d, u
      <4> QED BY <4>4, <4>5, <4>6 DEF d
    <3> QED BY <2>3, <3>6, <3>7
  <2> QED BY <2>4, <2>5
<1>6. n \in 0..n BY <1>1
<1>7. ASSUME NEW text \in Encodings(value)
      PROVE  /\ text \in Texts /\ \A i \in 1..Len(text) : text[i] # "&"
             /\ PercentDecode(text) = value
  <2>1. Good(n, text) BY <1>3, <1>4, <1>5, <1>6, <1>7
  <2>2. PICK e \in Texts : e = <<>> /\ e \in Seq(Token) /\ PercentDecode(e) = e
    BY DecodedNone
  <2>4. PercentDecode(text \o e) = Take(value, n) \o e
    BY <2>1, <2>2
  <2>5. Take(value, n) = value BY SubSeqFull DEF Take, n
  <2>6. text \o e = text /\ value \o e = value BY <2>1, <2>2, ConcatEmptySeq DEF Texts
  <2> QED BY <2>1, <2>4, <2>5, <2>6
<1> QED BY <1>7

\* A text begins behind m, and the end of the body or of a field is behind it.
TextAt(body, m, text) ==
  /\ m + Len(text) <= Len(body)
  /\ \A i \in 1..Len(text) : body[m + i] = text[i]
  /\ m + Len(text) = Len(body) \/ body[m + Len(text) + 1] = "&"

\* The last field of a body is one of this name and text, and begins at k.
EndsWithField(body, k, name, text) ==
  /\ k + Len(name) + Len(text) = Len(body)
  /\ \A i \in 1..Len(name) : body[k + i - 1] = name[i]
  /\ body[k + Len(name)] = "="
  /\ \A i \in 1..Len(text) : body[k + Len(name) + i] = text[i]

LEMMA TextIsRead ==
  ASSUME NEW S, NEW body \in Seq(S), NEW m \in Nat,
         NEW text \in Seq(S), \A i \in 1..Len(text) : text[i] # "&",
         TextAt(body, m, text)
  PROVE  UpToAmpersand(Drop(body, m)) = text
<1> DEFINE n == Len(body)
           l == Len(text)
           v == SubSeq(body, m + 1, n)
<1>1. n \in Nat /\ l \in Nat /\ m + l <= n BY LenProperties DEF TextAt
<1>2. /\ v \in Seq(S) /\ Len(v) = n - m
      /\ \A i \in 1..(n - m) : v[i] = body[m + i]
  BY <1>1, PieceAfter
<1>3. Drop(body, m) = v BY DEF Drop
<1>4. \A i \in 1..l : v[i] = text[i]
  BY <1>1, <1>2 DEF TextAt
<1> HIDE DEF v, n, l
<1>5. CASE m + l = n
  <2>1. v = text BY <1>1, <1>2, <1>4, <1>5, SeqEqual DEF l
  <2>2. Find(v, <<"&">>) = 0
    <3>1. /\ Find(v, <<"&">>) \in 0..Len(v)
          /\ Find(v, <<"&">>) # 0 => v[Find(v, <<"&">>)] = "&"
      BY <1>2, FirstOne
    <3> DEFINE f == Find(v, <<"&">>)
    <3> HIDE DEF f
    <3>2. f # 0 => f \in 1..Len(text) /\ text[f] = "&" BY <1>2, <2>1, <3>1 DEF f
    <3> QED BY <3>2 DEF f
  <2> QED BY <1>3, <2>1, <2>2 DEF UpToAmpersand, Contains
<1>6. CASE m + l # n
  <2>1. body[m + l + 1] = "&" BY <1>6 DEF TextAt, n, l
  <2> DEFINE k == l + 1
  <2>2. k \in Nat /\ k >= 1 /\ k <= Len(v) /\ v[k] = "&" /\ k - 1 = l
    <3>1. k \in 1..(n - m) /\ m + k = m + l + 1 BY <1>1, <1>6
    <3> HIDE DEF k
    <3>2. v[k] = body[m + k] BY <1>2, <3>1
    <3>3. k - 1 = l BY <1>1 DEF k
    <3> QED BY <1>1, <1>2, <2>1, <3>1, <3>2, <3>3
  <2>3. \A j \in 1..(k - 1) : v[j] # "&" BY <1>4, <2>2 DEF l
  <2> HIDE DEF k
  <2>4. Find(v, <<"&">>) = k BY <1>2, <2>2, <2>3, FoundAt
  <2>5. Take(v, l) = text
    <3>1. l \in 0..Len(v) BY <1>1, <1>2
    <3>2. /\ Take(v, l) \in Seq(S) /\ Len(Take(v, l)) = l
          /\ \A i \in 1..l : Take(v, l)[i] = v[i]
      BY <1>2, <3>1, TakeType
    <3> QED BY <1>4, <3>2, SeqEqual DEF l
  <2>6. k # 0 BY <2>2
  <2> QED BY <1>3, <2>2, <2>4, <2>5, <2>6 DEF UpToAmpersand, Contains
<1> QED BY <1>5, <1>6

Names == Seq(Token \ {"&", "="})

LEMMA NameBytes ==
  ASSUME NEW name \in Names
  PROVE  /\ name \in Seq(Token) /\ Len(name) \in Nat
         /\ \A i \in 1..Len(name) : name[i] # "&" /\ name[i] # "="
<1> DEFINE N == Token \ {"&", "="}
<1>1. name \in Seq(N) BY DEF Names
<1>2. name \in Seq(Token)
  <2>1. N \subseteq Token OBVIOUS
  <2> HIDE DEF N
  <2> QED BY <1>1, <2>1, SeqMonotonic
<1>3. \A i \in 1..Len(name) : name[i] \in N
  <2> HIDE DEF N
  <2> QED BY <1>1, ElementOfSeq
<1> QED BY <1>2, <1>3, LenProperties

\* A field at the end of a body is found where it begins, by its own name only,
\* and no other is behind that.
LEMMA FieldAtEnd ==
  ASSUME NEW S, NEW body \in Seq(S), NEW k \in Nat \ {0}, NEW s \in Nat, s >= k,
         k = 1 \/ body[k - 1] = "&",
         NEW own \in Names, NEW name \in Names,
         NEW text \in Seq(S), \A i \in 1..Len(text) : text[i] # "&",
         EndsWithField(body, k, own, text)
  PROVE  /\ FieldAt(body, name, s) <=> s = k /\ name = own
         /\ TextAt(body, k + Len(own), text)
<1> DEFINE a == Len(own)
           b == Len(name)
           l == Len(text)
           n == Len(body)
<1>1. a \in Nat /\ b \in Nat /\ l \in Nat /\ n \in Nat BY NameBytes, LenProperties
<1>2. /\ k + a + l = n
      /\ \A i \in 1..a : body[k + i - 1] = own[i]
      /\ body[k + a] = "="
      /\ \A i \in 1..l : body[k + a + i] = text[i]
  BY DEF EndsWithField
<1>3. /\ \A i \in 1..a : own[i] # "&" /\ own[i] # "="
      /\ \A i \in 1..b : name[i] # "&" /\ name[i] # "="
      /\ own \in Seq(Token) /\ name \in Seq(Token)
  BY NameBytes
<1>4. TextAt(body, k + a, text) BY <1>1, <1>2 DEF TextAt
<1>l. \A i \in 1..l : text[i] # "&" OBVIOUS
<1> HIDE DEF a, b, l, n
<1>5. ASSUME name = own PROVE FieldAt(body, name, k)
  BY <1>1, <1>2, <1>5 DEF FieldAt, a, n
<1>6. ASSUME FieldAt(body, name, k) PROVE name = own
  <2>1. \A i \in 1..b : body[k + i - 1] = name[i] BY <1>6 DEF FieldAt, b
  <2>2. body[k + b] = "=" BY <1>6 DEF FieldAt, b
  <2>3. ~(b < a)
    <3>1. SUFFICES ASSUME b < a PROVE FALSE OBVIOUS
    <3> DEFINE i == b + 1
    <3>2. i \in 1..a /\ k + i - 1 = k + b BY <1>1, <3>1
    <3> HIDE DEF i
    <3>3. body[k + i - 1] = own[i] BY <1>2, <3>2
    <3> QED BY <1>3, <2>2, <3>2, <3>3
  <2>4. ~(a < b)
    <3>1. SUFFICES ASSUME a < b PROVE FALSE OBVIOUS
    <3> DEFINE i == a + 1
    <3>2. i \in 1..b /\ k + i - 1 = k + a BY <1>1, <3>1
    <3> HIDE DEF i
    <3>3. body[k + i - 1] = name[i] BY <2>1, <3>2
    <3> QED BY <1>2, <1>3, <3>2, <3>3
  <2>5. a = b BY <1>1, <2>3, <2>4
  <2>6. \A i \in 1..b : name[i] = own[i] BY <1>2, <2>1, <2>5
  <2> QED BY <1>3, <2>5, <2>6, SeqEqual DEF a, b
<1>7. ASSUME FieldAt(body, name, s), s # k PROVE FALSE
  <2>1. body[s - 1] = "&" /\ s <= n
    BY <1>1, <1>7 DEF FieldAt, b, n
  <2> DEFINE j == s - k
  <2>2. j \in 1..(a + l) /\ s - 1 = k + j - 1 BY <1>1, <1>2, <1>7, <2>1
  <2> HIDE DEF j
  <2>3. CASE j \in 1..a
    <3>1. body[k + j - 1] = own[j] BY <1>2, <2>3
    <3> QED BY <1>3, <2>1, <2>2, <2>3, <3>1
  <2>4. CASE j = a + 1
    <3>1. k + j - 1 = k + a BY <1>1, <2>4
    <3> QED BY <1>2, <2>1, <2>2, <3>1
  <2>5. CASE j \notin 1..a /\ j # a + 1
    <3> DEFINE i == j - a - 1
    <3>1. i \in 1..l /\ k + j - 1 = k + a + i BY <1>1, <2>2, <2>5
    <3> HIDE DEF i
    <3>2. body[k + a + i] = text[i] BY <1>2, <3>1
    <3> QED BY <1>l, <2>1, <2>2, <3>1, <3>2
  <2> QED BY <2>3, <2>4, <2>5
<1>8. FieldAt(body, name, s) <=> s = k /\ name = own BY <1>5, <1>6, <1>7
<1> QED BY <1>4, <1>8 DEF a

\* What is put behind a body with an ampersand changes nothing that is read of it.
LEMMA FieldsBefore ==
  ASSUME NEW S, NEW body \in Seq(S), NEW longer \in Seq(S), NEW name \in Names,
         Len(body) < Len(longer),
         \A i \in 1..Len(body) : longer[i] = body[i],
         longer[Len(body) + 1] = "&"
  PROVE  /\ \A s \in 1..Len(body) : FieldAt(longer, name, s) <=> FieldAt(body, name, s)
         /\ ~FieldAt(longer, name, Len(body) + 1)
         /\ \A m \in Nat, text \in Seq(S) : TextAt(body, m, text) => TextAt(longer, m, text)
<1> DEFINE n == Len(body)
           b == Len(name)
<1>1. n \in Nat /\ Len(longer) \in Nat /\ n < Len(longer) /\ b \in Nat
  BY NameBytes, LenProperties
<1>2. (\A i \in 1..n : longer[i] = body[i]) /\ longer[n + 1] = "&" OBVIOUS
<1>3. \A i \in 1..b : name[i] # "&" /\ name[i] # "=" BY NameBytes
<1> HIDE DEF n, b
<1>4. ASSUME NEW s \in 1..(n + 1), FieldAt(longer, name, s)
      PROVE  s + b <= n
  <2>1. /\ \A i \in 1..b : longer[s + i - 1] = name[i]
        /\ longer[s + b] = "="
    BY <1>4 DEF FieldAt, b
  <2>2. SUFFICES ASSUME ~(s + b <= n) PROVE FALSE OBVIOUS
  <2>3. CASE s + b = n + 1 BY <1>2, <2>1, <2>3
  <2>4. CASE s + b # n + 1
    <3> DEFINE i == n + 2 - s
    <3>1. i \in 1..b /\ s + i - 1 = n + 1 BY <1>1, <2>2, <2>4
    <3> HIDE DEF i
    <3>2. longer[n + 1] = name[i] BY <2>1, <3>1
    <3> QED BY <1>2, <1>3, <3>1, <3>2
  <2> QED BY <2>3, <2>4
<1>5. ASSUME NEW s \in 1..n
      PROVE  FieldAt(longer, name, s) <=> FieldAt(body, name, s)
  <2>1. s # 1 => longer[s - 1] = body[s - 1]
    <3>1. s # 1 => s - 1 \in 1..n BY <1>1
    <3> QED BY <1>2, <3>1
  <2>2. s + b <= n => longer[s + b] = body[s + b] BY <1>1, <1>2
  <2>3. s + b <= n => \A i \in 1..b : longer[s + i - 1] = body[s + i - 1]
    <3>1. s + b <= n => \A i \in 1..b : s + i - 1 \in 1..n BY <1>1
    <3> QED BY <1>2, <3>1
  <2>4. FieldAt(longer, name, s) => s + b <= n BY <1>1, <1>4
  <2> QED BY <1>1, <2>1, <2>2, <2>3, <2>4 DEF FieldAt, b, n
<1>6. ~FieldAt(longer, name, n + 1)
  <2>1. n + 1 \in 1..(n + 1) /\ ~(n + 1 + b <= n) BY <1>1
  <2> QED BY <1>4, <2>1
<1>7. ASSUME NEW m \in Nat, NEW text \in Seq(S), TextAt(body, m, text)
      PROVE  TextAt(longer, m, text)
  <2> DEFINE l == Len(text)
  <2>1. /\ l \in Nat /\ m + l <= n
        /\ \A i \in 1..l : body[m + i] = text[i]
        /\ m + l = n \/ body[m + l + 1] = "&"
    BY <1>7, LenProperties DEF TextAt, n
  <2>2. \A i \in 1..l : longer[m + i] = text[i]
    <3>1. \A i \in 1..l : m + i \in 1..n BY <1>1, <2>1
    <3> QED BY <1>2, <2>1, <3>1
  <2>3. longer[m + l + 1] = "&"
    <3>1. CASE m + l = n BY <1>2, <3>1
    <3>2. CASE m + l # n
      <4> HIDE DEF l
      <4>1. m + l + 1 \in 1..n BY <1>1, <2>1, <3>2
      <4> QED BY <1>2, <2>1, <3>2, <4>1
    <3> QED BY <3>1, <3>2
  <2>4. m + l <= Len(longer) BY <1>1, <2>1
  <2> QED BY <2>2, <2>3, <2>4 DEF TextAt
<1> QED BY <1>5, <1>6, <1>7 DEF n

\* The bytes of two strings that follow each other.
LEMMA TwoParts ==
  ASSUME NEW S, NEW s \in Seq(S), NEW t \in Seq(S)
  PROVE  /\ s \o t \in Seq(S) /\ Len(s \o t) = Len(s) + Len(t)
         /\ \A i \in 1..Len(s) : (s \o t)[i] = s[i]
         /\ \A i \in 1..Len(t) : (s \o t)[Len(s) + i] = t[i]
<1> DEFINE a == Len(s)
           b == Len(t)
           u == s \o t
<1>1. a \in Nat /\ b \in Nat BY LenProperties
<1>2. /\ u \in Seq(S) /\ Len(u) = a + b
      /\ \A i \in 1..(a + b) : u[i] = IF i <= a THEN s[i] ELSE t[i - a]
  BY ConcatProperties, Zenon
<1> HIDE DEF a, b, u
<1>3. \A i \in 1..a : u[i] = s[i] BY <1>1, <1>2
<1>4. ASSUME NEW i \in 1..b PROVE u[a + i] = t[i]
  <2> DEFINE j == a + i
  <2>1. j \in 1..(a + b) /\ ~(j <= a) /\ j - a = i BY <1>1
  <2> HIDE DEF j
  <2> QED BY <1>2, <2>1 DEF j
<1> QED BY <1>2, <1>3, <1>4 DEF a, b, u

\* A body with one field more ends with it and begins with the body.
LEMMA FieldAppended ==
  ASSUME NEW S, NEW body \in Seq(S), NEW sep \in Seq(S), NEW name \in Seq(S),
         NEW text \in Seq(S), "=" \in S, NEW longer,
         longer = body \o (((sep \o name) \o <<"=">>) \o text)
  PROVE  /\ longer \in Seq(S)
         /\ Len(longer) > Len(body)
         /\ \A i \in 1..Len(body) : longer[i] = body[i]
         /\ Len(sep) >= 1 => longer[Len(body) + 1] = sep[1]
         /\ EndsWithField(longer, Len(body) + Len(sep) + 1, name, text)
<1> DEFINE eq == <<"=">>
           a == Len(body)
           p == Len(sep)
           n == Len(name)
           l == Len(text)
           x == sep \o name
           y == x \o eq
           z == y \o text
<1>u. longer = body \o z OBVIOUS
<1>0. \A u \in Seq(S), w \in Seq(S) :
        /\ u \o w \in Seq(S) /\ Len(u \o w) = Len(u) + Len(w)
        /\ \A i \in 1..Len(u) : (u \o w)[i] = u[i]
        /\ \A i \in 1..Len(w) : (u \o w)[Len(u) + i] = w[i]
  BY TwoParts
<1>1. eq \in Seq(S) /\ Len(eq) = 1 /\ eq[1] = "=" OBVIOUS
<1>2. a \in Nat /\ p \in Nat /\ n \in Nat /\ l \in Nat BY LenProperties
<1> HIDE DEF eq
<1>3. /\ x \in Seq(S) /\ Len(x) = p + n
      /\ \A i \in 1..p : x[i] = sep[i]
      /\ \A i \in 1..n : x[p + i] = name[i]
  BY TwoParts
<1> HIDE DEF x
<1>4. /\ y \in Seq(S) /\ Len(y) = p + n + 1
      /\ \A i \in 1..(p + n) : y[i] = x[i]
      /\ y[p + n + 1] = "="
  <2>1. /\ y \in Seq(S) /\ Len(y) = Len(x) + Len(eq)
        /\ \A i \in 1..Len(x) : y[i] = x[i]
        /\ \A i \in 1..Len(eq) : y[Len(x) + i] = eq[i]
    <3>1. x \in Seq(S) BY <1>3
    <3>2. eq \in Seq(S) BY <1>1
    <3> QED BY <1>0, <3>1, <3>2, Zenon
  <2> HIDE DEF y
  <2>2. 1 \in 1..Len(eq) BY <1>1
  <2> QED BY <1>1, <1>2, <1>3, <2>1, <2>2
<1> HIDE DEF y
<1>5. /\ z \in Seq(S) /\ Len(z) = p + n + 1 + l
      /\ \A i \in 1..(p + n + 1) : z[i] = y[i]
      /\ \A i \in 1..l : z[p + n + 1 + i] = text[i]
  <2>1. /\ z \in Seq(S) /\ Len(z) = Len(y) + l
        /\ \A i \in 1..Len(y) : z[i] = y[i]
        /\ \A i \in 1..l : z[Len(y) + i] = text[i]
    <3>1. y \in Seq(S) BY <1>4
    <3> QED BY <1>0, <3>1, Zenon
  <2> HIDE DEF z
  <2> QED BY <1>4, <2>1
<1> HIDE DEF z
<1>6. /\ longer \in Seq(S) /\ Len(longer) = a + (p + n + 1 + l)
      /\ \A i \in 1..a : longer[i] = body[i]
      /\ \A i \in 1..(p + n + 1 + l) : longer[a + i] = z[i]
  <2>1. /\ longer \in Seq(S) /\ Len(longer) = a + Len(z)
        /\ \A i \in 1..a : longer[i] = body[i]
        /\ \A i \in 1..Len(z) : longer[a + i] = z[i]
    <3>1. z \in Seq(S) BY <1>5
    <3>2. /\ body \o z \in Seq(S) /\ Len(body \o z) = a + Len(z)
          /\ \A i \in 1..a : (body \o z)[i] = body[i]
          /\ \A i \in 1..Len(z) : (body \o z)[a + i] = z[i]
      BY <1>0, <3>1, Zenon
    <3> QED BY <1>u, <3>2, Zenon
  <2> QED BY <1>5, <2>1
<1> HIDE DEF a, p, n, l
<1>7. p >= 1 => longer[a + 1] = sep[1]
  <2> SUFFICES ASSUME p >= 1 PROVE longer[a + 1] = sep[1] OBVIOUS
  <2>1. /\ 1 \in 1..p /\ 1 \in 1..(p + n) /\ 1 \in 1..(p + n + 1)
        /\ 1 \in 1..(p + n + 1 + l)
    BY <1>2
  <2>2. longer[a + 1] = z[1] /\ z[1] = y[1] BY <1>5, <1>6, <2>1, Zenon
  <2>3. y[1] = x[1] /\ x[1] = sep[1] BY <1>3, <1>4, <2>1, Zenon
  <2> QED BY <2>2, <2>3
<1> DEFINE k == a + p + 1
<1>8. \A i \in 1..n : longer[k + i - 1] = name[i]
  <2> SUFFICES ASSUME NEW i \in 1..n PROVE longer[k + i - 1] = name[i] OBVIOUS
  <2>1. k + i - 1 = a + (p + i) /\ p + i \in 1..(p + n) BY <1>2
  <2> HIDE DEF k
  <2>2. longer[a + (p + i)] = z[p + i] BY <1>2, <1>6, <2>1
  <2>3. z[p + i] = y[p + i]
    <3>1. p + i \in 1..(p + n + 1) BY <1>2
    <3> QED BY <1>5, <3>1, Zenon
  <2>4. y[p + i] = x[p + i] BY <1>4, <2>1
  <2>5. x[p + i] = name[i] BY <1>3
  <2> QED BY <2>1, <2>2, <2>3, <2>4, <2>5
<1>9. longer[k + n] = "="
  <2>1. k + n = a + (p + n + 1) /\ p + n + 1 \in 1..(p + n + 1) BY <1>2
  <2> HIDE DEF k
  <2>2. longer[a + (p + n + 1)] = z[p + n + 1] BY <1>2, <1>6, <2>1
  <2>3. z[p + n + 1] = y[p + n + 1] BY <1>5, <2>1
  <2> QED BY <1>4, <2>1, <2>2, <2>3
<1>10. \A i \in 1..l : longer[k + n + i] = text[i]
  <2> SUFFICES ASSUME NEW i \in 1..l PROVE longer[k + n + i] = text[i] OBVIOUS
  <2>1. k + n + i = a + (p + n + 1 + i) /\ p + n + 1 + i \in 1..(p + n + 1 + l)
    BY <1>2
  <2> HIDE DEF k
  <2>2. longer[a + (p + n + 1 + i)] = z[p + n + 1 + i] BY <1>6, <2>1
  <2>3. z[p + n + 1 + i] = text[i] BY <1>5
  <2> QED BY <2>1, <2>2, <2>3
<1>11. k + n + l = Len(longer) /\ Len(longer) > a BY <1>2, <1>6
<1>12. EndsWithField(longer, k, name, text)
  BY <1>8, <1>9, <1>10, <1>11 DEF EndsWithField, n, l
<1> QED BY <1>6, <1>7, <1>11, <1>12 DEF a, p, n

FormBytes == Token \union {"%", "&", "="}

\* What is read of a name in what was sent of the first k fields of a form: the
\* value of the first field of that name.
ReadsAs(form, k, body, name) ==
  LET at == {j \in 1..k : form[j].name = name}
  IN  /\ body \in Seq(FormBytes)
      /\ k = 0 <=> body = <<>>
      /\ k # 0 => body[1] # "&"
      /\ at = {} => \A s \in 1..Len(body) : ~FieldAt(body, name, s)
      /\ at # {} =>
           \E j \in at, s \in 1..Len(body) :
             /\ \A i \in at : j <= i
             /\ FieldAt(body, name, s) /\ \A i \in 1..(s - 1) : ~FieldAt(body, name, i)
             /\ \E text \in Encodings(form[j].value) : TextAt(body, s + Len(name), text)

LEMMA NamesInForms ==
  /\ Field \subseteq Names
  /\ \A form \in Forms : /\ form \in Seq([name : Names, value : Seq(Token)])
                         /\ Len(form) \in Nat
                         /\ \A i \in 1..Len(form) :
                              form[i].name \in Names /\ form[i].value \in Seq(Token)
<1> DEFINE F == [name : Names, value : Seq(Token)]
<1>1. Field \subseteq Names /\ Forms \subseteq Seq(F) BY FormsAssumption DEF Names
<1>2. \A f \in F : f.name \in Names /\ f.value \in Seq(Token) OBVIOUS
<1> HIDE DEF F
<1>3. \A form \in Seq(F) : Len(form) \in Nat /\ \A i \in 1..Len(form) : form[i] \in F
  BY LenProperties, ElementOfSeq
<1> QED BY <1>1, <1>2, <1>3 DEF F

LEMMA OneFieldMore ==
  ASSUME NEW form \in Forms, NEW k \in 1..Len(form), NEW body, NEW name \in Names,
         ReadsAs(form, k - 1, body, name),
         NEW text \in Encodings(form[k].value),
         NEW sep, sep = IF k = 1 THEN <<>> ELSE <<"&">>
  PROVE  ReadsAs(form, k, body \o (((sep \o form[k].name) \o <<"=">>) \o text), name)
<1> DEFINE own == form[k].name
           longer == body \o (((sep \o own) \o <<"=">>) \o text)
           n == Len(body)
           start == n + Len(sep) + 1
<1>1. /\ Len(form) \in Nat
      /\ \A i \in 1..Len(form) : form[i].name \in Names /\ form[i].value \in Seq(Token)
  BY NamesInForms
<1>2. own \in Names /\ form[k].value \in Seq(Token) /\ k \in Nat \ {0} BY <1>1
<1> DEFINE A == {j \in 1..(k - 1) : form[j].name = name}
           B == {j \in 1..k : form[j].name = name}
<1>3. /\ body \in Seq(FormBytes)
      /\ k = 1 <=> body = <<>>
      /\ k # 1 => body[1] # "&"
      /\ A = {} => \A s \in 1..n : ~FieldAt(body, name, s)
      /\ A # {} =>
           \E j \in A, s \in 1..n :
             /\ \A i \in A : j <= i
             /\ FieldAt(body, name, s) /\ \A i \in 1..(s - 1) : ~FieldAt(body, name, i)
             /\ \E t \in Encodings(form[j].value) : TextAt(body, s + Len(name), t)
  <2>1. k - 1 = 0 <=> k = 1 BY <1>2
  <2> QED BY <2>1, Zenon DEF ReadsAs
<1>4. text \in Seq(FormBytes) /\ \A i \in 1..Len(text) : text[i] # "&"
  <2> DEFINE S == Token \union {"%"}
  <2>1. text \in Seq(S) /\ \A i \in 1..Len(text) : text[i] # "&"
    BY <1>2, DecodingUndoesEncoding, Zenon DEF Texts
  <2>2. S \subseteq FormBytes BY DEF FormBytes
  <2> HIDE DEF S
  <2> QED BY <2>1, <2>2, SeqMonotonic
<1>5. own \in Seq(FormBytes) /\ \A i \in 1..Len(own) : own[i] # "&"
  <2>1. own \in Seq(Token) /\ \A i \in 1..Len(own) : own[i] # "&" BY <1>2, NameBytes
  <2>2. Token \subseteq FormBytes BY DEF FormBytes
  <2> QED BY <2>1, <2>2, SeqMonotonic
<1>6. sep \in Seq(FormBytes) /\ "=" \in FormBytes
  <2>1. "&" \in FormBytes /\ "=" \in FormBytes BY DEF FormBytes
  <2>2. <<"&">> \in Seq(FormBytes) /\ <<>> \in Seq(FormBytes) BY <2>1
  <2> QED BY <2>1, <2>2
<1>7. /\ k = 1 => Len(sep) = 0
      /\ k # 1 => Len(sep) = 1 /\ sep[1] = "&"
  OBVIOUS
<1>8. /\ longer \in Seq(FormBytes)
      /\ Len(longer) > n
      /\ \A i \in 1..n : longer[i] = body[i]
      /\ Len(sep) >= 1 => longer[n + 1] = sep[1]
      /\ EndsWithField(longer, start, own, text)
  <2>1. longer = body \o (((sep \o own) \o <<"=">>) \o text) OBVIOUS
  <2> HIDE DEF own, longer, n, start
  <2>2. body \in Seq(FormBytes) BY <1>3
  <2>3. text \in Seq(FormBytes) /\ own \in Seq(FormBytes) BY <1>4, <1>5
  <2> HIDE DEF FormBytes
  <2>4. /\ longer \in Seq(FormBytes)
        /\ Len(longer) > Len(body)
        /\ \A i \in 1..Len(body) : longer[i] = body[i]
    BY <1>6, <2>1, <2>2, <2>3, FieldAppended, SMT
  <2>6. EndsWithField(longer, Len(body) + Len(sep) + 1, own, text)
    <3>1. sep \in Seq(FormBytes) /\ "=" \in FormBytes BY <1>6
    <3>2. own \in Seq(FormBytes) BY <2>3
    <3>3. text \in Seq(FormBytes) BY <2>3
    <3> QED BY <2>1, <2>2, <3>1, <3>2, <3>3, FieldAppended, Zenon
  <2>5. Len(sep) >= 1 => longer[Len(body) + 1] = sep[1]
    BY <1>6, <2>1, <2>2, <2>3, FieldAppended, SMT
  <2> QED BY <2>4, <2>5, <2>6 DEF n, start
<1>9. n \in Nat /\ Len(longer) \in Nat
  <2> HIDE DEF longer
  <2> QED BY <1>3, <1>8, LenProperties
<1> HIDE DEF own, longer, n, A, B
<1>10. start \in Nat \ {0} /\ start = IF k = 1 THEN n + 1 ELSE n + 2
  BY <1>7, <1>9
<1>11. k = 1 <=> n = 0
  BY <1>3, EmptySeq DEF n
<1>12. k # 1 => longer[n + 1] = "&"
  <2> SUFFICES ASSUME k # 1 PROVE longer[n + 1] = "&" OBVIOUS
  <2>1. Len(sep) >= 1 BY <1>7
  <2> QED BY <1>7, <1>8, <2>1
<1>13. start = 1 \/ longer[start - 1] = "&"
  <2>1. CASE k = 1 BY <1>10, <1>11, <2>1
  <2>2. CASE k # 1
    <3>1. start - 1 = n + 1 BY <1>9, <1>10, <2>2
    <3> QED BY <1>12, <2>2, <3>1
  <2> QED BY <2>1, <2>2
<1> HIDE DEF start
<1>14. /\ \A s \in Nat : s >= start => (FieldAt(longer, name, s) <=> s = start /\ name = own)
       /\ TextAt(longer, start + Len(own), text)
  <2>1. ASSUME NEW s \in Nat, s >= start
        PROVE  /\ FieldAt(longer, name, s) <=> s = start /\ name = own
               /\ TextAt(longer, start + Len(own), text)
    <3>1. longer \in Seq(FormBytes) /\ text \in Seq(FormBytes) BY <1>4, <1>8
    <3>2. \A i \in 1..Len(text) : text[i] # "&" BY <1>4
    <3>3. start \in Nat \ {0} /\ own \in Names BY <1>2, <1>10
    <3>4. EndsWithField(longer, start, own, text) BY <1>8
    <3> HIDE DEF FormBytes
    <3> QED BY <1>13, <2>1, <3>1, <3>2, <3>3, <3>4, FieldAtEnd
  <2>2. start \in Nat /\ start >= start BY <1>10
  <2> QED BY <2>1, <2>2
<1>15. k # 1 =>
         /\ \A s \in 1..n : FieldAt(longer, name, s) <=> FieldAt(body, name, s)
         /\ ~FieldAt(longer, name, n + 1)
         /\ \A m \in Nat, t \in Seq(FormBytes) : TextAt(body, m, t) => TextAt(longer, m, t)
  <2> SUFFICES ASSUME k # 1
               PROVE  /\ \A s \in 1..n : FieldAt(longer, name, s) <=> FieldAt(body, name, s)
                      /\ ~FieldAt(longer, name, n + 1)
                      /\ \A m \in Nat, t \in Seq(FormBytes) :
                           TextAt(body, m, t) => TextAt(longer, m, t)
    OBVIOUS
  <2>1. Len(body) < Len(longer) BY <1>8, <1>9 DEF n
  <2>2. \A i \in 1..Len(body) : longer[i] = body[i] BY <1>8 DEF n
  <2>3. longer[Len(body) + 1] = "&" BY <1>12 DEF n
  <2>4. body \in Seq(FormBytes) /\ longer \in Seq(FormBytes) BY <1>3, <1>8
  <2> HIDE DEF FormBytes
  <2> QED BY <2>1, <2>2, <2>3, <2>4, FieldsBefore, Zenon DEF n
<1>16. longer # <<>> /\ longer[1] # "&"
  <2>1. longer # <<>> BY <1>8, <1>9
  <2>2. CASE k = 1
    <3>1. start = 1 BY <1>10, <1>11, <2>2
    <3>2. /\ \A i \in 1..Len(own) : longer[1 + i - 1] = own[i]
          /\ longer[1 + Len(own)] = "="
      BY <1>8, <3>1 DEF EndsWithField
    <3>3. Len(own) \in Nat BY <1>5, LenProperties
    <3>4. CASE Len(own) = 0 BY <2>1, <3>2, <3>4
    <3>5. CASE Len(own) # 0
      <4>1. 1 \in 1..Len(own) /\ 1 + 1 - 1 = 1 BY <3>3, <3>5
      <4>2. longer[1] = own[1] BY <3>2, <4>1
      <4> QED BY <1>5, <2>1, <4>1, <4>2
    <3> QED BY <3>4, <3>5
  <2>3. CASE k # 1
    <3>1. 1 \in 1..n BY <1>9, <1>11, <2>3
    <3> QED BY <1>3, <1>8, <2>1, <2>3, <3>1
  <2> QED BY <2>2, <2>3
<1>17. B = IF own = name THEN A \union {k} ELSE A
  BY <1>2 DEF A, B, own
<1>18. \A s \in 1..Len(longer) : s \in 1..n \/ (k # 1 /\ s = n + 1) \/ s >= start
  BY <1>9, <1>10
<1>19. \A s \in 1..n : FieldAt(longer, name, s) <=> FieldAt(body, name, s)
  <2>1. CASE k = 1
    <3>1. 1..n = {} BY <1>11, <2>1
    <3> QED BY <3>1
  <2>2. CASE k # 1 BY <1>15, <2>2
  <2> QED BY <2>1, <2>2
<1>20. CASE A # {}
  <2>1. PICK j \in A, s \in 1..n :
          /\ \A i \in A : j <= i
          /\ FieldAt(body, name, s) /\ \A i \in 1..(s - 1) : ~FieldAt(body, name, i)
          /\ \E t \in Encodings(form[j].value) : TextAt(body, s + Len(name), t)
    BY <1>3, <1>20, Zenon
  <2>2. PICK t \in Encodings(form[j].value) : TextAt(body, s + Len(name), t) BY <2>1
  <2>3. j \in B /\ \A i \in B : j <= i
    <3>1. j \in 1..(k - 1) BY DEF A
    <3>2. j <= k BY <1>2, <3>1
    <3> QED BY <1>17, <2>1, <3>2
  <2>4. s \in 1..Len(longer) BY <1>8, <1>9
  <2>5. FieldAt(longer, name, s) /\ \A i \in 1..(s - 1) : ~FieldAt(longer, name, i)
    <3>1. \A i \in 1..(s - 1) : i \in 1..n BY <1>9
    <3> QED BY <1>19, <2>1, <3>1
  <2>6. TextAt(longer, s + Len(name), t)
    <3>1. k # 1
      <4>1. n # 0 BY <1>9
      <4> QED BY <1>11, <4>1
    <3>2. s + Len(name) \in Nat
      <4>1. Len(name) \in Nat BY NameBytes
      <4> QED BY <1>9, <4>1
    <3>3. t \in Seq(FormBytes)
      <4>1. j \in 1..Len(form) BY <1>1, <1>2 DEF A
      <4>2. form[j].value \in Seq(Token) BY <1>1, <4>1
      <4> DEFINE S == Token \union {"%"}
      <4>3. t \in Seq(S) BY <4>2, DecodingUndoesEncoding, Zenon DEF Texts
      <4>4. S \subseteq FormBytes BY DEF FormBytes
      <4> HIDE DEF S
      <4> QED BY <4>3, <4>4, SeqMonotonic
    <3> QED BY <1>15, <2>2, <3>1, <3>2, <3>3, Zenon
  <2>7. B # {} BY <2>3
  <2>8. \E i \in B, r \in 1..Len(longer) :
           /\ \A h \in B : i <= h
           /\ FieldAt(longer, name, r) /\ \A h \in 1..(r - 1) : ~FieldAt(longer, name, h)
           /\ \E u \in Encodings(form[i].value) : TextAt(longer, r + Len(name), u)
    BY <2>3, <2>4, <2>5, <2>6, Zenon
  <2> QED BY <1>2, <1>8, <1>16, <2>7, <2>8, Zenon DEF ReadsAs, B, longer, own
<1>21. CASE A = {} /\ own = name
  <2>1. B = {k} BY <1>17, <1>21
  <2>2. start \in 1..Len(longer)
    <3>1. start + Len(own) + Len(text) = Len(longer) BY <1>8 DEF EndsWithField
    <3>2. Len(own) \in Nat /\ Len(text) \in Nat BY <1>4, <1>5, LenProperties
    <3> QED BY <1>9, <1>10, <3>1, <3>2
  <2>3. FieldAt(longer, name, start)
    <3>1. start \in Nat /\ start >= start BY <1>10
    <3> QED BY <1>14, <1>21, <3>1
  <2>4. ASSUME NEW i \in 1..(start - 1) PROVE ~FieldAt(longer, name, i)
    <3>1. i \in 1..n \/ (k # 1 /\ i = n + 1) BY <1>9, <1>10
    <3>2. i \in 1..n => ~FieldAt(longer, name, i) BY <1>3, <1>19, <1>21
    <3> QED BY <1>15, <3>1, <3>2
  <2>5. TextAt(longer, start + Len(name), text) BY <1>14, <1>21
  <2>6. k \in B /\ \A i \in B : k <= i BY <1>2, <2>1
  <2>7. \E i \in B, r \in 1..Len(longer) :
           /\ \A h \in B : i <= h
           /\ FieldAt(longer, name, r) /\ \A h \in 1..(r - 1) : ~FieldAt(longer, name, h)
           /\ \E u \in Encodings(form[i].value) : TextAt(longer, r + Len(name), u)
    BY <2>2, <2>3, <2>4, <2>5, <2>6, Zenon
  <2>8. B # {} BY <2>1
  <2> QED BY <1>2, <1>8, <1>16, <2>7, <2>8, Zenon DEF ReadsAs, B, longer, own
<1>22. CASE A = {} /\ own # name
  <2>1. B = {} BY <1>17, <1>22
  <2>2. ASSUME NEW s \in 1..Len(longer) PROVE ~FieldAt(longer, name, s)
    <3>1. CASE s \in 1..n BY <1>3, <1>19, <1>22, <3>1
    <3>2. CASE k # 1 /\ s = n + 1 BY <1>15, <3>2
    <3>3. CASE s >= start BY <1>14, <1>22, <3>3
    <3> QED BY <1>18, <3>1, <3>2, <3>3
  <2> QED BY <1>2, <1>8, <1>16, <2>1, <2>2, Zenon DEF ReadsAs, B, longer, own
<1> QED BY <1>20, <1>21, <1>22

\* So however a form is sent, each name is read in it as it was filled in.
LEMMA BodyReadsAs ==
  ASSUME NEW form \in Forms, NEW body \in Bodies(form), NEW name \in Names
  PROVE  ReadsAs(form, Len(form), body, name)
<1> DEFINE n == Len(form)
           Sep(i) == IF i = 1 THEN <<>> ELSE <<"&">>
           sets == [i \in 1..n |-> Fields(form[i].name, form[i].value, Sep(i))]
<1>1. n \in Nat BY NamesInForms
<1>2. Len(sets) = n /\ \A i \in 1..n : sets[i] = Fields(form[i].name, form[i].value, Sep(i))
  BY <1>1
<1>3. Bodies(form) = Concatenations(sets) BY DEF Bodies
<1> HIDE DEF sets
<1>4. PICK first :
        /\ Concatenations(sets) = first[n]
        /\ first[0] = {<<>>}
        /\ \A i \in 1..n : first[i] = Joined(first[i - 1], sets[i])
  <2>1. Len(sets) = n /\ Len(sets) \in Nat BY <1>1, <1>2
  <2> HIDE DEF n
  <2>2. \E first :
          /\ Concatenations(sets) = first[Len(sets)]
          /\ first[0] = {<<>>}
          /\ \A i \in 1..Len(sets) : first[i] = Joined(first[i - 1], sets[i])
    BY <2>1, Concatenated
  <2> QED BY <2>1, <2>2
<1> DEFINE T == {k \in 0..n : ~\A b \in first[k] : ReadsAs(form, k, b, name)}
<1>5. ASSUME T # {} PROVE FALSE
  <2>1. T \subseteq Nat /\ T \subseteq 0..n OBVIOUS
  <2>2. PICK k \in T : \A j \in T : k <= j
    <3> HIDE DEF T
    <3> QED BY <1>5, <2>1, Smallest
  <2>3. PICK b \in first[k] : ~ReadsAs(form, k, b, name) BY <2>2
  <2>4. CASE k = 0
    <3>1. b = <<>> BY <1>4, <2>3, <2>4
    <3>2. 1..0 = {} /\ Len(b) = 0 /\ b \in Seq(FormBytes) BY <3>1
    <3>3. ReadsAs(form, 0, b, name) BY <3>1, <3>2 DEF ReadsAs
    <3> QED BY <2>3, <2>4, <3>3
  <2>5. CASE k # 0
    <3>1. k \in 1..n /\ k - 1 \in 0..n /\ k - 1 \notin T
      <4> HIDE DEF T
      <4> QED BY <1>1, <2>1, <2>2, <2>5
    <3>2. PICK s \in first[k - 1], t \in Fields(form[k].name, form[k].value, Sep(k)) :
            b = s \o t
      <4> DEFINE A == first[k - 1]
                 B == Fields(form[k].name, form[k].value, Sep(k))
      <4>1. first[k] = Joined(A, B) BY <1>2, <1>4, <3>1
      <4> HIDE DEF A, B
      <4>2. b \in Joined(A, B) BY <2>3, <4>1
      <4>3. \E s \in A, t \in B : b = s \o t BY <4>2, JoinedParts
      <4> QED BY <4>3 DEF A, B
    <3>3. PICK text \in Encodings(form[k].value) :
            t = ((Sep(k) \o form[k].name) \o <<"=">>) \o text
      BY <3>2 DEF Fields
    <3>4. ReadsAs(form, k - 1, s, name) BY <3>1, <3>2
    <3> DEFINE sep == Sep(k)
    <3>5. b = s \o (((sep \o form[k].name) \o <<"=">>) \o text) BY <3>2, <3>3
    <3>6. sep = IF k = 1 THEN <<>> ELSE <<"&">> OBVIOUS
    <3> HIDE DEF sep
    <3>7. ReadsAs(form, k, s \o (((sep \o form[k].name) \o <<"=">>) \o text), name)
      BY <3>1, <3>4, <3>6, OneFieldMore
    <3> QED BY <2>3, <3>5, <3>7
  <2> QED BY <2>4, <2>5
<1>6. n \in 0..n BY <1>1
<1> QED BY <1>3, <1>4, <1>5, <1>6

\* arg() reads of every form that was sent what was filled in, in any encoding.
THEOREM FormIsRead ==
  \A form \in Forms, name \in Field : \A body \in Bodies(form) :
    body \in Seq(Token) => Arg(body, name) = Filled(form, name)
<1> SUFFICES ASSUME NEW form \in Forms, NEW name \in Field, NEW body \in Bodies(form),
                    body \in Seq(Token)
             PROVE  Arg(body, name) = Filled(form, name)
  BY Zenon
<1> DEFINE n == Len(form)
           at == {j \in 1..n : form[j].name = name}
           fields == {s \in 1..Len(body) : FieldAt(body, name, s)}
<1>1. name \in Names /\ name \in Seq(Token) /\ Len(name) \in Nat
  BY NamesInForms, NameBytes
<1>2. /\ form \in Seq([name : Names, value : Seq(Token)]) /\ n \in Nat
      /\ \A i \in 1..n : form[i].name \in Names /\ form[i].value \in Seq(Token)
  BY NamesInForms
<1>3. DOMAIN form = 1..n BY <1>2, LenProperties
<1>4. ReadsAs(form, n, body, name) BY <1>1, BodyReadsAs
<1>5. /\ body # <<>> => body[1] # "&"
      /\ at = {} => \A s \in 1..Len(body) : ~FieldAt(body, name, s)
      /\ at # {} =>
           \E j \in at, s \in 1..Len(body) :
             /\ \A i \in at : j <= i
             /\ FieldAt(body, name, s) /\ \A i \in 1..(s - 1) : ~FieldAt(body, name, i)
             /\ \E text \in Encodings(form[j].value) : TextAt(body, s + Len(name), text)
  BY <1>4, Zenon DEF ReadsAs
<1>6. /\ fields = {} => Arg(body, name) = None
      /\ \A s \in fields : (\A j \in fields : s <= j) =>
           Arg(body, name) = PercentDecode(UpToAmpersand(Drop(body, s + Len(name))))
  BY <1>1, <1>5, FirstFieldIsRead
<1>7. Filled(form, name) = IF at = {} THEN None
                           ELSE form[CHOOSE i \in at : \A j \in at : i <= j].value
  BY <1>3 DEF Filled
<1>8. Len(body) \in Nat BY LenProperties
<1>9. CASE at = {}
  <2>1. fields = {} BY <1>5, <1>9
  <2> QED BY <1>6, <1>7, <1>9, <2>1
<1>10. CASE at # {}
  <2>1. PICK j \in at, s \in 1..Len(body) :
          /\ \A i \in at : j <= i
          /\ FieldAt(body, name, s) /\ \A i \in 1..(s - 1) : ~FieldAt(body, name, i)
          /\ \E text \in Encodings(form[j].value) : TextAt(body, s + Len(name), text)
    BY <1>5, <1>10, Zenon
  <2>2. PICK text \in Encodings(form[j].value) : TextAt(body, s + Len(name), text)
    BY <2>1
  <2>3. (CHOOSE i \in at : \A h \in at : i <= h) = j
    <3>1. at \subseteq Nat OBVIOUS
    <3> HIDE DEF at
    <3> DEFINE m == CHOOSE i \in at : \A h \in at : i <= h
    <3>2. m \in at /\ \A h \in at : m <= h BY <2>1
    <3> HIDE DEF m
    <3>3. m = j BY <2>1, <3>1, <3>2
    <3> QED BY <3>3 DEF m
  <2>4. Filled(form, name) = form[j].value BY <1>7, <1>10, <2>3, Zenon
  <2>5. form[j].value \in Seq(Token) BY <1>2
  <2>6. /\ text \in Texts /\ \A i \in 1..Len(text) : text[i] # "&"
        /\ PercentDecode(text) = form[j].value
    BY <2>5, DecodingUndoesEncoding, Zenon
  <2>7. s \in fields /\ \A i \in fields : s <= i
    <3>1. ASSUME NEW i \in fields PROVE s <= i
      <4>1. i \in 1..Len(body) /\ FieldAt(body, name, i) OBVIOUS
      <4>2. i \notin 1..(s - 1) BY <2>1, <4>1
      <4> QED BY <1>8, <4>1, <4>2
    <3> QED BY <2>1, <3>1
  <2>8. Arg(body, name) = PercentDecode(UpToAmpersand(Drop(body, s + Len(name))))
    <3> HIDE DEF fields
    <3> QED BY <1>6, <2>7, Zenon
  <2>9. UpToAmpersand(Drop(body, s + Len(name))) = text
    <3>1. s + Len(name) \in Nat BY <1>1, <1>8
    <3>2. body \in Seq(FormBytes) BY <1>4 DEF ReadsAs
    <3>3. text \in Seq(FormBytes)
      <4> DEFINE S == Token \union {"%"}
      <4>1. text \in Seq(S) BY <2>6 DEF Texts
      <4>2. S \subseteq FormBytes BY DEF FormBytes
      <4> HIDE DEF S
      <4> QED BY <4>1, <4>2, SeqMonotonic
    <3> HIDE DEF FormBytes
    <3> QED BY <2>2, <2>6, <3>1, <3>2, <3>3, TextIsRead, Zenon
  <2> QED BY <2>4, <2>6, <2>8, <2>9
<1> QED BY <1>9, <1>10

\* A handler reads the payload that it was shown with the path.
HandlerGiven ==
  pc = "handler" /\ currentClient # None =>
    served[currentClient].payload = currentPayload

LEMMA GivenNext ==
  ServerInv /\ ParserInv /\ HandlerGiven /\ [Next]_vars => HandlerGiven'
<1> SUFFICES ASSUME ServerInv, ParserInv, HandlerGiven, [Next]_vars,
                    pc' = "handler", currentClient' # None
             PROVE  served'[currentClient'].payload = currentPayload'
  BY Zenon DEF HandlerGiven
<1>1. CASE Dispatch
  <2>1. currentPayload' = currentPayload \o buff /\ UNCHANGED currentClient
    BY <1>1, Zenon DEF Dispatch
  <2>2. pc = "headers" /\ served'[currentClient].payload = buff /\ buff \in Seq(Bytes)
    BY <1>1, Dispatches, BeingRead
  <2>3. currentPayload = <<>> BY <2>2 DEF ParserInv, ParserReset
  <2>4. <<>> \o buff = buff BY <2>2, ConcatEmptySeq
  <2> QED BY <2>1, <2>2, <2>3, <2>4
<1>2. CASE ~Dispatch
  <2>1. UNCHANGED served BY <1>2, ServedKept
  <2>2. pc = "handler" /\ UNCHANGED <<currentClient, currentPayload>>
    <3>1. CASE Lifecycle \/ UNCHANGED vars
      BY <3>1, Zenon DEF Lifecycle, BeginDies, BeginAgain, BeginFirst, BeginFails,
         BeginBindFails, Close, OnNotFound, On, vars, connVars, Panic
    <3>2. CASE \/ HandleClientUnbegun \/ HandleClientReentered
               \/ \E c \in Client : Connect(c) \/ Accept(c)
      <4>1. ~HandleClientUnbegun /\ ~HandleClientReentered
        BY Zenon DEF HandleClientUnbegun, HandleClientReentered, Panic
      <4>2. \A c \in Client : ~Accept(c) BY Zenon DEF Accept
      <4>3. PICK c \in Client : Connect(c) BY <3>2, <4>1, <4>2
      <4>4. UNCHANGED <<pc, currentClient, currentPayload>> BY <4>3, Zenon DEF Connect
      <4> QED BY <4>4
    <3>3. CASE Parse /\ ~Dispatch
      BY <3>3, Zenon DEF Parse, ReadError, ReadEmpty, ReadUnknownMethod, ReadNoFirstLine,
         ReadFirstLine, HeaderBroken, HeaderLast, HeaderSkipped, InHeaders, Return, Panic
    <3>4. CASE Handler
      BY <3>4, Zenon DEF Handler, SendHeader, SetContentLength, HandlerReset, Reset,
         Send, SendData, SendPanics, HandlerReturns, DefaultNotFound, Return, Panic,
         connVars
    <3> QED BY <1>2, <3>1, <3>2, <3>3, <3>4, Zenon DEF Next
  <2> QED BY <2>1, <2>2, Zenon DEF HandlerGiven
<1> QED BY <1>1, <1>2

\* A handler is given what was filled in of each field that it asks for, by the
\* first field of that name, however the form was encoded and cut.
THEOREM ArgsCorrect == Spec => []ArgsAsFilled
<1>1. Init => HandlerGiven BY DEF Init, HandlerGiven
<1>2. Spec => []HandlerGiven
  BY <1>1, GivenNext, ServerInvariant, ParserInvariant, PTL DEF Spec
<1>3. ServerInv /\ PayloadAsSent /\ HandlerGiven => ArgsAsFilled
  <2> SUFFICES ASSUME ServerInv, PayloadAsSent, HandlerGiven,
                      NEW c \in Client, NEW form \in Forms,
                      pc = "handler", currentClient = c, left[c] = <<>>,
                      HasHeader(request[c]), RequestBody(request[c]) \in Bodies(form),
                      NEW name \in Field
               PROVE  Arg(currentPayload, name) = Filled(form, name)
    BY Zenon DEF ArgsAsFilled
  <2>1. c # None BY NoneAssumption
  <2>2. served[c] # None /\ served[c].payload = currentPayload
    BY <2>1, Zenon DEF ServerInv, Serving, HandlerGiven
  <2>3. currentPayload = RequestBody(request[c]) BY <2>2, Zenon DEF PayloadAsSent
  <2>4. currentPayload \in Seq(Token) BY DEF ServerInv, TypeOK, ConnectionTypeOK
  <2> QED BY <2>3, <2>4, FormIsRead, Zenon
<1> QED BY <1>2, <1>3, ServerInvariant, PayloadCorrect, PTL
=============================================================================
