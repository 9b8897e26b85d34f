------------------------------ MODULE HttpUri ------------------------------
(***************************************************************************)
(* What HTTPClient::begin() and Session::sendRequest() take from a URI     *)
(* (src/src/openssl/client.hpp): whether TLS is used, the host and the     *)
(* port to connect to, the path to ask for. Here a token is a character.   *)
(***************************************************************************)
EXTENDS ByteStreams

CONSTANTS
  Char,
  Digit   \* the value of each digit

Name == Seq(Char \ {":", "/"})

ASSUME DigitAssumption ==
  Digit \in [DOMAIN Digit -> 0..9] /\ {":", "/"} \intersect DOMAIN Digit = {}

\* What a caller means: whether https:// is in front, which host, what stands for
\* the port or nothing, and what follows, which is nothing or starts with "/".
UriType ==
  {u \in [tls : BOOLEAN, host : Name, port : Name, path : Seq(Char)] :
     u.path = <<>> \/ u.path[1] = "/"}

\* begin() goes on with the text behind http:// or https://.
Rest(uri) ==
  uri.host \o (IF uri.port = <<>> THEN <<>> ELSE <<":">> \o uri.port) \o uri.path

Number(digits) ==
  LET value[i \in 0..Len(digits)] ==
        IF i = 0 THEN 0 ELSE 10 * value[i - 1] + Digit[digits[i]]
  IN  value[Len(digits)]

\* strtoul() reads digits as long as there are any, 0 for none.
LeadingDigits(text) ==
  LET others == {i \in 1..Len(text) : text[i] \notin DOMAIN Digit}
  IN  IF others = {} THEN text
      ELSE Take(text, (CHOOSE i \in others : \A j \in others : i <= j) - 1)

\* What a uint16_t holds, and what it keeps of a number.
Port == 0..65535
Uint16(number) == number % 65536

DefaultPort(uri) == IF uri.tls THEN 443 ELSE 80

\* The first colon is taken for the port's, wherever it is; 16 bits are kept.
PortOf(uri) ==
  LET rest == Rest(uri)
  IN  IF ~Contains(rest, <<":">>) THEN DefaultPort(uri)
      ELSE Uint16(Number(LeadingDigits(Drop(rest, Find(rest, <<":">>)))))

HostOf(uri) ==
  LET rest == Rest(uri)
  IN  IF Contains(rest, <<":">>) THEN Take(rest, Find(rest, <<":">>) - 1)
      ELSE IF Contains(rest, <<"/">>) THEN Take(rest, Find(rest, <<"/">>) - 1)
      ELSE rest

Scheme == <<":", "/", "/">>
\* sendRequest() looks for a scheme once more, of which nothing is left.
AfterScheme(rest) ==
  IF Contains(rest, Scheme) THEN Drop(rest, Find(rest, Scheme) + 2) ELSE rest

PathWithoutSlash(uri) ==      \* mutant: off by one
  LET rest == Rest(uri)
      slash == Find(AfterScheme(rest), <<"/">>)
  IN  IF slash = 0 THEN <<"/">> ELSE Drop(rest, slash)

\* The slash is counted from behind a scheme, the path cut from the beginning.
PathOf(uri) ==
  LET rest == Rest(uri)
      slash == Find(AfterScheme(rest), <<"/">>)
  IN  IF slash = 0 THEN <<"/">> ELSE Drop(rest, slash - 1)
=============================================================================
