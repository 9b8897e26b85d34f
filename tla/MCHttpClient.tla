---------------------------- MODULE MCHttpClient ----------------------------
(***************************************************************************)
(* A small instance of HttpClient: a response with a collected header sent *)
(* twice and a body that holds line ends and a line that looks like the    *)
(* header, one without headers, one whose body starts with a line end,     *)
(* one without a reason phrase, one without a code, one that is no HTTP.   *)
(***************************************************************************)
EXTENDS HttpClient, TLC

Line(tokens) == tokens \o CRLF
StatusOf(code) == Line(<<"HTTP/1.1 ", code, " reason">>)

Updating == StatusOf("200") \o Line(<<"latest_version: 1">>)
  \o Line(<<"other: x">>) \o Line(<<"latest_version: 2">>)
  \o CRLF \o Line(<<"x">>) \o Line(<<"latest_version: 2">>) \o CRLF \o <<"y">>
Headerless == StatusOf("500") \o CRLF \o <<"x">>
BlankBody == StatusOf("200") \o Line(<<"other: x">>) \o CRLF \o CRLF \o <<"y">>
NoReason == Line(<<"HTTP/1.1 ", "200">>) \o CRLF \o <<"x">>
NoReasonHeader == Line(<<"HTTP/1.1 ", "200">>) \o Line(<<"other: x">>) \o CRLF
NoCode == StatusOf("abc") \o CRLF
NoHttp == Line(<<"junk">>) \o <<"x">>
Nothing == StatusOf("404")

MCResponses == {Updating, Headerless, BlankBody, NoReason, NoReasonHeader,
                NoCode, NoHttp, Nothing}
OneResponse == {Headerless}

Tokens == {"HTTP/1.1 ", "200", "404", "500", "abc", " reason",
           "latest_version: 1", "latest_version: 2", "other: x", "junk",
           "x", "y", "CR", "LF"}

MCAtoi == [t \in Tokens |->
  IF t = "200" THEN 200 ELSE IF t = "404" THEN 404
  ELSE IF t = "500" THEN 500 ELSE 0]
MCSpaced == {" reason", "latest_version: 1", "latest_version: 2", "other: x"}
MCKeysOf == [t \in Tokens |->
  IF t \in {"latest_version: 1", "latest_version: 2"} THEN {"latest_version"}
  ELSE {}]
MCValueOf == [t \in Tokens |->
  IF t = "latest_version: 1" THEN "1" ELSE IF t = "latest_version: 2" THEN "2"
  ELSE ""]
MCGarbled == {0, 200}

\* No port, no path, a path of two parts, a port of 5 digits that is cut to 80,
\* one that is cut to 0, one that is none, a host unknown; colons and a scheme
\* in the path, with and without a port in front.
MCDigit == [d \in {"0", "1", "3", "5", "6", "8"} |->
  CASE d = "0" -> 0 [] d = "1" -> 1 [] d = "3" -> 3 [] d = "5" -> 5 [] d = "6" -> 6 [] d = "8" -> 8]
MCChar == {":", "/", "a", "b", "h", "i"} \union DOMAIN MCDigit
Uri(https, host, port, path) == [tls |-> https, host |-> host, port |-> port, path |-> path]
Unsent == {
  Uri(FALSE, <<"h", "i">>, <<"6", "5", "5", "3", "6">>, <<"/">>),
  Uri(FALSE, <<"h", "i">>, <<"a">>, <<"/">>),
  Uri(FALSE, <<"a">>, <<>>, <<"/">>),
  Uri(TRUE, <<"h", "i">>, <<>>, <<"/", "a", ":", "8">>),
  Uri(FALSE, <<"h", "i">>, <<>>, <<"/", "a", ":", "/", "/", "h", "/", "b">>) }
MCUris == Unsent \union {
  Uri(FALSE, <<"h", "i">>, <<>>, <<>>),
  Uri(TRUE, <<"h", "i">>, <<>>, <<"/", "a", "/", "b">>),
  Uri(FALSE, <<"h", "i">>, <<"8", "0", "8", "0">>, <<"/", "a", ":", "8">>),
  Uri(FALSE, <<"h", "i">>, <<"6", "5", "6", "1", "6">>, <<"/">>),
  Uri(FALSE, <<"h", "i">>, <<"8", "0">>, <<"/", "a", ":", "/", "/", "h", "/", "b">>) }
OneUri == {Uri(FALSE, <<"h", "i">>, <<>>, <<>>)}
MCHosts == {<<"h", "i">>}
MCCollects == {{}, {"latest_version"}}
=============================================================================
