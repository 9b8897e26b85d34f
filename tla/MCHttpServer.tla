---------------------------- MODULE MCHttpServer ----------------------------
(***************************************************************************)
(* A small instance of HttpServer: requests with and without headers, with *)
(* and without a body, one whose body looks like headers, one whose header *)
(* names another method, one with a method the server does not know; forms *)
(* with a name within another and within a value, and a name twice.        *)
(***************************************************************************)
EXTENDS HttpForm, TLC

Get == <<"GET", "/a">> \o CRLF \o <<"h">> \o CRLF \o CRLF
Post == <<"POST", "/b">> \o CRLF \o <<"h">> \o CRLF \o CRLF \o <<"x">> \o CRLF \o <<"y">>
PostBare == <<"POST", "/a">> \o CRLF \o CRLF \o <<"x">>
Options == <<"OPTIONS", "/c">> \o CRLF \o <<"h">> \o CRLF \o <<"h">> \o CRLF \o CRLF
GetCrossed == <<"GET", "/a">> \o CRLF \o <<"POST">> \o CRLF \o CRLF
Put == <<"PUT", "/a">> \o CRLF \o <<"h">> \o CRLF \o CRLF

MCHex == "1" :> 1 @@ "2" :> 2 @@ "4" :> 4 @@ "6" :> 6
MCByte == [n \in 0..255 |->
  CASE n = 38 -> "&" [] n = 49 -> "1" [] n = 61 -> "=" [] n = 65 -> "A" [] n = 97 -> "a"
    [] n = 98 -> "b" [] OTHER -> "?"]
MCField == {<<"a">>, <<"b">>, <<"b", "a">>}
MCForms == {
  << [name |-> <<"b", "a">>, value |-> <<"&", "1">>], [name |-> <<"a">>, value |-> <<"A">>] >>,
  << [name |-> <<"b">>, value |-> <<"a", "=", "1">>], [name |-> <<"a">>, value |-> <<>>],
     [name |-> <<"a">>, value |-> <<"1">>] >> }
Form == {<<"POST", "/b">> \o CRLF \o <<"h">> \o CRLF \o CRLF \o body :
           body \in UNION {Bodies(form) : form \in MCForms}}

Tokens == {"GET", "POST", "OPTIONS", "PUT", "/a", "/b", "/c", "h", "x", "y",
           "CR", "LF", "a", "b", "&", "=", "%", "?", "A"} \union DOMAIN MCHex

AllRequests == {Get, Post, PostBare, Options, GetCrossed, Put} \union Form
ShortRequests == {Get, PostBare}
=============================================================================
