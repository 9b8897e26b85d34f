------------------------------ MODULE HttpForm ------------------------------
(***************************************************************************)
(* What a route handler reads from a form (src/src/posix/server.hpp):      *)
(* HttpConnection::arg() finds a field in the payload of the request and   *)
(* percentDecode() undoes the escapes of its value. Both only read, so     *)
(* that they are functions of the state of HttpServer. In the payload of a *)
(* form each token is a byte.                                              *)
(***************************************************************************)
EXTENDS HttpServer

CONSTANTS
  Field,  \* the names handlers ask for
  Hex,    \* the value of each hexadecimal digit, as tbl has it
  Byte,   \* the token of each byte
  Forms   \* what peers fill in: sequences of fields, each a name and a value

ASSUME HexAssumption ==
  /\ DOMAIN Hex \subseteq Token /\ Hex \in [DOMAIN Hex -> 0..15]
  /\ {"&", "%", "=", "NUL"} \intersect DOMAIN Hex = {}
  /\ Byte \in [0..255 -> Token]
  /\ None \notin Seq(Token)

\* A name is not taken apart by what separates the fields of a form.
ASSUME FormsAssumption ==
  LET Name == Seq(Token \ {"&", "="})
  IN  Field \subseteq Name /\ Forms \subseteq Seq([name : Name, value : Seq(Token)])

\* std::optional, as far as it is looked at: one more byte in front.
Before(byte, rest) == IF rest = None THEN None ELSE <<byte>> \o rest

\* percentDecode(). What is in memory behind the value, an ampersand or the end
\* of the payload, is no digit, so that an escape that is cut off is refused;
\* a NUL ends the value.
PercentDecode(text) ==
  LET n == Len(text)
      from[i \in 1..(n + 1)] ==
        IF i = n + 1 \/ text[i] = "NUL" THEN <<>>
        ELSE IF text[i] # "%" THEN Before(text[i], from[i + 1])
        ELSE IF i + 2 <= n /\ {text[i + 1], text[i + 2]} \subseteq DOMAIN Hex
             THEN Before(Byte[16 * Hex[text[i + 1]] + Hex[text[i + 2]]], from[i + 3])
             ELSE None
  IN  from[1]

UpToAmpersand(text) ==
  IF Contains(text, <<"&">>) THEN Take(text, Find(text, <<"&">>) - 1) ELSE text

\* mutant: a field is looked for without what has to be in front of it.
ArgAnywhere(payload, name) ==
  LET key == name \o <<"=">>
  IN  IF ~Contains(payload, key) THEN None
      ELSE PercentDecode(UpToAmpersand(
             Drop(payload, Find(payload, key) - 1 + Len(key))))

\* HttpConnection::arg(): the field is at the beginning of the payload or behind
\* an ampersand. One that is behind an ampersand at the beginning is taken for
\* one without, and its value for one that begins with "=".
Arg(payload, name) ==
  LET key == name \o <<"=">>
      index == IF StartsWith(payload, key) THEN 1 ELSE Find(payload, <<"&">> \o key)
      length == IF index = 1 THEN Len(key) ELSE Len(key) + 1
  IN  IF index = 0 THEN None
      ELSE PercentDecode(UpToAmpersand(Drop(payload, index - 1 + length)))

-----------------------------------------------------------------------------
\* How a peer may send a form: each byte of a value as it is or, and those that
\* mean something in a form only so, as an escape.
Digits == DOMAIN Hex
Escapes(byte) ==
  {<<"%">> \o digits : digits \in
     {d \in Digits \X Digits : Byte[16 * Hex[d[1]] + Hex[d[2]]] = byte}}
Pieces(byte) ==
  Escapes(byte) \union (IF byte \in {"&", "%", "NUL"} THEN {} ELSE {<<byte>>})

Joined(heads, tails) == {s \o t : s \in heads, t \in tails}

\* One string of each set, in their order.
Concatenations(sets) ==
  LET first[i \in 0..Len(sets)] ==
        IF i = 0 THEN {<<>>} ELSE Joined(first[i - 1], sets[i])
  IN  first[Len(sets)]

Encodings(value) == Concatenations([i \in 1..Len(value) |-> Pieces(value[i])])

Fields(name, value, separator) ==
  {separator \o name \o <<"=">> \o text : text \in Encodings(value)}

Bodies(form) ==
  Concatenations([i \in 1..Len(form) |->
    Fields(form[i].name, form[i].value, IF i = 1 THEN <<>> ELSE <<"&">>)])

\* What was filled in for a name: the value of its first field.
Filled(form, name) ==
  LET at == {i \in DOMAIN form : form[i].name = name}
  IN  IF at = {} THEN None ELSE form[CHOOSE i \in at : \A j \in at : i <= j].value

\* A handler of a form that was read to its end is given what was filled in: not
\* the field of a longer name, nor of a name that a value holds, nor a later one
\* of the same name, and its value with no escape left or cut in two. Not
\* promised: that a "+" is a space, or anything of a form that begins with "&".
ArgsAsFilled ==
  \A c \in Client, form \in Forms :
    /\ pc = "handler" /\ currentClient = c /\ left[c] = <<>>
    /\ HasHeader(request[c]) /\ RequestBody(request[c]) \in Bodies(form)
    => \A name \in Field : Arg(currentPayload, name) = Filled(form, name)
=============================================================================
