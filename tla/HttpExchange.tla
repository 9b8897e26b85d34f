---------------------------- MODULE HttpExchange ----------------------------
(***************************************************************************)
(* What HTTPClient::begin() promises its caller: a call is refused at once *)
(* or opens a session; the session's one request has one outcome, which is *)
(* an error or tells the truth about what the server sent; the session is  *)
(* closed before the next call.                                            *)
(***************************************************************************)
EXTENDS ByteStreams

CONSTANTS Responses, Key, Version, Atoi, KeysOf, ValueOf, None

VARIABLES
  phase,      \* "idle", "open" or, once the process died, "dead"
  response,   \* what the server answers on this session
  outcome     \* the Response the caller gets

vars == <<phase, response, outcome>>

IoError == [status |-> 0, headers |-> [k \in Key |-> None], payload |-> <<>>]
Empty == [IoError EXCEPT !.status = 1000]

\* The lines of a response are its tokens up to the empty line.
HeadLines(r) == IF Contains(r, EmptyLine) THEN Take(r, Find(r, EmptyLine)) ELSE r
Body(r) == IF Contains(r, EmptyLine) THEN Drop(r, Find(r, EmptyLine) + 3)
           ELSE <<>>

\* The value of the first line that starts with the key.
HeaderSent(r, k) ==
  LET at == {i \in 1..Len(HeadLines(r)) : k \in KeysOf[r[i]]}
  IN  IF at = {} THEN None
      ELSE ValueOf[r[CHOOSE i \in at : \A j \in at : i <= j]]

\* An outcome may fall short of what the server sent, as a connection may end
\* early; what it holds is what was sent. Nothing is promised of a response
\* that does not start with a version and a status.
Truthful(o, r) ==
  r # <<>> /\ r[1] = Version =>
    /\ o.status = Atoi[r[2]]
    /\ \A k \in Key : o.headers[k] \in {None, HeaderSent(r, k)}
    /\ PrefixOf(o.payload, Body(r))

Init == phase = "idle" /\ response = <<>> /\ outcome = None

Refuse ==
  /\ phase = "idle"
  /\ outcome' = IoError
  /\ response' = <<>>
  /\ UNCHANGED phase

Open ==
  /\ phase = "idle"
  /\ phase' = "open"
  /\ outcome' = None
  /\ response' = <<>>

Ask ==
  /\ phase = "open"
  /\ response = <<>> /\ outcome = None
  /\ response' \in Responses
  /\ UNCHANGED <<phase, outcome>>

Settle ==
  /\ phase = "open"
  /\ outcome = None
  /\ \/ outcome' = IoError
     \/ /\ response # <<>> /\ outcome' # None
        /\ (outcome' = Empty \/ Truthful(outcome', response))
  /\ UNCHANGED <<phase, response>>

Close ==
  /\ phase = "open"
  /\ phase' = "idle"
  /\ UNCHANGED <<response, outcome>>

Die ==
  /\ phase = "open"
  /\ phase' = "dead"
  /\ response' \in Responses
  /\ response # <<>> => UNCHANGED response
  /\ UNCHANGED outcome

Next == Refuse \/ Open \/ Ask \/ Settle \/ Close \/ Die

Spec == Init /\ [][Next]_vars
=============================================================================
