--------------------------- MODULE SerialService ---------------------------
(***************************************************************************)
(* What the HTTP server promises, with no sockets, parsing or callbacks: a *)
(* connection arrives, waits, is served and is finished with; at most one  *)
(* is being served at any time, the application sees each at most once,    *)
(* and it is answered only between being shown and being finished with.    *)
(***************************************************************************)
EXTENDS Naturals

CONSTANT Client

VARIABLES
  stage,      \* where each connection is
  handled,    \* the connections shown to the application
  answers     \* how many writes each connection received

vars == <<stage, handled, answers>>

Init ==
  /\ stage = [c \in Client |-> "away"]
  /\ handled = {}
  /\ answers = [c \in Client |-> 0]

Arrive(c) ==
  /\ stage[c] = "away"
  /\ stage' = [stage EXCEPT ![c] = "queued"]
  /\ UNCHANGED <<handled, answers>>

Serve(c) ==
  /\ stage[c] = "queued"
  /\ \A d \in Client : stage[d] # "served"
  /\ stage' = [stage EXCEPT ![c] = "served"]
  /\ UNCHANGED <<handled, answers>>

Handle(c) ==
  /\ stage[c] = "served"
  /\ c \notin handled
  /\ handled' = handled \union {c}
  /\ UNCHANGED <<stage, answers>>

Answer(c) ==
  /\ stage[c] = "served"
  /\ c \in handled
  /\ answers' = [answers EXCEPT ![c] = @ + 1]
  /\ UNCHANGED <<stage, handled>>

\* A last answer may go out with the end of the service.
Finish(c) ==
  /\ stage[c] = "served"
  /\ stage' = [stage EXCEPT ![c] = "done"]
  /\ \/ UNCHANGED answers
     \/ c \in handled /\ answers' = [answers EXCEPT ![c] = @ + 1]
  /\ UNCHANGED handled

Next ==
  \E c \in Client :
    Arrive(c) \/ Serve(c) \/ Handle(c) \/ Answer(c) \/ Finish(c)

Spec == Init /\ [][Next]_vars
=============================================================================
