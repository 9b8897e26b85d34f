-------------------------------- MODULE Gpio --------------------------------
(***************************************************************************)
(* GPIO::setInterruptCallback of Linux (src/src/posix/linux/io.hpp): each  *)
(* callback has a thread of its own that reads its pin every 100 ms and    *)
(* calls it when the value differs from the last one. A pin that cannot be *)
(* read panics in that thread, beside the application in the main one.     *)
(***************************************************************************)
EXTENDS Panic

CONSTANTS
  Main,       \* the thread that runs setup() and loop()
  MaxEdges,   \* bound: changes of a pin that its callback is to hear of
  MaxGlitches \* bound: readings that went wrong

Pollers == Threads \ {Main}
Data == {"LOW", "HIGH"}
InterruptState == {"RISING", "FALLING", "CHANGE"}

ASSUME MainAssumption == Main \in Threads

VARIABLES
  pin,        \* by polling thread, the level of its pin
  state,      \* the change its callback is for
  at,         \* where the thread is
  lastValue,  \* its variable of that name
  value,      \* likewise
  edges,      \* history: the changes of the pin its callback was to hear of
  glitches,   \* history: readings that were not the pin's level
  called      \* history: calls of the callback

gpioVars == <<pin, state, at, lastValue, value, edges, glitches, called>>
vars == <<panicVars, gpioVars>>

Init ==
  /\ PanicInit
  /\ pin \in [Pollers -> Data]
  /\ state = [t \in Pollers |-> "CHANGE"]
  /\ at = [t \in Pollers |-> "none"]
  /\ lastValue = [t \in Pollers |-> "LOW"]
  /\ value = [t \in Pollers |-> "LOW"]
  /\ edges = [t \in Pollers |-> 0]
  /\ glitches = [t \in Pollers |-> 0]
  /\ called = [t \in Pollers |-> 0]

\* The changes that the switch over `state` calls func() for.
Wanted(t, before, after) ==
  /\ before # after
  /\ state[t] = "RISING" => after = "HIGH"
  /\ state[t] = "FALLING" => after = "LOW"

\* The thread runs code of its own or of the application, outside of a panic.
Runs(t) == alive /\ panics[t] = <<>>

\* What a pin does after its thread panicked is of no interest.
PinChanges(t) ==
  \E level \in Data \ {pin[t]}:
    /\ Runs(t)
    /\ edges[t] < MaxEdges
    /\ pin' = [pin EXCEPT ![t] = level]
    /\ edges' = [edges EXCEPT ![t] =
         @ + (IF at[t] # "none" /\ Wanted(t, pin[t], level) THEN 1 ELSE 0)]
    /\ UNCHANGED <<panicVars, state, at, lastValue, value, glitches, called>>

SetInterruptCallback(t, change) ==
  /\ Runs(Main)
  /\ at[t] = "none"
  /\ state' = [state EXCEPT ![t] = change]
  /\ at' = [at EXCEPT ![t] = "first"]
  /\ UNCHANGED <<panicVars, pin, lastValue, value, edges, glitches, called>>

\* What the value file of a pin says; it may open and have nothing to read.
Texts(t) == {IF pin[t] = "LOW" THEN "0" ELSE "1", ""}

TextOf(text) == text                   \* mutant: digits are taken for levels

DataOf(text) == IF text = "0" THEN "LOW" ELSE "HIGH"

\* digitalRead(), and whether it went wrong.
DigitalRead(t, text) ==
  LET wrong == DataOf(text) # pin[t]
  IN /\ text \in Texts(t)
     /\ wrong => glitches[t] < MaxGlitches
     /\ glitches' = [glitches EXCEPT ![t] = @ + (IF wrong THEN 1 ELSE 0)]

FirstRead(t) ==
  /\ Runs(t)
  /\ at[t] = "first"
  /\ \E text \in Texts(t):
       /\ DigitalRead(t, text)
       /\ lastValue' = [lastValue EXCEPT ![t] = DataOf(text)]
  /\ at' = [at EXCEPT ![t] = "poll"]
  /\ UNCHANGED <<panicVars, state, pin, value, edges, called>>

Read(t) ==
  /\ Runs(t)
  /\ at[t] = "poll"
  /\ \E text \in Texts(t):
       /\ DigitalRead(t, text)
       /\ value' = [value EXCEPT ![t] = DataOf(text)]
  /\ at' = [at EXCEPT ![t] = "compare"]
  /\ UNCHANGED <<panicVars, state, pin, lastValue, edges, called>>

NothingLeaves(t) ==                    \* mutant: the break leaves the loop
  /\ Runs(t)
  /\ at[t] = "compare"
  /\ ~Wanted(t, lastValue[t], value[t])
  /\ lastValue' = [lastValue EXCEPT ![t] = value[t]]
  /\ at' = [at EXCEPT ![t] = "none"]
  /\ UNCHANGED <<panicVars, state, pin, value, edges, glitches, called>>

\* No wanted change: the value is kept and the thread sleeps.
Nothing(t) ==
  /\ Runs(t)
  /\ at[t] = "compare"
  /\ ~Wanted(t, lastValue[t], value[t])
  /\ lastValue' = [lastValue EXCEPT ![t] = value[t]]
  /\ at' = [at EXCEPT ![t] = "poll"]
  /\ UNCHANGED <<panicVars, state, pin, value, edges, glitches, called>>

Callback(t) ==
  /\ Runs(t)
  /\ at[t] = "compare"
  /\ Wanted(t, lastValue[t], value[t])
  /\ at' = [at EXCEPT ![t] = "callback"]
  /\ called' = [called EXCEPT ![t] = @ + 1]
  /\ UNCHANGED <<panicVars, state, pin, lastValue, value, edges, glitches>>

CallbackForgets(t) ==                  \* mutant: lastValue is left behind
  /\ Runs(t)
  /\ at[t] = "callback"
  /\ at' = [at EXCEPT ![t] = "poll"]
  /\ UNCHANGED <<panicVars, state, pin, lastValue, value, edges, glitches, called>>

CallbackReturns(t) ==
  /\ Runs(t)
  /\ at[t] = "callback"
  /\ lastValue' = [lastValue EXCEPT ![t] = value[t]]
  /\ at' = [at EXCEPT ![t] = "poll"]
  /\ UNCHANGED <<panicVars, state, pin, value, edges, glitches, called>>

\* The application runs in the main thread, in callbacks and in its hooks.
AppRuns(t) ==
  \/ InCustomHook(t)
  \/ Runs(t) /\ t \notin {p \in Pollers: at[p] # "callback"}

\* It may panic there; a polling thread also does when its file is gone.
Panics(t) ==
  /\ \/ AppRuns(t)
     \/ Runs(t) /\ t \in {p \in Pollers: at[p] \in {"first", "poll"}}
  /\ PanicHandler(t)
  /\ UNCHANGED gpioVars

Hooking(t) ==
  /\ AppRuns(t)
  /\ (\E h \in Hooks: SetPanicHook(h)) \/ TakePanicHook
  /\ UNCHANGED gpioVars

Panicking(t) ==
  /\ Proceeds(t)
  /\ UNCHANGED gpioVars

Poll(t) == FirstRead(t) \/ Read(t) \/ Nothing(t) \/ Callback(t) \/ CallbackReturns(t)

Next ==
  \/ \E t \in Pollers: PinChanges(t) \/ Poll(t)
  \/ \E t \in Pollers, change \in InterruptState: SetInterruptCallback(t, change)
  \/ \E t \in Threads: Panics(t) \/ Hooking(t) \/ Panicking(t)

\* A polling thread is scheduled, its sleeps end and its callback returns.
Spec == Init /\ [][Next]_vars /\ \A t \in Pollers: WF_vars(Poll(t))

-----------------------------------------------------------------------------
GpioTypeOK ==
  /\ pin \in [Pollers -> Data]
  /\ state \in [Pollers -> InterruptState]
  /\ at \in [Pollers -> {"none", "first", "poll", "compare", "callback"}]
  /\ lastValue \in [Pollers -> Data]
  /\ value \in [Pollers -> Data]
  /\ edges \in [Pollers -> Nat]
  /\ glitches \in [Pollers -> Nat]
  /\ called \in [Pollers -> Nat]

Causes(t) == edges[t] + (IF state[t] = "CHANGE" THEN 2 ELSE 1) * glitches[t]

\* A callback is not called more often than its pin changed that way, but for
\* readings that went wrong, each of which looks like a change there and, if
\* callbacks are for both, one back.
CallsHaveEdges == \A t \in Pollers: called[t] <= Causes(t)

\* The rest of the inductive invariant: the calls made, the one that the next
\* comparison makes, and the one that the pin's present level would make.
Pending(t, before, after) == IF Wanted(t, before, after) THEN 1 ELSE 0

CallsAndPending(t) ==
  CASE at[t] = "poll" -> called[t] + Pending(t, lastValue[t], pin[t])
    [] at[t] = "compare" -> called[t] + Pending(t, lastValue[t], value[t])
                                      + Pending(t, value[t], pin[t])
    [] at[t] = "callback" -> called[t] + Pending(t, value[t], pin[t])
    [] OTHER -> called[t]

\* The inductive invariant of panicking and polling threads: no thread has
\* made, or is on its way to, more calls than its pin and readings account for.
ThreadsInv ==
  /\ PanicInv
  /\ GpioTypeOK
  /\ \A t \in Pollers:
       /\ CallsAndPending(t) <= Causes(t)
       /\ at[t] \in {"none", "first"} => called[t] = 0

\* A change that lasts is heard: the thread gets to the callback, unless the
\* pin changes back before, or a panic ends the thread or the process.
LastingChangeHeard ==
  \A t \in Pollers:
    (at[t] \in {"poll", "compare"} /\ Wanted(t, lastValue[t], pin[t])) ~>
      (at[t] = "callback" \/ ~Wanted(t, lastValue[t], pin[t]) \/ ~Runs(t))

\* No thread goes on after it panicked: panicHandler() is noreturn.
PanicIsFinal ==
  [][\A t \in Threads: panics[t] # <<>> /\ alive' =>
       Len(panics'[t]) >= Len(panics[t])]_vars
=============================================================================
