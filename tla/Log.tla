-------------------------------- MODULE Log --------------------------------
(***************************************************************************)
(* The logger (src/include/iop-hal/log.hpp, src/src/log.cpp). A line is    *)
(* built by several calls; `state`, one plain variable for all loggers,    *)
(* levels and threads, says where in a line the next call is. It moves     *)
(* before the level hides a call, and log() has it by reference: it is     *)
(* looked at again after the functions of the hook, which may log too.     *)
(*                                                                         *)
(* A text is only what tells lines apart: whether it ends one. Where it    *)
(* goes is whose function prints it, "default" (the console) or "custom".  *)
(***************************************************************************)
EXTENDS Naturals, FiniteSets, SequencesExt

CONSTANTS
  Threads,      \* the threads of the process
  Hooks,        \* the hooks an application sets
  BuildLevels,  \* the values of IOP_LOG_LEVEL
  Scripted,     \* bound: the threads that set hooks and run the library's own logging
  MaxCalls      \* bound: calls in progress at once, over all threads

TRACE == 0
DEBUG == 1
INFO == 2
WARN == 3
ERROR == 4
CRIT == 5
NO_LOG == 6
LogLevel == TRACE .. NO_LOG
LogType == {"START", "CONTINUITY", "STARTEND", "END"}

\* The pointers of a LogHook in the order they are copied; the two for the
\* level TRACE are one here.
Fields == <<"view", "static", "setup", "flush", "trace">>
Whose == {"default", "custom"}
LogHook == [{"view", "static", "setup", "flush", "trace"} -> Whose]
DefaultHook == [f \in {"view", "static", "setup", "flush", "trace"} |-> "default"]

ASSUME HooksAssumption == Hooks \subseteq LogHook
ASSUME BuildAssumption == BuildLevels \subseteq LogLevel

VARIABLES
  build,          \* IOP_LOG_LEVEL of this build
  state,
  hook,
  hasInitialized,
  shouldFlush,    \* shouldFlush_
  calls,          \* by thread, its calls within log(), the innermost last
  copying,        \* by thread, the pointers that setHook() has yet to assign
  script,         \* by thread, what a function of the library has yet to log
  alive,          \* the process has not aborted
  open,           \* history: who printed text after its last line end
  unflushed,      \* history: text was printed since the last flush
  alone,          \* history: the call in progress had Log for itself
  torn            \* history: the line is not one that its calls make alone

logVars == <<build, state, hook, hasInitialized, shouldFlush, calls, copying,
             script, alive, open, unflushed, alone, torn>>

\* A call: the step of log() it is at, the state it is to store, and whose
\* function it was in last.
Call == [at: {"store", "flush", "kind", "open", "label", "text", "decide", "end",
              "rest", "return"},
         new: LogType, hidden: BOOLEAN, trace: BOOLEAN, ln: BOOLEAN, fn: Whose]

\* What is left of a function that logs: calls of a level; a point where
\* another function runs, which may log whole lines or anything; flushing
\* turned off and on; the end of the process.
Item == [do: {"log", "status", "handler", "off", "on", "flush", "abort"},
         level: LogLevel, ln: BOOLEAN]
Do(what) == [do |-> what, level |-> NO_LOG, ln |-> FALSE]
Part(level) == [do |-> "log", level |-> level, ln |-> FALSE]
Line(level) == [do |-> "log", level |-> level, ln |-> TRUE]

Init ==
  /\ build \in BuildLevels
  /\ state = "END"
  /\ hook = DefaultHook
  /\ hasInitialized = FALSE
  /\ shouldFlush = TRUE
  /\ calls = [t \in Threads |-> <<>>]
  /\ copying = [t \in Threads |-> <<>>]
  /\ script = [t \in Threads |-> <<>>]
  /\ alive = TRUE
  /\ open = {}
  /\ unflushed = FALSE
  /\ alone = TRUE
  /\ torn = FALSE

-----------------------------------------------------------------------------
Top(t) == Last(calls[t])
At(t, step) == alive /\ calls[t] # <<>> /\ Top(t).at = step
Becomes(t, call) == calls' = [calls EXCEPT ![t] = Append(Front(@), call)]
Idle(t) == calls[t] = <<>> /\ copying[t] = <<>>
Quiet == \A t \in Threads: Idle(t)
OthersIdle(t) == \A u \in Threads \ {t}: Idle(u)
InProgress == {c \in Threads \X (1 .. MaxCalls): c[2] <= Len(calls[c[1]])}

\* The thread is about to do the next item of its script; at none it is in
\* code of the application, as it is in a route handler.
Upcoming(t, what) ==
  alive /\ calls[t] = <<>> /\ script[t] # <<>> /\ Head(script[t]).do = what
Free(t) ==
  /\ alive /\ calls[t] = <<>> /\ copying[t] = <<>>
  /\ script[t] # <<>> => Head(script[t]).do = "handler"
InHook(t) == alive /\ calls[t] # <<>> /\ Top(t).fn = "custom"

\* mutant: the first part of a line does not move on to CONTINUITY.
UpdatedStateStarting(s) == IF s = "CONTINUITY" THEN "CONTINUITY" ELSE "START"
\* mutant: a line of one call is only ended.
FinalizedStateAlwaysEnd(s) == "END"

UpdatedState(s) == IF s \in {"START", "CONTINUITY"} THEN "CONTINUITY" ELSE "START"
FinalizedState(s) == IF s \in {"START", "CONTINUITY"} THEN "END" ELSE "STARTEND"
Ended == {"END", "STARTEND"}

\* Whose function prints a call of this level, nobody's when it is hidden.
Prints(level) ==
  IF build > level THEN {}
  ELSE {IF level > TRACE THEN hook["view"] ELSE hook["trace"]}
Unfinished(level) == IF state \in Ended THEN {} ELSE Prints(level)

\* trace(), traceln() and the others: the state is read, and stored later.
Starts(t, level, ln) ==
  /\ Cardinality(InProgress) < MaxCalls
  /\ calls' = [calls EXCEPT ![t] = Append(@,
       [at |-> "store", fn |-> "default", ln |-> ln,
        new |-> IF ln THEN FinalizedState(state) ELSE UpdatedState(state),
        hidden |-> build > level, trace |-> level = TRACE])]
  /\ alone' = Quiet
  /\ torn' = (torn \/ ~Quiet \/ open # Unfinished(level) \/ hook["view"] # hook["static"])
  /\ UNCHANGED <<build, state, hook, hasInitialized, shouldFlush, copying, alive,
                 open, unflushed>>

Calls(t, level) ==
  \E ln \in BOOLEAN:
    /\ Starts(t, level, ln)
    /\ \/ Free(t) /\ UNCHANGED script
       \/ InHook(t) /\ UNCHANGED script
       \/ /\ Upcoming(t, "log")
          /\ Head(script[t]).level = level /\ Head(script[t]).ln = ln
          /\ script' = [script EXCEPT ![t] = Tail(@)]

Trace(t) == Calls(t, TRACE)
Debug(t) == Calls(t, DEBUG)
Info(t) == Calls(t, INFO)
Warn(t) == Calls(t, WARN)
Error(t) == Calls(t, ERROR)
Crit(t) == Calls(t, CRIT)

\* A call that had Log for itself and ended a line, all lines being ended,
\* leaves nothing of what went wrong before.
Pops(t) ==
  /\ calls' = [calls EXCEPT ![t] = Front(@)]
  /\ alone' = (alone \/ (Len(calls[t]) = 1 /\ OthersIdle(t)))
  /\ torn' = (torn /\ ~(alone /\ Top(t).ln /\ open = {}))

\* mutant: a hidden call leaves the state alone.
StoresShown(t) ==
  /\ At(t, "store")
  /\ IF Top(t).hidden
     THEN Pops(t) /\ UNCHANGED state
     ELSE /\ state' = Top(t).new
          /\ Becomes(t, [Top(t) EXCEPT !.at = "flush", !.new = "END"])
          /\ UNCHANGED <<alone, torn>>
  /\ UNCHANGED <<build, hook, hasInitialized, shouldFlush, copying, script, alive,
                 open, unflushed>>

Stores(t) ==
  /\ At(t, "store")
  /\ state' = Top(t).new
  /\ IF Top(t).hidden
     THEN Pops(t)
     ELSE Becomes(t, [Top(t) EXCEPT !.at = "flush", !.new = "END"]) /\ UNCHANGED <<alone, torn>>
  /\ UNCHANGED <<build, hook, hasInitialized, shouldFlush, copying, script, alive,
                 open, unflushed>>

\* Log::flush() at the beginning of log() ...
Flushes(t) ==
  /\ At(t, "flush")
  /\ Becomes(t, [Top(t) EXCEPT !.at = "kind",
                               !.fn = IF shouldFlush THEN hook["flush"] ELSE "default"])
  /\ unflushed' = (unflushed /\ ~shouldFlush)
  /\ UNCHANGED <<build, state, hook, hasInitialized, shouldFlush, copying, script,
                 alive, open, alone, torn>>

\* ... and at its end.
Returns(t) ==
  /\ At(t, "return")
  /\ Pops(t)
  /\ unflushed' = (unflushed /\ ~shouldFlush)
  /\ UNCHANGED <<build, state, hook, hasInitialized, shouldFlush, copying, script,
                 alive, open>>

Looks(t, step) ==
  /\ Becomes(t, [Top(t) EXCEPT !.at = step, !.fn = "default"])
  /\ UNCHANGED <<build, state, hook, hasInitialized, shouldFlush, copying, script,
                 alive, open, unflushed, alone, torn>>

\* The switch of printLogType().
LooksAtType(t) ==
  At(t, "kind") /\ Looks(t, IF state \in {"START", "STARTEND"} THEN "open" ELSE "text")

\* After the message: the same reference, with what it is now.
LooksForEnd(t) ==
  /\ At(t, "decide")
  /\ Looks(t, CASE state \in Ended -> "end"
                [] state \notin Ended /\ Top(t).ln -> "rest"
                [] OTHER -> "return")

\* Log::print(): a call of TRACE goes to the printers for it.
Outputs(t, field, step, text) ==
  LET who == hook[IF Top(t).trace THEN "trace" ELSE field]
  IN /\ Becomes(t, [Top(t) EXCEPT !.at = step, !.fn = who])
     /\ open' = CASE text = "line end" -> open \ {who}
                  [] text = "empty" -> open
                  [] OTHER -> open \cup {who}
     /\ unflushed' = (unflushed \/ (text # "empty" /\ who = hook["flush"]))
     /\ UNCHANGED <<build, state, hook, hasInitialized, shouldFlush, copying, script,
                    alive, alone, torn>>

PrintsBracket(t) == At(t, "open") /\ Outputs(t, "static", "label", "text")

\* Level, "] ", target and ": " are four prints of the kind CONTINUITY.
PrintsLabel(t) == At(t, "label") /\ Outputs(t, "static", "text", "text")

PrintsMessage(t) ==
  At(t, "text") /\ \E field \in {"static", "view"}: Outputs(t, field, "decide", "text")

\* The line termination, which is of the kind END only at "end".
PrintsTermination(t) ==
  /\ At(t, "end") \/ At(t, "rest")
  /\ Outputs(t, "static", "return", IF Top(t).ln THEN "line end" ELSE "empty")

-----------------------------------------------------------------------------
\* setHook(): the pointers are assigned one by one, and not in a critical
\* section. What an earlier hook has not flushed is that hook's to flush.
SetHook(t, h) ==
  /\ Free(t)
  /\ t \in Scripted
  /\ hasInitialized' = FALSE
  /\ copying' = [copying EXCEPT ![t] = [i \in 1 .. Len(Fields) |-> <<Fields[i], h[Fields[i]]>>]]
  /\ alone' = Quiet
  /\ torn' = (torn \/ ~Quiet)
  /\ UNCHANGED <<build, state, hook, shouldFlush, calls, script, alive, open, unflushed>>

TakeHook(t) == SetHook(t, DefaultHook)

CopiesPointer(t) ==
  /\ alive /\ copying[t] # <<>>
  /\ LET field == Head(copying[t])[1]  who == Head(copying[t])[2]
     IN /\ hook' = [hook EXCEPT ![field] = who]
        /\ unflushed' = (unflushed /\ (field # "flush" \/ hook[field] = who))
  /\ copying' = [copying EXCEPT ![t] = Tail(@)]
  /\ alone' = (alone \/ (Len(copying[t]) = 1 /\ OthersIdle(t)))
  /\ UNCHANGED <<build, state, hasInitialized, shouldFlush, calls, script, alive,
                 open, torn>>

\* Log::setup(): the default begins the console once; another's may call it.
Setup(t) ==
  /\ Free(t)
  /\ \/ hasInitialized' = TRUE
     \/ hook["setup"] = "custom" /\ UNCHANGED hasInitialized
  /\ UNCHANGED <<build, state, hook, shouldFlush, calls, copying, script, alive,
                 open, unflushed, alone, torn>>

-----------------------------------------------------------------------------
\* What the library logs by itself, and what it does to flushing; it is at one
\* of these at a time, but for a panic in a route handler.
Runs(t, items) ==
  /\ Free(t)
  /\ t \in Scripted
  /\ script' = [script EXCEPT ![t] = items]
  /\ UNCHANGED <<build, state, hook, hasInitialized, shouldFlush, calls, copying,
                 alive, open, unflushed, alone, torn>>
AtRest(t) == script[t] = <<>>

\* Parts after a second one change nothing, and so are left out; one line
\* stands for the sizes of all kinds of memory.
Opened(level) == <<Part(level), Part(level)>>
Sizes(level) ==
  <<Part(level), Line(level)>> \o Opened(level) \o
  <<Line(level), Part(level), Do("status"), Line(level)>>
Scope == Opened(TRACE) \o <<Line(TRACE)>>

IsTracing == hasInitialized /\ build <= TRACE
EntersScope(t) == IsTracing /\ AtRest(t) /\ Runs(t, Scope \o Sizes(TRACE))
LeavesScope(t) == IsTracing /\ AtRest(t) /\ Runs(t, Scope)
LogMemory(t) == build <= INFO /\ AtRest(t) /\ Runs(t, Sizes(INFO))

\* mutant: flushes while flushing is still off.
HandlesFlushesFirst(t) ==
  AtRest(t) /\ Runs(t, <<Do("off"), Do("handler"), Do("flush"), Do("on")>>)

\* handleClient() calls the route's handler with flushing off.
Handles(t) ==
  AtRest(t) /\ Runs(t, <<Do("off"), Do("handler"), Do("on"), Do("flush")>>)

\* A panic with the default hook: its line, and halt(), which aborts.
Panics(t) ==
  Runs(t, Opened(CRIT) \o <<Line(CRIT), Do("abort")>>)

\* Wifi::status() within a line: it runs the HTTP client, which logs lines of
\* DEBUG and ERROR (those of WARN go where ERROR's do).
StatusLogs(t) ==
  /\ Upcoming(t, "status")
  /\ \E level \in {DEBUG, ERROR}:
       script' = [script EXCEPT ![t] = <<Part(level), Line(level)>> \o @]
  /\ UNCHANGED <<build, state, hook, hasInitialized, shouldFlush, calls, copying,
                 alive, open, unflushed, alone, torn>>

Passes(t) ==
  /\ script' = [script EXCEPT ![t] = Tail(@)]
  /\ UNCHANGED <<build, state, hook, hasInitialized, calls, copying, open, alone, torn>>

StatusReturns(t) ==
  Upcoming(t, "status") /\ Passes(t) /\ UNCHANGED <<shouldFlush, alive, unflushed>>
HandlerReturns(t) ==
  /\ Upcoming(t, "handler") /\ copying[t] = <<>>
  /\ Passes(t) /\ UNCHANGED <<shouldFlush, alive, unflushed>>

ShouldFlush(t) ==
  /\ \/ Upcoming(t, "off") /\ shouldFlush' = FALSE
     \/ Upcoming(t, "on") /\ shouldFlush' = TRUE
  /\ Passes(t)
  /\ UNCHANGED <<alive, unflushed>>

FlushesLast(t) ==
  /\ Upcoming(t, "flush")
  /\ Passes(t)
  /\ unflushed' = (unflushed /\ ~shouldFlush)
  /\ UNCHANGED <<shouldFlush, alive>>

\* std::abort() ends all threads and flushes nothing.
Aborts(t) ==
  /\ Upcoming(t, "abort")
  /\ Passes(t)
  /\ alive' = FALSE
  /\ UNCHANGED <<shouldFlush, unflushed>>

Next ==
  \E t \in Threads:
    \/ Trace(t) \/ Debug(t) \/ Info(t) \/ Warn(t) \/ Error(t) \/ Crit(t)
    \/ Stores(t) \/ Flushes(t) \/ LooksAtType(t) \/ PrintsBracket(t) \/ PrintsLabel(t)
    \/ PrintsMessage(t) \/ LooksForEnd(t) \/ PrintsTermination(t) \/ Returns(t)
    \/ (\E h \in Hooks: SetHook(t, h)) \/ TakeHook(t) \/ CopiesPointer(t) \/ Setup(t)
    \/ EntersScope(t) \/ LeavesScope(t) \/ LogMemory(t) \/ Handles(t) \/ Panics(t)
    \/ StatusLogs(t) \/ StatusReturns(t) \/ HandlerReturns(t) \/ ShouldFlush(t)
    \/ FlushesLast(t) \/ Aborts(t)

Spec == Init /\ [][Next]_logVars

-----------------------------------------------------------------------------
TypeOK ==
  /\ build \in LogLevel
  /\ state \in LogType
  /\ hook \in LogHook
  /\ hasInitialized \in BOOLEAN
  /\ shouldFlush \in BOOLEAN
  /\ calls \in [Threads -> Seq(Call)]
  /\ copying \in [Threads -> Seq({Fields[i]: i \in 1 .. 5} \X Whose)]
  /\ script \in [Threads -> Seq(Item)]
  /\ alive \in BOOLEAN
  /\ open \subseteq Whose
  /\ unflushed \in BOOLEAN
  /\ alone \in BOOLEAN
  /\ torn \in BOOLEAN

\* Lines are whole as long as calls do not overlap and each unfinished line is
\* gone on with where it goes: a line has one head, at its beginning, and one
\* text of the kind END, which ends it; between calls, the state all loggers
\* share says whether there is an unfinished line.
LinesAreWhole ==
  ~torn =>
    /\ \A t \in Threads: calls[t] # <<>> =>
         /\ Top(t).at = "open" => open = {}
         /\ Top(t).at \in {"label", "text", "decide", "end"} => open # {}
         /\ Top(t).at = "end" => Top(t).ln
         /\ Top(t).at # "rest"
         /\ Top(t).at = "return" => (Top(t).ln <=> open = {})
    /\ Quiet /\ state \in Ended => open = {}
    /\ \A a, b \in open: a = b

\* Text is not left in a buffer: with flushing on, what is not flushed will be,
\* by a call in progress or by the server that had turned flushing off. It
\* holds of an aborted process too, so that only with flushing off, as in a
\* route's handler, may the line of a panic be lost.
NothingStuck ==
  unflushed /\ shouldFlush =>
    \E t \in Threads:
      \/ \E i \in DOMAIN calls[t]: ~calls[t][i].hidden
      \/ script[t] # <<>> /\ Head(script[t]).do = "flush"

\* Whatever threads and hooks did to lines before, a call that ends a line and
\* has Log for itself mends them: the next call begins a line, and does so
\* after a line end. A hidden one mends at least the state.
Heals ==
  [][\A t \in Threads:
       alone /\ Len(calls[t]) = 1 /\ calls'[t] = <<>> /\ Top(t).ln =>
         state' \in Ended /\ (Top(t).hidden \/ Top(t).fn \notin open')]_logVars

-----------------------------------------------------------------------------
\* The rest of the inductive invariant. A call that has Log for itself is the
\* only one there is, and what it stored is still there.
Only(t) ==
  /\ Len(calls[t]) = 1
  /\ \A u \in Threads: copying[u] = <<>> /\ (u # t => calls[u] = <<>>)
Silent == \A t \in Threads: calls[t] = <<>>
Stored(call) == IF call.at = "store" THEN call.new ELSE state

AloneInv ==
  alone =>
    \/ Silent
    \/ \E t \in Threads:
         /\ Only(t)
         /\ Top(t).ln <=> Stored(Top(t)) \in Ended
         /\ Top(t).at = "return" /\ Top(t).ln => Top(t).fn \notin open

\* What a call of an untorn line finds printed, by the step it is at.
Whole(call) ==
  LET printer == {IF call.trace THEN hook["trace"] ELSE hook["view"]}
      begins == Stored(call) \in {"START", "STARTEND"}
  IN /\ call.ln <=> Stored(call) \in Ended
     /\ call.hidden => open = {}
     /\ ~call.hidden =>
          CASE call.at \in {"store", "flush", "kind"} -> open = IF begins THEN {} ELSE printer
            [] call.at = "open" -> open = {}
            [] call.at \in {"label", "text", "decide"} -> open = printer
            [] call.at = "end" -> open = printer /\ call.ln
            [] call.at = "return" -> open = IF call.ln THEN {} ELSE printer
            [] OTHER -> FALSE

WholeInv ==
  ~torn =>
    \/ Silent /\ (state \in Ended => open = {}) /\ (\A a, b \in open: a = b)
    \/ /\ alone
       /\ hook["view"] = hook["static"]
       /\ \E t \in Threads: Only(t) /\ Whole(Top(t))

CallsInv ==
  \A t \in Threads:
    /\ \A i \in DOMAIN calls[t]: calls[t][i].hidden => calls[t][i].at = "store"
    /\ copying[t] # <<>> =>
         calls[t] = <<>> /\ (script[t] # <<>> => Head(script[t]).do = "handler")
    /\ \A i \in DOMAIN script[t]: script[t][i].do = "on" =>
         i + 1 \in DOMAIN script[t] /\ script[t][i + 1].do = "flush"

LogInv == TypeOK /\ CallsInv /\ AloneInv /\ WholeInv /\ NothingStuck
=============================================================================
