------------------------------- MODULE Panic -------------------------------
(***************************************************************************)
(* The panic handler (src/src/panic.cpp), Thread::halt (src/src/thread.cpp) *)
(* and the desktop's deepSleep and abort, in a process of several threads. *)
(* A panic calls the five functions of the hook one after the other; each  *)
(* is read from the hook when it is called, and one the application wrote  *)
(* may panic itself. isPanicking is a plain variable that all threads use. *)
(***************************************************************************)
EXTENDS Integers, SequencesExt

CONSTANTS
  Threads,      \* the threads of the process
  Hooks,        \* the hooks an application sets
  None,
  Width,        \* bits of uintmax_t and of the seconds of a std::chrono duration
  MaxDepth      \* bound: panics within the hooks of panics, per thread

\* Whose function is called: iop-hal's, or one that the application wrote.
\* viewPanic and staticPanic print the same, and are one here.
Whose == {"default", "custom"}
Hook == [entry: Whose, view: Whose, cleanup: Whose, halt: Whose]
DefaultHook ==
  [entry |-> "default", view |-> "default", cleanup |-> "default", halt |-> "default"]

ASSUME HooksAssumption == Hooks \subseteq Hook
ASSUME NoThreadAssumption == None \notin Threads
ASSUME WidthAssumption == Width \in Nat \ {0}

VARIABLES
  isPanicking,
  hook,
  panics,    \* by thread, its calls of panicHandler(), the innermost last
  alive,     \* the process has not aborted
  aborter,   \* history: the thread that aborted it
  cleaned    \* history: the threads a cleanup has returned in

panicVars == <<isPanicking, hook, panics, alive, aborter, cleaned>>

\* A call of panicHandler(): the function it is in, whose that is, and
\* whether it got through a default entry. "claim" and "sleep" are within the
\* default entry, "again" is its branch for a reentry.
Call == [at: {"entry", "claim", "sleep", "again", "view", "cleanup", "halt", "paused"},
         runs: Whose, claimed: BOOLEAN]

PanicInit ==
  /\ isPanicking = FALSE
  /\ hook = DefaultHook
  /\ panics = [t \in Threads |-> <<>>]
  /\ alive = TRUE
  /\ aborter = None
  /\ cleaned = {}

Top(t) == Last(panics[t])
At(t, step) == alive /\ panics[t] # <<>> /\ Top(t).at = step
Continue(t, call) == panics' = [panics EXCEPT ![t] = Append(Front(@), call)]
Calls(t, function) == Continue(t, [Top(t) EXCEPT !.at = function, !.runs = hook[function]])

\* The thread is in a function of the application that a panic called.
InCustomHook(t) == alive /\ panics[t] # <<>> /\ Top(t).runs = "custom"

\* iop_panic(), or an iop_assert() that fails, in code of the application or
\* in a function of iop-hal that it called.
PanicHandler(t) ==
  /\ Len(panics[t]) < MaxDepth
  /\ panics' = [panics EXCEPT ![t] =
       Append(@, [at |-> "entry", runs |-> hook.entry, claimed |-> FALSE])]
  /\ UNCHANGED <<isPanicking, hook, alive, aborter, cleaned>>

SetPanicHook(h) ==
  /\ hook' = h
  /\ UNCHANGED <<isPanicking, panics, alive, aborter, cleaned>>

TakePanicHook == SetPanicHook(DefaultHook)

EntryIgnores(t) ==                     \* mutant: a reentry is printed and goes on
  /\ At(t, "entry")
  /\ Top(t).runs = "default"
  /\ Continue(t, [Top(t) EXCEPT !.at = "claim"])
  /\ UNCHANGED <<isPanicking, hook, alive, aborter, cleaned>>

\* defaultEntry() looks at isPanicking ...
EntryChecks(t) ==
  /\ At(t, "entry")
  /\ Top(t).runs = "default"
  /\ Continue(t, [Top(t) EXCEPT !.at = IF isPanicking THEN "again" ELSE "claim"])
  /\ UNCHANGED <<isPanicking, hook, alive, aborter, cleaned>>

\* ... and sets it in a later step, before it sleeps for a second.
EntryClaims(t) ==
  /\ At(t, "claim")
  /\ Continue(t, [Top(t) EXCEPT !.at = "sleep", !.claimed = TRUE])
  /\ isPanicking' = TRUE
  /\ UNCHANGED <<hook, alive, aborter, cleaned>>

EntryReturns(t) ==
  /\ At(t, "sleep") \/ (At(t, "entry") /\ Top(t).runs = "custom")
  /\ Calls(t, "view")
  /\ UNCHANGED <<isPanicking, hook, alive, aborter, cleaned>>

ViewHalts(t) ==                        \* mutant: cleanup is not called
  /\ At(t, "view")
  /\ Calls(t, "halt")
  /\ UNCHANGED <<isPanicking, hook, alive, aborter, cleaned>>

ViewReturns(t) ==
  /\ At(t, "view")
  /\ Calls(t, "cleanup")
  /\ UNCHANGED <<isPanicking, hook, alive, aborter, cleaned>>

CleanupReturns(t) ==
  /\ At(t, "cleanup")
  /\ Calls(t, "halt")
  /\ cleaned' = cleaned \cup {t}
  /\ UNCHANGED <<isPanicking, hook, alive, aborter>>

\* std::abort() ends all threads.
Abort(t) ==
  /\ alive' = FALSE
  /\ aborter' = t
  /\ UNCHANGED <<isPanicking, hook, panics, cleaned>>

HaltReturnsToCaller(t) ==              \* mutant: no abort() after hook.halt()
  /\ At(t, "halt")
  /\ Top(t).runs = "custom"
  /\ panics' = [panics EXCEPT ![t] = Front(@)]
  /\ UNCHANGED <<isPanicking, hook, alive, aborter, cleaned>>

\* An application's halt that does return.
CustomHaltReturns(t) ==
  /\ At(t, "halt")
  /\ Top(t).runs = "custom"
  /\ Abort(t)

\* deepSleep(0): the largest uintmax_t, converted to signed seconds. A sleep
\* of no positive length returns at once.
Seconds(n) ==
  LET unsigned == IF n = 0 THEN 2^Width - 1 ELSE n
  IN IF unsigned >= 2^(Width - 1) THEN unsigned - 2^Width ELSE unsigned

\* Thread::halt(): deepSleep(0), then abort().
Halt(t) ==
  /\ At(t, "again") \/ (At(t, "halt") /\ Top(t).runs = "default")
  /\ IF Seconds(0) > 0
     THEN /\ Continue(t, [Top(t) EXCEPT !.at = "paused"])
          /\ UNCHANGED <<isPanicking, hook, alive, aborter, cleaned>>
     ELSE Abort(t)

\* What a panic does by itself, and what may not happen in a function of the
\* application: it may wait for ever.
Proceeds(t) ==
  \/ EntryChecks(t) \/ EntryClaims(t) \/ EntryReturns(t) \/ ViewReturns(t)
  \/ CleanupReturns(t) \/ CustomHaltReturns(t) \/ Halt(t)

-----------------------------------------------------------------------------
PanicTypeOK ==
  /\ isPanicking \in BOOLEAN
  /\ hook \in Hook
  /\ panics \in [Threads -> Seq(Call)]
  /\ alive \in BOOLEAN
  /\ aborter \in Threads \cup {None}
  /\ cleaned \subseteq Threads

\* defaultEntry() handles reentry: of the panics nested in one thread, only
\* one gets through it, so that a hook whose functions panic ends. It rests
\* on isPanicking being set for as long as such a panic lasts.
ReentryStops ==
  \A t \in Threads: \A i, j \in DOMAIN panics[t]:
    /\ panics[t][i].claimed => isPanicking
    /\ panics[t][i].claimed /\ panics[t][j].claimed => i = j

\* Only a reentry takes a process down that has not been cleaned up by the
\* thread that does it.
OnlyReentryUncleaned ==
  aborter # None => aborter \in cleaned \/ Top(aborter).at = "again"

\* The rest of the inductive invariant: only the innermost panic is about to
\* claim, and no other of its thread has; who is in halt has been cleaned up;
\* an aborted process stays as it was.
PanicInv ==
  /\ PanicTypeOK
  /\ ReentryStops
  /\ OnlyReentryUncleaned
  /\ \A t \in Threads: \A i \in DOMAIN panics[t]:
       /\ panics[t][i].at = "claim" =>
            /\ i = Len(panics[t])
            /\ panics[t][i].runs = "default"
            /\ \A j \in DOMAIN panics[t]: ~panics[t][j].claimed
       /\ panics[t][i].at = "halt" => t \in cleaned
  /\ aborter # None => ~alive /\ panics[aborter] # <<>>

\* What src/include/iop-hal/thread.hpp:45 says of halt() ("Pauses execution
\* and never comes back"): no thread that halts ends the process.
HaltPauses == aborter # None => Top(aborter).runs = "custom"
=============================================================================
