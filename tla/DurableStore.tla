---------------------------- MODULE DurableStore ----------------------------
(***************************************************************************)
(* What iop_hal::Storage promises, without files: memory is changed in     *)
(* place and saved as a whole; what was saved last survives a crash until  *)
(* the next save begins. A save that does not complete leaves a beginning  *)
(* of what it was saving, never a mix of old and new.                      *)
(***************************************************************************)
EXTENDS ByteStreams

CONSTANTS Byte, Capacities, None

VARIABLES
  memory,    \* the contents in memory, None before they are loaded
  saved,     \* what the last completed save saved, empty if there was none
  attempt,   \* what a later save that did not complete was saving, or None
  ok         \* what the last call returned

vars == <<memory, saved, attempt, ok>>

Zeros(n) == [i \in 1..n |-> 0]

\* base with the first n bytes of data, or as many as there are, in front.
Over(base, data, n) ==
  [i \in 1..Len(base) |-> IF i <= n /\ i <= Len(data) THEN data[i] ELSE base[i]]

Init == memory = None /\ saved = <<>> /\ attempt = None /\ ok = FALSE

Change ==
  /\ memory # None
  /\ ok' = TRUE
  /\ memory' \in [1..Len(memory) -> Byte]
  /\ UNCHANGED <<saved, attempt>>

Refuse ==
  /\ ok' = FALSE
  /\ UNCHANGED <<memory, saved, attempt>>

BeginSave ==
  /\ memory # None
  /\ attempt' = memory
  /\ UNCHANGED <<memory, saved, ok>>

EndSave ==
  /\ attempt # None /\ attempt = memory
  /\ saved' = attempt
  /\ attempt' = None
  /\ ok' = TRUE
  /\ UNCHANGED memory

\* What there is to load: the last save, or any beginning of a later one that
\* did not complete.
Loadable(data) ==
  IF attempt = None THEN data = saved ELSE PrefixOf(data, attempt)

\* A load that returns true found at least n bytes; one that returns false may
\* have found fewer, or have been unable to look.
Load(n) ==
  LET base == IF memory = None THEN Zeros(n) ELSE memory
      all == IF attempt = None THEN saved ELSE attempt
  IN  /\ \E length \in 0..Len(all) :
           /\ Loadable(Take(all, length)) \/ length = 0
           /\ memory' = Over(base, Take(all, length), n)
           /\ ok' => length >= n
      /\ ok' \in BOOLEAN
      /\ UNCHANGED <<saved, attempt>>

Crash ==
  /\ memory' = None
  /\ ok' = FALSE
  /\ UNCHANGED <<saved, attempt>>

Next ==
  \/ Change \/ Refuse \/ BeginSave \/ EndSave \/ Crash
  \/ \E n \in Capacities : Load(n)

Spec == Init /\ [][Next]_vars
=============================================================================
