------------------------------ MODULE Storage ------------------------------
(***************************************************************************)
(* iop_hal::Storage of the desktop builds (src/include/iop-hal/storage.hpp, *)
(* src/src/storage.cpp, src/src/cpp17/storage.hpp): a buffer in memory and *)
(* the file eeprom.dat, which commit() truncates and writes anew, in as    *)
(* many pieces as the file system likes. The process may stop at any time. *)
(***************************************************************************)
EXTENDS ByteStreams

CONSTANTS
  Byte,        \* the values of a byte, 0 among them
  Capacities,  \* the sizes setup() is called with
  Address,     \* the addresses accesses are made at
  Arrays,      \* what write() is called with
  None,
  Faults       \* "open", "write": the file operations that may fail

ASSUME ByteAssumption == 0 \in Byte
ASSUME CapacitiesAssumption == Capacities \subseteq Nat \ {0}
ASSUME AddressAssumption == Address \subseteq Nat
ASSUME ArraysAssumption == Arrays \subseteq Seq(Byte)
ASSUME NoneAssumption == None \notin Seq(Byte)

VARIABLES
  buffer,   \* the buffer and its size, None before setup()
  disk,     \* eeprom.dat, None while there is no file
  pc,       \* "ready", or "commit" while commit() writes
  ok,       \* what the last call returned
  saved,    \* history: the contents of the last commit() that returned true
  attempt   \* history: those of a later one that opened the file, or None

vars == <<buffer, disk, pc, ok, saved, attempt>>

Init ==
  /\ buffer = None
  /\ disk = None
  /\ pc = "ready"
  /\ ok = FALSE
  /\ saved = <<>>
  /\ attempt = None

Uncleared(n) == [i \in 1..n |-> -1]   \* mutant: no memset, bytes of no value

Zeros(n) == [i \in 1..n |-> 0]

\* file.read(buffer, n): as much as there is; what the file does not have is
\* left as it was.
ReadInto(into, data, n) ==
  [i \in 1..Len(into) |-> IF i <= n /\ i <= Len(data) THEN data[i] ELSE into[i]]

AllocatedAnew(n) == Zeros(n)          \* mutant: every setup() allocates

Allocated(n) == IF buffer = None THEN Zeros(n) ELSE buffer

\* setup() allocates once and loads on every call. Only a file of n bytes or
\* more is a success. A later call with a larger n lets file.read() write past
\* the buffer: the process dies, or runs on with the bytes that had a place.
Setup(n) ==
  /\ pc = "ready"
  /\ disk # None
  /\ buffer' = ReadInto(Allocated(n), disk, n)
  /\ ok' = (Len(disk) >= n)
  /\ UNCHANGED <<disk, pc, saved, attempt>>

\* No file, or none that opens: the buffer is usable all the same.
SetupUnopened(n) ==
  /\ pc = "ready"
  /\ disk = None \/ "open" \in Faults
  /\ buffer' = Allocated(n)
  /\ ok' = FALSE
  /\ UNCHANGED <<disk, pc, saved, attempt>>

InBounds(a) == buffer # None /\ a < Len(buffer)

\* The guard of read() and write(). The size is 0 before setup(), for which
\* an array of no bytes would be out of bounds as well.
Accepts(a, n) == buffer # None /\ Len(buffer) >= n /\ a < Len(buffer) - n

Access == pc = "ready"

Set(a, b) ==
  /\ Access
  /\ InBounds(a)
  /\ buffer' = [buffer EXCEPT ![a + 1] = b]
  /\ ok' = TRUE
  /\ UNCHANGED <<disk, pc, saved, attempt>>

Write(a, array) ==
  /\ Access
  /\ Accepts(a, Len(array))
  /\ buffer' = [i \in 1..Len(buffer) |->
                  IF i \in a + 1..a + Len(array) THEN array[i - a] ELSE buffer[i]]
  /\ ok' = TRUE
  /\ UNCHANGED <<disk, pc, saved, attempt>>

\* set() and write() out of bounds do nothing. (get() and read() change nothing
\* in any case.)
AccessRefused ==
  /\ Access
  /\ \/ \E a \in Address : ~InBounds(a)
     \/ \E a \in Address, array \in Arrays : ~Accepts(a, Len(array))
  /\ ok' = FALSE
  /\ UNCHANGED <<buffer, disk, pc, saved, attempt>>

\* Mutant of CommitOpen: the file is not truncated.
CommitOpenKept ==
  /\ pc = "ready" /\ buffer # None
  /\ pc' = "commit"
  /\ disk' = IF disk = None THEN <<>> ELSE disk
  /\ attempt' = buffer
  /\ UNCHANGED <<buffer, ok, saved>>

\* commit() asserts that there is a buffer; std::ofstream truncates.
CommitOpen ==
  /\ pc = "ready" /\ buffer # None
  /\ pc' = "commit"
  /\ disk' = <<>>
  /\ attempt' = buffer
  /\ UNCHANGED <<buffer, ok, saved>>

CommitUnopened ==
  /\ pc = "ready" /\ buffer # None
  /\ "open" \in Faults
  /\ ok' = FALSE
  /\ UNCHANGED <<buffer, disk, pc, saved, attempt>>

\* More of the buffer reaches the file.
CommitWrite ==
  /\ pc = "commit"
  /\ \E n \in Len(disk) + 1..Len(buffer) : disk' = Take(buffer, n)
  /\ UNCHANGED <<buffer, pc, ok, saved, attempt>>

\* Mutant of CommitDone: fail() is not asked after close().
CommitDoneUnchecked ==
  /\ pc = "commit"
  /\ pc' = "ready"
  /\ ok' = TRUE
  /\ saved' = buffer
  /\ attempt' = None
  /\ UNCHANGED <<buffer, disk>>

\* close() flushed the rest.
CommitDone ==
  /\ pc = "commit"
  /\ Len(disk) = Len(buffer)
  /\ pc' = "ready"
  /\ ok' = TRUE
  /\ saved' = buffer
  /\ attempt' = None
  /\ UNCHANGED <<buffer, disk>>

\* write() or close() failed, some of the buffer being written.
CommitFails ==
  /\ pc = "commit"
  /\ "write" \in Faults
  /\ pc' = "ready"
  /\ ok' = FALSE
  /\ UNCHANGED <<buffer, disk, saved, attempt>>

\* The process stops and is started again.
Crash ==
  /\ buffer' = None
  /\ pc' = "ready"
  /\ ok' = FALSE
  /\ UNCHANGED <<disk, saved, attempt>>

-----------------------------------------------------------------------------
Next ==
  \/ \E n \in Capacities : Setup(n) \/ SetupUnopened(n)
  \/ \E a \in Address, b \in Byte : Set(a, b)
  \/ \E a \in Address, array \in Arrays : Write(a, array)
  \/ AccessRefused
  \/ CommitOpen \/ CommitUnopened \/ CommitWrite \/ CommitDone \/ CommitFails
  \/ Crash

Spec == Init /\ [][Next]_vars

-----------------------------------------------------------------------------
TypeOK ==
  /\ buffer \in Seq(Byte) \union {None}
  /\ disk \in Seq(Byte) \union {None}
  /\ pc \in {"ready", "commit"}
  /\ ok \in BOOLEAN
  /\ saved \in Seq(Byte)
  /\ attempt \in Seq(Byte) \union {None}

\* The file holds the last commit that returned true, or a beginning of one
\* that has opened the file since: never bytes of two commits, never bytes that
\* were set but not committed.
FileIsOneCommit ==
  IF attempt = None
  THEN IF disk = None THEN saved = <<>> ELSE disk = saved
  ELSE disk # None /\ PrefixOf(disk, attempt)

\* What is being committed is not changed meanwhile.
CommitIsOfBuffer ==
  pc = "commit" => buffer # None /\ attempt = buffer

\* The buffer is never resized in the life of a process.
SizeFixed == [][buffer # None /\ buffer' # None => Len(buffer') = Len(buffer)]_vars

\* The inductive invariant of Storage_proofs.
StorageInv == TypeOK /\ FileIsOneCommit /\ CommitIsOfBuffer

Store == INSTANCE DurableStore WITH memory <- buffer

\* The storage implements DurableStore: what a successful commit() saved is
\* what every later setup() finds, until another commit() begins.
SavesDurably == Store!Spec

\* "Reads byte array from specified address, returns std::nullopt if address is
\* out of bounds" (storage.hpp:37). The run StorageLastBytes refutes it: an array
\* that ends where the storage does is refused as well.
OnlyOutOfBoundsRefused ==
  \A a \in Address, array \in Arrays :
    buffer # None /\ a + Len(array) <= Len(buffer) => Accepts(a, Len(array))
=============================================================================
