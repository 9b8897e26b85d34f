--------------------------- MODULE Storage_proofs ---------------------------
(***************************************************************************)
(* For storages of any size, any contents, crashes anywhere: the file is   *)
(* always one commit or a beginning of one, and the storage implements     *)
(* DurableStore.                                                           *)
(***************************************************************************)
EXTENDS Storage, SequenceTheorems, TLAPS

Assumptions == /\ 0 \in Byte
               /\ Capacities \subseteq Nat \ {0}
               /\ Address \subseteq Nat
               /\ Arrays \subseteq Seq(Byte)
               /\ None \notin Seq(Byte)

LEMMA Assumed == Assumptions
BY ByteAssumption, CapacitiesAssumption, AddressAssumption, ArraysAssumption,
   NoneAssumption DEF Assumptions

\* A function on 1..n is a sequence.
LEMMA FunIsSeq ==
  ASSUME NEW S, NEW n \in Nat, NEW f \in [1..n -> S]
  PROVE  f \in Seq(S) /\ Len(f) = n
OBVIOUS

LEMMA EmptyInSeq == ASSUME NEW S PROVE <<>> \in Seq(S) /\ Len(<<>>) = 0
OBVIOUS

LEMMA ZerosType ==
  ASSUME NEW n \in Nat
  PROVE  Zeros(n) \in Seq(Byte) /\ Len(Zeros(n)) = n
<1>1. Zeros(n) \in [1..n -> Byte] BY Assumed DEF Zeros, Assumptions
<1> QED BY <1>1, FunIsSeq

LEMMA ReadIntoType ==
  ASSUME NEW into \in Seq(Byte), NEW data \in Seq(Byte), NEW n \in Nat
  PROVE  /\ ReadInto(into, data, n) \in Seq(Byte)
         /\ Len(ReadInto(into, data, n)) = Len(into)
<1>1. Len(into) \in Nat /\ Len(data) \in Nat OBVIOUS
<1>2. ReadInto(into, data, n) \in [1..Len(into) -> Byte]
  BY <1>1 DEF ReadInto
<1> QED BY <1>1, <1>2, FunIsSeq

\* Nothing is read from a file without bytes.
LEMMA ReadIntoNothing ==
  ASSUME NEW into \in Seq(Byte), NEW n \in Nat
  PROVE  ReadInto(into, <<>>, n) = into
BY DEF ReadInto

LEMMA TakeAll ==
  ASSUME NEW S, NEW s \in Seq(S)
  PROVE  Take(s, Len(s)) = s
BY DEF Take

LEMMA TakeSome ==
  ASSUME NEW S, NEW s \in Seq(S), NEW n \in 0..Len(s)
  PROVE  /\ Take(s, n) \in Seq(S)
         /\ Len(Take(s, n)) = n
         /\ PrefixOf(Take(s, n), s)
<1>1. Take(s, n) \in Seq(S) /\ Len(Take(s, n)) = n BY DEF Take
<1> QED BY <1>1 DEF PrefixOf

LEMMA WholePrefix ==
  ASSUME NEW S, NEW s \in Seq(S), NEW t \in Seq(S), PrefixOf(s, t), Len(s) = Len(t)
  PROVE  s = t
BY TakeAll DEF PrefixOf

-----------------------------------------------------------------------------
LEMMA InvInit == Init => StorageInv
BY Assumed, EmptyInSeq
   DEF Init, StorageInv, TypeOK, FileIsOneCommit, CommitIsOfBuffer, Assumptions

\* A change of the buffer alone, outside a commit.
LEMMA BufferChanges ==
  ASSUME StorageInv, pc = "ready", buffer' \in Seq(Byte), ok' \in BOOLEAN,
         UNCHANGED <<disk, pc, saved, attempt>>
  PROVE  StorageInv'
BY DEF StorageInv, TypeOK, FileIsOneCommit, CommitIsOfBuffer

LEMMA SetupChanges ==
  ASSUME StorageInv, NEW n \in Capacities, Setup(n) \/ SetupUnopened(n)
  PROVE  /\ pc = "ready" /\ buffer' \in Seq(Byte) /\ ok' \in BOOLEAN
         /\ UNCHANGED <<disk, pc, saved, attempt>>
         /\ buffer # None => Len(buffer') = Len(buffer)
<1>1. n \in Nat BY Assumed DEF Assumptions
<1>2. /\ Allocated(n) \in Seq(Byte)
      /\ buffer # None => Allocated(n) = buffer
  BY <1>1, ZerosType DEF Allocated, StorageInv, TypeOK
<1>3. CASE Setup(n)
  <2>1. disk \in Seq(Byte) BY <1>3 DEF Setup, StorageInv, TypeOK
  <2> QED BY <1>1, <1>2, <1>3, <2>1, ReadIntoType DEF Setup
<1>4. CASE SetupUnopened(n) BY <1>2, <1>4 DEF SetupUnopened
<1> QED BY <1>3, <1>4

LEMMA SetChanges ==
  ASSUME StorageInv, NEW a \in Address, NEW b \in Byte, Set(a, b)
  PROVE  /\ pc = "ready" /\ buffer \in Seq(Byte) /\ ok' = TRUE
         /\ buffer' \in [1..Len(buffer) -> Byte]
         /\ UNCHANGED <<disk, pc, saved, attempt>>
BY Assumed DEF Assumptions, Set, Access, InBounds, StorageInv, TypeOK

LEMMA WriteChanges ==
  ASSUME StorageInv, NEW a \in Address, NEW array \in Arrays, Write(a, array)
  PROVE  /\ pc = "ready" /\ buffer \in Seq(Byte) /\ ok' = TRUE
         /\ buffer' \in [1..Len(buffer) -> Byte]
         /\ UNCHANGED <<disk, pc, saved, attempt>>
<1>1. a \in Nat /\ array \in Seq(Byte) BY Assumed DEF Assumptions
<1>2. buffer \in Seq(Byte)
  BY DEF Write, Accepts, StorageInv, TypeOK
<1>3. \A i \in a + 1..a + Len(array) : array[i - a] \in Byte BY <1>1
<1>4. buffer' \in [1..Len(buffer) -> Byte] BY <1>2, <1>3 DEF Write
<1> QED BY <1>2, <1>4 DEF Write, Access

LEMMA CommitKeeps ==
  ASSUME StorageInv,
         CommitOpen \/ CommitUnopened \/ CommitWrite \/ CommitDone \/ CommitFails
  PROVE  StorageInv'
<1> USE DEF StorageInv
<1>1. CASE CommitOpen
  <2>1. buffer \in Seq(Byte) BY <1>1 DEF CommitOpen, TypeOK
  <2>2. PrefixOf(<<>>, buffer) BY <2>1 DEF PrefixOf, Take
  <2>3. TypeOK' BY <1>1, <2>1 DEF CommitOpen, TypeOK
  <2>4. FileIsOneCommit'
    <3>1. buffer # None /\ <<>> # None
      BY <2>1, Assumed, EmptyInSeq DEF Assumptions
    <3>2. disk' = <<>> /\ attempt' = buffer BY <1>1 DEF CommitOpen
    <3> QED BY <2>2, <3>1, <3>2 DEF FileIsOneCommit
  <2>5. CommitIsOfBuffer' BY <1>1 DEF CommitOpen, CommitIsOfBuffer
  <2> QED BY <2>3, <2>4, <2>5
<1>2. CASE CommitUnopened
  BY <1>2 DEF CommitUnopened, TypeOK, FileIsOneCommit, CommitIsOfBuffer
<1>3. CASE CommitWrite
  <2>1. /\ pc = "commit" /\ attempt = buffer /\ buffer \in Seq(Byte)
        /\ attempt # None
    BY <1>3 DEF CommitWrite, CommitIsOfBuffer, TypeOK
  <2>2. disk # None /\ disk \in Seq(Byte)
    BY <2>1 DEF FileIsOneCommit, TypeOK
  <2>3. PICK n \in Len(disk) + 1..Len(buffer) : disk' = Take(buffer, n)
    BY <1>3 DEF CommitWrite
  <2>4. n \in 0..Len(buffer) BY <2>1, <2>2
  <2>5. disk' \in Seq(Byte) /\ PrefixOf(disk', attempt)
    BY <2>1, <2>3, <2>4, TakeSome
  <2>6. UNCHANGED <<buffer, pc, ok, saved, attempt>> BY <1>3 DEF CommitWrite
  <2>7. TypeOK' BY <2>5, <2>6 DEF TypeOK
  <2>8. FileIsOneCommit'
    BY <2>1, <2>5, <2>6, Assumed DEF FileIsOneCommit, Assumptions
  <2>9. CommitIsOfBuffer' BY <2>6 DEF CommitIsOfBuffer
  <2> QED BY <2>7, <2>8, <2>9
<1>4. CASE CommitDone
  <2>1. /\ attempt = buffer /\ buffer \in Seq(Byte) /\ attempt # None
    BY <1>4 DEF CommitDone, CommitIsOfBuffer, TypeOK
  <2>2. disk # None /\ disk \in Seq(Byte) /\ PrefixOf(disk, buffer)
    BY <2>1 DEF FileIsOneCommit, TypeOK
  <2>3. disk = buffer BY <1>4, <2>1, <2>2, WholePrefix DEF CommitDone
  <2> QED BY <1>4, <2>1, <2>2, <2>3
          DEF CommitDone, TypeOK, FileIsOneCommit, CommitIsOfBuffer
<1>5. CASE CommitFails
  BY <1>5 DEF CommitFails, TypeOK, FileIsOneCommit, CommitIsOfBuffer
<1> QED BY <1>1, <1>2, <1>3, <1>4, <1>5

LEMMA InvNext == StorageInv /\ [Next]_vars => StorageInv'
<1> SUFFICES ASSUME StorageInv, [Next]_vars PROVE StorageInv' OBVIOUS
<1>1. ASSUME NEW n \in Capacities, Setup(n) \/ SetupUnopened(n)
      PROVE  StorageInv'
  BY <1>1, SetupChanges, BufferChanges
<1>2. ASSUME NEW a \in Address, NEW b \in Byte, Set(a, b) PROVE StorageInv'
  <2>1. /\ pc = "ready" /\ ok' \in BOOLEAN /\ buffer \in Seq(Byte)
        /\ buffer' \in [1..Len(buffer) -> Byte]
        /\ UNCHANGED <<disk, pc, saved, attempt>>
    BY <1>2, SetChanges
  <2>2. buffer' \in Seq(Byte) BY <2>1, FunIsSeq
  <2> QED BY <2>1, <2>2, BufferChanges
<1>3. ASSUME NEW a \in Address, NEW array \in Arrays, Write(a, array)
      PROVE  StorageInv'
  <2>1. /\ pc = "ready" /\ ok' \in BOOLEAN /\ buffer \in Seq(Byte)
        /\ buffer' \in [1..Len(buffer) -> Byte]
        /\ UNCHANGED <<disk, pc, saved, attempt>>
    BY <1>3, WriteChanges
  <2>2. buffer' \in Seq(Byte) BY <2>1, FunIsSeq
  <2> QED BY <2>1, <2>2, BufferChanges
<1>4. CASE AccessRefused
  BY <1>4 DEF AccessRefused, StorageInv, TypeOK, FileIsOneCommit, CommitIsOfBuffer
<1>5. CASE CommitOpen \/ CommitUnopened \/ CommitWrite \/ CommitDone \/ CommitFails
  BY <1>5, CommitKeeps
<1>6. CASE Crash
  BY <1>6 DEF Crash, StorageInv, TypeOK, FileIsOneCommit, CommitIsOfBuffer
<1>7. CASE UNCHANGED vars
  BY <1>7 DEF vars, StorageInv, TypeOK, FileIsOneCommit, CommitIsOfBuffer
<1> QED BY <1>1, <1>2, <1>3, <1>4, <1>5, <1>6, <1>7 DEF Next

\* The inductive invariant holds of every reachable state.
THEOREM StorageInvariant == Spec => []StorageInv
BY InvInit, InvNext, PTL DEF Spec

\* Every variable keeps its type.
THEOREM StorageTypeCorrect == Spec => []TypeOK
<1>1. StorageInv => TypeOK BY DEF StorageInv
<1> QED BY <1>1, StorageInvariant, PTL

\* eeprom.dat holds the last commit() that returned true or a beginning of a
\* later one, wherever the process was stopped.
THEOREM FileCorrect == Spec => []FileIsOneCommit
<1>1. StorageInv => FileIsOneCommit BY DEF StorageInv
<1> QED BY <1>1, StorageInvariant, PTL

-----------------------------------------------------------------------------
\* Loading is all setup() does, in DurableStore's eyes.
LEMMA SetupLoads ==
  ASSUME StorageInv, NEW n \in Capacities, Setup(n) \/ SetupUnopened(n)
  PROVE  Store!Load(n)
<1> DEFINE all == IF attempt = None THEN saved ELSE attempt
<1>1. n \in Nat BY Assumed DEF Assumptions
<1>2. /\ all \in Seq(Byte) /\ Len(all) \in Nat
      /\ Allocated(n) \in Seq(Byte)
  BY <1>1, ZerosType DEF Allocated, StorageInv, TypeOK
<1>3. Allocated(n) = IF buffer = None THEN Store!Zeros(n) ELSE buffer
  BY DEF Allocated, Zeros, Store!Zeros
<1>4. ASSUME NEW base, NEW data PROVE Store!Over(base, data, n) = ReadInto(base, data, n)
  BY DEF Store!Over, ReadInto
<1>5. ok' \in BOOLEAN /\ UNCHANGED <<saved, attempt>> BY SetupChanges
<1>6. \A d, e : /\ Store!PrefixOf(d, e) <=> PrefixOf(d, e)
               /\ Store!Take(d, e) = Take(d, e)
  BY DEF Store!PrefixOf, PrefixOf, Store!Take, Take
<1>7. CASE Setup(n)
  <2>1. disk # None /\ disk \in Seq(Byte) /\ Len(disk) \in Nat
    BY <1>7 DEF Setup, StorageInv, TypeOK
  <2>2. Len(disk) <= Len(all) /\ Take(all, Len(disk)) = disk
    BY <1>2, <2>1, TakeAll DEF StorageInv, FileIsOneCommit, PrefixOf
  <2>3. Store!Loadable(disk)
    BY <1>6, <2>1 DEF StorageInv, FileIsOneCommit, Store!Loadable
  <2>4. /\ buffer' = Store!Over(Allocated(n), disk, n)
        /\ ok' => Len(disk) >= n
    BY <1>4, <1>7 DEF Setup
  <2> HIDE DEF all
  <2>5. \E length \in 0..Len(all) :
          /\ Store!Loadable(Take(all, length)) \/ length = 0
          /\ buffer' = Store!Over(Allocated(n), Take(all, length), n)
          /\ ok' => length >= n
    <3>1. Len(disk) \in 0..Len(all) BY <1>2, <2>1, <2>2
    <3> QED BY <2>2, <2>3, <2>4, <3>1
  <2> QED BY <1>3, <1>5, <1>6, <2>5, Zenon DEF Store!Load, all
<1>8. CASE SetupUnopened(n)
  <2>1. Take(all, 0) = <<>> BY <1>2 DEF Take
  <2>2. buffer' = Store!Over(Allocated(n), <<>>, n)
    BY <1>1, <1>2, <1>4, <1>8, ReadIntoNothing DEF SetupUnopened
  <2>3. ok' = FALSE BY <1>8 DEF SetupUnopened
  <2> HIDE DEF all
  <2>4. \E length \in 0..Len(all) :
          /\ Store!Loadable(Take(all, length)) \/ length = 0
          /\ buffer' = Store!Over(Allocated(n), Take(all, length), n)
          /\ ok' => length >= n
    <3>1. 0 \in 0..Len(all) BY <1>2
    <3> QED BY <2>1, <2>2, <2>3, <3>1
  <2> QED BY <1>3, <1>5, <1>6, <2>4, Zenon DEF Store!Load, all
<1> QED BY <1>7, <1>8

LEMMA StepRefines ==
  ASSUME StorageInv, [Next]_vars
  PROVE  [Store!Next]_Store!vars
<1> SUFFICES Store!Next \/ UNCHANGED Store!vars OBVIOUS
<1>1. ASSUME NEW n \in Capacities, Setup(n) \/ SetupUnopened(n) PROVE Store!Next
  BY <1>1, SetupLoads DEF Store!Next
<1>2. ASSUME NEW a \in Address, NEW b \in Byte, Set(a, b) PROVE Store!Next
  <2>1. buffer # None BY <1>2 DEF Set, InBounds
  <2>2. Store!Change BY <1>2, <2>1, SetChanges DEF Store!Change
  <2> QED BY <2>2 DEF Store!Next
<1>3. ASSUME NEW a \in Address, NEW array \in Arrays, Write(a, array)
      PROVE  Store!Next
  <2>1. buffer # None BY <1>3 DEF Write, Accepts
  <2>2. Store!Change BY <1>3, <2>1, WriteChanges DEF Store!Change
  <2> QED BY <2>2 DEF Store!Next
<1>4. CASE AccessRefused \/ CommitUnopened \/ CommitFails
  BY <1>4 DEF AccessRefused, CommitUnopened, CommitFails, Store!Refuse, Store!Next
<1>5. CASE CommitOpen
  BY <1>5 DEF CommitOpen, Store!BeginSave, Store!Next
<1>6. CASE CommitWrite
  BY <1>6 DEF CommitWrite, Store!vars
<1>7. CASE CommitDone
  BY <1>7 DEF CommitDone, StorageInv, CommitIsOfBuffer, Store!EndSave, Store!Next
<1>8. CASE Crash
  BY <1>8 DEF Crash, Store!Crash, Store!Next
<1>9. CASE UNCHANGED vars
  BY <1>9 DEF vars, Store!vars
<1> QED BY <1>1, <1>2, <1>3, <1>4, <1>5, <1>6, <1>7, <1>8, <1>9 DEF Next

\* What a successful commit() saved is what every later setup() finds until
\* another commit() begins: every step of the storage is one of DurableStore.
THEOREM ImplementsDurableStore == Spec => SavesDurably
<1>1. Init => Store!Init BY DEF Init, Store!Init
<1> QED BY <1>1, StepRefines, StorageInvariant, PTL DEF Spec, SavesDurably, Store!Spec

\* The buffer keeps its size as long as the process lives.
THEOREM SizeIsFixed == Spec => SizeFixed
<1>1. ASSUME StorageInv, [Next]_vars, buffer # None, buffer' # None
      PROVE  Len(buffer') = Len(buffer)
  <2>1. ASSUME NEW n \in Capacities, Setup(n) \/ SetupUnopened(n)
        PROVE  Len(buffer') = Len(buffer)
    BY <1>1, <2>1, SetupChanges
  <2>2. ASSUME NEW a \in Address, NEW b \in Byte, Set(a, b)
        PROVE  Len(buffer') = Len(buffer)
    <3>1. buffer \in Seq(Byte) /\ buffer' \in [1..Len(buffer) -> Byte]
      BY <1>1, <2>2, SetChanges
    <3> QED BY <3>1, FunIsSeq
  <2>3. ASSUME NEW a \in Address, NEW array \in Arrays, Write(a, array)
        PROVE  Len(buffer') = Len(buffer)
    <3>1. buffer \in Seq(Byte) /\ buffer' \in [1..Len(buffer) -> Byte]
      BY <1>1, <2>3, WriteChanges
    <3> QED BY <3>1, FunIsSeq
  <2>4. CASE \/ AccessRefused \/ CommitOpen \/ CommitUnopened \/ CommitWrite
             \/ CommitDone \/ CommitFails \/ UNCHANGED vars
    BY <2>4 DEF AccessRefused, CommitOpen, CommitUnopened, CommitWrite,
                CommitDone, CommitFails, vars
  <2>5. CASE Crash BY <1>1, <2>5 DEF Crash
  <2> QED BY <1>1, <2>1, <2>2, <2>3, <2>4, <2>5 DEF Next
<1>2. StorageInv /\ [Next]_vars =>
        [buffer # None /\ buffer' # None => Len(buffer') = Len(buffer)]_vars
  BY <1>1
<1> QED BY <1>2, StorageInvariant, PTL DEF Spec, SizeFixed
=============================================================================
