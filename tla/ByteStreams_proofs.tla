------------------------ MODULE ByteStreams_proofs ------------------------
(***************************************************************************)
(* What the string_view operations of ByteStreams return, for byte strings *)
(* of any length.                                                          *)
(***************************************************************************)
EXTENDS ByteStreams, SequenceTheorems, FiniteSetTheorems,
        WellFoundedInduction, TLAPS

\* A set of naturals that is not empty has a smallest element: the interval
\* 0..x of the smallest x has no strict subset among the intervals of the set.
LEMMA Smallest ==
  ASSUME NEW T, T \subseteq Nat, T # {}
  PROVE  \E x \in T : \A y \in T : x <= y
<1> DEFINE F == {0..x : x \in T}
<1>1. IsWellFoundedOn(StrictSubsetOrdering(Nat), FiniteSubsetsOf(Nat))
  BY FS_StrictSubsetOrderingWellFounded
<1>2. F \subseteq FiniteSubsetsOf(Nat)
  <2>1. ASSUME NEW x \in T PROVE 0..x \in FiniteSubsetsOf(Nat)
    <3>1. x \in Int /\ 0 \in Int OBVIOUS
    <3>2. IsFiniteSet(0..x) BY <3>1, FS_Interval
    <3>3. 0..x \subseteq Nat OBVIOUS
    <3> QED BY <3>2, <3>3 DEF FiniteSubsetsOf
  <2> QED BY <2>1
<1>3. F # {} OBVIOUS
<1>4. \E I \in F : \A J \in F : <<J, I>> \notin StrictSubsetOrdering(Nat)
  <2> HIDE DEF F
  <2> QED BY <1>1, <1>2, <1>3, WFMin
<1>5. PICK x \in T : \A y \in T : <<0..y, 0..x>> \notin StrictSubsetOrdering(Nat)
  BY <1>4
<1>6. ASSUME NEW y \in T, y < x PROVE FALSE
  <2>1. 0..y \in SUBSET Nat /\ 0..x \in SUBSET Nat OBVIOUS
  <2>2. 0..y \subseteq 0..x /\ x \in 0..x /\ x \notin 0..y BY <1>6
  <2>3. <<0..y, 0..x>> \in StrictSubsetOrdering(Nat)
    BY <2>1, <2>2, Zenon DEF StrictSubsetOrdering
  <2> QED BY <1>5, <2>3
<1> QED BY <1>6

\* The candidates of find() for a pattern that is not empty.
At(view, pattern) ==
  {i \in 1..(Len(view) - Len(pattern) + 1) :
     SubSeq(view, i, i + Len(pattern) - 1) = pattern}

\* find() is 0 exactly when the pattern does not occur; otherwise it is a
\* position of the view at which the pattern stands, and the first such one.
THEOREM FindIsFirst ==
  ASSUME NEW S, NEW view \in Seq(S), NEW pattern \in Seq(S), Len(pattern) >= 1
  PROVE  /\ Find(view, pattern) \in 0..Len(view)
         /\ Find(view, pattern) = 0 <=> At(view, pattern) = {}
         /\ At(view, pattern) # {} =>
              /\ Find(view, pattern) \in At(view, pattern)
              /\ \A j \in At(view, pattern) : Find(view, pattern) <= j
              /\ Find(view, pattern) + Len(pattern) - 1 <= Len(view)
<1> DEFINE at == At(view, pattern)
<1>1. /\ Len(view) \in Nat /\ Len(pattern) \in Nat
      /\ at \subseteq Nat
      /\ \A i \in at : i >= 1 /\ i + Len(pattern) - 1 <= Len(view)
  BY LenProperties DEF At
<1>2. Find(view, pattern) =
        IF at = {} THEN 0 ELSE CHOOSE i \in at : \A j \in at : i <= j
  BY DEF Find, At
<1> HIDE DEF at
<1>3. CASE at = {}
  BY <1>1, <1>2, <1>3 DEF at
<1>4. CASE at # {}
  <2>1. \E x \in at : \A y \in at : x <= y
    BY <1>1, <1>4, Smallest
  <2>2. /\ Find(view, pattern) \in at
        /\ \A j \in at : Find(view, pattern) <= j
    BY <1>2, <1>4, <2>1
  <2>3. Find(view, pattern) \in Nat
    BY <1>1, <2>2
  <2> QED BY <1>1, <1>4, <2>2, <2>3, SMTT(30) DEF at
<1> QED BY <1>3, <1>4

\* Consuming n tokens leaves a byte string over the same tokens.
LEMMA DropType ==
  ASSUME NEW S, NEW view \in Seq(S), NEW n \in Nat
  PROVE  /\ Drop(view, n) \in Seq(S)
         /\ Len(Drop(view, n)) = IF n < Len(view) THEN Len(view) - n ELSE 0
<1>1. Len(view) \in Nat BY LenProperties
<1>2. \A i \in (n + 1)..Len(view) : view[i] \in S
  BY <1>1, ElementOfSeq
<1> QED BY <1>1, <1>2, SubSeqProperties, SMTT(30) DEF Drop

\* So does taking the tokens that have arrived.
LEMMA TakeType ==
  ASSUME NEW S, NEW view \in Seq(S), NEW n \in 0..Len(view)
  PROVE  /\ Take(view, n) \in Seq(S)
         /\ Len(Take(view, n)) = n
         /\ \A i \in 1..n : Take(view, n)[i] = view[i]
<1>1. Len(view) \in Nat BY LenProperties
<1>2. \A i \in 1..n : view[i] \in S
  BY <1>1, ElementOfSeq
<1> QED BY <1>1, <1>2, SubSeqProperties, SMTT(30) DEF Take

\* A read never returns more than has arrived, nor more than fits.
LEMMA ReadSizesType ==
  ASSUME NEW S, NEW stream \in Seq(S), NEW size \in Nat
  PROVE  \A n \in ReadSizes(stream, size) :
           n \in 1..Len(stream) /\ n <= size
<1>1. Len(stream) \in Nat BY LenProperties
<1> QED BY <1>1 DEF ReadSizes

\* A line end, and an empty line, at a position.
EndAt(v, i) == v[i] = "CR" /\ v[i + 1] = "LF"
BlankAt(v, i) == EndAt(v, i) /\ EndAt(v, i + 2)

LEMMA Patterns ==
  ASSUME NEW S, "CR" \in S, "LF" \in S
  PROVE
  /\ CRLF \in Seq(S) /\ Len(CRLF) = 2
  /\ CRLF[1] = "CR" /\ CRLF[2] = "LF"
  /\ EmptyLine \in Seq(S) /\ Len(EmptyLine) = 4
  /\ EmptyLine[1] = "CR" /\ EmptyLine[2] = "LF"
  /\ EmptyLine[3] = "CR" /\ EmptyLine[4] = "LF"
<1>1. /\ CRLF \in Seq(S) /\ Len(CRLF) = 2
      /\ CRLF[1] = "CR" /\ CRLF[2] = "LF"
  BY DEF CRLF
<1>2. /\ CRLF \o CRLF \in Seq(S)
      /\ Len(CRLF \o CRLF) = 4
      /\ \A i \in 1..4 :
           (CRLF \o CRLF)[i] = IF i <= 2 THEN CRLF[i] ELSE CRLF[i - 2]
  <2>1. /\ CRLF \o CRLF \in Seq(S)
        /\ Len(CRLF \o CRLF) = Len(CRLF) + Len(CRLF)
        /\ \A i \in 1..(Len(CRLF) + Len(CRLF)) : (CRLF \o CRLF)[i] =
             IF i <= Len(CRLF) THEN CRLF[i] ELSE CRLF[i - Len(CRLF)]
    BY <1>1, ConcatProperties, Zenon
  <2>2. Len(CRLF) + Len(CRLF) = 4 BY <1>1
  <2> QED BY <1>1, <2>1, <2>2
<1>3. 1 \in 1..4 /\ 2 \in 1..4 /\ 3 \in 1..4 /\ 4 \in 1..4 OBVIOUS
<1> QED BY <1>1, <1>2, <1>3 DEF EmptyLine

\* A piece of a byte string.
LEMMA Piece ==
  ASSUME NEW S, NEW v \in Seq(S), NEW a \in Nat, NEW b \in Nat,
         a >= 1, b <= Len(v), a <= b + 1
  PROVE  /\ SubSeq(v, a, b) \in Seq(S)
         /\ Len(SubSeq(v, a, b)) = b - a + 1
         /\ \A i \in 1..(b - a + 1) : SubSeq(v, a, b)[i] = v[a + i - 1]
<1>1. Len(v) \in Nat BY LenProperties
<1>2. \A i \in a..b : v[i] \in S BY <1>1, ElementOfSeq
<1> QED BY <1>2, SubSeqProperties, SMTT(30)

\* A pattern stands at a position exactly when its bytes do.
LEMMA Stands ==
  ASSUME NEW S, NEW v \in Seq(S), NEW p \in Seq(S), NEW i \in Nat, i >= 1,
         Len(p) >= 1, i + Len(p) - 1 <= Len(v)
  PROVE  SubSeq(v, i, i + Len(p) - 1) = p <=>
           \A k \in 1..Len(p) : v[i + k - 1] = p[k]
<1> DEFINE s == SubSeq(v, i, i + Len(p) - 1)
<1>1. Len(p) \in Nat BY LenProperties
<1>2. /\ s \in Seq(S) /\ Len(s) = Len(p)
      /\ \A k \in 1..Len(p) : s[k] = v[i + k - 1]
  BY <1>1, Piece, SMTT(30)
<1> HIDE DEF s
<1>3. ASSUME \A k \in 1..Len(p) : v[i + k - 1] = p[k] PROVE s = p
  BY <1>1, <1>2, <1>3, SeqEqual
<1>4. ASSUME s = p PROVE \A k \in 1..Len(p) : v[i + k - 1] = p[k]
  BY <1>2, <1>4
<1> QED BY <1>3, <1>4 DEF s

\* find("\r\n") is the first line end.
LEMMA FirstEnd ==
  ASSUME NEW S, NEW v \in Seq(S)
  PROVE  /\ Find(v, CRLF) \in Nat
         /\ Find(v, CRLF) = 0 => \A i \in 1..(Len(v) - 1) : ~EndAt(v, i)
         /\ Find(v, CRLF) # 0 =>
              /\ Find(v, CRLF) + 1 <= Len(v)
              /\ EndAt(v, Find(v, CRLF))
              /\ \A i \in 1..(Find(v, CRLF) - 1) : ~EndAt(v, i)
<1> DEFINE B == S \union {"CR", "LF"}
<1> v \in Seq(B) /\ "CR" \in B /\ "LF" \in B
  <2>1. S \subseteq B OBVIOUS
  <2> QED BY <2>1, SeqMonotonic
<1> HIDE DEF B
<1>0. /\ CRLF \in Seq(B) /\ Len(CRLF) = 2
      /\ CRLF[1] = "CR" /\ CRLF[2] = "LF"
  BY Patterns, Zenon
<1>1. Len(v) \in Nat BY LenProperties
<1>2. \A i \in 1..(Len(v) - 1) : i \in At(v, CRLF) <=> EndAt(v, i)
  <2> SUFFICES ASSUME NEW i \in 1..(Len(v) - 1)
               PROVE  i \in At(v, CRLF) <=> EndAt(v, i)
    OBVIOUS
  <2>0. i \in Nat /\ i >= 1 /\ Len(CRLF) >= 1 /\ i + Len(CRLF) - 1 <= Len(v)
    BY <1>0, <1>1
  <2>1. SubSeq(v, i, i + Len(CRLF) - 1) = CRLF <=>
          \A k \in 1..Len(CRLF) : v[i + k - 1] = CRLF[k]
    BY <1>0, <2>0, Stands, SMT
  <2>2. (\A k \in 1..2 : v[i + k - 1] = CRLF[k]) <=> EndAt(v, i)
    <3>1. 1..2 = {1, 2} OBVIOUS
    <3>2. i + 1 - 1 = i /\ i + 2 - 1 = i + 1 BY <1>1
    <3> QED BY <3>1, <3>2, <1>0 DEF EndAt
  <2>3. i \in 1..(Len(v) - Len(CRLF) + 1) BY <1>1, <1>0
  <2> QED BY <2>1, <2>2, <2>3, <1>0 DEF At
<1>3. /\ Find(v, CRLF) \in 0..Len(v)
      /\ Find(v, CRLF) = 0 <=> At(v, CRLF) = {}
      /\ At(v, CRLF) # {} =>
           /\ Find(v, CRLF) \in At(v, CRLF)
           /\ \A j \in At(v, CRLF) : Find(v, CRLF) <= j
           /\ Find(v, CRLF) + Len(CRLF) - 1 <= Len(v)
  <2>1. Len(CRLF) >= 1 BY <1>0
  <2> QED BY <2>1, <1>0, FindIsFirst, Zenon
<1> DEFINE f == Find(v, CRLF)
<1>4. f \in Nat BY <1>1, <1>3
<1>5. f = 0 => \A i \in 1..(Len(v) - 1) : ~EndAt(v, i)
  BY <1>2, <1>3
<1>6. ASSUME f # 0
      PROVE  /\ f + 1 <= Len(v)
             /\ EndAt(v, f)
             /\ \A i \in 1..(f - 1) : ~EndAt(v, i)
  <2>1. f \in At(v, CRLF) /\ \A j \in At(v, CRLF) : f <= j BY <1>3, <1>6
  <2>2. f + 1 <= Len(v) BY <1>1, <1>3, <1>6, <1>0
  <2> HIDE DEF f
  <2>3. f \in 1..(Len(v) - 1) BY <1>1, <1>4, <1>6, <2>2
  <2>4. \A i \in 1..(f - 1) : ~EndAt(v, i)
    BY <1>1, <1>2, <1>4, <2>1, <2>3
  <2> QED BY <1>2, <2>1, <2>2, <2>3, <2>4
<1> QED BY <1>4, <1>5, <1>6

\* find("\r\n\r\n") is the first empty line.
LEMMA FirstBlank ==
  ASSUME NEW S, NEW v \in Seq(S)
  PROVE  /\ Find(v, EmptyLine) \in Nat
         /\ Find(v, EmptyLine) = 0 => \A i \in 1..(Len(v) - 3) : ~BlankAt(v, i)
         /\ Find(v, EmptyLine) # 0 =>
              /\ Find(v, EmptyLine) + 3 <= Len(v)
              /\ BlankAt(v, Find(v, EmptyLine))
              /\ \A i \in 1..(Find(v, EmptyLine) - 1) : ~BlankAt(v, i)
<1> DEFINE B == S \union {"CR", "LF"}
<1> v \in Seq(B) /\ "CR" \in B /\ "LF" \in B
  <2>1. S \subseteq B OBVIOUS
  <2> QED BY <2>1, SeqMonotonic
<1> HIDE DEF B
<1>0. /\ EmptyLine \in Seq(B) /\ Len(EmptyLine) = 4
      /\ EmptyLine[1] = "CR" /\ EmptyLine[2] = "LF"
      /\ EmptyLine[3] = "CR" /\ EmptyLine[4] = "LF"
  BY Patterns, Zenon
<1>1. Len(v) \in Nat BY LenProperties
<1>2. \A i \in 1..(Len(v) - 3) : i \in At(v, EmptyLine) <=> BlankAt(v, i)
  <2> SUFFICES ASSUME NEW i \in 1..(Len(v) - 3)
               PROVE  i \in At(v, EmptyLine) <=> BlankAt(v, i)
    OBVIOUS
  <2>0. i \in Nat /\ i >= 1 /\ Len(EmptyLine) >= 1 /\ i + Len(EmptyLine) - 1 <= Len(v)
    BY <1>0, <1>1
  <2>1. SubSeq(v, i, i + Len(EmptyLine) - 1) = EmptyLine <=>
          \A k \in 1..Len(EmptyLine) : v[i + k - 1] = EmptyLine[k]
    BY <1>0, <2>0, Stands, SMT
  <2>2. (\A k \in 1..4 : v[i + k - 1] = EmptyLine[k]) <=> BlankAt(v, i)
    <3>1. 1..4 = {1, 2, 3, 4} OBVIOUS
    <3>2. /\ i + 1 - 1 = i /\ i + 2 - 1 = i + 1
          /\ i + 3 - 1 = i + 2 /\ i + 4 - 1 = i + 2 + 1
      BY <1>1
    <3> QED BY <3>1, <3>2, <1>0 DEF BlankAt, EndAt
  <2>3. i \in 1..(Len(v) - Len(EmptyLine) + 1) BY <1>1, <1>0
  <2> QED BY <2>1, <2>2, <2>3, <1>0 DEF At
<1>3. /\ Find(v, EmptyLine) \in 0..Len(v)
      /\ Find(v, EmptyLine) = 0 <=> At(v, EmptyLine) = {}
      /\ At(v, EmptyLine) # {} =>
           /\ Find(v, EmptyLine) \in At(v, EmptyLine)
           /\ \A j \in At(v, EmptyLine) : Find(v, EmptyLine) <= j
           /\ Find(v, EmptyLine) + Len(EmptyLine) - 1 <= Len(v)
  <2>1. Len(EmptyLine) >= 1 BY <1>0
  <2> QED BY <2>1, <1>0, FindIsFirst, Zenon
<1> DEFINE f == Find(v, EmptyLine)
<1>4. f \in Nat BY <1>1, <1>3
<1>5. f = 0 => \A i \in 1..(Len(v) - 3) : ~BlankAt(v, i)
  BY <1>2, <1>3
<1>6. ASSUME f # 0
      PROVE  /\ f + 3 <= Len(v)
             /\ BlankAt(v, f)
             /\ \A i \in 1..(f - 1) : ~BlankAt(v, i)
  <2>1. f \in At(v, EmptyLine) /\ \A j \in At(v, EmptyLine) : f <= j
    BY <1>3, <1>6
  <2>2. f + 3 <= Len(v) BY <1>1, <1>3, <1>6, <1>0
  <2> HIDE DEF f
  <2>3. f \in 1..(Len(v) - 3) BY <1>1, <1>4, <1>6, <2>2
  <2>4. \A i \in 1..(f - 1) : ~BlankAt(v, i)
    BY <1>1, <1>2, <1>4, <2>1, <2>3
  <2> QED BY <1>2, <2>1, <2>2, <2>3, <2>4
<1> QED BY <1>4, <1>5, <1>6

\* What remains once d bytes of the n that came are dropped.
LEMMA PieceAfter ==
  ASSUME NEW S, NEW r \in Seq(S), NEW d \in Nat, NEW n \in Nat,
         d <= n, n <= Len(r)
  PROVE  /\ SubSeq(r, d + 1, n) \in Seq(S)
         /\ Len(SubSeq(r, d + 1, n)) = n - d
         /\ \A i \in 1..(n - d) : SubSeq(r, d + 1, n)[i] = r[d + i]
<1> DEFINE p == SubSeq(r, d + 1, n)
<1>1. n - (d + 1) + 1 = n - d OBVIOUS
<1>2. d + 1 \in Nat /\ d + 1 >= 1 /\ d + 1 <= n + 1 OBVIOUS
<1>3. /\ p \in Seq(S) /\ Len(p) = n - (d + 1) + 1
      /\ \A i \in 1..(n - (d + 1) + 1) : p[i] = r[d + 1 + i - 1]
  BY <1>2, Piece
<1> HIDE DEF p
<1>4. ASSUME NEW i \in 1..(n - d) PROVE p[i] = r[d + i]
  <2>1. d + 1 + i - 1 = d + i OBVIOUS
  <2> QED BY <1>1, <1>3, <2>1
<1> QED BY <1>1, <1>3, <1>4 DEF p

\* What is left of a piece of a request when more of it is dropped.
LEMMA DropPiece ==
  ASSUME NEW S, NEW r \in Seq(S), NEW d \in Nat, NEW n \in Nat, NEW k \in Nat,
         n <= Len(r), d + k <= n
  PROVE  /\ Drop(SubSeq(r, d + 1, n), k) = SubSeq(r, d + k + 1, n)
         /\ Len(SubSeq(r, d + k + 1, n)) = n - d - k
<1> DEFINE b == SubSeq(r, d + 1, n)
           s == SubSeq(b, k + 1, Len(b))
           t == SubSeq(r, d + k + 1, n)
<1>1. Len(r) \in Nat /\ d <= n BY LenProperties
<1>2. /\ b \in Seq(S) /\ Len(b) = n - d
      /\ \A i \in 1..(n - d) : b[i] = r[d + i]
  BY <1>1, PieceAfter, Zenon
<1>3. /\ t \in Seq(S) /\ Len(t) = n - d - k
      /\ \A i \in 1..(n - d - k) : t[i] = r[d + k + i]
  <2>1. n - (d + k + 1) + 1 = n - d - k
        /\ \A i \in Nat : d + k + 1 + i - 1 = d + k + i
    OBVIOUS
  <2> QED BY <1>1, <2>1, Piece, SMTT(30)
<1> HIDE DEF b
<1>4. /\ s \in Seq(S) /\ Len(s) = n - d - k
      /\ \A i \in 1..(n - d - k) : s[i] = b[k + i]
  <2>1. Len(b) - (k + 1) + 1 = n - d - k
        /\ \A i \in Nat : k + 1 + i - 1 = k + i
    BY <1>2
  <2>2. k + 1 \in Nat /\ Len(b) \in Nat /\ k + 1 >= 1 /\ k + 1 <= Len(b) + 1
    BY <1>2
  <2>3. /\ s \in Seq(S) /\ Len(s) = Len(b) - (k + 1) + 1
        /\ \A i \in 1..(Len(b) - (k + 1) + 1) : s[i] = b[k + 1 + i - 1]
    <3> HIDE DEF s
    <3> QED BY <1>2, <2>2, Piece DEF s
  <2> HIDE DEF s
  <2> QED BY <2>1, <2>2, <2>3
<1>5. ASSUME NEW i \in 1..(n - d - k) PROVE s[i] = t[i]
  <2>1. k + i \in 1..(n - d) /\ d + (k + i) = d + k + i OBVIOUS
  <2>2. s[i] = b[k + i] BY <1>4
  <2>3. t[i] = r[d + k + i] BY <1>3
  <2> HIDE DEF s, t
  <2> QED BY <1>2, <2>1, <2>2, <2>3
<1> HIDE DEF s, t
<1>6. s = t BY <1>3, <1>4, <1>5, SeqEqual
<1>7. Drop(b, k) = s BY DEF s, Drop
<1> QED BY <1>3, <1>6, <1>7 DEF b, t

\* The front of a piece.
LEMMA TakePiece ==
  ASSUME NEW S, NEW r \in Seq(S), NEW d \in Nat, NEW n \in Nat, NEW k \in Nat,
         n <= Len(r), d + k <= n
  PROVE  Take(SubSeq(r, d + 1, n), k) = SubSeq(r, d + 1, d + k)
<1> DEFINE q == d + k
           b == SubSeq(r, d + 1, n)
           s == Take(b, k)
           t == SubSeq(r, d + 1, q)
<1>1. Len(r) \in Nat /\ d <= n /\ q \in Nat /\ d <= q /\ q <= Len(r) /\ q - d = k
  BY LenProperties
<1> HIDE DEF q
<1>2. /\ b \in Seq(S) /\ Len(b) = n - d
      /\ \A i \in 1..(n - d) : b[i] = r[d + i]
  BY <1>1, PieceAfter, ZenonT(60)
<1>3. /\ t \in Seq(S) /\ Len(t) = q - d
      /\ \A i \in 1..(q - d) : t[i] = r[d + i]
  BY <1>1, PieceAfter, ZenonT(60)
<1> HIDE DEF b
<1>4. k \in 0..Len(b) /\ \A i \in 1..k : i \in 1..(n - d)
  BY <1>2 DEF q
<1>5. /\ s \in Seq(S) /\ Len(s) = k
      /\ \A i \in 1..k : s[i] = b[i]
  BY <1>2, <1>4, TakeType, Zenon
<1> HIDE DEF s, t
<1>6. \A i \in 1..k : s[i] = t[i] BY <1>1, <1>2, <1>3, <1>4, <1>5, Zenon
<1>7. s = t
  <2>1. Len(t) = k BY <1>1, <1>3
  <2> QED BY <1>3, <1>5, <1>6, <2>1, SeqEqual
<1> QED BY <1>7 DEF b, q, s, t

\* Two pieces one behind the other are one.
LEMMA JoinPieces ==
  ASSUME NEW S, NEW r \in Seq(S), NEW a \in Nat, NEW d \in Nat, NEW n \in Nat,
         a <= d, d <= n, n <= Len(r)
  PROVE  SubSeq(r, a + 1, d) \o SubSeq(r, d + 1, n) = SubSeq(r, a + 1, n)
<1> DEFINE x == SubSeq(r, a + 1, d)
           y == SubSeq(r, d + 1, n)
           s == x \o y
           t == SubSeq(r, a + 1, n)
<1>1. Len(r) \in Nat /\ d <= Len(r) /\ a <= n BY LenProperties
<1>2. /\ x \in Seq(S) /\ Len(x) = d - a
      /\ \A i \in 1..(d - a) : x[i] = r[a + i]
  BY <1>1, PieceAfter, Zenon
<1>3. /\ y \in Seq(S) /\ Len(y) = n - d
      /\ \A i \in 1..(n - d) : y[i] = r[d + i]
  BY <1>1, PieceAfter, Zenon
<1>4. /\ t \in Seq(S) /\ Len(t) = n - a
      /\ \A i \in 1..(n - a) : t[i] = r[a + i]
  BY <1>1, PieceAfter, Zenon
<1> HIDE DEF x, y
<1>5. /\ s \in Seq(S) /\ Len(s) = Len(x) + Len(y)
      /\ \A i \in 1..(Len(x) + Len(y)) :
           s[i] = IF i <= Len(x) THEN x[i] ELSE y[i - Len(x)]
  BY <1>2, <1>3, ConcatProperties, Zenon
<1> HIDE DEF s, t
<1>6. Len(x) + Len(y) = n - a BY <1>1, <1>2, <1>3
<1>7. ASSUME NEW i \in 1..(n - a) PROVE s[i] = t[i]
  <2>1. CASE i <= d - a
    <3>1. i \in 1..(d - a) /\ i <= Len(x) BY <1>2, <2>1
    <3>2. s[i] = x[i] BY <1>5, <1>6, <3>1
    <3> QED BY <1>2, <1>4, <3>1, <3>2
  <2>2. CASE ~(i <= d - a)
    <3>1. i - (d - a) \in 1..(n - d) /\ d + (i - (d - a)) = a + i BY <2>2
    <3>2. s[i] = y[i - (d - a)] BY <1>2, <1>5, <1>6, <2>2
    <3> QED BY <1>3, <1>4, <3>1, <3>2
  <2> QED BY <2>1, <2>2
<1>8. s = t BY <1>4, <1>5, <1>6, <1>7, SeqEqual
<1> QED BY <1>8 DEF x, y, s, t

\* Where the ends in a piece of a request are in the request.
LEMMA EndsOfPiece ==
  ASSUME NEW S, NEW r \in Seq(S), NEW d \in Nat, NEW n \in Nat,
         d <= n, n <= Len(r)
  PROVE  LET b == SubSeq(r, d + 1, n)
         IN  /\ b \in Seq(S)
             /\ Len(b) = n - d
             /\ \A i \in 1..(n - d - 1) : EndAt(b, i) <=> EndAt(r, d + i)
             /\ \A i \in 1..(n - d - 3) : BlankAt(b, i) <=> BlankAt(r, d + i)
<1> DEFINE b == SubSeq(r, d + 1, n)
<1>1. Len(r) \in Nat BY LenProperties
<1>2. /\ b \in Seq(S) /\ Len(b) = n - d
      /\ \A i \in 1..(n - d) : b[i] = r[d + i]
  BY PieceAfter
<1> HIDE DEF b
<1>3. ASSUME NEW i \in 1..(n - d - 1)
      PROVE  EndAt(b, i) <=> EndAt(r, d + i)
  BY <1>2 DEF EndAt
<1>4. ASSUME NEW i \in 1..(n - d - 3)
      PROVE  BlankAt(b, i) <=> BlankAt(r, d + i)
  <2>1. i \in 1..(n - d - 1) /\ i + 2 \in 1..(n - d - 1) /\ d + (i + 2) = d + i + 2
    OBVIOUS
  <2> QED BY <1>3, <2>1 DEF BlankAt
<1> QED BY <1>2, <1>3, <1>4 DEF b

\* find() of a single token is the first position that holds it.
LEMMA FirstOne ==
  ASSUME NEW S, NEW v \in Seq(S), NEW x
  PROVE  /\ Find(v, <<x>>) \in 0..Len(v)
         /\ Find(v, <<x>>) = 0 => \A i \in 1..Len(v) : v[i] # x
         /\ Find(v, <<x>>) # 0 =>
              /\ v[Find(v, <<x>>)] = x
              /\ \A i \in 1..(Find(v, <<x>>) - 1) : v[i] # x
<1> DEFINE B == S \union {x}
           p == <<x>>
<1>1. Len(v) \in Nat BY LenProperties
<1>2. v \in Seq(B)
  <2>1. S \subseteq B OBVIOUS
  <2> QED BY <2>1, SeqMonotonic
<1>3. p \in Seq(B) /\ Len(p) = 1 /\ p[1] = x OBVIOUS
<1> HIDE DEF B, p
<1>4. At(v, p) = {i \in 1..Len(v) : v[i] = x}
  <2>1. Len(v) - Len(p) + 1 = Len(v) BY <1>1, <1>3
  <2>2. ASSUME NEW i \in 1..Len(v)
        PROVE  SubSeq(v, i, i + Len(p) - 1) = p <=> v[i] = x
    <3>1. i \in Nat /\ i >= 1 /\ Len(p) >= 1 /\ i + Len(p) - 1 <= Len(v)
      BY <1>1, <1>3
    <3>2. SubSeq(v, i, i + Len(p) - 1) = p <=> \A k \in 1..Len(p) : v[i + k - 1] = p[k]
      BY <1>2, <1>3, <3>1, Stands, SMT
    <3>3. 1..Len(p) = {1} /\ i + 1 - 1 = i BY <1>3, <3>1
    <3> QED BY <1>3, <3>2, <3>3
  <2> QED BY <2>1, <2>2 DEF At
<1>5. /\ Find(v, p) \in 0..Len(v)
      /\ Find(v, p) = 0 <=> At(v, p) = {}
      /\ At(v, p) # {} =>
           /\ Find(v, p) \in At(v, p)
           /\ \A j \in At(v, p) : Find(v, p) <= j
  <2>1. Len(p) >= 1 BY <1>3
  <2> QED BY <1>2, <1>3, <2>1, FindIsFirst, Zenon
<1> DEFINE f == Find(v, p)
<1> HIDE DEF f
<1>6. f \in 0..Len(v) BY <1>5 DEF f
<1>7. f = 0 => \A i \in 1..Len(v) : v[i] # x BY <1>4, <1>5 DEF f
<1>8. ASSUME f # 0 PROVE v[f] = x /\ \A i \in 1..(f - 1) : v[i] # x
  <2>1. f \in At(v, p) /\ \A j \in At(v, p) : f <= j BY <1>5, <1>8 DEF f
  <2>2. \A i \in 1..(f - 1) : i \in 1..Len(v) /\ ~(f <= i) BY <1>1, <1>6
  <2> QED BY <1>4, <2>1, <2>2
<1> QED BY <1>6, <1>7, <1>8 DEF f, p

\* A byte string contains a pattern exactly when its bytes stand somewhere.
LEMMA FoundAt ==
  ASSUME NEW S, NEW v \in Seq(S), NEW x, NEW i \in Nat, i >= 1, i <= Len(v),
         v[i] = x, \A j \in 1..(i - 1) : v[j] # x
  PROVE  Find(v, <<x>>) = i
<1> DEFINE f == Find(v, <<x>>)
<1>1. Len(v) \in Nat BY LenProperties
<1>2. /\ f \in 0..Len(v)
      /\ f = 0 => \A j \in 1..Len(v) : v[j] # x
      /\ f # 0 => v[f] = x /\ \A j \in 1..(f - 1) : v[j] # x
  BY FirstOne
<1> HIDE DEF f
<1>3. f # 0 BY <1>1, <1>2
<1>4. ~(f < i) /\ ~(i < f) BY <1>1, <1>2, <1>3
<1> QED BY <1>1, <1>2, <1>4 DEF f

LEMMA Occurs ==
  ASSUME NEW S, NEW v \in Seq(S), NEW p \in Seq(S), Len(p) >= 1
  PROVE  Contains(v, p) <=>
           \E i \in 1..(Len(v) - Len(p) + 1) : \A k \in 1..Len(p) : v[i + k - 1] = p[k]
<1>1. Len(v) \in Nat /\ Len(p) \in Nat BY LenProperties
<1>2. Contains(v, p) <=> At(v, p) # {}
  BY FindIsFirst DEF Contains
<1>3. ASSUME NEW i \in 1..(Len(v) - Len(p) + 1)
      PROVE  i \in At(v, p) <=> \A k \in 1..Len(p) : v[i + k - 1] = p[k]
  <2>1. i \in Nat /\ i >= 1 /\ i + Len(p) - 1 <= Len(v) BY <1>1
  <2> QED BY <2>1, Stands DEF At
<1>4. \A i \in At(v, p) : i \in 1..(Len(v) - Len(p) + 1) BY DEF At
<1> QED BY <1>2, <1>3, <1>4

\* A sequence put together comes apart where it was put together.
LEMMA ConcatParts ==
  ASSUME NEW S, NEW s \in Seq(S), NEW t \in Seq(S)
  PROVE  Take(s \o t, Len(s)) = s /\ Drop(s \o t, Len(s)) = t
<1> DEFINE c == s \o t
           n == Len(s)
           m == Len(t)
           a == SubSeq(c, 0 + 1, n)
           b == SubSeq(c, n + 1, n + m)
<1>1. n \in Nat /\ m \in Nat BY LenProperties
<1>2. /\ c \in Seq(S) /\ Len(c) = n + m
      /\ \A i \in 1..(n + m) : c[i] = IF i <= n THEN s[i] ELSE t[i - n]
  BY ConcatProperties, Zenon
<1>3. Take(c, n) = a /\ Drop(c, n) = b BY <1>2 DEF Take, Drop
<1> HIDE DEF c
<1>4. a \in Seq(S) /\ Len(a) = n - 0 /\ \A i \in 1..(n - 0) : a[i] = c[0 + i]
  <2>1. 0 \in Nat /\ 0 <= n /\ n <= Len(c) BY <1>1, <1>2
  <2> HIDE DEF n
  <2> QED BY <1>1, <1>2, <2>1, PieceAfter
<1>5. b \in Seq(S) /\ Len(b) = m /\ \A i \in 1..m : b[i] = c[n + i]
  <2> DEFINE k == n + m
  <2>1. k \in Nat /\ n <= k /\ k <= Len(c) /\ k - n = m BY <1>1, <1>2
  <2> HIDE DEF n, m, k
  <2>2. /\ SubSeq(c, n + 1, k) \in Seq(S) /\ Len(SubSeq(c, n + 1, k)) = k - n
        /\ \A i \in 1..(k - n) : SubSeq(c, n + 1, k)[i] = c[n + i]
    BY <1>1, <1>2, <2>1, PieceAfter
  <2> QED BY <2>1, <2>2 DEF k
<1> HIDE DEF a, b
<1>6. a = s
  <2>1. Len(a) = n /\ \A i \in 1..n : a[i] = s[i] BY <1>1, <1>2, <1>4
  <2> HIDE DEF n
  <2> QED BY <1>4, <2>1, SeqEqual DEF n
<1>7. b = t
  <2>1. ASSUME NEW i \in 1..m PROVE b[i] = t[i]
    <3> DEFINE x == n + i
    <3>1. x \in 1..(n + m) /\ ~(x <= n) /\ x - n = i BY <1>1
    <3> HIDE DEF n, m, x
    <3>2. c[x] = t[x - n] BY <1>2, <3>1
    <3>3. c[x] = t[i] BY <3>1, <3>2
    <3> QED BY <1>5, <3>3 DEF x
  <2> HIDE DEF m
  <2> QED BY <1>5, <2>1, SeqEqual DEF m
<1> QED BY <1>3, <1>6, <1>7 DEF c

\* Three sequences put together come apart, and keep their elements in order.
LEMMA ThreeParts ==
  ASSUME NEW S, NEW s \in Seq(S), NEW t \in Seq(S), NEW u \in Seq(S)
  PROVE  /\ (s \o t) \o u \in Seq(S)
         /\ Len((s \o t) \o u) = Len(s) + Len(t) + Len(u)
         /\ \A i \in 1..Len(s) : ((s \o t) \o u)[i] = s[i]
         /\ \A i \in 1..Len(t) : ((s \o t) \o u)[Len(s) + i] = t[i]
         /\ \A i \in 1..Len(u) : ((s \o t) \o u)[Len(s) + Len(t) + i] = u[i]
         /\ Take((s \o t) \o u, Len(s)) = s
         /\ Drop((s \o t) \o u, Len(s)) = t \o u
         /\ Drop((s \o t) \o u, Len(s) + Len(t)) = u
<1> DEFINE a == Len(s)
           b == Len(t)
           d == Len(u)
<1>a. a \in Nat /\ a = Len(s) /\ b \in Nat /\ b = Len(t) /\ d \in Nat /\ d = Len(u)
  BY LenProperties
<1> HIDE DEF a, b, d
<1> USE <1>a
<1> DEFINE x == s \o t
           y == t \o u
           c == x \o u
<1>1. /\ x \in Seq(S) /\ Len(x) = a + b
      /\ \A i \in 1..(a + b) : x[i] = IF i <= a THEN s[i] ELSE t[i - a]
  BY ConcatProperties
<1>2. y \in Seq(S) BY ConcatProperties
<1>3. c = s \o y BY ConcatAssociative, SMTT(60)
<1> HIDE DEF x, y
<1>4. /\ c \in Seq(S) /\ Len(c) = a + b + d
      /\ \A i \in 1..(a + b + d) : c[i] = IF i <= a + b THEN x[i] ELSE u[i - (a + b)]
  <2>1. x \in Seq(S) BY <1>1
  <2>2. /\ x \o u \in Seq(S) /\ Len(x \o u) = Len(x) + Len(u)
        /\ \A i \in 1..(Len(x) + Len(u)) :
             (x \o u)[i] = IF i <= Len(x) THEN x[i] ELSE u[i - Len(x)]
    BY <2>1, ConcatProperties, Zenon
  <2> QED BY <1>1, <2>2
<1>5. Take(s \o y, a) = s /\ Drop(s \o y, a) = y BY <1>2, ConcatParts
<1>6. Drop(c, a + b) = u
  <2>1. x \in Seq(S) BY <1>1
  <2>2. Drop(x \o u, Len(x)) = u BY <2>1, ConcatParts, Zenon
  <2> QED BY <1>1, <2>2
<1> HIDE DEF c
<1>7. \A i \in 1..a : c[i] = s[i] BY <1>1, <1>4
<1>8. ASSUME NEW i \in 1..b PROVE c[a + i] = t[i]
  <2> DEFINE j == a + i
  <2>1. j \in 1..(a + b) /\ j \in 1..(a + b + d) /\ j <= a + b /\ ~(j <= a) /\ j - a = i
    OBVIOUS
  <2> HIDE DEF j
  <2>2. c[j] = t[j - a] BY <1>1, <1>4, <2>1
  <2> QED BY <2>1, <2>2 DEF j
<1>9. ASSUME NEW i \in 1..d PROVE c[a + b + i] = u[i]
  <2> DEFINE j == a + b + i
             k == a + b
  <2>1. j \in 1..(a + b + d) /\ ~(j <= k) /\ j - k = i OBVIOUS
  <2> HIDE DEF j
  <2>2. c[j] = u[j - k] BY <1>4, <2>1
  <2> QED BY <2>1, <2>2 DEF j
<1> QED BY <1>3, <1>4, <1>5, <1>6, <1>7, <1>8, <1>9, Zenon DEF a, b, d, c, x, y
=============================================================================
