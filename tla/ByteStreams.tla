---------------------------- MODULE ByteStreams ----------------------------
(***************************************************************************)
(* The few std::string_view operations the HTTP parsers are built from.    *)
(* A byte string is a sequence of tokens: a token is a run of bytes that   *)
(* the parsers never look inside (a method word, a path, a header text, a  *)
(* payload byte), except that CR and LF are tokens of their own, because a *)
(* read may end between the two.                                           *)
(***************************************************************************)
EXTENDS Integers, Sequences

CRLF == <<"CR", "LF">>

\* The end of a header: a line end behind a line end.
EmptyLine == CRLF \o CRLF

\* view.find(pattern): the first position at which pattern occurs, 0 for npos.
Find(view, pattern) ==
  LET at == {i \in 1..(Len(view) - Len(pattern) + 1) :
               SubSeq(view, i, i + Len(pattern) - 1) = pattern}
  IN  IF at = {} THEN 0 ELSE CHOOSE i \in at : \A j \in at : i <= j

Contains(view, pattern) == Find(view, pattern) # 0

\* What memmove / shiftChars leaves in the buffer once n tokens are consumed.
Drop(view, n) == SubSeq(view, n + 1, Len(view))

Take(view, n) == SubSeq(view, 1, n)

StartsWith(view, pattern) == Find(view, pattern) = 1

\* Tokens one read may return: as many as are there, up to the buffer size.
ReadSizes(stream, size) == 1..(IF Len(stream) < size THEN Len(stream) ELSE size)

PrefixOf(s, t) == Len(s) <= Len(t) /\ s = Take(t, Len(s))
=============================================================================
