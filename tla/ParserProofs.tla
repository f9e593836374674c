---------------------------- MODULE ParserProofs ----------------------------
(***************************************************************************)
(* The parsers of notes 17 and 9 against the grammar of Parsers, for any   *)
(* set of messages, cut into reads in any way.  Both look for the end of a *)
(* line in the same way; what one turn of that makes of the place looked   *)
(* at last, `i`, is stated once, for a buffer b.                           *)
(***************************************************************************)
EXTENDS Parsers, SequenceTheorems, WellFoundedInduction, TLAPS

\* A set of numbers that is not empty has a least one.
LEMMA Least == ASSUME NEW S \in SUBSET Nat, S # {}
               PROVE  \E x \in S : \A y \in S : x <= y
<1>1. IsWellFoundedOn(OpToRel(<, Nat), Nat)
  BY NatLessThanWellFounded
<1>2. PICK x \in S : \A y \in S : ~(<<y, x>> \in OpToRel(<, Nat))
  BY <1>1, WFMin
<1>3. \A y \in S : ~(y < x)
  BY <1>2 DEF OpToRel
<1> QED BY <1>3

Buffered(b, i) == /\ b \in Seq(Symbols) /\ i \in 1..(Len(b) + 1)
                  /\ i > 1 => b[i - 1] # "CR"

\* Behind i a line ends in k and k + 1, is not complete, or is malformed at k.
NoBreak(b, i, k)  == \A j \in i..(k - 1) : b[j] \notin {"CR", "LF"}
LineEnds(b, i, k) == /\ k \in i..(Len(b) - 1) /\ NoBreak(b, i, k)
                     /\ b[k] = "CR" /\ b[k + 1] = "LF"
LineOpen(b, i, k) == /\ k \in i..(Len(b) + 1) /\ NoBreak(b, i, k)
                     /\ k = Len(b) + 1 \/ (k = Len(b) /\ b[k] = "CR")
LineBad(b, i, k)  == /\ k \in i..Len(b) /\ NoBreak(b, i, k)
                     /\ \/ b[k] = "CR" /\ k < Len(b) /\ b[k + 1] # "LF"
                        \/ b[k] = "LF" /\ (k > 1 => b[k - 1] # "CR")

\* The buffer c is b with the line end in k and k + 1 cleared.
Cut(b, c, k) == /\ c \in Seq(Symbols) /\ Len(c) = Len(b) /\ c[k + 1] = "NUL"
                /\ \A j \in (k + 2)..Len(b) : c[j] = b[j]

\* The two notes clear a line end in different ways.
LEMMA Clears == ASSUME NEW b \in Seq(Symbols), NEW k \in 1..Len(b), k + 1 \in 1..Len(b)
                PROVE  /\ Cut(b, [b EXCEPT ![k] = "NUL", ![k + 1] = "NUL"], k)
                       /\ Cut(b, [j \in 1..Len(b) |-> IF j \in {k, k + 1} THEN "NUL" ELSE b[j]], k)
<1> DEFINE d == [b EXCEPT ![k] = "NUL", ![k + 1] = "NUL"]
           e == [j \in 1..Len(b) |-> IF j \in {k, k + 1} THEN "NUL" ELSE b[j]]
<1>1. "NUL" \in Symbols
  BY DEF Symbols
<1>2. k \in Nat /\ Len(b) \in Nat /\ b \in [1..Len(b) -> Symbols]
  BY LenProperties
<1>3. \A c \in [1..Len(b) -> Symbols] : c \in Seq(Symbols) /\ Len(c) = Len(b)
  <2> TAKE c \in [1..Len(b) -> Symbols]
  <2>1. c \in Seq(Symbols)
    BY <1>2, SeqDef
  <2> QED BY <1>2, <2>1, LenProperties
<1>4. d \in [1..Len(b) -> Symbols] /\ e \in [1..Len(b) -> Symbols]
  BY <1>1, <1>2
<1>5. /\ \A j \in 1..Len(b) : j \notin {k, k + 1} => d[j] = b[j] /\ e[j] = b[j]
      /\ d[k + 1] = "NUL" /\ e[k + 1] = "NUL"
  BY <1>2
<1> HIDE DEF d, e
<1>6. \A j \in (k + 2)..Len(b) : j \in 1..Len(b) /\ j \notin {k, k + 1}
  BY <1>2
<1> QED BY <1>3, <1>4, <1>5, <1>6 DEF Cut, d, e

LEMMA LineRead ==
    ASSUME Buffered(read_buff, checked_idx)
    PROVE  /\ ParseLine.status \in {"kLineOk", "kLineOpen", "kLineBad"}
           /\ ParseLine.status = "kLineOk" =>
                 \E k : /\ LineEnds(read_buff, checked_idx, k) /\ ParseLine.idx = k + 2
                        /\ Cut(read_buff, ParseLine.buff, k)
           /\ ParseLine.status = "kLineOpen" => LineOpen(read_buff, checked_idx, ParseLine.idx)
           /\ ParseLine.status = "kLineBad" => LineBad(read_buff, checked_idx, ParseLine.idx)
<1>1. read_idx \in Nat /\ checked_idx \in 1..(read_idx + 1) /\ read_idx = Len(read_buff)
  BY DEF Buffered, read_idx
<1>2. CASE Breaks = {}
  <2>1. ParseLine = Found("kLineOpen", read_idx + 1, read_buff)
    BY <1>2 DEF ParseLine
  <2>2. LineOpen(read_buff, checked_idx, read_idx + 1)
    BY <1>1, <1>2 DEF Breaks, NoBreak, LineOpen
  <2> QED BY <2>1, <2>2 DEF Found
<1>3. CASE Breaks # {}
  <2> DEFINE k == CHOOSE j \in Breaks : \A b \in Breaks : j <= b
  <2>1. Breaks \in SUBSET Nat
    BY <1>1 DEF Breaks
  <2>2. k \in Breaks /\ \A b \in Breaks : k <= b
    BY <1>3, <2>1, Least
  <2>3. ParseLine = CASE read_buff[k] = "CR" /\ k = read_idx -> Found("kLineOpen", k, read_buff)
                      [] read_buff[k] = "CR" /\ k < read_idx /\ read_buff[k + 1] = "LF" -> LineAt(k)
                      [] read_buff[k] = "LF" /\ k > 2 /\ read_buff[k - 1] = "CR" ->
                           [LineAt(k - 1) EXCEPT !.idx = k + 1]
                      [] OTHER -> Found("kLineBad", k, read_buff)
    BY <1>3 DEF ParseLine
  <2> HIDE DEF k
  <2>4. k \in checked_idx..read_idx /\ read_buff[k] \in {"CR", "LF"}
    BY <2>2 DEF Breaks
  <2>5. NoBreak(read_buff, checked_idx, k)
    BY <1>1, <2>2, <2>4 DEF NoBreak, Breaks
  <2>6. k > 1 => read_buff[k - 1] # "CR"
    BY <1>1, <2>4, <2>5 DEF NoBreak, Buffered
  <2>7. CASE read_buff[k] = "CR" /\ k = read_idx
    <3>1. ParseLine = Found("kLineOpen", k, read_buff)
      BY <1>1, <2>3, <2>4, <2>7
    <3> QED BY <1>1, <2>4, <2>5, <2>7, <3>1 DEF LineOpen, Found
  <2>8. CASE read_buff[k] = "CR" /\ k < read_idx /\ read_buff[k + 1] = "LF"
    <3>1. ParseLine = LineAt(k)
      BY <1>1, <2>3, <2>4, <2>8
    <3>2. /\ ParseLine.status = "kLineOk" /\ ParseLine.idx = k + 2
          /\ ParseLine.buff = [read_buff EXCEPT ![k] = "NUL", ![k + 1] = "NUL"]
      BY <3>1 DEF LineAt, Found
    <3>3. Cut(read_buff, ParseLine.buff, k)
      <4>1. k \in 1..Len(read_buff) /\ k + 1 \in 1..Len(read_buff) /\ read_buff \in Seq(Symbols)
        BY <1>1, <2>4, <2>8 DEF Buffered
      <4> QED BY <3>2, <4>1, Clears
    <3>4. LineEnds(read_buff, checked_idx, k)
      BY <1>1, <2>4, <2>5, <2>8 DEF LineEnds
    <3> QED BY <3>2, <3>3, <3>4
  <2>9. CASE read_buff[k] = "CR" /\ k < read_idx /\ read_buff[k + 1] # "LF"
    <3>1. ParseLine = Found("kLineBad", k, read_buff)
      BY <1>1, <2>3, <2>4, <2>9
    <3> QED BY <1>1, <2>4, <2>5, <2>9, <3>1 DEF LineBad, Found
  <2>10. CASE read_buff[k] = "LF"
    <3>1. ParseLine = Found("kLineBad", k, read_buff)
      BY <1>1, <2>3, <2>4, <2>6, <2>10
    <3> QED BY <1>1, <2>4, <2>5, <2>6, <2>10, <3>1 DEF LineBad, Found
  <2> QED BY <1>1, <2>4, <2>7, <2>8, <2>9, <2>10
<1> QED BY <1>2, <1>3

LEMMA LineRead9 ==
    ASSUME Buffered(buffer, checked_index)
    PROVE  /\ Note9!ParseLine.status \in {"LINE_OK", "LINE_OPEN", "LINE_BAD"}
           /\ Note9!ParseLine.status = "LINE_OK" =>
                 \E k : /\ LineEnds(buffer, checked_index, k) /\ Note9!ParseLine.idx = k + 2
                        /\ Cut(buffer, Note9!ParseLine.buff, k)
           /\ Note9!ParseLine.status = "LINE_OPEN" =>
                 LineOpen(buffer, checked_index, Note9!ParseLine.idx)
           /\ Note9!ParseLine.status = "LINE_BAD" =>
                 LineBad(buffer, checked_index, Note9!ParseLine.idx)
<1> DEFINE n == Len(buffer)
<1>1. n \in Nat /\ checked_index \in 1..(n + 1) /\ Note9!read_index = n
  BY DEF Buffered, Note9!read_index
<1>2. CASE Note9!Breaks = {}
  <2>1. Note9!ParseLine = Note9!Found("LINE_OPEN", n + 1, buffer)
    BY <1>1, <1>2 DEF Note9!ParseLine
  <2>2. LineOpen(buffer, checked_index, n + 1)
    BY <1>1, <1>2 DEF Note9!Breaks, NoBreak, LineOpen
  <2> QED BY <2>1, <2>2 DEF Note9!Found
<1>3. CASE Note9!Breaks # {}
  <2> DEFINE k == CHOOSE j \in Note9!Breaks : \A b \in Note9!Breaks : j <= b
             cleared == [j \in 1..n |-> IF j \in {k, k + 1} THEN "NUL" ELSE buffer[j]]
  <2>1. Note9!Breaks \in SUBSET Nat
    BY <1>1 DEF Note9!Breaks
  <2>2. k \in Note9!Breaks /\ \A b \in Note9!Breaks : k <= b
    BY <1>3, <2>1, Least
  <2>3. Note9!ParseLine =
           CASE buffer[k] = "CR" /\ k = n -> Note9!Found("LINE_OPEN", k, buffer)
             [] \/ buffer[k] = "CR" /\ k < n /\ buffer[k + 1] = "LF"
                \/ buffer[k] = "LF" /\ k > 2 /\ buffer[k - 1] = "CR" ->
                  Note9!Found("LINE_OK", k + 2, cleared)
             [] OTHER -> Note9!Found("LINE_BAD", k, buffer)
    BY <1>1, <1>3 DEF Note9!ParseLine
  <2> HIDE DEF k
  <2>4. k \in checked_index..n /\ buffer[k] \in {"CR", "LF"}
    BY <1>1, <2>2 DEF Note9!Breaks
  <2>5. NoBreak(buffer, checked_index, k)
    BY <1>1, <2>2, <2>4 DEF NoBreak, Note9!Breaks
  <2>6. k > 1 => buffer[k - 1] # "CR"
    BY <1>1, <2>4, <2>5 DEF NoBreak, Buffered
  <2>7. Cut(buffer, cleared, k) \/ k = n
    <3>1. k \in 1..n /\ buffer \in Seq(Symbols)
      BY <1>1, <2>4 DEF Buffered
    <3> QED BY <1>1, <3>1, Clears
  <2> HIDE DEF cleared
  <2>8. CASE buffer[k] = "CR" /\ k = n
    <3>1. Note9!ParseLine = Note9!Found("LINE_OPEN", k, buffer)
      BY <1>1, <2>3, <2>4, <2>8
    <3> QED BY <1>1, <2>4, <2>5, <2>8, <3>1 DEF LineOpen, Note9!Found
  <2>9. CASE buffer[k] = "CR" /\ k < n /\ buffer[k + 1] = "LF"
    <3>1. Note9!ParseLine = Note9!Found("LINE_OK", k + 2, cleared)
      BY <1>1, <2>3, <2>4, <2>9
    <3>2. LineEnds(buffer, checked_index, k)
      BY <1>1, <2>4, <2>5, <2>9 DEF LineEnds
    <3> QED BY <1>1, <2>4, <2>7, <2>9, <3>1, <3>2 DEF Note9!Found
  <2>10. CASE buffer[k] = "CR" /\ k < n /\ buffer[k + 1] # "LF"
    <3>1. Note9!ParseLine = Note9!Found("LINE_BAD", k, buffer)
      BY <1>1, <2>3, <2>4, <2>10
    <3> QED BY <1>1, <2>4, <2>5, <2>10, <3>1 DEF LineBad, Note9!Found
  <2>11. CASE buffer[k] = "LF"
    <3>1. Note9!ParseLine = Note9!Found("LINE_BAD", k, buffer)
      BY <1>1, <2>3, <2>4, <2>6, <2>11
    <3> QED BY <1>1, <2>4, <2>5, <2>6, <2>11, <3>1 DEF LineBad, Note9!Found
  <2> QED BY <1>1, <2>4, <2>8, <2>9, <2>10, <2>11
<1> QED BY <1>2, <1>3
-----------------------------------------------------------------------------
(***************************************************************************)
(* What has been read of a message m of which n bytes have arrived.  The   *)
(* buffer b holds them, unchanged from the start s of the line on; up to i *)
(* nothing is malformed, and the line that starts in s does not end there. *)
(***************************************************************************)
Sent(m, n) == m \in Seq(Symbols) /\ n \in 0..Len(m)

At(m, n, b, s, i) ==
    /\ Buffered(b, i) /\ Len(b) = n /\ s \in 1..i
    /\ \A j \in s..n : b[j] = m[j]
    /\ i > 1 => m[i - 1] # "CR"
    /\ \A j \in Ill(m) : i <= j
    /\ \A e \in Ends(m) : s <= e => i <= e

LEMMA Places ==
    ASSUME NEW m, NEW n, Sent(m, n)
    PROVE  /\ Len(m) \in Nat /\ n \in Nat /\ n <= Len(m)
           /\ \A e \in Ends(m) : /\ e \in Nat /\ 1 <= e /\ e < Len(m)
                                 /\ m[e] = "CR" /\ m[e + 1] = "LF"
           /\ \A j \in Ill(m) : j \in Nat /\ 1 <= j /\ j <= Len(m)
BY LenProperties DEF Sent, Ends, Ill

\* Where there is no CR and no LF the parser goes on.
LEMMA Advance ==
    ASSUME NEW m, NEW n, Sent(m, n), NEW b, NEW s, NEW i, At(m, n, b, s, i),
           NEW k \in i..(n + 1), NoBreak(b, i, k)
    PROVE  At(m, n, b, s, k)
<1>1. /\ n \in Nat /\ Len(b) = n /\ i \in 1..(n + 1) /\ s \in 1..i
      /\ b \in Seq(Symbols)
  BY Places DEF At, Buffered
<1>2. \A j \in i..(k - 1) : m[j] = b[j] /\ m[j] \notin {"CR", "LF"}
  BY <1>1 DEF At, NoBreak
<1>3. \A j \in Ill(m) : k <= j
  <2> SUFFICES ASSUME NEW j \in Ill(m), j < k PROVE FALSE
    BY <1>1, Places
  <2>1. j \in i..(k - 1)
    BY <1>1, Places DEF At
  <2> QED BY <1>2, <2>1 DEF Ill
<1>4. \A e \in Ends(m) : s <= e => k <= e
  <2> SUFFICES ASSUME NEW e \in Ends(m), s <= e, e < k PROVE FALSE
    BY <1>1, Places
  <2>1. e \in i..(k - 1)
    BY <1>1, Places DEF At
  <2> QED BY <1>2, <2>1 DEF Ends
<1>5. k > 1 => b[k - 1] # "CR" /\ m[k - 1] # "CR"
  <2>1. CASE k = i
    BY <2>1 DEF At, Buffered
  <2>2. CASE k > i
    BY <1>1, <1>2, <2>2
  <2> QED BY <1>1, <2>1, <2>2
<1>6. k \in 1..(Len(b) + 1) /\ s \in 1..k
  BY <1>1
<1> QED BY <1>1, <1>3, <1>4, <1>5, <1>6 DEF At, Buffered

\* What the grammar finds in what has arrived it finds in the message.
Got(m, n) == SubSeq(m, 1, n)

LEMMA PrefixOf ==
    ASSUME NEW m, NEW n, Sent(m, n)
    PROVE  /\ Got(m, n) \in Seq(Symbols) /\ Len(Got(m, n)) = n
           /\ \A j \in 1..n : Got(m, n)[j] = m[j]
           /\ Ends(Got(m, n)) = {e \in Ends(m) : e < n}
           /\ Ill(Got(m, n)) = {j \in Ill(m) : j <= n /\ (m[j] = "CR" => j < n)}
<1>1. n \in Nat /\ Len(m) \in Nat /\ n <= Len(m)
  BY Places
<1>2. \A j \in 1..n : m[j] \in Symbols
  BY <1>1, ElementOfSeq DEF Sent
<1>3. Got(m, n) \in Seq(Symbols) /\ Len(Got(m, n)) = n /\ \A j \in 1..n : Got(m, n)[j] = m[j]
  BY <1>1, <1>2, SubSeqProperties DEF Got
<1> HIDE DEF Got
<1>4. Ends(Got(m, n)) = {e \in Ends(m) : e < n}
  BY <1>1, <1>3 DEF Ends
<1>5. Ill(Got(m, n)) = {j \in Ill(m) : j <= n /\ (m[j] = "CR" => j < n)}
  BY <1>1, <1>3 DEF Ill
<1> QED BY <1>3, <1>4, <1>5

\* Nothing that has arrived ends a line from s on, nor is it malformed; or it is, at i.
Dry(m, n, s)    == (\A e \in Ends(m) : s <= e => n <= e) /\ Ill(Got(m, n)) = {}
Broken(m, n, i) == i \in Ill(Got(m, n))

LEMMA ReadOpen ==
    ASSUME NEW m, NEW n, Sent(m, n), NEW b, NEW s, NEW i, At(m, n, b, s, i),
           NEW k, LineOpen(b, i, k)
    PROVE  At(m, n, b, s, k) /\ Dry(m, n, s)
<1>1. n \in Nat /\ Len(b) = n /\ i \in 1..(n + 1) /\ s \in 1..i
  BY Places DEF At, Buffered
<1>2. k \in i..(n + 1) /\ NoBreak(b, i, k) /\ k >= n /\ (k <= n => b[k] = "CR")
  BY <1>1 DEF LineOpen
<1>3. At(m, n, b, s, k)
  BY <1>2, Advance
<1>4. \A e \in Ends(m) : s <= e => n <= e
  BY <1>1, <1>2, <1>3, Places DEF At
<1>5. ASSUME NEW j \in Ill(Got(m, n)) PROVE FALSE
  <2>1. j \in Ill(m) /\ j <= n /\ (m[j] = "CR" => j < n)
    BY <1>5, PrefixOf
  <2>2. j \in Nat /\ k <= j
    BY <1>3, <2>1, Places DEF At
  <2>3. j = n /\ k = n
    BY <1>1, <1>2, <2>1, <2>2
  <2>4. b[k] = "CR" /\ m[k] = b[k]
    BY <1>1, <1>2, <2>3 DEF At
  <2> QED BY <1>1, <2>1, <2>3, <2>4
<1> QED BY <1>3, <1>4, <1>5 DEF Dry

LEMMA ReadBad ==
    ASSUME NEW m, NEW n, Sent(m, n), NEW b, NEW s, NEW i, At(m, n, b, s, i),
           NEW k, LineBad(b, i, k)
    PROVE  At(m, n, b, s, k) /\ Broken(m, n, k)
<1>1. /\ n \in Nat /\ Len(b) = n /\ i \in 1..(n + 1) /\ s \in 1..i
      /\ n <= Len(m) /\ Len(m) \in Nat
  BY Places DEF At, Buffered
<1>2. k \in i..n /\ k \in i..(n + 1) /\ NoBreak(b, i, k)
  BY <1>1 DEF LineBad
<1>3. At(m, n, b, s, k)
  BY <1>2, Advance
<1>4. /\ m[k] = b[k] /\ (k < n => m[k + 1] = b[k + 1])
      /\ k > 1 => m[k - 1] # "CR"
  BY <1>1, <1>2, <1>3 DEF At
<1>5. CASE b[k] = "CR" /\ k < n /\ b[k + 1] # "LF"
  <2>1. k \in Ill(m)
    BY <1>1, <1>2, <1>4, <1>5 DEF Ill
  <2> QED BY <1>1, <1>2, <1>3, <1>5, <2>1, PrefixOf DEF Broken
<1>6. CASE b[k] = "LF"
  <2>1. k \in Ill(m) /\ m[k] # "CR"
    BY <1>1, <1>2, <1>4, <1>6 DEF Ill
  <2> QED BY <1>1, <1>2, <1>3, <2>1, PrefixOf DEF Broken
<1> QED BY <1>1, <1>5, <1>6 DEF LineBad

\* The line from s up to the line end in k.
Piece(b, s, k) == SubSeq(b, s, k - 1)

LEMMA ReadEnd ==
    ASSUME NEW m, NEW n, Sent(m, n), NEW b, NEW s, NEW i, At(m, n, b, s, i),
           NEW k, LineEnds(b, i, k)
    PROVE  /\ k \in Ends(m) /\ s <= k /\ i <= k /\ k < n
           /\ \A e \in Ends(m) : s <= e => k <= e
           /\ \A j \in Ill(m) : k + 2 <= j
           /\ Piece(b, s, k) = Piece(m, s, k)
           /\ \A c : Cut(b, c, k) => At(m, n, c, k + 2, k + 2)
<1>1. /\ n \in Nat /\ Len(b) = n /\ i \in 1..(n + 1) /\ s \in 1..i
      /\ n <= Len(m) /\ Len(m) \in Nat /\ b \in Seq(Symbols)
      /\ m \in Seq(Symbols)
  BY Places DEF At, Buffered, Sent
<1>2. k \in i..(n + 1) /\ NoBreak(b, i, k) /\ k < n
  BY <1>1 DEF LineEnds
<1>3. At(m, n, b, s, k)
  BY <1>2, Advance
<1>4. m[k] = "CR" /\ m[k + 1] = "LF" /\ k \in Nat
  BY <1>1, <1>2, <1>3 DEF At, LineEnds
<1>5. k \in Ends(m)
  BY <1>1, <1>2, <1>4 DEF Ends
<1>6. \A e \in Ends(m) : s <= e => k <= e
  BY <1>3 DEF At
<1>7. \A j \in Ill(m) : k + 2 <= j
  <2> SUFFICES ASSUME NEW j \in Ill(m), j \in {k, k + 1} PROVE FALSE
    BY <1>1, <1>2, <1>3, Places DEF At
  <2>1. k + 1 - 1 = k
    BY <1>4
  <2> QED BY <1>1, <1>2, <1>4, <2>1 DEF Ill
<1>8. Piece(b, s, k) = Piece(m, s, k)
  <2>1. \A j \in s..(k - 1) : b[j] = m[j] /\ m[j] \in Symbols
    BY <1>1, <1>2, <1>3, ElementOfSeq DEF At
  <2>2. s \in Int /\ k - 1 \in Int
    BY <1>1, <1>4
  <2> DEFINE x == SubSeq(b, s, k - 1)
             y == SubSeq(m, s, k - 1)
             len == IF s <= k - 1 THEN (k - 1) - s + 1 ELSE 0
  <2>3. /\ x \in Seq(Symbols) /\ Len(x) = len
        /\ \A j \in 1..((k - 1) - s + 1) : x[j] = b[s + j - 1]
    BY <2>1, <2>2, SubSeqProperties
  <2>4. /\ y \in Seq(Symbols) /\ Len(y) = len
        /\ \A j \in 1..((k - 1) - s + 1) : y[j] = m[s + j - 1]
    BY <2>1, <2>2, SubSeqProperties
  <2> HIDE DEF x, y
  <2>5. \A j \in 1..len : x[j] = y[j]
    BY <1>1, <1>4, <2>1, <2>3, <2>4
  <2>6. x = y
    BY <2>3, <2>4, <2>5, SeqEqual
  <2> QED BY <2>6 DEF x, y, Piece
<1>9. ASSUME NEW c, Cut(b, c, k) PROVE At(m, n, c, k + 2, k + 2)
  <2>1. c \in Seq(Symbols) /\ Len(c) = n /\ c[k + 1] = "NUL"
    BY <1>1, <1>9 DEF Cut
  <2>2. \A j \in (k + 2)..n : c[j] = m[j]
    BY <1>1, <1>3, <1>4, <1>9 DEF Cut, At
  <2>3. k + 2 - 1 = k + 1 /\ k + 2 \in 1..(n + 1) /\ k + 2 > 1
    BY <1>1, <1>2, <1>4
  <2>4. \A e \in Ends(m) : k + 2 <= e => k + 2 <= e
    OBVIOUS
  <2> QED BY <1>4, <1>7, <2>1, <2>2, <2>3 DEF At, Buffered
<1> QED BY <1>1, <1>2, <1>5, <1>6, <1>7, <1>8, <1>9

\* What is compared with a line is its first symbol and its length.
LEMMA LineIs ==
    ASSUME NEW b \in Seq(Symbols), NEW s \in Nat, NEW k \in Nat,
           1 <= s, s <= k, k <= Len(b) + 1
    PROVE  /\ Piece(b, s, k) = <<>> <=> k = s
           /\ \A x : Piece(b, s, k) = <<x>> <=> k = s + 1 /\ b[s] = x
           /\ k > s => Piece(b, s, k)[1] = b[s]
<1> DEFINE line == Piece(b, s, k)
<1>1. \A j \in s..(k - 1) : b[j] \in Symbols
  BY LenProperties, ElementOfSeq
<1>2. /\ line \in Seq(Symbols) /\ Len(line) = IF s <= k - 1 THEN k - 1 - s + 1 ELSE 0
      /\ \A j \in 1..(k - 1 - s + 1) : line[j] = b[s + j - 1]
  BY <1>1, SubSeqProperties DEF Piece
<1> HIDE DEF line
<1>3. Len(line) = k - s /\ (k > s => line[1] = b[s])
  BY <1>2
<1>4. line = <<>> <=> k = s
  BY <1>2, <1>3, EmptySeq
<1>5. ASSUME NEW x, line = <<x>> PROVE k = s + 1 /\ b[s] = x
  BY <1>3, <1>5
<1>6. ASSUME NEW x, k = s + 1, b[s] = x PROVE line = <<x>>
  <2>1. x \in Symbols /\ <<x>> \in Seq(Symbols) /\ Len(<<x>>) = 1 /\ <<x>>[1] = x
    BY <1>1, <1>6
  <2> QED BY <1>2, <1>3, <1>6, <2>1, SeqEqual
<1> QED BY <1>3, <1>4, <1>5, <1>6 DEF line

\* The message starts with a request line of the set good, and s is behind a
\* line end, not behind the empty line.
FirstIs(m, good)   == FirstEnd(m, 2) /\ m[1] \in good
InHead(m, s, good) == /\ FirstIs(m, good) /\ s - 2 \in Ends(m) /\ s \in Nat
                      /\ \A e \in Ends(m) : e - 2 \in Ends(m) => s <= e

\* What a parser has found when it answers: another first line, or the end of the head.
Refused(m, n, good)    == \E k \in Ends(m) : /\ k < n /\ FirstEnd(m, k) /\ Sane(m, k)
                                             /\ ~(k = 2 /\ m[1] \in good)
Granted(m, n, k, good) == /\ k \in Ends(m) /\ k < n /\ HeadEnd(m, k)
                          /\ Sane(m, k) /\ FirstIs(m, good)

\* A header that asks to keep the connection ends before i.
KeptBefore(m, i) == \E e \in Ends(m) : e + 3 \in Ends(m) /\ e + 3 < i /\ m[e + 2] = "KEEP"

\* What a parser makes of the lines before i that give a length: the last one counts.
NoLength(m, i, e) == \A b \in Ends(m) : e < b /\ b + 2 < i => m[b + 2] \notin DOMAIN ContentLength
Says(m, i, n) == \/ n = 0 /\ NoLength(m, i, 0)
                 \/ \E e \in Ends(m) : /\ e + 2 < i /\ m[e + 2] \in DOMAIN ContentLength
                                       /\ n = ToInt(ContentLength[m[e + 2]])
                                       /\ NoLength(m, i, e)

\* An int is an int, and a number that is one stays as it is.
LEMMA Small == ASSUME NEW a \in Nat, NEW b \in Nat, a < b  PROVE  a % b = a
OBVIOUS

LEMMA IntOf == /\ \A n \in Int : ToInt(n) \in -Half..(Half - 1)
               /\ \A n \in -Half..(Half - 1) : ToInt(n) = n
<1>1. ASSUME NEW n \in Int PROVE ToInt(n) \in -Half..(Half - 1)
  <2>1. 2 * Half \in Nat \ {0} /\ n + Half \in Int
    BY ParserAssumption
  <2>2. (n + Half) % (2 * Half) \in 0..(2 * Half - 1)
    BY <2>1
  <2> QED BY <2>2, ParserAssumption DEF ToInt
<1>2. ASSUME NEW n \in -Half..(Half - 1) PROVE ToInt(n) = n
  <2>1. n + Half \in Nat /\ 2 * Half \in Nat /\ n + Half < 2 * Half
    BY ParserAssumption
  <2>2. (n + Half) % (2 * Half) = n + Half
    BY <2>1, Small
  <2> QED BY <2>2, ParserAssumption DEF ToInt
<1> QED BY <1>1, <1>2

LEMMA FirstLine ==
    ASSUME NEW m, NEW n, Sent(m, n), NEW b, NEW i, At(m, n, b, 1, i),
           NEW k, LineEnds(b, i, k), NEW good
    PROVE  /\ (\E x \in good : Piece(b, 1, k) = <<x>>) => InHead(m, k + 2, good)
           /\ (\A x \in good : Piece(b, 1, k) # <<x>>) => Refused(m, n, good)
<1>1. /\ k \in Ends(m) /\ 1 <= k /\ k < n
      /\ \A e \in Ends(m) : 1 <= e => k <= e
      /\ \A j \in Ill(m) : k + 2 <= j
  BY ReadEnd
<1>2. /\ \A e \in Ends(m) : 1 <= e /\ e \in Nat
      /\ n \in Nat /\ k \in Nat
  BY <1>1, Places
<1>3. FirstEnd(m, k)
  BY <1>1, <1>2 DEF FirstEnd
<1>4. b \in Seq(Symbols) /\ Len(b) = n /\ m[1] = b[1]
  BY <1>1, <1>2 DEF At, Buffered
<1>5. \A x : Piece(b, 1, k) = <<x>> <=> k = 2 /\ m[1] = x
  <2>1. b \in Seq(Symbols) /\ 1 \in Nat /\ 1 <= 1 /\ k \in Nat /\ 1 <= k /\ k <= Len(b) + 1
    BY <1>1, <1>2, <1>4
  <2>2. \A x : Piece(b, 1, k) = <<x>> <=> k = 1 + 1 /\ b[1] = x
    BY <2>1, LineIs
  <2>3. m[1] = b[1] /\ (k = 1 + 1 <=> k = 2)
    BY <1>4
  <2> QED BY <2>2, <2>3, Zenon
<1>6. \A j \in Ill(m) : j \in Nat
  BY Places
<1>7. Sane(m, k)
  BY <1>1, <1>2, <1>6 DEF Sane
<1>8. ASSUME NEW x \in good, Piece(b, 1, k) = <<x>> PROVE InHead(m, k + 2, good)
  <2>1. k = 2 /\ m[1] = x
    BY <1>5, <1>8, Zenon
  <2>2. \A e \in Ends(m) : e - 2 \in Ends(m) => 4 <= e
    BY <1>1, <1>2, <2>1
  <2> QED BY <1>1, <1>3, <2>1, <2>2 DEF InHead, FirstIs
<1>9. ASSUME \A x \in good : Piece(b, 1, k) # <<x>> PROVE Refused(m, n, good)
  BY <1>1, <1>3, <1>4, <1>5, <1>7, <1>9 DEF Refused
<1> QED BY <1>8, <1>9

LEMMA HeaderLine ==
    ASSUME NEW m, NEW n, Sent(m, n), NEW good, NEW s, InHead(m, s, good),
           NEW b, NEW i, At(m, n, b, s, i), NEW k, LineEnds(b, i, k), k # s
    PROVE  /\ InHead(m, k + 2, good)
           /\ KeptBefore(m, k + 2) <=> KeptBefore(m, s) \/ (k = s + 1 /\ m[s] = "KEEP")
           /\ \A n0 : Says(m, s, n0) =>
                Says(m, k + 2, IF m[s] \in DOMAIN ContentLength THEN ToInt(ContentLength[m[s]]) ELSE n0)
<1>1. /\ k \in Ends(m) /\ s <= k /\ k < n
      /\ \A e \in Ends(m) : s <= e => k <= e
  BY ReadEnd
<1>2. /\ \A e \in Ends(m) : /\ 1 <= e /\ e \in Nat
                                  /\ m[e] = "CR" /\ m[e + 1] = "LF"
      /\ n \in Nat /\ k \in Nat
  BY <1>1, Places
<1>3. /\ s \in Nat /\ s - 2 \in Ends(m) /\ FirstIs(m, good)
      /\ \A e \in Ends(m) : e - 2 \in Ends(m) => s <= e
  BY DEF InHead
<1>4. s - 1 \notin Ends(m) /\ k + 1 \notin Ends(m)
  <2>1. m[s - 1] = "LF" /\ m[k + 1] = "LF"
    <3>1. m[(s - 2) + 1] = "LF" /\ (s - 2) + 1 = s - 1
      BY <1>2, <1>3
    <3> QED BY <1>1, <1>2, <3>1
  <2>2. \A e \in Ends(m) : m[e] # "LF"
    BY <1>2
  <2> QED BY <2>1, <2>2
\* Only the line that ends at k ends from s on and before k + 2.
<1>5. \A e \in Ends(m) : e < k + 2 => e < s \/ e = k
  BY <1>1, <1>2, <1>3, <1>4
\* No line ends two or three places before k unless the line at k starts in s.
<1>6. k - 2 \notin Ends(m)
  <2> SUFFICES ASSUME k - 2 \in Ends(m) PROVE FALSE
    OBVIOUS
  <2>1. k - 2 < s /\ k > s
    BY <1>1, <1>2, <1>3, <1>5
  <2>2. k - 2 = s - 1
    BY <1>2, <1>3, <2>1, <1>4
  <2> QED BY <1>4, <2>2
<1>7. InHead(m, k + 2, good)
  <2>1. \A e \in Ends(m) : e - 2 \in Ends(m) => k + 2 <= e
    BY <1>1, <1>2, <1>3, <1>5, <1>6
  <2>2. (k + 2) - 2 \in Ends(m) /\ k + 2 \in Nat
    BY <1>1, <1>2
  <2> QED BY <1>3, <2>1, <2>2 DEF InHead
<1>8. ASSUME KeptBefore(m, k + 2) PROVE KeptBefore(m, s) \/ (k = s + 1 /\ m[s] = "KEEP")
  <2>1. PICK e \in Ends(m) : /\ e + 3 \in Ends(m) /\ e + 3 < k + 2
                                   /\ m[e + 2] = "KEEP"
    BY <1>8 DEF KeptBefore
  <2>2. CASE e + 3 < s
    BY <2>1, <2>2 DEF KeptBefore
  <2>3. CASE e + 3 = k
    <3>1. e < s /\ e # s - 1 /\ e \in Nat
      BY <1>1, <1>2, <1>3, <1>4, <2>3
    <3>2. k = s + 1 /\ e + 2 = s
      BY <1>1, <1>2, <1>3, <2>3, <3>1
    <3> QED BY <2>1, <3>2
  <2> QED BY <1>5, <2>1, <2>2, <2>3
<1>9. ASSUME KeptBefore(m, s) PROVE KeptBefore(m, k + 2)
  <2>1. PICK e \in Ends(m) : /\ e + 3 \in Ends(m) /\ e + 3 < s
                                   /\ m[e + 2] = "KEEP"
    BY <1>9 DEF KeptBefore
  <2>2. e + 3 < k + 2
    BY <1>1, <1>2, <1>3, <2>1
  <2> QED BY <2>1, <2>2 DEF KeptBefore
<1>10. ASSUME k = s + 1, m[s] = "KEEP" PROVE KeptBefore(m, k + 2)
  <2>1. (s - 2) + 3 = k /\ (s - 2) + 2 = s /\ (s - 2) + 3 < k + 2
    BY <1>3, <1>10
  <2> QED BY <1>1, <1>3, <1>10, <2>1 DEF KeptBefore
<1>11. ASSUME NEW b0 \in Ends(m), b0 + 2 < k + 2 PROVE b0 + 2 < s \/ b0 = s - 2
  <2>1. b0 < s /\ b0 # s - 1 /\ b0 \in Nat
    BY <1>1, <1>2, <1>4, <1>5, <1>11
  <2> QED BY <1>3, <2>1
<1>12. (s - 2) + 2 < k + 2 /\ (s - 2) + 2 = s
  BY <1>1, <1>2, <1>3
<1>13. ASSUME NEW n0, Says(m, s, n0), m[s] \in DOMAIN ContentLength
       PROVE  Says(m, k + 2, ToInt(ContentLength[m[s]]))
  <2>1. NoLength(m, k + 2, s - 2)
    <3> SUFFICES ASSUME NEW b0 \in Ends(m), s - 2 < b0, b0 + 2 < k + 2 PROVE FALSE
      BY DEF NoLength
    <3> QED BY <1>2, <1>3, <1>11
  <2> QED BY <1>3, <1>12, <1>13, <2>1 DEF Says
<1>14. ASSUME NEW n0, Says(m, s, n0), m[s] \notin DOMAIN ContentLength
       PROVE  Says(m, k + 2, n0)
  <2>1. \A e : NoLength(m, s, e) => NoLength(m, k + 2, e)
    BY <1>11, <1>12, <1>14 DEF NoLength
  <2>2. \A e \in Ends(m) : e + 2 < s => e + 2 < k + 2
    BY <1>1, <1>2, <1>3
  <2> QED BY <1>14, <2>1, <2>2 DEF Says
<1> QED BY <1>7, <1>8, <1>9, <1>10, <1>13, <1>14

LEMMA EmptyLine ==
    ASSUME NEW m, NEW n, Sent(m, n), NEW good, NEW s, InHead(m, s, good),
           NEW b, NEW i, At(m, n, b, s, i), LineEnds(b, i, s)
    PROVE  Granted(m, n, s, good)
<1>1. /\ s \in Ends(m) /\ s < n /\ \A j \in Ill(m) : s + 2 <= j
  BY ReadEnd
<1>2. \A j \in Ill(m) : j \in Nat
  BY Places
<1>3. /\ s \in Nat /\ s - 2 \in Ends(m) /\ FirstIs(m, good)
      /\ \A e \in Ends(m) : e - 2 \in Ends(m) => s <= e
  BY DEF InHead
<1>4. Sane(m, s)
  BY <1>1, <1>2, <1>3 DEF Sane
<1>5. HeadEnd(m, s)
  BY <1>1, <1>3 DEF HeadEnd
<1> QED BY <1>1, <1>3, <1>4, <1>5 DEF Granted

\* There is one empty line that ends the head.
LEMMA OneHeadEnd ==
    ASSUME NEW m, NEW n, Sent(m, n), NEW a \in Ends(m), NEW b \in Ends(m),
           HeadEnd(m, a), HeadEnd(m, b)
    PROVE  a = b
<1>1. a \in Nat /\ b \in Nat
  BY Places
<1>2. a <= b /\ b <= a
  BY DEF HeadEnd
<1> QED BY <1>1, <1>2
-----------------------------------------------------------------------------
(***************************************************************************)
(* Note 17.  Between two reads a parser that has no answer yet stands at   *)
(* checked_idx of a line that starts in start_line, after a first line     *)
(* that is a request line if it looks for headers, and linger and the      *)
(* length are what the headers before start_line say.  In a body nothing   *)
(* is known but that, and that the head is behind checked_idx.             *)
(***************************************************************************)
Good17 == {"GET11", "GET10"}

Types17 == /\ Buffered(read_buff, checked_idx) /\ start_line \in 1..checked_idx
           /\ check_state \in {"kCheckStateRequestLine", "kCheckStateHeader", "kCheckStateContent"}
           /\ content_length \in -Half..(Half - 1) /\ linger \in BOOLEAN
           /\ line_status \in {"kLineOk", "kLineBad", "kLineOpen"}
           /\ code \in {"running", "kNoRequest", "kBadRequest", "kGetRequest", "ruined"}

AtRequestLine == check_state = "kCheckStateRequestLine" =>
                    /\ At(message, arrived, read_buff, start_line, checked_idx)
                    /\ start_line = 1 /\ linger = FALSE /\ content_length = 0

AtHeader == check_state = "kCheckStateHeader" =>
               /\ At(message, arrived, read_buff, start_line, checked_idx)
               /\ InHead(message, start_line, Good17)
               /\ linger = TRUE <=> KeptBefore(message, start_line)
               /\ Says(message, start_line, content_length)

InBody == IF check_state = "kCheckStateContent"
            THEN /\ HasBody(message)
                 /\ \A k \in Ends(message) : HeadEnd(message, k) =>
                                                k + 2 <= checked_idx /\ Says(message, k, content_length)
            ELSE HasBody(message) \/ content_length = 0

Going17 == code \in {"running", "kNoRequest"} =>
              Len(read_buff) = arrived /\ AtRequestLine /\ AtHeader

Waiting17 == code = "kNoRequest" /\ check_state # "kCheckStateContent" =>
                IF line_status = "kLineBad" THEN Broken(message, arrived, checked_idx)
                                            ELSE Dry(message, arrived, start_line)

Answered17 ==
    /\ code = "ruined" => HasBody(message)
    /\ code = "kBadRequest" => Refused(message, arrived, Good17)
    /\ code = "kGetRequest" =>
          /\ \A k \in Ends(message) : HeadEnd(message, k) =>
                k + 1 + content_length <= arrived /\ Says(message, k, content_length)
          /\ HasBody(message) \/ \E k \in Nat : /\ Granted(message, arrived, k, Good17)
                                                /\ linger = TRUE <=> KeptBefore(message, k)

Inv17 == Types17 /\ InBody /\ Going17 /\ Waiting17 /\ Answered17

Still == UNCHANGED <<message, arrived>>

LEMMA Line17 ==
    ASSUME Sent(message, arrived), Inv17, code = "running", ParseLine.status = "kLineOk",
           check_state # "kCheckStateContent"
    PROVE  \E k \in Nat :
              /\ LineEnds(read_buff, checked_idx, k) /\ ParseLine.idx = k + 2
              /\ Line = Piece(read_buff, start_line, k)
              /\ Buffered(ParseLine.buff, k + 2) /\ Len(ParseLine.buff) = arrived
              /\ At(message, arrived, ParseLine.buff, k + 2, k + 2)
<1>1. /\ At(message, arrived, read_buff, start_line, checked_idx)
      /\ Buffered(read_buff, checked_idx)
  BY DEF Inv17, Going17, AtRequestLine, AtHeader, Types17
<1>2. PICK k : /\ LineEnds(read_buff, checked_idx, k) /\ ParseLine.idx = k + 2
               /\ Cut(read_buff, ParseLine.buff, k)
  BY <1>1, LineRead
<1>3. k \in Ends(message) /\ At(message, arrived, ParseLine.buff, k + 2, k + 2)
  BY <1>1, <1>2, ReadEnd
<1>4. k \in Nat
  BY <1>3, Places
<1>5. Line = Piece(read_buff, start_line, k)
  <2>1. ParseLine.idx - 3 = k - 1
    BY <1>2, <1>4
  <2> QED BY <2>1 DEF Line, Piece
<1> QED BY <1>2, <1>3, <1>4, <1>5 DEF At

LEMMA RequestLineStep ==
    ASSUME Sent(message, arrived), Inv17, ParseRequestLine, Still
    PROVE  Inv17'
<1>1. /\ code = "running" /\ check_state = "kCheckStateRequestLine"
      /\ ParseLine.status = "kLineOk" /\ read_buff' = ParseLine.buff
      /\ checked_idx' = ParseLine.idx /\ start_line' = ParseLine.idx
      /\ line_status' = "kLineOk" /\ content_length' = content_length
      /\ message' = message /\ arrived' = arrived
  BY DEF ParseRequestLine, InLine, Still
<1>2. PICK k \in Nat :
              /\ LineEnds(read_buff, checked_idx, k) /\ ParseLine.idx = k + 2
              /\ Line = Piece(read_buff, start_line, k)
              /\ Buffered(ParseLine.buff, k + 2) /\ Len(ParseLine.buff) = arrived
              /\ At(message, arrived, ParseLine.buff, k + 2, k + 2)
  BY <1>1, Line17
<1>3. /\ At(message, arrived, read_buff, 1, checked_idx) /\ start_line = 1
      /\ linger = FALSE /\ content_length = 0
  BY <1>1 DEF Inv17, Going17, AtRequestLine
<1>4. /\ (\E x \in Good17 : Line = <<x>>) => InHead(message, k + 2, Good17)
      /\ (\A x \in Good17 : Line # <<x>>) => Refused(message, arrived, Good17)
  BY <1>2, <1>3, FirstLine
<1>5. k + 2 \in 1..(k + 2)
  BY <1>2
<1>6. CASE /\ Line \in {<<"GET11">>, <<"GET10">>} /\ check_state' = "kCheckStateHeader"
           /\ linger' = (linger /\ Line = <<"GET11">>) /\ code' = code
  <2>1. InHead(message, k + 2, Good17)
    BY <1>4, <1>6 DEF Good17
  <2>2. linger' = FALSE
    BY <1>3, <1>6
  <2>3. ~KeptBefore(message, k + 2)
    <3> SUFFICES ASSUME NEW e \in Ends(message), e + 3 \in Ends(message), e + 3 < k + 2
                 PROVE  FALSE
      BY DEF KeptBefore
    <3>1. k = 2 /\ e \in Nat /\ 1 <= e
      <4>1. \A y \in Ends(message) : 1 <= y => k <= y
        BY <1>2, <1>3, ReadEnd
      <4>2. FirstEnd(message, 2)
        BY <2>1 DEF InHead, FirstIs
      <4>3. k \in Ends(message)
        BY <1>2, <1>3, ReadEnd
      <4> QED BY <4>1, <4>2, <4>3, Places DEF FirstEnd
    <3> QED BY <3>1
  <2>4. Types17'
    BY <1>1, <1>2, <1>3, <1>5, <1>6, <2>2 DEF Inv17, Types17
  <2>7. Says(message, k + 2, content_length)
    <3>1. \A y \in Ends(message) : k <= y /\ y \in Nat
      BY <1>2, <1>3, ReadEnd, Places
    <3>2. NoLength(message, k + 2, 0)
      BY <1>2, <3>1 DEF NoLength
    <3> QED BY <1>3, <3>2 DEF Says
  <2>5. Going17'
    BY <1>1, <1>2, <1>6, <2>1, <2>2, <2>3, <2>7 DEF Going17, AtRequestLine, AtHeader
  <2>6. InBody'
    BY <1>1, <1>3, <1>6 DEF InBody
  <2> QED BY <1>1, <1>6, <2>4, <2>5, <2>6 DEF Inv17, Waiting17, Answered17
<1>7. CASE /\ Line \notin {<<"GET11">>, <<"GET10">>} /\ code' = "kBadRequest"
           /\ UNCHANGED <<check_state, linger>>
  <2>1. Refused(message, arrived, Good17)
    BY <1>4, <1>7 DEF Good17
  <2>2. Types17'
    BY <1>1, <1>2, <1>3, <1>5, <1>7 DEF Inv17, Types17
  <2>3. InBody'
    BY <1>1, <1>3, <1>7 DEF InBody
  <2> QED BY <1>1, <1>7, <2>1, <2>2, <2>3 DEF Inv17, Going17, Waiting17, Answered17
<1> QED BY <1>6, <1>7 DEF ParseRequestLine

LEMMA HeaderStep ==
    ASSUME Sent(message, arrived), Inv17, ParseHeader, Still
    PROVE  Inv17'
<1>1. /\ code = "running" /\ check_state = "kCheckStateHeader"
      /\ ParseLine.status = "kLineOk" /\ read_buff' = ParseLine.buff
      /\ checked_idx' = ParseLine.idx /\ start_line' = ParseLine.idx
      /\ line_status' = "kLineOk" /\ Line # <<>>
      /\ linger' = (linger \/ Line = <<"KEEP">>)
      /\ content_length' = IF Line[1] \in DOMAIN ContentLength THEN ToInt(ContentLength[Line[1]])
                                                              ELSE content_length
      /\ check_state' = check_state /\ code' = code
      /\ message' = message /\ arrived' = arrived
  BY DEF ParseHeader, InLine, Still
<1>2. PICK k \in Nat :
              /\ LineEnds(read_buff, checked_idx, k) /\ ParseLine.idx = k + 2
              /\ Line = Piece(read_buff, start_line, k)
              /\ Buffered(ParseLine.buff, k + 2) /\ Len(ParseLine.buff) = arrived
              /\ At(message, arrived, ParseLine.buff, k + 2, k + 2)
  BY <1>1, Line17
<1>3. /\ At(message, arrived, read_buff, start_line, checked_idx)
      /\ InHead(message, start_line, Good17)
      /\ linger = TRUE <=> KeptBefore(message, start_line)
      /\ Says(message, start_line, content_length)
  BY <1>1 DEF Inv17, Going17, AtHeader
<1>4. /\ read_buff \in Seq(Symbols) /\ Len(read_buff) = arrived /\ arrived \in Nat
      /\ start_line \in Nat /\ 1 <= start_line /\ start_line <= k /\ k < arrived
      /\ message[start_line] = read_buff[start_line] /\ arrived <= Len(message)
      /\ Len(message) \in Nat
  <2>1. start_line <= k /\ k < arrived
    BY <1>2, <1>3, ReadEnd
  <2>2. arrived \in Nat /\ arrived <= Len(message) /\ Len(message) \in Nat
    BY Places
  <2> QED BY <1>3, <2>1, <2>2 DEF At, Buffered, InHead
<1>5. /\ Line = <<>> <=> k = start_line
      /\ \A x : Line = <<x>> <=> k = start_line + 1 /\ message[start_line] = x
      /\ k > start_line => Line[1] = message[start_line]
  <2>1. /\ read_buff \in Seq(Symbols) /\ start_line \in Nat /\ k \in Nat
        /\ 1 <= start_line /\ start_line <= k /\ k <= Len(read_buff) + 1
    BY <1>4
  <2>2. /\ Line = <<>> <=> k = start_line
        /\ \A x : Line = <<x>> <=> k = start_line + 1 /\ read_buff[start_line] = x
        /\ k > start_line => Line[1] = read_buff[start_line]
    BY <1>2, <2>1, LineIs
  <2> QED BY <1>4, <2>2
<1>6. k # start_line
  BY <1>1, <1>5
<1>7. /\ InHead(message, k + 2, Good17)
      /\ KeptBefore(message, k + 2) <=>
            KeptBefore(message, start_line) \/ (k = start_line + 1 /\ message[start_line] = "KEEP")
      /\ Says(message, k + 2, content_length')
  <2>1. k > start_line
    BY <1>4, <1>6
  <2>2. content_length' = IF message[start_line] \in DOMAIN ContentLength
                            THEN ToInt(ContentLength[message[start_line]]) ELSE content_length
    BY <1>1, <1>5, <2>1
  <2> QED BY <1>2, <1>3, <1>6, <2>2, HeaderLine
<1>8. linger' \in BOOLEAN /\ (linger' = TRUE <=> KeptBefore(message, k + 2))
  <2>1. linger \in BOOLEAN
    BY DEF Inv17, Types17
  <2>2. linger' = TRUE <=> linger = TRUE \/ Line = <<"KEEP">>
    BY <1>1, <2>1, Zenon
  <2> QED BY <1>1, <1>3, <1>5, <1>7, <2>1, <2>2, Zenon
<1>9. content_length' \in -Half..(Half - 1) /\ (HasBody(message) \/ content_length' = 0)
  <2>1. Line[1] = message[start_line] /\ start_line \in DOMAIN message
    <3>1. DOMAIN message = 1..Len(message)
      BY LenProperties DEF Sent
    <3> QED BY <1>4, <1>5, <1>6, <3>1
  <2>2. Line[1] \in DOMAIN ContentLength => HasBody(message)
    BY <2>1 DEF HasBody
  <2> QED BY <1>1, <2>2, IntOf, ParserAssumption DEF Inv17, InBody, Types17
<1>10. k + 2 \in 1..(k + 2)
  BY <1>2
<1>11. Types17'
  BY <1>1, <1>2, <1>8, <1>9, <1>10 DEF Types17
<1>12. Going17'
  BY <1>1, <1>2, <1>7, <1>8 DEF Going17, AtRequestLine, AtHeader
<1>13. InBody'
  BY <1>1, <1>9 DEF InBody
<1> QED BY <1>1, <1>11, <1>12, <1>13 DEF Inv17, Waiting17, Answered17

LEMMA EndStep ==
    ASSUME Sent(message, arrived), Inv17, ParseEnd, Still
    PROVE  Inv17'
<1>1. /\ code = "running" /\ check_state = "kCheckStateHeader"
      /\ ParseLine.status = "kLineOk" /\ read_buff' = ParseLine.buff
      /\ checked_idx' = ParseLine.idx /\ start_line' = ParseLine.idx
      /\ line_status' = "kLineOk" /\ Line = <<>>
      /\ linger' = linger /\ content_length' = content_length
      /\ message' = message /\ arrived' = arrived
  BY DEF ParseEnd, InLine, Still
<1>2. PICK k \in Nat :
              /\ LineEnds(read_buff, checked_idx, k) /\ ParseLine.idx = k + 2
              /\ Line = Piece(read_buff, start_line, k)
              /\ Buffered(ParseLine.buff, k + 2) /\ Len(ParseLine.buff) = arrived
              /\ At(message, arrived, ParseLine.buff, k + 2, k + 2)
  BY <1>1, Line17
<1>3. /\ At(message, arrived, read_buff, start_line, checked_idx)
      /\ InHead(message, start_line, Good17)
      /\ linger = TRUE <=> KeptBefore(message, start_line)
      /\ Says(message, start_line, content_length)
  BY <1>1 DEF Inv17, Going17, AtHeader
<1>4. k = start_line
  <2>1. start_line <= k /\ k < arrived /\ arrived \in Nat
    BY <1>2, <1>3, ReadEnd, Places
  <2>2. /\ read_buff \in Seq(Symbols) /\ start_line \in Nat /\ k \in Nat
        /\ 1 <= start_line /\ start_line <= k /\ k <= Len(read_buff) + 1
    BY <1>3, <2>1 DEF At, Buffered, InHead
  <2>3. Line = <<>> <=> k = start_line
    BY <1>2, <2>2, LineIs
  <2> QED BY <1>1, <2>3
<1>5. Granted(message, arrived, k, Good17)
  BY <1>2, <1>3, <1>4, EmptyLine
<1>6. \A e \in Ends(message) : HeadEnd(message, e) => e = k
  BY <1>5, OneHeadEnd DEF Granted
<1>7. k + 2 \in 1..(k + 2) /\ arrived \in Nat
  BY <1>2, Places
<1>8. CASE content_length # 0 /\ check_state' = "kCheckStateContent" /\ code' = code
  <2>1. Types17'
    BY <1>1, <1>2, <1>7, <1>8 DEF Types17, Inv17
  <2>2. InBody'
    BY <1>1, <1>2, <1>3, <1>4, <1>6, <1>8 DEF InBody, Inv17, Going17
  <2>3. Going17'
    BY <1>1, <1>2, <1>8 DEF Going17, AtRequestLine, AtHeader
  <2> QED BY <1>1, <1>8, <2>1, <2>2, <2>3 DEF Inv17, Waiting17, Answered17
<1>9. CASE content_length = 0 /\ code' = "kGetRequest" /\ check_state' = check_state
  <2>1. Types17'
    BY <1>1, <1>2, <1>7, <1>9 DEF Types17, Inv17
  <2>2. InBody'
    BY <1>1, <1>9 DEF InBody
  <2>3. k + 1 + content_length <= arrived
    BY <1>5, <1>7, <1>9 DEF Granted
  <2>4. Answered17'
    <3>1. \A e \in Ends(message) : HeadEnd(message, e) =>
            e + 1 + content_length <= arrived /\ Says(message, e, content_length)
      BY <1>3, <1>4, <1>6, <2>3
    <3>2. Granted(message, arrived, k, Good17) /\ (linger = TRUE <=> KeptBefore(message, k))
      BY <1>3, <1>4, <1>5
    <3> QED BY <1>1, <1>9, <3>1, <3>2 DEF Answered17
  <2> QED BY <1>1, <1>9, <2>1, <2>2, <2>4 DEF Inv17, Going17, Waiting17
<1> QED BY <1>8, <1>9 DEF ParseEnd

\* Of a body only its place is known, and that it is there.
LEMMA ContentStep ==
    ASSUME Sent(message, arrived), Inv17, Still,
           code = "running", check_state = "kCheckStateContent",
           NEW buff, NEW idx, Buffered(buff, idx), Len(buff) = Len(read_buff),
           checked_idx <= idx, Content(buff, idx)
    PROVE  Inv17'
<1>1. /\ start_line' = idx /\ checked_idx' = idx
      /\ check_state' = check_state /\ content_length' = content_length /\ linger' = linger
      /\ message' = message /\ arrived' = arrived
  BY DEF Content, Still
<1>2. /\ Len(read_buff) = arrived /\ arrived \in Nat /\ content_length \in Int
      /\ buff \in Seq(Symbols) /\ idx \in 1..(arrived + 1) /\ checked_idx \in Nat
      /\ start_line \in 1..checked_idx /\ linger \in BOOLEAN
      /\ line_status \in {"kLineOk", "kLineBad", "kLineOpen"}
  BY Places, ParserAssumption DEF Inv17, Going17, Types17, Buffered
<1>3. /\ HasBody(message)
      /\ \A k \in Ends(message) : HeadEnd(message, k) =>
                                     k + 2 <= idx /\ Says(message, k, content_length)
  <2>1. \A k \in Ends(message) : k \in Nat
    BY Places
  <2> QED BY <1>2, <2>1 DEF Inv17, InBody
<1>4. InBody' /\ idx \in 1..idx
  BY <1>1, <1>2, <1>3 DEF InBody
<1>5. CASE Awaited(idx) < Half /\ read_idx >= Awaited(idx) /\ Cleared(buff)
  <2> DEFINE j == start_line + content_length
  <2>1. /\ arrived >= content_length + idx - 1
        /\ code' \in {"ruined", "kGetRequest"} /\ line_status' = line_status
        /\ read_buff' = IF j \in DOMAIN buff THEN [buff EXCEPT ![j] = "NUL"] ELSE buff
    BY <1>2, <1>5 DEF Awaited, Cleared, read_idx
  <2> HIDE DEF j
  <2>2. Buffered(read_buff', idx)
    <3>1. CASE j \notin DOMAIN buff
      BY <2>1, <3>1
    <3>2. CASE j \in DOMAIN buff
      <4>1. j \in 1..Len(buff) /\ "NUL" \in Symbols
        BY <1>2, <3>2, LenProperties DEF Symbols
      <4>2. /\ [buff EXCEPT ![j] = "NUL"] \in Seq(Symbols)
            /\ Len([buff EXCEPT ![j] = "NUL"]) = Len(buff)
            /\ \A x \in 1..Len(buff) : [buff EXCEPT ![j] = "NUL"][x] = IF x = j THEN "NUL"
                                                                         ELSE buff[x]
        BY <1>2, <4>1, ExceptSeq
      <4>3. read_buff' = [buff EXCEPT ![j] = "NUL"]
        BY <2>1, <3>2
      <4> QED BY <1>2, <4>2, <4>3 DEF Buffered
    <3> QED BY <3>1, <3>2
  <2>3. Types17'
    BY <1>1, <1>2, <1>4, <2>1, <2>2 DEF Inv17, Types17
  <2>4. \A k \in Ends(message) : HeadEnd(message, k) =>
            k + 1 + content_length <= arrived /\ Says(message, k, content_length)
    <3>1. \A k \in Ends(message) : k \in Nat
      BY Places
    <3> QED BY <1>2, <1>3, <2>1, <3>1
  <2>5. Answered17'
    BY <1>1, <1>3, <2>1, <2>4 DEF Answered17
  <2> QED BY <1>1, <1>4, <2>1, <2>3, <2>5 DEF Inv17, Going17, Waiting17
<1>6. CASE line_status' = "kLineOpen" /\ read_buff' = buff /\ code' = code
  <2>2. Types17'
    BY <1>1, <1>2, <1>4, <1>6 DEF Inv17, Types17
  <2>3. Going17'
    BY <1>1, <1>2, <1>6 DEF Going17, AtRequestLine, AtHeader
  <2> QED BY <1>1, <1>4, <1>6, <2>2, <2>3 DEF Inv17, Waiting17, Answered17
<1>7. CASE code' = "ruined" /\ read_buff' = buff /\ line_status' = line_status
  <2>1. Types17'
    BY <1>1, <1>2, <1>4, <1>7 DEF Inv17, Types17
  <2> QED BY <1>1, <1>3, <1>4, <1>7, <2>1 DEF Inv17, Going17, Waiting17, Answered17
<1> QED BY <1>5, <1>6, <1>7 DEF Content

LEMMA BodyStep ==
    ASSUME Sent(message, arrived), Inv17, ParseContent \/ ParseContentLine, Still
    PROVE  Inv17'
<1>1. Buffered(read_buff, checked_idx)
  BY DEF Inv17, Types17
<1>2. CASE ParseContent
  <2>1. /\ code = "running" /\ check_state = "kCheckStateContent"
        /\ Content(read_buff, checked_idx)
    BY <1>2 DEF ParseContent
  <2>2. checked_idx <= checked_idx
    BY <1>1 DEF Buffered
  <2> QED BY <1>1, <2>1, <2>2, ContentStep
<1>3. CASE ParseContentLine
  <2>1. /\ code = "running" /\ check_state = "kCheckStateContent"
        /\ Content(ParseLine.buff, ParseLine.idx) /\ ParseLine.status = "kLineOk"
    BY <1>3 DEF ParseContentLine
  <2>2. PICK k : /\ LineEnds(read_buff, checked_idx, k) /\ ParseLine.idx = k + 2
                 /\ Cut(read_buff, ParseLine.buff, k)
    BY <1>1, <2>1, LineRead
  <2>3. Buffered(ParseLine.buff, k + 2) /\ checked_idx <= k + 2
    <3>1. /\ Len(read_buff) \in Nat /\ k \in checked_idx..(Len(read_buff) - 1)
          /\ checked_idx \in 1..(Len(read_buff) + 1)
      BY <1>1, <2>2, LenProperties DEF Buffered, LineEnds
    <3>2. (k + 2) - 1 = k + 1
      BY <3>1
    <3> QED BY <2>2, <3>1, <3>2 DEF Buffered, Cut
  <2>4. Len(ParseLine.buff) = Len(read_buff)
    BY <2>2 DEF Cut
  <2> QED BY <2>1, <2>2, <2>3, <2>4, ContentStep
<1> QED BY <1>2, <1>3

LEMMA NoLineStep ==
    ASSUME Sent(message, arrived), Inv17, NoLine, Still
    PROVE  Inv17'
<1>1. /\ code = "running" /\ ParseLine.status # "kLineOk"
      /\ checked_idx' = ParseLine.idx /\ line_status' = ParseLine.status
      /\ code' = "kNoRequest" /\ read_buff' = read_buff /\ start_line' = start_line
      /\ check_state' = check_state /\ content_length' = content_length /\ linger' = linger
      /\ message' = message /\ arrived' = arrived
  BY DEF NoLine, Still
<1>2. Buffered(read_buff, checked_idx) /\ Len(read_buff) = arrived /\ arrived \in Nat
  BY <1>1, Places DEF Inv17, Types17, Going17
<1> DEFINE i == ParseLine.idx
<1>3. \/ ParseLine.status = "kLineOpen" /\ LineOpen(read_buff, checked_idx, i)
      \/ ParseLine.status = "kLineBad" /\ LineBad(read_buff, checked_idx, i)
  BY <1>1, <1>2, LineRead
<1> HIDE DEF i
<1>4. i \in checked_idx..(arrived + 1) /\ NoBreak(read_buff, checked_idx, i)
  BY <1>2, <1>3 DEF LineOpen, LineBad, Buffered
<1>5. Buffered(read_buff, i) /\ start_line \in 1..i /\ checked_idx <= i /\ checked_idx \in Nat
  <2>1. start_line \in 1..checked_idx /\ checked_idx \in 1..(arrived + 1)
    BY <1>2 DEF Inv17, Types17, Buffered
  <2>2. i = checked_idx \/ i - 1 \in checked_idx..(i - 1)
    BY <1>4, <2>1
  <2> QED BY <1>2, <1>4, <2>1, <2>2 DEF Buffered, NoBreak
<1>6. Types17'
  BY <1>1, <1>3, <1>5 DEF Inv17, Types17, i
<1>7. InBody'
  <2>1. \A k \in Ends(message) : k \in Nat
    BY Places
  <2>2. \A k \in Ends(message) : k + 2 <= checked_idx => k + 2 <= i
    BY <1>4, <1>5, <2>1
  <2> QED BY <1>1, <2>2 DEF Inv17, InBody, i
<1>8. CASE check_state = "kCheckStateContent"
  <2>1. Going17'
    BY <1>1, <1>2, <1>8 DEF Going17, AtRequestLine, AtHeader
  <2> QED BY <1>1, <1>6, <1>7, <1>8, <2>1 DEF Inv17, Waiting17, Answered17
<1>9. CASE check_state # "kCheckStateContent"
  <2>1. At(message, arrived, read_buff, start_line, checked_idx)
    BY <1>1, <1>9 DEF Inv17, Types17, Going17, AtRequestLine, AtHeader
  <2>2. /\ At(message, arrived, read_buff, start_line, i)
        /\ ParseLine.status = "kLineOpen" => Dry(message, arrived, start_line)
        /\ ParseLine.status = "kLineBad" => Broken(message, arrived, i)
    <3>1. CASE ParseLine.status = "kLineOpen" /\ LineOpen(read_buff, checked_idx, i)
      BY <2>1, <3>1, ReadOpen
    <3>2. CASE ParseLine.status = "kLineBad" /\ LineBad(read_buff, checked_idx, i)
      BY <2>1, <3>2, ReadBad
    <3> QED BY <1>3, <3>1, <3>2
  <2>3. Going17'
    BY <1>1, <1>2, <2>2 DEF Inv17, Going17, AtRequestLine, AtHeader, i
  <2>4. Waiting17'
    BY <1>1, <1>3, <2>2 DEF Waiting17, i
  <2> QED BY <1>1, <1>6, <1>7, <2>3, <2>4 DEF Inv17, Answered17
<1> QED BY <1>8, <1>9
-----------------------------------------------------------------------------
(***************************************************************************)
(* What more bytes do: a buffer is longer, what was found stays found.     *)
(***************************************************************************)
LEMMA Longer ==
    ASSUME NEW m, NEW n, Sent(m, n), NEW d \in Nat, n + d <= Len(m),
           NEW b, NEW i, Buffered(b, i), Len(b) = n
    PROVE  LET c == b \o SubSeq(m, n + 1, n + d)
           IN  /\ Buffered(c, i) /\ Len(c) = n + d
               /\ \A s : At(m, n, b, s, i) => At(m, n + d, c, s, i)
<1> DEFINE piece == SubSeq(m, n + 1, n + d)
           c == b \o piece
<1>1. n \in Nat /\ Len(m) \in Nat /\ n <= Len(m)
  BY Places
<1>2. \A j \in (n + 1)..(n + d) : m[j] \in Symbols
  BY <1>1, ElementOfSeq DEF Sent
<1>3. piece \in Seq(Symbols) /\ Len(piece) = d /\ \A j \in 1..d : piece[j] = m[n + j]
  <2>1. /\ piece \in Seq(Symbols) /\ Len(piece) = IF n + 1 <= n + d THEN n + d - (n + 1) + 1 ELSE 0
        /\ \A j \in 1..(n + d - (n + 1) + 1) : piece[j] = m[n + 1 + j - 1]
    BY <1>1, <1>2, SubSeqProperties
  <2> HIDE DEF piece
  <2> QED BY <1>1, <2>1
<1> HIDE DEF piece
<1>4. b \in Seq(Symbols) /\ i \in 1..(n + 1)
  BY DEF Buffered
<1>5. /\ c \in Seq(Symbols) /\ Len(c) = n + d
      /\ \A j \in 1..(n + d) : c[j] = IF j <= n THEN b[j] ELSE piece[j - n]
  BY <1>3, <1>4, ConcatProperties
<1> HIDE DEF c
<1>6. \A j \in 1..n : c[j] = b[j]
  BY <1>1, <1>5
<1>7. \A j \in (n + 1)..(n + d) : c[j] = m[j]
  <2> TAKE j \in (n + 1)..(n + d)
  <2>1. j - n \in 1..d /\ j \in 1..(n + d) /\ ~(j <= n) /\ n + (j - n) = j
    BY <1>1
  <2> QED BY <1>3, <1>5, <2>1
<1>8. Buffered(c, i)
  <2>1. i > 1 => c[i - 1] = b[i - 1]
    BY <1>1, <1>4, <1>6
  <2> QED BY <1>1, <1>4, <1>5, <2>1 DEF Buffered
<1>9. ASSUME NEW s, At(m, n, b, s, i) PROVE At(m, n + d, c, s, i)
  <2>1. \A j \in s..(n + d) : c[j] = m[j]
    <3> TAKE j \in s..(n + d)
    <3>1. s \in 1..i
      BY <1>9 DEF At
    <3>2. j \in s..n \/ j \in (n + 1)..(n + d)
      BY <1>1, <1>4, <3>1
    <3>3. CASE j \in s..n
      <4>1. j \in 1..n /\ b[j] = m[j]
        BY <1>1, <1>4, <1>9, <3>1, <3>3 DEF At
      <4> QED BY <1>6, <4>1
    <3> QED BY <1>7, <3>2, <3>3
  <2> QED BY <1>5, <1>8, <1>9, <2>1 DEF At
<1> QED BY <1>5, <1>8, <1>9 DEF c, piece

LEMMA Later ==
    ASSUME NEW m, NEW n, Sent(m, n), NEW d \in Nat, n + d <= Len(m), NEW good
    PROVE  /\ Sent(m, n + d)
           /\ Refused(m, n, good) => Refused(m, n + d, good)
           /\ \A k : Granted(m, n, k, good) => Granted(m, n + d, k, good)
           /\ \A i : Broken(m, n, i) => Broken(m, n + d, i)
<1>1. /\ n \in Nat /\ Len(m) \in Nat /\ n <= Len(m)
      /\ \A k \in Ends(m) : k \in Nat
      /\ \A k \in Ill(m) : k \in Nat
  BY Places
<1>2. Sent(m, n + d)
  BY <1>1 DEF Sent
<1>3. \A k \in Ends(m) : k < n => k < n + d
  BY <1>1
<1>4. Refused(m, n, good) => Refused(m, n + d, good)
  BY <1>3 DEF Refused
<1>5. ASSUME NEW k, Granted(m, n, k, good) PROVE Granted(m, n + d, k, good)
  BY <1>3, <1>5 DEF Granted
<1>6. ASSUME NEW i, Broken(m, n, i) PROVE Broken(m, n + d, i)
  <2>1. i \in Ill(m) /\ i <= n /\ (m[i] = "CR" => i < n)
    BY <1>6, PrefixOf DEF Broken
  <2>2. i <= n + d /\ (m[i] = "CR" => i < n + d)
    BY <1>1, <2>1
  <2>3. i \in Ill(Got(m, n + d))
    BY <1>2, <2>1, <2>2, PrefixOf
  <2> QED BY <2>3 DEF Broken
<1> QED BY <1>2, <1>4, <1>5, <1>6

Arrive(d) == arrived + d <= Len(message) /\ arrived' = arrived + d /\ message' = message

LEMMA Deliver17 ==
    ASSUME Sent(message, arrived), Inv17, NEW d \in Nat, Arrive(d), code # "running",
           IF code = "kNoRequest" THEN Take(SubSeq(message, arrived + 1, arrived + d))
                                  ELSE UNCHANGED parserVars
    PROVE  Inv17'
<1>1. message' = message /\ arrived' = arrived + d /\ arrived + d <= Len(message)
  BY DEF Arrive
<1>2. CASE code = "kNoRequest"
  <2> DEFINE c == read_buff \o SubSeq(message, arrived + 1, arrived + d)
  <2>1. /\ read_buff' = c /\ line_status' = "kLineOk" /\ code' = "running"
        /\ checked_idx' = checked_idx /\ start_line' = start_line
        /\ check_state' = check_state /\ content_length' = content_length /\ linger' = linger
    BY <1>2 DEF Take
  <2>2. Buffered(read_buff, checked_idx) /\ Len(read_buff) = arrived
    BY <1>2 DEF Inv17, Types17, Going17
  <2>3. /\ Buffered(c, checked_idx) /\ Len(c) = arrived + d
        /\ \A s : At(message, arrived, read_buff, s, checked_idx) =>
                     At(message, arrived + d, c, s, checked_idx)
    BY <1>1, <2>2, Longer
  <2> HIDE DEF c
  <2>4. Types17'
    BY <2>1, <2>3 DEF Inv17, Types17
  <2>5. InBody'
    BY <1>1, <2>1 DEF Inv17, InBody
  <2>6. AtRequestLine'
    BY <1>1, <1>2, <2>1, <2>3 DEF Inv17, Going17, AtRequestLine
  <2>7. AtHeader'
    BY <1>1, <1>2, <2>1, <2>3 DEF Inv17, Going17, AtHeader
  <2>8. Going17'
    BY <1>1, <2>1, <2>3, <2>6, <2>7 DEF Going17
  <2> QED BY <2>1, <2>4, <2>5, <2>8 DEF Inv17, Waiting17, Answered17
<1>3. CASE code # "kNoRequest"
  <2>1. /\ read_buff' = read_buff /\ line_status' = line_status /\ code' = code
        /\ checked_idx' = checked_idx /\ start_line' = start_line
        /\ check_state' = check_state /\ content_length' = content_length /\ linger' = linger
    BY <1>3 DEF parserVars
  <2>2. Types17' /\ InBody' /\ code \in {"kBadRequest", "kGetRequest", "ruined"}
    BY <1>1, <1>3, <2>1 DEF Inv17, Types17, InBody
  <2>3. /\ Refused(message, arrived, Good17) => Refused(message, arrived + d, Good17)
        /\ \A k : Granted(message, arrived, k, Good17) => Granted(message, arrived + d, k, Good17)
    BY <1>1, Later
  <2>4. ASSUME code = "kGetRequest", NEW k \in Ends(message), HeadEnd(message, k)
        PROVE  k + 1 + content_length <= arrived + d /\ Says(message, k, content_length)
    <3>1. arrived \in Nat /\ k \in Nat /\ content_length \in Int
      BY Places, ParserAssumption DEF Inv17, Types17
    <3>2. k + 1 + content_length <= arrived /\ Says(message, k, content_length)
      BY <2>4 DEF Inv17, Answered17
    <3> QED BY <3>1, <3>2
  <2>5. Answered17'
    BY <1>1, <2>1, <2>3, <2>4 DEF Inv17, Answered17
  <2> QED BY <1>3, <2>1, <2>2, <2>5 DEF Inv17, Going17, Waiting17
<1> QED BY <1>2, <1>3
-----------------------------------------------------------------------------
(***************************************************************************)
(* Note 9, which knows no bodies, one request line, and answers what is    *)
(* malformed.                                                              *)
(***************************************************************************)
Good9 == {"GET11"}

Malformed(m, n, s, i) == /\ Broken(m, n, i) /\ (s = 1 \/ InHead(m, s, Good9))
                         /\ \A e \in Ends(m) : s <= e => i <= e

Types9 == /\ Buffered(buffer, checked_index) /\ start_line_9 \in 1..checked_index
          /\ checkstate \in {"REQUESTLINE", "HEADER"}
          /\ result \in {"running", "NO_REQUEST", "BAD_REQUEST", "GET_REQUEST"}

Going9 == result \in {"running", "NO_REQUEST"} =>
             /\ At(message, arrived, buffer, start_line_9, checked_index)
             /\ IF checkstate = "HEADER" THEN InHead(message, start_line_9, Good9)
                                         ELSE start_line_9 = 1

Answered9 ==
    /\ result = "NO_REQUEST" => Dry(message, arrived, start_line_9)
    /\ result = "BAD_REQUEST" => \/ Refused(message, arrived, Good9)
                                 \/ Malformed(message, arrived, start_line_9, checked_index)
    /\ result = "GET_REQUEST" => \E k \in Nat : Granted(message, arrived, k, Good9)

Inv9 == Types9 /\ Going9 /\ Answered9

LEMMA Line9 ==
    ASSUME Sent(message, arrived), Inv9, result = "running", Note9!ParseLine.status = "LINE_OK"
    PROVE  \E k \in Nat :
              /\ LineEnds(buffer, checked_index, k) /\ Note9!ParseLine.idx = k + 2
              /\ Note9!Line = Piece(buffer, start_line_9, k)
              /\ At(message, arrived, Note9!ParseLine.buff, k + 2, k + 2)
<1>1. /\ At(message, arrived, buffer, start_line_9, checked_index)
      /\ Buffered(buffer, checked_index)
  BY DEF Inv9, Going9, Types9
<1>2. PICK k : /\ LineEnds(buffer, checked_index, k) /\ Note9!ParseLine.idx = k + 2
               /\ Cut(buffer, Note9!ParseLine.buff, k)
  BY <1>1, LineRead9
<1>3. k \in Ends(message) /\ At(message, arrived, Note9!ParseLine.buff, k + 2, k + 2)
  BY <1>1, <1>2, ReadEnd
<1>4. k \in Nat
  BY <1>3, Places
<1>5. Note9!Line = Piece(buffer, start_line_9, k)
  <2>1. Note9!ParseLine.idx - 3 = k - 1
    BY <1>2, <1>4
  <2> QED BY <2>1 DEF Note9!Line, Piece
<1> QED BY <1>2, <1>3, <1>4, <1>5

LEMMA RequestLineStep9 ==
    ASSUME Sent(message, arrived), Inv9, Note9!parse_requestline, Still
    PROVE  Inv9'
<1>1. /\ result = "running" /\ checkstate = "REQUESTLINE"
      /\ Note9!ParseLine.status = "LINE_OK" /\ buffer' = Note9!ParseLine.buff
      /\ checked_index' = Note9!ParseLine.idx /\ start_line_9' = Note9!ParseLine.idx
      /\ message' = message /\ arrived' = arrived
  BY DEF Note9!parse_requestline, Note9!InLine, Still
<1>2. PICK k \in Nat :
              /\ LineEnds(buffer, checked_index, k) /\ Note9!ParseLine.idx = k + 2
              /\ Note9!Line = Piece(buffer, start_line_9, k)
              /\ At(message, arrived, Note9!ParseLine.buff, k + 2, k + 2)
  BY <1>1, Line9
<1>3. At(message, arrived, buffer, 1, checked_index) /\ start_line_9 = 1
  BY <1>1 DEF Inv9, Going9
<1>4. /\ (\E x \in Good9 : Note9!Line = <<x>>) => InHead(message, k + 2, Good9)
      /\ (\A x \in Good9 : Note9!Line # <<x>>) => Refused(message, arrived, Good9)
  BY <1>2, <1>3, FirstLine
<1>5. Buffered(Note9!ParseLine.buff, k + 2) /\ k + 2 \in 1..(k + 2)
  BY <1>2 DEF At
<1>6. CASE Note9!Line = <<"GET11">> /\ checkstate' = "HEADER" /\ result' = result
  <2>1. InHead(message, k + 2, Good9)
    BY <1>4, <1>6 DEF Good9
  <2> QED BY <1>1, <1>2, <1>5, <1>6, <2>1 DEF Inv9, Types9, Going9, Answered9
<1>7. CASE Note9!Line # <<"GET11">> /\ result' = "BAD_REQUEST" /\ checkstate' = checkstate
  <2>1. Refused(message, arrived, Good9)
    BY <1>4, <1>7 DEF Good9
  <2> QED BY <1>1, <1>2, <1>5, <1>7, <2>1 DEF Inv9, Types9, Going9, Answered9
<1> QED BY <1>6, <1>7 DEF Note9!parse_requestline

LEMMA HeaderStep9 ==
    ASSUME Sent(message, arrived), Inv9, Note9!parse_headers, Still
    PROVE  Inv9'
<1>1. /\ result = "running" /\ checkstate = "HEADER" /\ checkstate' = checkstate
      /\ Note9!ParseLine.status = "LINE_OK" /\ buffer' = Note9!ParseLine.buff
      /\ checked_index' = Note9!ParseLine.idx /\ start_line_9' = Note9!ParseLine.idx
      /\ result' = IF Note9!Line = <<>> THEN "GET_REQUEST" ELSE result
      /\ message' = message /\ arrived' = arrived
  BY DEF Note9!parse_headers, Note9!InLine, Still
<1>2. PICK k \in Nat :
              /\ LineEnds(buffer, checked_index, k) /\ Note9!ParseLine.idx = k + 2
              /\ Note9!Line = Piece(buffer, start_line_9, k)
              /\ At(message, arrived, Note9!ParseLine.buff, k + 2, k + 2)
  BY <1>1, Line9
<1>3. /\ At(message, arrived, buffer, start_line_9, checked_index)
      /\ InHead(message, start_line_9, Good9)
  BY <1>1 DEF Inv9, Going9
<1>4. Note9!Line = <<>> <=> k = start_line_9
  <2>1. start_line_9 <= k /\ k < arrived /\ arrived \in Nat
    BY <1>2, <1>3, ReadEnd, Places
  <2>2. /\ buffer \in Seq(Symbols) /\ start_line_9 \in Nat /\ k \in Nat
        /\ 1 <= start_line_9 /\ start_line_9 <= k /\ k <= Len(buffer) + 1
    BY <1>3, <2>1 DEF At, Buffered, InHead
  <2> QED BY <1>2, <2>2, LineIs
<1>5. Buffered(Note9!ParseLine.buff, k + 2) /\ k + 2 \in 1..(k + 2)
  BY <1>2 DEF At
<1>6. CASE k = start_line_9
  <2>1. Granted(message, arrived, k, Good9)
    BY <1>2, <1>3, <1>6, EmptyLine
  <2> QED BY <1>1, <1>2, <1>4, <1>5, <1>6, <2>1 DEF Inv9, Types9, Going9, Answered9
<1>7. CASE k # start_line_9
  <2>1. InHead(message, k + 2, Good9)
    BY <1>2, <1>3, <1>7, HeaderLine
  <2> QED BY <1>1, <1>2, <1>4, <1>5, <1>7, <2>1 DEF Inv9, Types9, Going9, Answered9
<1> QED BY <1>6, <1>7

LEMMA NoLineStep9 ==
    ASSUME Sent(message, arrived), Inv9, Note9!NoLine, Still
    PROVE  Inv9'
<1>1. /\ result = "running" /\ Note9!ParseLine.status # "LINE_OK"
      /\ checked_index' = Note9!ParseLine.idx /\ checkstate' = checkstate
      /\ result' = IF Note9!ParseLine.status = "LINE_OPEN" THEN "NO_REQUEST" ELSE "BAD_REQUEST"
      /\ buffer' = buffer /\ start_line_9' = start_line_9
      /\ message' = message /\ arrived' = arrived
  BY DEF Note9!NoLine, Still
<1>2. /\ At(message, arrived, buffer, start_line_9, checked_index)
      /\ Buffered(buffer, checked_index)
      /\ IF checkstate = "HEADER" THEN InHead(message, start_line_9, Good9)
                                  ELSE start_line_9 = 1
  BY <1>1 DEF Inv9, Types9, Going9
<1> DEFINE i == Note9!ParseLine.idx
<1>3. \/ Note9!ParseLine.status = "LINE_OPEN" /\ LineOpen(buffer, checked_index, i)
      \/ Note9!ParseLine.status = "LINE_BAD" /\ LineBad(buffer, checked_index, i)
  BY <1>1, <1>2, LineRead9
<1> HIDE DEF i
<1>4. CASE Note9!ParseLine.status = "LINE_OPEN" /\ LineOpen(buffer, checked_index, i)
  <2>1. At(message, arrived, buffer, start_line_9, i) /\ Dry(message, arrived, start_line_9)
    BY <1>2, <1>4, ReadOpen
  <2>2. Types9'
    BY <1>1, <1>4, <2>1 DEF Inv9, Types9, At, i
  <2> QED BY <1>1, <1>2, <1>4, <2>1, <2>2 DEF Inv9, Going9, Answered9, i
<1>5. CASE Note9!ParseLine.status = "LINE_BAD" /\ LineBad(buffer, checked_index, i)
  <2>1. At(message, arrived, buffer, start_line_9, i) /\ Broken(message, arrived, i)
    BY <1>2, <1>5, ReadBad
  <2>2. Types9'
    BY <1>1, <1>5, <2>1 DEF Inv9, Types9, At, i
  <2>3. Malformed(message, arrived, start_line_9, i)
    BY <1>2, <2>1 DEF Malformed, At
  <2> QED BY <1>1, <1>5, <2>2, <2>3 DEF Inv9, Going9, Answered9, i
<1> QED BY <1>3, <1>4, <1>5

LEMMA Deliver9 ==
    ASSUME Sent(message, arrived), Inv9, NEW d \in Nat, Arrive(d), result # "running",
           IF result = "NO_REQUEST" THEN Note9!Recv(SubSeq(message, arrived + 1, arrived + d))
                                    ELSE UNCHANGED readVars9
    PROVE  Inv9'
<1>1. message' = message /\ arrived' = arrived + d /\ arrived + d <= Len(message)
  BY DEF Arrive
<1>2. CASE result = "NO_REQUEST"
  <2> DEFINE c == buffer \o SubSeq(message, arrived + 1, arrived + d)
  <2>1. /\ buffer' = c /\ result' = "running" /\ checked_index' = checked_index
        /\ start_line_9' = start_line_9 /\ checkstate' = checkstate
    BY <1>2 DEF Note9!Recv
  <2>2. /\ At(message, arrived, buffer, start_line_9, checked_index)
        /\ Buffered(buffer, checked_index) /\ Len(buffer) = arrived
    BY <1>2 DEF Inv9, Types9, Going9, At
  <2>3. Buffered(c, checked_index) /\ At(message, arrived + d, c, start_line_9, checked_index)
    BY <1>1, <2>2, Longer
  <2> HIDE DEF c
  <2> QED BY <1>1, <1>2, <2>1, <2>3 DEF Inv9, Types9, Going9, Answered9
<1>3. CASE result # "NO_REQUEST"
  <2>1. /\ buffer' = buffer /\ result' = result /\ checked_index' = checked_index
        /\ start_line_9' = start_line_9 /\ checkstate' = checkstate
    BY <1>3 DEF readVars9
  <2>2. /\ Refused(message, arrived, Good9) => Refused(message, arrived + d, Good9)
        /\ \A k : Granted(message, arrived, k, Good9) => Granted(message, arrived + d, k, Good9)
        /\ \A i : Broken(message, arrived, i) => Broken(message, arrived + d, i)
    BY <1>1, Later
  <2>3. Malformed(message, arrived, start_line_9, checked_index) =>
           Malformed(message, arrived + d, start_line_9, checked_index)
    BY <2>2 DEF Malformed
  <2> QED BY <1>1, <1>3, <2>1, <2>2, <2>3 DEF Inv9, Types9, Going9, Answered9
<1> QED BY <1>2, <1>3
-----------------------------------------------------------------------------
(***************************************************************************)
(* The inductive invariant of the two.                                     *)
(***************************************************************************)
ParseInv == message \in Messages /\ arrived \in 0..Len(message) /\ Inv17 /\ Inv9

LEMMA SentInv == ParseInv => Sent(message, arrived)
BY MessagesAssumption DEF ParseInv, Sent

LEMMA InitParse == Init => ParseInv
<1> SUFFICES ASSUME Init PROVE ParseInv
  OBVIOUS
<1>1. message \in Messages /\ message \in Seq(Symbols) /\ arrived = 0
  BY MessagesAssumption DEF Init
<1>2. Len(message) \in Nat
  BY <1>1, LenProperties
<1>3. Sent(message, 0)
  BY <1>1, <1>2 DEF Sent
<1>4. Buffered(<<>>, 1) /\ Len(<<>>) = 0
  BY EmptySeq DEF Buffered
<1>5. At(message, 0, <<>>, 1, 1)
  <2>1. \A j \in 1..0 : <<>>[j] = message[j]
    OBVIOUS
  <2> QED BY <1>3, <1>4, <2>1, Places DEF At
<1>6. Dry(message, 0, 1)
  <2>1. Ill(Got(message, 0)) = {}
    <3> SUFFICES ASSUME NEW j \in Ill(Got(message, 0)) PROVE FALSE
      OBVIOUS
    <3>1. j \in Ill(message) /\ j <= 0
      BY <1>3, PrefixOf
    <3> QED BY <1>3, <3>1, Places
  <2> QED BY <1>3, <2>1, Places DEF Dry
<1>7. Inv17
  <2>1. Types17
    <3>1. Buffered(read_buff, checked_idx)
      BY <1>4 DEF Init, ParserInit
    <3>2. linger \in BOOLEAN
      BY DEF Init, ParserInit
    <3>3. /\ checked_idx = 1 /\ start_line = 1 /\ check_state = "kCheckStateRequestLine"
          /\ content_length = 0 /\ line_status = "kLineOk" /\ code = "kNoRequest"
      BY DEF Init, ParserInit
    <3>4. 0 \in -Half..(Half - 1)
      BY ParserAssumption
    <3> QED BY <3>1, <3>2, <3>3, <3>4 DEF Types17
  <2>2. Going17
    BY <1>1, <1>4, <1>5 DEF Init, ParserInit, Going17, AtRequestLine, AtHeader
  <2> QED BY <1>1, <1>6, <2>1, <2>2
          DEF Init, ParserInit, Inv17, InBody, Waiting17, Answered17
<1>8. Inv9
  BY <1>1, <1>4, <1>5, <1>6 DEF Init, Note9!ReadInit, Inv9, Types9, Going9, Answered9
<1> QED BY <1>1, <1>2, <1>7, <1>8 DEF ParseInv

\* What a parser does not look at.
LEMMA Rest17 == Inv17 /\ UNCHANGED <<message, arrived, parserVars>> => Inv17'
BY DEF Inv17, Types17, InBody, Going17, AtRequestLine, AtHeader, Waiting17, Answered17, parserVars

LEMMA Rest9 == Inv9 /\ UNCHANGED <<message, arrived, readVars9>> => Inv9'
BY DEF Inv9, Types9, Going9, Answered9, readVars9

LEMMA NextParse == ParseInv /\ [Next]_vars => ParseInv'
<1> SUFFICES ASSUME ParseInv, [Next]_vars PROVE ParseInv'
  OBVIOUS
<1>1. Sent(message, arrived) /\ Inv17 /\ Inv9
  BY SentInv DEF ParseInv
<1>2. ASSUME NEW d \in 1..(Len(message) - arrived), Deliver(d) PROVE ParseInv'
  <2>1. d \in Nat /\ arrived + d \in 0..Len(message) /\ Arrive(d) /\ message' = message
    BY <1>1, <1>2, Places DEF Deliver, Arrive
  <2>2. Inv17'
    BY <1>1, <1>2, <2>1, Deliver17 DEF Deliver
  <2>3. Inv9'
    BY <1>1, <1>2, <2>1, Deliver9 DEF Deliver
  <2> QED BY <2>1, <2>2, <2>3 DEF ParseInv, Arrive
<1>3. CASE Parse17
  <2>1. ProcessRead /\ Still /\ UNCHANGED <<message, arrived, readVars9>>
    BY <1>3 DEF Parse17, Still
  <2>2. Inv17'
    BY <1>1, <2>1, RequestLineStep, HeaderStep, EndStep, BodyStep, NoLineStep DEF ProcessRead
  <2>3. Inv9'
    BY <1>1, <2>1, Rest9
  <2> QED BY <2>1, <2>2, <2>3 DEF ParseInv
<1>4. CASE Parse9
  <2>1. Note9!parse_content /\ Still /\ UNCHANGED <<message, arrived, parserVars>>
    BY <1>4 DEF Parse9, Still
  <2>2. Inv9'
    BY <1>1, <2>1, RequestLineStep9, HeaderStep9, NoLineStep9 DEF Note9!parse_content
  <2>3. Inv17'
    BY <1>1, <2>1, Rest17
  <2> QED BY <2>1, <2>2, <2>3 DEF ParseInv
<1>5. CASE UNCHANGED vars
  <2>1. UNCHANGED <<message, arrived, parserVars>> /\ UNCHANGED <<message, arrived, readVars9>>
    BY <1>5 DEF vars
  <2>2. Inv17' /\ Inv9'
    BY <1>1, <2>1, Rest17, Rest9
  <2> QED BY <2>1, <2>2 DEF ParseInv
<1> QED BY <1>2, <1>3, <1>4, <1>5 DEF Next

LEMMA ParseInvariance == Spec => []ParseInv
BY InitParse, NextParse, PTL DEF Spec

LEMMA ParseTypes == ParseInv => TypeOK
<1> SUFFICES ASSUME ParseInv PROVE TypeOK
  OBVIOUS
<1>1. /\ checked_idx \in 1..(read_idx + 1) /\ checked_index \in 1..(Len(buffer) + 1)
  BY DEF ParseInv, Inv17, Inv9, Types17, Types9, Buffered, read_idx
<1> QED BY <1>1 DEF ParseInv, Inv17, Inv9, Types17, Types9, TypeOK

(***************************************************************************)
(* The indices of both parsers stay within their buffers and their states  *)
(* among the named ones, for any messages, however they are cut.           *)
(***************************************************************************)
THEOREM TypeInvariance == Spec => []TypeOK
BY ParseInvariance, ParseTypes, PTL

LEMMA ParsePasses == ParseInv => CRNeverPassed
BY DEF ParseInv, Inv17, Inv9, Types17, Types9, Buffered, CRNeverPassed

(***************************************************************************)
(* Neither parser steps over a CR before it has seen what follows, so the  *)
(* branches for a LF behind one (httpconnection.cpp:484, server.c:45) are  *)
(* dead code.                                                              *)
(***************************************************************************)
THEOREM NeverPassed == Spec => []CRNeverPassed
BY ParseInvariance, ParsePasses, PTL

\* The last length of the head is what the parser works with.
LEMMA ParseBody == ParseInv => BodyComplete
<1> SUFFICES ASSUME ParseInv, code = "kGetRequest", NEW e \in Ends(message), NEW k \in Ends(message),
                    LastLength(message, e, k), ContentLength[message[e + 2]] \in -Half..(Half - 1)
             PROVE  BodyThere(e, k)
  BY DEF BodyComplete
<1>1. /\ \A y \in Ends(message) : y \in Nat /\ 1 <= y
      /\ HeadEnd(message, k) /\ e + 2 < k /\ message[e + 2] \in DOMAIN ContentLength
      /\ NoLength(message, k, e)
  BY SentInv, Places DEF LastLength, NoLength
<1>2. k + 1 + content_length <= arrived /\ Says(message, k, content_length)
  BY <1>1 DEF ParseInv, Inv17, Answered17
<1>3. content_length = ToInt(ContentLength[message[e + 2]])
  <2>1. ~NoLength(message, k, 0)
    BY <1>1 DEF NoLength
  <2>2. PICK f \in Ends(message) : /\ f + 2 < k /\ message[f + 2] \in DOMAIN ContentLength
                                   /\ content_length = ToInt(ContentLength[message[f + 2]])
                                   /\ NoLength(message, k, f)
    BY <1>2, <2>1 DEF Says
  <2>3. e = f
    BY <1>1, <2>2 DEF NoLength
  <2> QED BY <2>2, <2>3
<1> QED BY <1>2, <1>3, IntOf DEF BodyThere

(***************************************************************************)
(* No request with a body is answered before the head and as many bytes    *)
(* behind it as its last Content-Length says have arrived, for any width   *)
(* of an int and any length that it can hold (httpconnection.cpp:403-430). *)
(***************************************************************************)
THEOREM BodyInvariance == Spec => []BodyComplete
BY ParseInvariance, ParseBody, PTL
-----------------------------------------------------------------------------
(***************************************************************************)
(* What the grammar makes of what has arrived.                             *)
(***************************************************************************)
LEMMA PrefixParts ==
    ASSUME NEW m, NEW n, Sent(m, n), NEW k \in Ends(Got(m, n))
    PROVE  /\ k \in Ends(m) /\ k < n
           /\ FirstEnd(Got(m, n), k) <=> FirstEnd(m, k)
           /\ HeadEnd(Got(m, n), k) <=> HeadEnd(m, k)
           /\ Sane(Got(m, n), k) <=> Sane(m, k)
           /\ SubSeq(Got(m, n), 1, k - 1) \in {<<"GET11">>, <<"GET10">>}
                 <=> k = 2 /\ m[1] \in Good17
<1> DEFINE p == Got(m, n)
<1>1. /\ p \in Seq(Symbols) /\ Len(p) = n /\ \A j \in 1..n : p[j] = m[j]
      /\ Ends(p) = {e \in Ends(m) : e < n}
      /\ Ill(p) = {j \in Ill(m) : j <= n /\ (m[j] = "CR" => j < n)}
  BY PrefixOf
<1>2. /\ n \in Nat /\ \A e \in Ends(m) : e \in Nat /\ 1 <= e
      /\ \A j \in Ill(m) : j \in Nat
  BY Places
<1> HIDE DEF p
<1>3. k \in Ends(m) /\ k < n /\ k \in Nat /\ 1 <= k
  BY <1>1, <1>2 DEF p
<1>4. FirstEnd(p, k) <=> FirstEnd(m, k)
  BY <1>1, <1>2, <1>3 DEF FirstEnd
<1>5. k - 2 \in Ends(p) <=> k - 2 \in Ends(m)
  BY <1>1, <1>2, <1>3
<1>6. HeadEnd(p, k) <=> HeadEnd(m, k)
  <2>1. ASSUME HeadEnd(p, k) PROVE HeadEnd(m, k)
    <3>1. ASSUME NEW j \in Ends(m), j - 2 \in Ends(m) PROVE k <= j
      <4>1. CASE j < n
        BY <1>1, <1>2, <2>1, <3>1, <4>1 DEF HeadEnd
      <4> QED BY <1>2, <1>3, <4>1
    <3> QED BY <1>3, <1>5, <2>1, <3>1 DEF HeadEnd
  <2>2. ASSUME HeadEnd(m, k) PROVE HeadEnd(p, k)
    <3>1. k \in Ends(p)
      BY <1>1, <1>3
    <3> QED BY <1>1, <1>5, <2>2, <3>1 DEF HeadEnd
  <2> QED BY <2>1, <2>2
<1>7. Sane(p, k) <=> Sane(m, k)
  BY <1>1, <1>2, <1>3 DEF Sane
<1>8. SubSeq(p, 1, k - 1) \in {<<"GET11">>, <<"GET10">>} <=> k = 2 /\ m[1] \in Good17
  <2>1. p \in Seq(Symbols) /\ 1 \in Nat /\ 1 <= 1 /\ k \in Nat /\ 1 <= k /\ k <= Len(p) + 1
    BY <1>1, <1>2, <1>3
  <2>2. \A x : Piece(p, 1, k) = <<x>> <=> k = 1 + 1 /\ p[1] = x
    BY <2>1, LineIs
  <2>3. p[1] = m[1] /\ (k = 1 + 1 <=> k = 2)
    BY <1>1, <1>2, <1>3
  <2>4. Piece(p, 1, k) \in {<<"GET11">>, <<"GET10">>} <=> k = 2 /\ m[1] \in {"GET11", "GET10"}
    BY <2>2, <2>3, Zenon
  <2> QED BY <2>4 DEF Piece, Good17
<1> QED BY <1>3, <1>4, <1>6, <1>7, <1>8 DEF p

LEMMA RefusedAnswer ==
    ASSUME NEW m, NEW n, Sent(m, n), Refused(m, n, Good17)
    PROVE  Answer(Got(m, n)) = "kBadRequest"
<1>1. PICK k \in Ends(m) : /\ k < n /\ FirstEnd(m, k) /\ Sane(m, k)
                           /\ ~(k = 2 /\ m[1] \in Good17)
  BY DEF Refused
<1>2. k \in Ends(Got(m, n))
  BY <1>1, PrefixOf
<1>3. /\ FirstEnd(Got(m, n), k) /\ Sane(Got(m, n), k)
      /\ SubSeq(Got(m, n), 1, k - 1) \notin {<<"GET11">>, <<"GET10">>}
  BY <1>1, <1>2, PrefixParts
<1> QED BY <1>2, <1>3, Zenon DEF Answer

LEMMA NotRefused ==
    ASSUME NEW m, NEW n, Sent(m, n), FirstIs(m, Good17)
    PROVE  ~ \E k \in Ends(Got(m, n)) :
                /\ FirstEnd(Got(m, n), k) /\ Sane(Got(m, n), k)
                /\ SubSeq(Got(m, n), 1, k - 1) \notin {<<"GET11">>, <<"GET10">>}
<1> SUFFICES ASSUME NEW k \in Ends(Got(m, n)), FirstEnd(Got(m, n), k)
             PROVE  SubSeq(Got(m, n), 1, k - 1) \in {<<"GET11">>, <<"GET10">>}
  OBVIOUS
<1>1. FirstEnd(m, k) /\ k \in Ends(m)
  BY PrefixParts
<1>2. k = 2
  <2>1. k <= 2 /\ 2 <= k /\ k \in Nat
    BY <1>1, Places DEF FirstIs, FirstEnd
  <2> QED BY <2>1
<1> QED BY <1>2, PrefixParts DEF FirstIs

LEMMA GrantedAnswer ==
    ASSUME NEW m, NEW n, Sent(m, n), NEW k, Granted(m, n, k, Good17)
    PROVE  /\ Answer(Got(m, n)) = "kGetRequest"
           /\ AsksToKeep(Got(m, n)) <=> KeptBefore(m, k)
<1> DEFINE p == Got(m, n)
<1>1. k \in Ends(m) /\ k < n /\ HeadEnd(m, k) /\ Sane(m, k) /\ FirstIs(m, Good17)
  BY DEF Granted
<1>2. /\ Ends(p) = {e \in Ends(m) : e < n} /\ \A j \in 1..n : p[j] = m[j]
      /\ n \in Nat /\ \A e \in Ends(m) : e \in Nat /\ 1 <= e
  BY PrefixOf, Places
<1>3. k \in Ends(p)
  BY <1>1, <1>2
<1>4. HeadEnd(p, k) /\ Sane(p, k)
  BY <1>1, <1>3, PrefixParts
<1>5. Answer(p) = "kGetRequest"
  BY <1>1, <1>3, <1>4, NotRefused, Zenon DEF Answer
<1>6. \A b \in Ends(p) : HeadEnd(p, b) <=> b = k
  <2> TAKE b \in Ends(p)
  <2>1. b \in Ends(m) /\ (HeadEnd(p, b) <=> HeadEnd(m, b))
    BY PrefixParts
  <2> QED BY <1>1, <2>1, OneHeadEnd
<1> HIDE DEF p
<1>7. ASSUME AsksToKeep(p) PROVE KeptBefore(m, k)
  <2>1. PICK h \in Ends(p), e \in Ends(p) : /\ h = e + 3 /\ p[e + 2] = "KEEP"
                                            /\ \A b \in Ends(p) : HeadEnd(p, b) => h < b
    BY <1>7 DEF AsksToKeep
  <2>2. e + 3 < k /\ e \in Ends(m) /\ e + 3 \in Ends(m)
    BY <1>2, <1>3, <1>6, <2>1
  <2>3. p[e + 2] = m[e + 2]
    BY <1>1, <1>2, <2>2
  <2> QED BY <2>1, <2>2, <2>3 DEF KeptBefore
<1>8. ASSUME KeptBefore(m, k) PROVE AsksToKeep(p)
  <2>1. PICK e \in Ends(m) : e + 3 \in Ends(m) /\ e + 3 < k /\ m[e + 2] = "KEEP"
    BY <1>8 DEF KeptBefore
  <2>2. e \in Ends(p) /\ e + 3 \in Ends(p) /\ p[e + 2] = m[e + 2]
    BY <1>1, <1>2, <2>1
  <2>3. \A b \in Ends(p) : HeadEnd(p, b) => e + 3 < b
    BY <1>6, <2>1
  <2> QED BY <2>1, <2>2, <2>3 DEF AsksToKeep
<1> QED BY <1>5, <1>7, <1>8 DEF p

LEMMA NoAnswer ==
    ASSUME NEW m, NEW n, Sent(m, n), NEW s, s = 1 \/ InHead(m, s, Good17),
           \A e \in Ends(m) : s <= e /\ e < n => ~Sane(m, e)
    PROVE  Answer(Got(m, n)) = "kNoRequest"
<1>1. \A e \in Ends(m) : e \in Nat /\ 1 <= e
  BY Places
<1>2. ~ \E k \in Ends(Got(m, n)) : HeadEnd(Got(m, n), k) /\ Sane(Got(m, n), k)
  <2> SUFFICES ASSUME NEW k \in Ends(Got(m, n)), HeadEnd(Got(m, n), k), Sane(Got(m, n), k)
               PROVE  FALSE
    OBVIOUS
  <2>1. k \in Ends(m) /\ k < n /\ HeadEnd(m, k) /\ Sane(m, k)
    BY PrefixParts
  <2>2. s <= k
    <3>1. CASE s = 1
      BY <1>1, <2>1, <3>1
    <3>2. CASE InHead(m, s, Good17)
      BY <2>1, <3>2 DEF InHead, HeadEnd
    <3> QED BY <3>1, <3>2
  <2> QED BY <2>1, <2>2
<1>3. ~ \E k \in Ends(Got(m, n)) :
           /\ FirstEnd(Got(m, n), k) /\ Sane(Got(m, n), k)
           /\ SubSeq(Got(m, n), 1, k - 1) \notin {<<"GET11">>, <<"GET10">>}
  <2>1. CASE s = 1
    <3> SUFFICES ASSUME NEW k \in Ends(Got(m, n)), Sane(Got(m, n), k) PROVE FALSE
      OBVIOUS
    <3>1. k \in Ends(m) /\ k < n /\ Sane(m, k)
      BY PrefixParts
    <3> QED BY <1>1, <2>1, <3>1
  <2>2. CASE InHead(m, s, Good17)
    <3>1. FirstIs(m, Good17)
      BY <2>2 DEF InHead
    <3> QED BY <3>1, NotRefused
  <2> QED BY <2>1, <2>2
<1> QED BY <1>2, <1>3, Zenon DEF Answer

\* What is dry, or broken where the parser stands, has no answer.
LEMMA WaitsRightly ==
    ASSUME NEW m, NEW n, Sent(m, n), NEW s, NEW i, s = 1 \/ InHead(m, s, Good17),
           Dry(m, n, s) \/ (Broken(m, n, i) /\ \A e \in Ends(m) : s <= e => i <= e)
    PROVE  Answer(Got(m, n)) = "kNoRequest"
<1>1. /\ \A e \in Ends(m) : e \in Nat
      /\ \A j \in Ill(m) : j \in Nat
      /\ n \in Nat
  BY Places
<1>2. CASE Dry(m, n, s)
  <2>1. \A e \in Ends(m) : s <= e /\ e < n => ~Sane(m, e)
    BY <1>1, <1>2 DEF Dry
  <2> QED BY <2>1, NoAnswer
<1>3. CASE Broken(m, n, i) /\ \A e \in Ends(m) : s <= e => i <= e
  <2>1. i \in Ill(m)
    BY <1>3, PrefixOf DEF Broken
  <2>2. \A e \in Ends(m) : s <= e /\ e < n => ~Sane(m, e)
    BY <1>1, <1>3, <2>1 DEF Sane
  <2> QED BY <2>2, NoAnswer
<1> QED BY <1>2, <1>3

LEMMA ParseSplitFree == ParseInv => SplitFree
<1> SUFFICES ASSUME ParseInv, code # "running", ~HasBody(message)
             PROVE  /\ code = Answer(Prefix)
                    /\ code = "kGetRequest" => linger = AsksToKeep(Prefix)
  BY DEF SplitFree
<1>1. Sent(message, arrived) /\ Inv17 /\ Prefix = Got(message, arrived)
  BY SentInv DEF ParseInv, Prefix, Got
<1>2. code \in {"kNoRequest", "kBadRequest", "kGetRequest"} /\ linger \in BOOLEAN
  BY <1>1 DEF Inv17, Types17, Answered17
<1>3. CASE code = "kBadRequest"
  <2>1. Refused(message, arrived, Good17)
    BY <1>1, <1>3 DEF Inv17, Answered17
  <2> QED BY <1>1, <1>3, <2>1, RefusedAnswer
<1>4. CASE code = "kGetRequest"
  <2>1. PICK k \in Nat : /\ Granted(message, arrived, k, Good17)
                         /\ linger = TRUE <=> KeptBefore(message, k)
    BY <1>1, <1>4 DEF Inv17, Answered17
  <2>2. /\ Answer(Prefix) = "kGetRequest"
        /\ AsksToKeep(Prefix) <=> KeptBefore(message, k)
    BY <1>1, <2>1, GrantedAnswer
  <2>3. AsksToKeep(Prefix) \in BOOLEAN
    BY DEF AsksToKeep
  <2>4. linger = AsksToKeep(Prefix)
    <3>1. CASE linger = TRUE
      BY <2>1, <2>2, <2>3, <3>1, Zenon
    <3>2. CASE linger = FALSE
      BY <2>1, <2>2, <2>3, <3>2, Zenon
    <3> QED BY <1>2, <3>1, <3>2
  <2> QED BY <1>4, <2>2, <2>4
<1>5. CASE code = "kNoRequest"
  <2>1. /\ check_state # "kCheckStateContent"
        /\ At(message, arrived, read_buff, start_line, checked_idx)
        /\ start_line = 1 \/ InHead(message, start_line, Good17)
        /\ IF line_status = "kLineBad" THEN Broken(message, arrived, checked_idx)
                                       ELSE Dry(message, arrived, start_line)
    BY <1>1, <1>5 DEF Inv17, Types17, InBody, Going17, AtRequestLine, AtHeader, Waiting17
  <2>2. \A e \in Ends(message) : start_line <= e => checked_idx <= e
    BY <2>1 DEF At
  <2>3. Answer(Got(message, arrived)) = "kNoRequest"
    BY <1>1, <2>1, <2>2, WaitsRightly
  <2> QED BY <1>1, <1>5, <2>3
<1> QED BY <1>2, <1>3, <1>4, <1>5

(***************************************************************************)
(* The answer to a request without a body is the one the grammar gives to  *)
(* all that has arrived, and with it whether the connection is kept: for   *)
(* messages of any length, cut into reads in any way.                      *)
(***************************************************************************)
THEOREM SplitInvariance == Spec => []SplitFree
BY ParseInvariance, ParseSplitFree, PTL

\* Without HTTP/1.0 both notes want the same first line.
LEMMA SameFirstLine ==
    ASSUME NEW m, NEW n, Sent(m, n), "GET10" \notin {m[k] : k \in DOMAIN m}
    PROVE  /\ Refused(m, n, Good9) => Refused(m, n, Good17)
           /\ \A k : Granted(m, n, k, Good9) => Granted(m, n, k, Good17)
           /\ \A s : InHead(m, s, Good9) => InHead(m, s, Good17)
<1>1. Good9 \subseteq Good17
  BY DEF Good9, Good17
<1>2. \A k : Granted(m, n, k, Good9) => Granted(m, n, k, Good17)
  BY <1>1 DEF Granted, FirstIs
<1>3. \A s : InHead(m, s, Good9) => InHead(m, s, Good17)
  BY <1>1 DEF InHead, FirstIs
<1>4. ASSUME NEW k \in Ends(m), m[1] \in Good17 PROVE m[1] \in Good9
  <2>1. 1 \in DOMAIN m
    BY Places, LenProperties DEF Sent
  <2>2. m[1] # "GET10"
    BY <2>1
  <2> QED BY <1>4, <2>2 DEF Good9, Good17
<1>5. Refused(m, n, Good9) => Refused(m, n, Good17)
  BY <1>4 DEF Refused
<1> QED BY <1>2, <1>3, <1>5

LEMMA ParseAgrees == ParseInv => AgreesWithNote9
<1> SUFFICES ASSUME ParseInv, code # "running", result # "running", ~HasBody(message),
                    "GET10" \notin {message[k] : k \in DOMAIN message}
             PROVE  /\ result = "GET_REQUEST" => code = "kGetRequest"
                    /\ result = "NO_REQUEST" => code = "kNoRequest" /\ line_status # "kLineBad"
                    /\ result = "BAD_REQUEST" => \/ code = "kBadRequest"
                                                 \/ code = "kNoRequest" /\ line_status = "kLineBad"
  <2>1. result \in {"NO_REQUEST", "BAD_REQUEST", "GET_REQUEST"} \/ ~ParseInv \/ result = "running"
    BY DEF ParseInv, Inv9, Types9
  <2> QED BY <2>1 DEF AgreesWithNote9
<1>1. Sent(message, arrived) /\ Inv17 /\ Inv9 /\ code = Answer(Got(message, arrived))
  <2>1. code = Answer(Prefix)
    BY ParseSplitFree DEF SplitFree
  <2> QED BY <2>1, SentInv DEF ParseInv, Prefix, Got
<1>2. /\ Refused(message, arrived, Good9) => Refused(message, arrived, Good17)
      /\ \A k : Granted(message, arrived, k, Good9) => Granted(message, arrived, k, Good17)
      /\ \A s : InHead(message, s, Good9) => InHead(message, s, Good17)
  BY <1>1, SameFirstLine
<1>3. code = "kNoRequest" =>
         IF line_status = "kLineBad" THEN Broken(message, arrived, checked_idx)
                                     ELSE Dry(message, arrived, start_line)
  BY <1>1 DEF Inv17, InBody, Waiting17
<1>4. ASSUME result = "GET_REQUEST" PROVE code = "kGetRequest"
  <2>1. PICK k \in Nat : Granted(message, arrived, k, Good9)
    BY <1>1, <1>4 DEF Inv9, Answered9
  <2> QED BY <1>1, <1>2, <2>1, GrantedAnswer
<1>5. ASSUME result = "NO_REQUEST" PROVE code = "kNoRequest" /\ line_status # "kLineBad"
  <2>1. /\ Dry(message, arrived, start_line_9)
        /\ start_line_9 = 1 \/ InHead(message, start_line_9, Good9)
    BY <1>1, <1>5 DEF Inv9, Types9, Going9, Answered9
  <2>2. code = "kNoRequest"
    BY <1>1, <1>2, <2>1, WaitsRightly
  <2> QED BY <1>3, <2>1, <2>2 DEF Dry, Broken
<1>6. ASSUME result = "BAD_REQUEST", Refused(message, arrived, Good9) PROVE code = "kBadRequest"
  BY <1>1, <1>2, <1>6, RefusedAnswer
<1>7. ASSUME result = "BAD_REQUEST", Malformed(message, arrived, start_line_9, checked_index)
      PROVE  code = "kNoRequest" /\ line_status = "kLineBad"
  <2>1. /\ Broken(message, arrived, checked_index)
        /\ start_line_9 = 1 \/ InHead(message, start_line_9, Good9)
        /\ \A e \in Ends(message) : start_line_9 <= e => checked_index <= e
    BY <1>7 DEF Malformed
  <2>2. code = "kNoRequest"
    BY <1>1, <1>2, <2>1, WaitsRightly
  <2> QED BY <1>3, <2>1, <2>2 DEF Dry, Broken
<1> QED BY <1>1, <1>4, <1>5, <1>6, <1>7 DEF Inv9, Answered9

(***************************************************************************)
(* Of messages without a body and without HTTP/1.0 the parser of note 17   *)
(* thinks what the one of note 9 thinks, but that it says nothing of a     *)
(* malformed line.                                                         *)
(***************************************************************************)
THEOREM Agreement == Spec => []AgreesWithNote9
BY ParseInvariance, ParseAgrees, PTL
=============================================================================
