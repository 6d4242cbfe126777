------------------------------- MODULE Pieces -------------------------------
(***************************************************************************)
(* How internal/reduce/reduce.go cuts a source: texts whose bytes carry    *)
(* their offset in the original source, the lines and the shell tokens     *)
(* they split into, and the candidates each pass tries.                    *)
(***************************************************************************)
EXTENDS SequencesExt

\* A byte is [c, o]: the character and its original offset, from 0.
Chars(t) == [k \in DOMAIN t |-> t[k].c]
Original(chars) == [k \in DOMAIN chars |-> [c |-> chars[k], o |-> k - 1]]

\* The original offset of the byte at offset, and the original's length for
\* the offset just past the end.
OriginAt(t, offset, length) ==
  IF offset \in 0..(Len(t) - 1) THEN t[offset + 1].o
  ELSE IF offset = Len(t) THEN length ELSE -1

IsBlank(c) == c \in {" ", "\t"}
IsOperator(c) == c \in {";", "&", "|"}
IsBreak(c) == c \in {"\n", "(", ")", "{", "}"} \/ IsBlank(c) \/ IsOperator(c)

\* The operators of two characters; any of the three is one by itself too.
Operators == {<<";", ";">>, <<";", "&">>, <<";", "|">>, <<"&", "&">>, <<"|", "|">>,
              <<"|", "&">>, <<"&", "|">>, <<"&", "!">>}

Alphabet(t) == ToSet(Chars(t))

\* The last position of the run from i on of characters of the set run.
RunEnd(t, i, run) == LET out == {k \in i..Len(t) : t[k].c \notin run}
                     IN  IF out = {} THEN Len(t) ELSE Min(out) - 1

\* The last position of the token that starts at i, its blanks included.
TokenEnd(t, i) ==
  LET c == t[i].c
      core == IF c \in {"\n", "(", ")", "{", "}"} THEN i
              ELSE IF IsBlank(c) THEN i - 1
              ELSE IF IsOperator(c) THEN
                IF i < Len(t) /\ <<c, t[i + 1].c>> \in Operators THEN i + 1 ELSE i
              ELSE RunEnd(t, i, {d \in Alphabet(t) : ~IsBreak(d)})
  IN  IF c = "\n" THEN i ELSE RunEnd(t, core + 1, {d \in Alphabet(t) : IsBlank(d)})

\* The last position of the line that i is in, its newline included.
LineEnd(t, i) == LET text == RunEnd(t, i, Alphabet(t) \ {"\n"})
                 IN  IF text = Len(t) THEN text ELSE text + 1

\* A text cut into the pieces that end where ends says.
Cut(t, ends) ==
  LET from[i \in 1..(Len(t) + 1)] ==
        IF i > Len(t) THEN <<>> ELSE <<SubSeq(t, i, ends[i])>> \o from[ends[i] + 1]
  IN  from[1]

Tokens(t) == Cut(t, [i \in DOMAIN t |-> TokenEnd(t, i)])
Lines(t) == Cut(t, [i \in DOMAIN t |-> LineEnd(t, i)])
-----------------------------------------------------------------------------
\* What is left of units without the positions of out.
Without(units, out) ==
  LET left[n \in 0..Len(units)] ==
        IF n = 0 THEN <<>>
        ELSE IF n \in out THEN left[n - 1] ELSE Append(left[n - 1], units[n])
  IN  left[Len(units)]

\* A unit without its trailing blanks.
Word(unit) == LET solid == {k \in DOMAIN unit : ~IsBlank(unit[k].c)}
              IN  IF solid = {} THEN <<>> ELSE SubSeq(unit, 1, Max(solid))

\* ddmin's chunk from start, when there are n.
Chunk(units, n, start) ==
  LET size == (Len(units) + n - 1) \div n
  IN  start..(IF start + size - 1 < Len(units) THEN start + size - 1 ELSE Len(units))

Closers == {<<<<"{">>, <<"}">>>>, <<<<"(">>, <<")">>>>, <<<<"i", "f">>, <<"f", "i">>>>,
            <<<<"c", "a", "s", "e">>, <<"e", "s", "a", "c">>>>,
            <<<<"d", "o">>, <<"d", "o", "n", "e">>>>}

\* The positions that close the block opened at i: the first where as many
\* closers as openers were seen, or none.
CloserOf(units, i) ==
  LET text(k) == Chars(Word(units[k]))
      pairs == {p \in Closers : p[1] = text(i)}
      count(p, w, j) == Cardinality({k \in i..j : text(k) = p[w]})
      balanced(p) == {j \in (i + 1)..Len(units) : count(p, 1, j) = count(p, 2, j)}
  IN  {j \in UNION {balanced(p) : p \in pairs} :
         \A p \in pairs : \A k \in balanced(p) : j <= k}

\* The first block from i on, as <<opener, closer>>, or none.
BlockFrom(units, i) ==
  LET at == {b \in (DOMAIN units) \X (DOMAIN units) :
               b[1] >= i /\ b[2] \in CloserOf(units, b[1])}
  IN  {b \in at : \A d \in at : b[1] <= d[1]}

IsLongWord(unit) == Len(Word(unit)) >= 2 /\ ~IsBreak(unit[1].c)

\* The first word from i on that can be shortened, or none.
LongWordFrom(units, i) ==
  {k \in i..Len(units) : IsLongWord(units[k]) /\ \A d \in i..(k - 1) : ~IsLongWord(units[d])}

\* A word of one letter, at the offset of its first, with the blanks it had.
Shortened(unit) == <<[c |-> "a", o |-> unit[1].o]>>
                     \o SubSeq(unit, Len(Word(unit)) + 1, Len(unit))

\* The blanks at the end of each line dropped.
Trimmed(units) ==
  [k \in DOMAIN units |->
     IF k < Len(units) /\ Chars(units[k + 1]) # <<"\n">> THEN units[k] ELSE Word(units[k])]
=============================================================================
