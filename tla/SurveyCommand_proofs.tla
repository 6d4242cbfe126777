------------------------ MODULE SurveyCommand_proofs ------------------------
(***************************************************************************)
(* What the zsh-lint-survey command guarantees for any files, flags,       *)
(* budgets and answers of its oracles: the types of its variables, that    *)
(* the exit status tells what the rows say, that a reduction it writes     *)
(* still has the defect of the original, and that one which was not cut    *)
(* short is a local minimum.                                               *)
(***************************************************************************)
EXTENDS SurveyCommand, SequenceFacts

-----------------------------------------------------------------------------
(* How a text is cut into pieces. *)

\* No piece is empty.
Solid(us) == \A k \in 1..Len(us) : us[k] # <<>>

LEMMA SolidPrepend ==
  ASSUME NEW S, NEW us \in Seq(Seq(S)), NEW x \in Seq(S), x # <<>>, Solid(us)
  PROVE  Solid(<<x>> \o us)
<1>1. <<x>> \in Seq(Seq(S)) /\ Len(<<x>>) = 1 /\ <<x>>[1] = x /\ Len(us) \in Nat
  BY LenProperties
<1>. DEFINE new == <<x>> \o us
<1>2. Len(new) = 1 + Len(us) /\ \A k \in 1..(1 + Len(us)) :
        new[k] = IF k <= 1 THEN <<x>>[k] ELSE us[k - 1]
  BY <1>1, ConcatProperties
<1>. HIDE DEF new
<1>3. ASSUME NEW k \in 1..Len(new) PROVE new[k] # <<>>
  <2>1. CASE k = 1
    BY <1>1, <1>2, <2>1
  <2>2. CASE k # 1
    <3>1. k - 1 \in 1..Len(us) /\ ~(k <= 1)
      BY <1>1, <1>2, <2>2
    <3>. QED
      BY <1>2, <3>1 DEF Solid
  <2>. QED
    BY <2>1, <2>2
<1>. QED
  BY <1>3 DEF Solid, new

\* Pieces that end where ends says make up the text again.
LEMMA CutOf ==
  ASSUME NEW S, NEW t \in Seq(S), NEW ends, \A i \in 1..Len(t) : ends[i] \in i..Len(t)
  PROVE  /\ Cut(t, ends) \in Seq(Seq(S)) /\ FlattenSeq(Cut(t, ends)) = t
         /\ Solid(Cut(t, ends))
<1>. DEFINE m == Len(t)
            piece(i) == SubSeq(t, i, ends[i])
            Obeys(f, i) == f[i] = IF i > m THEN <<>> ELSE <<piece(i)>> \o f[ends[i] + 1]
<1>1. m \in Nat /\ \A i \in 1..m : t[i] \in S
  BY LenProperties, ElementOfSeq
<1>2. ASSUME NEW i \in 1..m
      PROVE  /\ ends[i] \in Int /\ i <= ends[i] /\ ends[i] <= m
             /\ piece(i) \in Seq(S) /\ piece(i) # <<>>
  <2>1. ends[i] \in Int /\ i \in Int /\ i <= ends[i] /\ ends[i] <= m
    BY <1>1
  <2>2. \A k \in i..ends[i] : t[k] \in S
    BY <1>1, <2>1
  <2>3. piece(i) \in Seq(S) /\ Len(piece(i)) = ends[i] - i + 1
    BY <2>1, <2>2, SubSeqProperties
  <2>4. Len(piece(i)) # 0
    <3>. HIDE DEF piece
    <3>. QED
      BY <2>1, <2>3
  <2>. QED
    BY <2>1, <2>3, <2>4, EmptySeq
<1>3. <<>> \in Seq(Seq(S)) /\ <<>> \in Seq(S)
  BY EmptySeq
<1>. HIDE DEF piece
<1>4. \E f \in [1..(m + 1) -> Seq(Seq(S))] : \A i \in 1..(m + 1) : Obeys(f, i)
  <2>. DEFINE T == {n \in 0..m : \E f \in [1..(m + 1) -> Seq(Seq(S))] :
                      \A i \in (m + 1 - n)..(m + 1) : Obeys(f, i)}
  <2>1. 0 \in T
    <3>. DEFINE f == [i \in 1..(m + 1) |-> <<>>]
    <3>1. f \in [1..(m + 1) -> Seq(Seq(S))]
      BY <1>3
    <3>2. \A i \in (m + 1 - 0)..(m + 1) : Obeys(f, i)
      BY <1>1
    <3>. HIDE DEF f, Obeys
    <3>. QED
      BY <1>1, <3>1, <3>2
  <2>2. ASSUME NEW n \in 1..m, n - 1 \in T PROVE n \in T
    <3>1. PICK f \in [1..(m + 1) -> Seq(Seq(S))] :
            \A i \in (m + 1 - (n - 1))..(m + 1) : Obeys(f, i)
      BY <2>2
    <3>. DEFINE at == m + 1 - n
                x == <<piece(at)>> \o f[ends[at] + 1]
                g == [i \in 1..(m + 1) |-> IF i = at THEN x ELSE f[i]]
    <3>2. /\ at \in 1..m /\ at <= ends[at] /\ ends[at] <= m /\ ends[at] \in Int
          /\ ends[at] + 1 \in 1..(m + 1) /\ piece(at) \in Seq(S)
      <4>1. at \in 1..m
        BY <1>1
      <4>. QED
        BY <1>1, <1>2, <4>1
    <3>3. x \in Seq(Seq(S))
      <4>1. f[ends[at] + 1] \in Seq(Seq(S))
        BY <3>2
      <4>. HIDE DEF at
      <4>. QED
        BY <3>2, <4>1, FlattenPrepend
    <3>4. g \in [1..(m + 1) -> Seq(Seq(S))]
      BY <3>3
    <3>5. ASSUME NEW i \in at..(m + 1) PROVE Obeys(g, i)
      <4>1. i \in Int /\ i \in 1..(m + 1)
        BY <1>1, <3>2
      <4>2. CASE i = at
        <5>1. g[i] = x /\ ~(i > m)
          BY <1>1, <3>2, <4>1, <4>2
        <5>2. ends[i] + 1 \in 1..(m + 1) /\ ends[i] + 1 # at
          BY <3>2, <4>2
        <5>3. g[ends[i] + 1] = f[ends[i] + 1]
          BY <5>2
        <5>. QED
          BY <4>2, <5>1, <5>3
      <4>3. CASE i # at
        <5>0. i \in Int /\ at <= i /\ i <= m + 1 /\ i # at /\ n \in Int /\ m \in Int
          BY <1>1, <4>1, <4>3
        <5>4. at = m + 1 - n
          OBVIOUS
        <5>5. i \in (m + 1 - (n - 1))..(m + 1)
          <6>. HIDE DEF at, m
          <6>. QED
            BY <5>0, <5>4
        <5>1. i \in (m + 1 - (n - 1))..(m + 1) /\ g[i] = f[i]
          BY <4>1, <4>3, <5>5
        <5>2. Obeys(f, i)
          BY <3>1, <5>1
        <5>3. CASE i > m
          BY <5>1, <5>2, <5>3
        <5>6. CASE ~(i > m)
          <6>1. i \in 1..m
            BY <1>1, <4>1, <5>6
          <6>2. ends[i] + 1 \in 1..(m + 1) /\ ends[i] + 1 # at
            BY <1>1, <1>2, <3>2, <5>1, <6>1
          <6>3. g[ends[i] + 1] = f[ends[i] + 1]
            BY <6>2
          <6>. QED
            BY <5>1, <5>2, <5>6, <6>3
        <5>. QED
          BY <5>3, <5>6
      <4>. QED
        BY <4>2, <4>3
    <3>6. n \in 0..m
      BY <1>1
    <3>. HIDE DEF g, Obeys
    <3>. QED
      BY <3>4, <3>5, <3>6
  <2>3. m \in T
    <3>. HIDE DEF T
    <3>. QED
      BY <1>1, <2>1, <2>2, SetInductionUpTo
  <2>. QED
    BY <1>1, <2>3
<1>. DEFINE from == CHOOSE f : f = [i \in 1..(m + 1) |->
              IF i > m THEN <<>> ELSE <<SubSeq(t, i, ends[i])>> \o f[ends[i] + 1]]
<1>5. Cut(t, ends) = from[1]
  BY DEF Cut
<1>6. from = [i \in 1..(m + 1) |->
                IF i > m THEN <<>> ELSE <<SubSeq(t, i, ends[i])>> \o from[ends[i] + 1]]
  <2>1. PICK f \in [1..(m + 1) -> Seq(Seq(S))] : \A i \in 1..(m + 1) : Obeys(f, i)
    BY <1>4
  <2>2. f = [i \in 1..(m + 1) |->
               IF i > m THEN <<>> ELSE <<SubSeq(t, i, ends[i])>> \o f[ends[i] + 1]]
    BY <2>1 DEF piece
  <2>. QED
    BY <2>2
<1>. HIDE DEF from
<1>7. \A i \in 1..(m + 1) : Obeys(from, i)
  BY <1>6 DEF piece
<1>. DEFINE Made(i) == /\ from[i] \in Seq(Seq(S)) /\ FlattenSeq(from[i]) = SubSeq(t, i, m)
                       /\ Solid(from[i])
            T == {n \in 0..m : \A i \in (m + 1 - n)..(m + 1) : Made(i)}
<1>8. 0 \in T
  <2>1. ASSUME NEW i \in (m + 1 - 0)..(m + 1) PROVE Made(i)
    <3>1. i = m + 1 /\ i \in 1..(m + 1) /\ i > m /\ m < i /\ i \in Int
      BY <1>1
    <3>2. from[i] = <<>>
      BY <1>7, <3>1
    <3>3. SubSeq(t, i, m) = <<>>
      BY <1>1, <3>1, SubSeqEmpty
    <3>4. FlattenSeq(<<>>) = <<>>
      BY EmptySeq DEF FlattenSeq
    <3>5. Solid(<<>>)
      BY EmptySeq DEF Solid
    <3>. QED
      BY <1>3, <3>2, <3>3, <3>4, <3>5
  <2>. HIDE DEF Made
  <2>. QED
    BY <1>1, <2>1
<1>9. ASSUME NEW n \in 1..m, n - 1 \in T PROVE n \in T
  <2>1. ASSUME NEW i \in (m + 1 - n)..(m + 1) PROVE Made(i)
    <3>1. CASE i \in (m + 1 - (n - 1))..(m + 1)
      <4>. HIDE DEF Made
      <4>. QED
        BY <1>9, <3>1
    <3>2. CASE ~(i \in (m + 1 - (n - 1))..(m + 1))
      <4>1. i = m + 1 - n /\ i \in 1..m /\ i \in 1..(m + 1) /\ ~(i > m)
        BY <1>1, <3>2
      <4>2. /\ ends[i] \in Int /\ i <= ends[i] /\ ends[i] <= m
            /\ piece(i) \in Seq(S) /\ piece(i) # <<>>
        BY <1>2, <4>1
      <4>3. ends[i] + 1 \in (m + 1 - (n - 1))..(m + 1)
        BY <1>1, <4>1, <4>2
      <4>. DEFINE rest == from[ends[i] + 1]
      <4>4. rest \in Seq(Seq(S)) /\ FlattenSeq(rest) = SubSeq(t, ends[i] + 1, m) /\ Solid(rest)
        BY <1>9, <4>3
      <4>5. from[i] = <<piece(i)>> \o rest
        BY <1>7, <4>1
      <4>. HIDE DEF rest
      <4>6. from[i] \in Seq(Seq(S)) /\ FlattenSeq(from[i]) = piece(i) \o FlattenSeq(rest)
        BY <4>2, <4>4, <4>5, FlattenPrepend
      <4>8. Solid(from[i])
        BY <4>2, <4>4, <4>5, SolidPrepend
      <4>7. SubSeq(t, i, ends[i]) \o SubSeq(t, ends[i] + 1, m) = SubSeq(t, i, m)
        <5>1. i \in 1..(Len(t) + 1) /\ ends[i] \in (i - 1)..Len(t) /\ m \in ends[i]..Len(t)
          BY <1>1, <4>1, <4>2
        <5>. HIDE DEF m
        <5>. QED
          BY <5>1, ConcatAdjacentSubSeq
      <4>. QED
        BY <4>4, <4>6, <4>7, <4>8 DEF piece
    <3>. QED
      BY <3>1, <3>2
  <2>. HIDE DEF Made
  <2>. QED
    BY <1>1, <2>1
<1>10. m \in T
  <2>. HIDE DEF T
  <2>. QED
    BY <1>1, <1>8, <1>9, SetInductionUpTo
<1>11. Made(1)
  <2>1. 1 \in (m + 1 - m)..(m + 1)
    BY <1>1
  <2>. HIDE DEF Made
  <2>. QED
    BY <1>10, <2>1
<1>12. SubSeq(t, 1, m) = t
  BY SubSeqFull
<1>. QED
  BY <1>5, <1>11, <1>12

\* A run ends where it begins or later, and before it when it is empty.
LEMMA RunEndOf ==
  ASSUME NEW S, NEW t \in Seq(S), NEW i \in 1..(Len(t) + 1), NEW run
  PROVE  /\ RunEnd(t, i, run) \in (i - 1)..Len(t)
         /\ i <= Len(t) /\ t[i].c \in run => RunEnd(t, i, run) >= i
<1>. DEFINE others == {k \in i..Len(t) : t[k].c \notin run}
<1>0. Len(t) \in Nat
  BY LenProperties
<1>1. CASE others = {}
  BY <1>0, <1>1 DEF RunEnd
<1>2. CASE others # {}
  <2>1. others \subseteq Nat
    BY <1>0
  <2>. DEFINE first == Min(others)
  <2>2. first \in others
    <3>. HIDE DEF others
    <3>. QED
      BY <1>2, <2>1, MinOf
  <2>3. first \in i..Len(t) /\ t[first].c \notin run
    BY <2>2
  <2>4. RunEnd(t, i, run) = first - 1
    BY <1>2 DEF RunEnd
  <2>. HIDE DEF first
  <2>5. first - 1 \in (i - 1)..Len(t)
    BY <1>0, <2>3
  <2>6. t[i].c \in run => first - 1 >= i
    <3>1. SUFFICES ASSUME t[i].c \in run PROVE first # i
      BY <1>0, <2>3
    <3>. QED
      BY <2>3, <3>1
  <2>. QED
    BY <2>4, <2>5, <2>6
<1>. QED
  BY <1>1, <1>2

LEMMA AlphabetOf ==
  ASSUME NEW S, NEW t \in Seq(S), NEW i \in 1..Len(t)
  PROVE  t[i].c \in Alphabet(t)
<1>1. DOMAIN t = 1..Len(t) /\ DOMAIN Chars(t) = 1..Len(t) /\ Chars(t)[i] = t[i].c
  BY LenProperties DEF Chars
<1>. QED
  BY <1>1 DEF Alphabet, ToSet

\* A line and a token end in the text, where they begin or later.
LEMMA LineEndOf ==
  ASSUME NEW S, NEW t \in Seq(S), NEW i \in 1..Len(t)
  PROVE  LineEnd(t, i) \in i..Len(t)
<1>. DEFINE text == RunEnd(t, i, Alphabet(t) \ {"\n"})
<1>1. Len(t) \in Nat /\ i \in 1..(Len(t) + 1)
  BY LenProperties
<1>2. text \in (i - 1)..Len(t)
  BY <1>1, RunEndOf
<1>3. LineEnd(t, i) = IF text = Len(t) THEN text ELSE text + 1
  BY DEF LineEnd
<1>. HIDE DEF text
<1>. QED
  BY <1>1, <1>2, <1>3

LEMMA TokenEndOf ==
  ASSUME NEW S, NEW t \in Seq(S), NEW i \in 1..Len(t)
  PROVE  TokenEnd(t, i) \in i..Len(t)
<1>. DEFINE c == t[i].c
            letters == {d \in Alphabet(t) : ~IsBreak(d)}
            blanks == {d \in Alphabet(t) : IsBlank(d)}
            core == IF c \in {"\n", "(", ")", "{", "}"} THEN i
                    ELSE IF IsBlank(c) THEN i - 1
                    ELSE IF IsOperator(c) THEN
                      IF i < Len(t) /\ <<c, t[i + 1].c>> \in Operators THEN i + 1 ELSE i
                    ELSE RunEnd(t, i, letters)
<1>1. /\ Len(t) \in Nat /\ i \in Nat /\ i <= Len(t) /\ i \in 1..(Len(t) + 1)
      /\ c \in Alphabet(t)
  BY LenProperties, AlphabetOf
<1>2. TokenEnd(t, i) = IF c = "\n" THEN i ELSE RunEnd(t, core + 1, blanks)
  BY DEF TokenEnd
<1>3. /\ RunEnd(t, i, letters) \in (i - 1)..Len(t)
      /\ c \in letters => RunEnd(t, i, letters) >= i
  <2>. HIDE DEF letters
  <2>. QED
    BY <1>1, RunEndOf
<1>4. c \notin {"\n", "(", ")", "{", "}"} /\ ~IsBlank(c) /\ ~IsOperator(c) => c \in letters
  BY <1>1 DEF IsBreak
<1>5. core \in (i - 1)..Len(t) /\ (core >= i \/ IsBlank(c))
  <2>. DEFINE word == RunEnd(t, i, letters)
  <2>1. word \in (i - 1)..Len(t) /\ (c \in letters => word >= i)
    BY <1>3
  <2>. HIDE DEF word, letters, c
  <2>2. CASE c \in {"\n", "(", ")", "{", "}"}
    <3>1. core = i
      BY <2>2
    <3>. HIDE DEF core
    <3>. QED
      BY <1>1, <3>1
  <2>3. CASE c \notin {"\n", "(", ")", "{", "}"} /\ IsBlank(c)
    <3>1. core = i - 1
      BY <2>3
    <3>. HIDE DEF core
    <3>2. core \in (i - 1)..Len(t)
      BY <1>1, <3>1
    <3>. QED
      BY <2>3, <3>2
  <2>4. CASE c \notin {"\n", "(", ")", "{", "}"} /\ ~IsBlank(c) /\ IsOperator(c)
    <3>1. core = i \/ (core = i + 1 /\ i < Len(t))
      BY <2>4
    <3>. HIDE DEF core
    <3>. QED
      BY <1>1, <3>1
  <2>5. CASE c \notin {"\n", "(", ")", "{", "}"} /\ ~IsBlank(c) /\ ~IsOperator(c)
    <3>1. core = word /\ c \in letters
      BY <1>4, <2>5 DEF word
    <3>. HIDE DEF core
    <3>. QED
      BY <1>1, <2>1, <3>1
  <2>. QED
    BY <2>2, <2>3, <2>4, <2>5
<1>. HIDE DEF core
<1>6. core + 1 \in 1..(Len(t) + 1) /\ core \in Int
  BY <1>1, <1>5
<1>. DEFINE last == RunEnd(t, core + 1, blanks)
<1>7. /\ last \in ((core + 1) - 1)..Len(t)
      /\ core + 1 <= Len(t) /\ t[core + 1].c \in blanks => last >= core + 1
  <2>. HIDE DEF blanks
  <2>. QED
    BY <1>6, RunEndOf
<1>8. last \in i..Len(t)
  <2>1. CASE core >= i
    <3>. HIDE DEF last, blanks
    <3>. QED
      BY <1>1, <1>6, <1>7, <2>1
  <2>2. CASE ~(core >= i)
    <3>1. core = i - 1 /\ IsBlank(c) /\ core + 1 = i
      BY <1>1, <1>5, <1>6, <2>2
    <3>2. t[core + 1].c \in blanks
      BY <1>1, <3>1
    <3>. HIDE DEF last, blanks
    <3>. QED
      BY <1>1, <1>6, <1>7, <3>1, <3>2
  <2>. QED
    BY <2>1, <2>2
<1>. HIDE DEF last
<1>. QED
  BY <1>1, <1>2, <1>8 DEF last

\* A text is made of its tokens, and of its lines.
LEMMA TokensOf ==
  ASSUME NEW S, NEW t \in Seq(S)
  PROVE  Tokens(t) \in Seq(Seq(S)) /\ FlattenSeq(Tokens(t)) = t /\ Solid(Tokens(t))
<1>. DEFINE ends == [i \in DOMAIN t |-> TokenEnd(t, i)]
<1>1. DOMAIN t = 1..Len(t)
  BY LenProperties
<1>2. \A i \in 1..Len(t) : ends[i] \in i..Len(t)
  BY <1>1, TokenEndOf
<1>3. Tokens(t) = Cut(t, ends)
  BY DEF Tokens
<1>. HIDE DEF ends
<1>. QED
  BY <1>2, <1>3, CutOf

LEMMA LinesOf ==
  ASSUME NEW S, NEW t \in Seq(S)
  PROVE  Lines(t) \in Seq(Seq(S)) /\ FlattenSeq(Lines(t)) = t /\ Solid(Lines(t))
<1>. DEFINE ends == [i \in DOMAIN t |-> LineEnd(t, i)]
<1>1. DOMAIN t = 1..Len(t)
  BY LenProperties
<1>2. \A i \in 1..Len(t) : ends[i] \in i..Len(t)
  BY <1>1, LineEndOf
<1>3. Lines(t) = Cut(t, ends)
  BY DEF Lines
<1>. HIDE DEF ends
<1>. QED
  BY <1>2, <1>3, CutOf
-----------------------------------------------------------------------------
(* What a pass tries: never a longer text. *)

\* What is left is collected piece by piece.
Collects(left, us, omitted) ==
  /\ left[0] = <<>>
  /\ \A n \in 1..Len(us) : left[n] = IF n \in omitted THEN left[n - 1]
                                     ELSE Append(left[n - 1], us[n])

LEMMA WithoutSteps ==
  ASSUME NEW S, NEW us \in Seq(Seq(S)), NEW omitted
  PROVE  \E left \in [0..Len(us) -> Seq(Seq(S))] :
           Collects(left, us, omitted) /\ Without(us, omitted) = left[Len(us)]
<1>. DEFINE m == Len(us)
            T == Seq(S)
            left == CHOOSE f : f = [n \in 0..m |->
                        IF n = 0 THEN <<>>
                        ELSE IF n \in omitted THEN f[n - 1] ELSE Append(f[n - 1], us[n])]
            next == [p \in (1..m) \X Seq(T) |->
                        IF p[1] \in omitted THEN p[2] ELSE Append(p[2], us[p[1]])]
<1>1. m \in Nat /\ \A n \in 1..m : us[n] \in T
  BY LenProperties, ElementOfSeq
<1>2. Without(us, omitted) = left[m]
  BY DEF Without
<1>3. <<>> \in Seq(T) /\ next \in [(1..m) \X Seq(T) -> Seq(T)]
  BY <1>1
<1>4. left = [n \in 0..m |-> IF n = 0 THEN <<>>
                ELSE IF n \in omitted THEN left[n - 1] ELSE Append(left[n - 1], us[n])]
  <2>. HIDE DEF next, m, T
  <2>1. PICK f : Computes(f, m, Seq(T), <<>>, next)
    BY <1>1, <1>3, Recursion
  <2>2. f \in [0..m -> Seq(T)] /\ f[0] = <<>>
        /\ \A n \in 1..m : f[n] = next[<<n, f[n - 1]>>]
    BY <2>1 DEF Computes
  <2>3. ASSUME NEW n \in 1..m
        PROVE  f[n] = IF n \in omitted THEN f[n - 1] ELSE Append(f[n - 1], us[n])
    <3>1. f[n - 1] \in Seq(T) /\ <<n, f[n - 1]>> \in (1..m) \X Seq(T)
      BY <1>1, <2>2
    <3>2. f[n] = next[<<n, f[n - 1]>>]
      BY <2>2
    <3>. QED
      BY <3>1, <3>2 DEF next
  <2>4. ASSUME NEW n \in 0..m
        PROVE  f[n] = IF n = 0 THEN <<>>
                      ELSE IF n \in omitted THEN f[n - 1] ELSE Append(f[n - 1], us[n])
    <3>1. n = 0 \/ n \in 1..m
      BY <1>1
    <3>2. CASE n = 0
      BY <2>2, <3>2
    <3>3. CASE n \in 1..m
      BY <1>1, <2>3, <3>3
    <3>. QED
      BY <3>1, <3>2, <3>3
  <2>5. f = [n \in 0..m |-> IF n = 0 THEN <<>>
               ELSE IF n \in omitted THEN f[n - 1] ELSE Append(f[n - 1], us[n])]
    BY <2>2, <2>4
  <2>. QED
    BY <2>5
<1>5. /\ 0 \in 0..m /\ left[0] = <<>>
      /\ \A n \in 1..m : n \in 0..m /\ left[n] = IF n \in omitted THEN left[n - 1]
                                                 ELSE Append(left[n - 1], us[n])
  <2>. HIDE DEF left, m
  <2>1. 0 \in 0..m /\ \A n \in 1..m : n \in 0..m /\ n # 0
    BY <1>1
  <2>2. \A n \in 0..m : left[n] = IF n = 0 THEN <<>>
                ELSE IF n \in omitted THEN left[n - 1] ELSE Append(left[n - 1], us[n])
    BY <1>4
  <2>3. left[0] = <<>>
    BY <2>1, <2>2
  <2>. QED
    BY <2>1, <2>2, <2>3
<1>. HIDE DEF left
<1>. DEFINE Good == {n \in 0..m : left[n] \in Seq(T)}
<1>6. ASSUME NEW n \in 1..m, n - 1 \in Good PROVE n \in Good
  <2>. DEFINE u == left[n - 1]
  <2>1. n \in 0..m /\ us[n] \in T /\ u \in Seq(T)
    BY <1>1, <1>5, <1>6
  <2>2. left[n] = IF n \in omitted THEN u ELSE Append(u, us[n])
    BY <1>5
  <2>. HIDE DEF u
  <2>3. left[n] \in Seq(T)
    BY <2>1, <2>2, AppendProperties
  <2>. QED
    BY <2>1, <2>3
<1>7. 0 \in Good
  BY <1>3, <1>5
<1>8. \A n \in 0..m : n \in Good
  <2>. SUFFICES ASSUME NEW n \in 0..m PROVE n \in Good
    OBVIOUS
  <2>1. n \in Nat /\ \A k \in 1..n : k \in 1..m
    BY <1>1
  <2>. HIDE DEF Good, m
  <2>. QED
    BY <1>6, <1>7, <2>1, SetInductionUpTo
<1>9. left \in [0..m -> Seq(T)]
  <2>1. \A n \in 0..m : left[n] \in Seq(T)
    BY <1>8
  <2>2. left = [n \in 0..m |-> left[n]]
    BY <1>4
  <2>. QED
    BY <2>1, <2>2
<1>10. Collects(left, us, omitted)
  BY <1>5 DEF Collects
<1>. QED
  BY <1>2, <1>9, <1>10

\* Pieces left out are pieces emptied.
LEMMA WithoutOf ==
  ASSUME NEW S, NEW us \in Seq(Seq(S)), NEW omitted
  PROVE  /\ Without(us, omitted) \in Seq(Seq(S))
         /\ Shrunk(FlattenSeq(Without(us, omitted)), FlattenSeq(us))
         /\ (\E k \in 1..Len(us) : k \in omitted /\ us[k] # <<>>) =>
              Len(FlattenSeq(Without(us, omitted))) < Len(FlattenSeq(us))
<1>2. PICK left \in [0..Len(us) -> Seq(Seq(S))] :
        Collects(left, us, omitted) /\ Without(us, omitted) = left[Len(us)]
  BY WithoutSteps
<1>. DEFINE m == Len(us)
            keep == (1..m) \ omitted
            tt == Only(us, keep)
<1>1. m \in Nat /\ \A n \in 1..m : us[n] \in Seq(S)
  BY LenProperties, ElementOfSeq
<1>3. /\ tt \in Seq(Seq(S)) /\ Len(tt) = m
      /\ \A n \in 1..m : tt[n] = IF n \in omitted THEN <<>> ELSE us[n]
  BY OnlyOf DEF Only
<1>4. /\ Shrunk(FlattenSeq(tt), FlattenSeq(us))
      /\ (\E k \in 1..m : k \notin keep /\ us[k] # <<>>) =>
           Len(FlattenSeq(tt)) < Len(FlattenSeq(us))
  <2>. HIDE DEF keep
  <2>. QED
    BY OnlyOf
<1>. HIDE DEF tt
<1>5. PICK f \in [0..Len(tt) -> Seq(S)] :
        /\ f[0] = <<>>
        /\ \A k \in 1..Len(tt) : f[k] = f[k - 1] \o tt[k]
        /\ FlattenSeq(tt) = f[Len(tt)]
  BY <1>3, FlattenSteps
<1>. DEFINE Good == {n \in 0..m : FlattenSeq(left[n]) = f[n]}
<1>6. 0 \in Good
  <2>1. FlattenSeq(<<>>) = <<>>
    BY EmptySeq DEF FlattenSeq
  <2>. QED
    BY <1>1, <1>2, <1>5, <2>1 DEF Collects
<1>7. ASSUME NEW n \in 1..m, n - 1 \in Good PROVE n \in Good
  <2>. DEFINE u == left[n - 1]
  <2>1. n - 1 \in 0..m /\ n \in 0..m
    BY <1>1
  <2>2. u \in Seq(Seq(S)) /\ us[n] \in Seq(S) /\ FlattenSeq(u) = f[n - 1]
    BY <1>1, <1>2, <1>7, <2>1
  <2>3. f[n] = f[n - 1] \o tt[n] /\ f[n - 1] \in Seq(S)
    BY <1>3, <1>5, <2>1
  <2>4. left[n] = IF n \in omitted THEN u ELSE Append(u, us[n])
    BY <1>2 DEF Collects
  <2>. HIDE DEF u
  <2>5. CASE n \in omitted
    <3>1. tt[n] = <<>> /\ f[n] = f[n - 1]
      BY <1>3, <2>3, <2>5, ConcatEmptySeq
    <3>. QED
      BY <2>1, <2>2, <2>4, <2>5, <3>1
  <2>6. CASE n \notin omitted
    <3>1. FlattenSeq(Append(u, us[n])) = FlattenSeq(u) \o us[n]
      BY <2>2, FlattenAppend
    <3>. QED
      BY <1>3, <2>1, <2>2, <2>3, <2>4, <2>6, <3>1
  <2>. QED
    BY <2>5, <2>6
<1>8. m \in Good
  <2>. HIDE DEF Good, m
  <2>. QED
    BY <1>1, <1>6, <1>7, SetInductionUpTo
<1>9. FlattenSeq(Without(us, omitted)) = FlattenSeq(tt)
  BY <1>2, <1>3, <1>5, <1>8
<1>10. Without(us, omitted) \in Seq(Seq(S))
  <2>1. m \in 0..m
    BY <1>1
  <2>. QED
    BY <1>2, <2>1
<1>. QED
  BY <1>4, <1>9, <1>10

\* Nothing is left of one piece without it.
LEMMA WithoutOne ==
  ASSUME NEW S, NEW us \in Seq(Seq(S)), Len(us) = 1
  PROVE  Without(us, {1}) = <<>>
<1>. DEFINE first == {1}
<1>. HIDE DEF first
<1>1. PICK left \in [0..Len(us) -> Seq(Seq(S))] :
        Collects(left, us, first) /\ Without(us, first) = left[Len(us)]
  BY WithoutSteps
<1>. QED
  BY <1>1 DEF Collects, first

\* A run of the pieces; a shorter one is a shorter text.
LEMMA RunOf ==
  ASSUME NEW S, NEW us \in Seq(Seq(S)), NEW a \in 1..Len(us), NEW b \in 0..Len(us)
  PROVE  /\ SubSeq(us, a, b) \in Seq(Seq(S))
         /\ Shrunk(FlattenSeq(SubSeq(us, a, b)), FlattenSeq(us))
         /\ (\E k \in 1..Len(us) : k \notin a..b /\ us[k] # <<>>) =>
              Len(FlattenSeq(SubSeq(us, a, b))) < Len(FlattenSeq(us))
<1>. DEFINE keep == a..b
<1>1. /\ SubSeq(us, a, b) \in Seq(Seq(S))
      /\ FlattenSeq(SubSeq(us, a, b)) = FlattenSeq(Only(us, keep))
  BY FlattenRun
<1>. HIDE DEF keep
<1>2. /\ Shrunk(FlattenSeq(Only(us, keep)), FlattenSeq(us))
      /\ (\E k \in 1..Len(us) : k \notin keep /\ us[k] # <<>>) =>
           Len(FlattenSeq(Only(us, keep))) < Len(FlattenSeq(us))
  BY OnlyOf
<1>. QED
  BY <1>1, <1>2 DEF keep

\* A word is the beginning of its unit.
LEMMA WordOf ==
  ASSUME NEW S, NEW unit \in Seq(S)
  PROVE  /\ Word(unit) \in Seq(S)
         /\ Shrunk(Word(unit), unit)
         /\ Len(Word(unit)) \in 0..Len(unit)
         /\ Word(unit) = SubSeq(unit, 1, Len(Word(unit)))
<1>. DEFINE solid == {k \in DOMAIN unit : ~IsBlank(unit[k].c)}
<1>1. Len(unit) \in Nat /\ DOMAIN unit = 1..Len(unit) /\ \A k \in 1..Len(unit) : unit[k] \in S
  BY LenProperties, ElementOfSeq
<1>2. CASE solid = {}
  <2>1. Word(unit) = <<>>
    BY <1>2 DEF Word
  <2>2. unit = <<>> \/ Len(unit) > 0
    BY EmptySeq
  <2>3. SubSeq(unit, 1, 0) = <<>>
    BY SubSeqEmpty
  <2>. QED
    BY <1>1, <2>1, <2>2, <2>3, EmptySeq DEF Shrunk
<1>3. CASE solid # {}
  <2>. DEFINE last == Max(solid)
  <2>1. last \in solid
    <3>1. solid \subseteq 0..Len(unit)
      BY <1>1
    <3>. HIDE DEF solid
    <3>. QED
      BY <1>1, <1>3, <3>1, MaxOf
  <2>2. last \in 1..Len(unit)
    BY <1>1, <2>1
  <2>3. Word(unit) = SubSeq(unit, 1, last)
    BY <1>3 DEF Word
  <2>. HIDE DEF last, solid
  <2>4. /\ SubSeq(unit, 1, last) \in Seq(S)
        /\ Len(SubSeq(unit, 1, last)) = last
    <3>1. 1 \in Int /\ last \in Int /\ 1 <= last /\ \A k \in 1..last : unit[k] \in S
      BY <1>1, <2>2
    <3>. QED
      BY <3>1, SubSeqProperties
  <2>5. CASE last = Len(unit)
    BY <1>1, <2>2, <2>3, <2>4, <2>5, SubSeqFull DEF Shrunk
  <2>6. CASE last # Len(unit)
    <3>0. Len(unit) \in Nat /\ last \in Int /\ last >= 1 /\ last <= Len(unit)
      BY <1>1, <2>2
    <3>1. last < Len(unit) /\ last \in 0..Len(unit)
      BY <2>6, <3>0
    <3>2. Len(Word(unit)) = last
      BY <2>3, <2>4
    <3>. QED
      BY <2>3, <2>4, <3>1, <3>2 DEF Shrunk
  <2>. QED
    BY <2>5, <2>6
<1>. QED
  BY <1>2, <1>3

\* A piece replaced by a shorter one.
LEMMA ReplaceOf ==
  ASSUME NEW S, NEW us \in Seq(Seq(S)), NEW k \in 1..Len(us), NEW w \in Seq(S),
         Shrunk(w, us[k])
  PROVE  /\ [us EXCEPT ![k] = w] \in Seq(Seq(S))
         /\ Shrunk(FlattenSeq([us EXCEPT ![k] = w]), FlattenSeq(us))
         /\ Len(w) < Len(us[k]) =>
              Len(FlattenSeq([us EXCEPT ![k] = w])) < Len(FlattenSeq(us))
<1>. DEFINE new == [us EXCEPT ![k] = w]
<1>1. /\ new \in Seq(Seq(S)) /\ Len(new) = Len(us)
      /\ \A j \in 1..Len(us) : new[j] = IF j = k THEN w ELSE us[j]
  BY ExceptSeq
<1>. HIDE DEF new
<1>2. \A j \in 1..Len(us) : Shrunk(new[j], us[j])
  BY <1>1 DEF Shrunk
<1>3. ASSUME Len(w) < Len(us[k]) PROVE Len(FlattenSeq(new)) < Len(FlattenSeq(us))
  <2>1. Len(new[k]) < Len(us[k])
    BY <1>1, <1>3
  <2>. QED
    BY <1>1, <1>2, <2>1, FlattenLess
<1>. QED
  BY <1>1, <1>2, <1>3, FlattenShrunk DEF new

\* Blanks dropped at the ends of lines.
LEMMA TrimmedOf ==
  ASSUME NEW S, NEW us \in Seq(Seq(S))
  PROVE  /\ Trimmed(us) \in Seq(Seq(S))
         /\ Shrunk(FlattenSeq(Trimmed(us)), FlattenSeq(us))
         /\ Trimmed(us) # us => Len(FlattenSeq(Trimmed(us))) < Len(FlattenSeq(us))
<1>. DEFINE new == Trimmed(us)
<1>1. Len(us) \in Nat /\ DOMAIN us = 1..Len(us)
  BY LenProperties
<1>2. /\ DOMAIN new = 1..Len(us)
      /\ \A k \in 1..Len(us) : new[k] = us[k] \/ new[k] = Word(us[k])
      /\ new = [k \in 1..Len(us) |-> new[k]]
  BY <1>1 DEF Trimmed
<1>. HIDE DEF new
<1>3. ASSUME NEW k \in 1..Len(us)
      PROVE  new[k] \in Seq(S) /\ Shrunk(new[k], us[k])
  <2>1. us[k] \in Seq(S)
    BY ElementOfSeq
  <2>2. Word(us[k]) \in Seq(S) /\ Shrunk(Word(us[k]), us[k])
    BY <2>1, WordOf
  <2>3. Shrunk(us[k], us[k])
    BY DEF Shrunk
  <2>. QED
    BY <1>2, <2>1, <2>2, <2>3
<1>4. new \in [1..Len(us) -> Seq(S)]
  BY <1>2, <1>3
<1>5. new \in Seq(Seq(S)) /\ Len(new) = Len(us)
  BY <1>1, <1>4
<1>6. ASSUME new # us PROVE Len(FlattenSeq(new)) < Len(FlattenSeq(us))
  <2>1. us = [k \in 1..Len(us) |-> us[k]]
    BY LenProperties
  <2>2. PICK k \in 1..Len(us) : new[k] # us[k]
    BY <1>2, <1>6, <2>1
  <2>3. Len(new[k]) < Len(us[k])
    BY <1>3, <2>2 DEF Shrunk
  <2>. QED
    BY <1>3, <1>5, <2>3, FlattenLess
<1>. QED
  BY <1>3, <1>5, <1>6, FlattenShrunk DEF new

\* The bytes of a source of n characters and of what it is reduced to.
Bytes(n) == [c : STRING \cup {"a"}, o : 0..(n - 1)]

\* A word shortened to one letter.
LEMMA ShortenedOf ==
  ASSUME NEW n, NEW unit \in Seq(Bytes(n)), IsLongWord(unit)
  PROVE  /\ Shortened(unit) \in Seq(Bytes(n)) /\ Shrunk(Shortened(unit), unit)
         /\ Len(Shortened(unit)) < Len(unit)
<1>. DEFINE S == Bytes(n)
            w == Len(Word(unit))
            a == [c |-> "a", o |-> unit[1].o]
            rest == SubSeq(unit, w + 1, Len(unit))
<1>1. /\ Len(unit) \in Nat /\ \A k \in 1..Len(unit) : unit[k] \in S
  BY LenProperties, ElementOfSeq
<1>2. w \in 0..Len(unit) /\ w >= 2
  BY WordOf DEF IsLongWord
<1>. HIDE DEF w
<1>3. unit[1] \in S
  BY <1>1, <1>2
<1>4. a \in S
  BY <1>3 DEF Bytes
<1>. HIDE DEF a
<1>5. <<a>> \in Seq(S) /\ Len(<<a>>) = 1
  BY <1>4
<1>6. rest \in Seq(S) /\ Len(rest) = Len(unit) - w
  <2>1. w + 1 \in Int /\ Len(unit) \in Int /\ w \in Int /\ w <= Len(unit)
    BY <1>1, <1>2
  <2>2. \A k \in (w + 1)..Len(unit) : unit[k] \in S
    BY <1>1, <1>2
  <2>3. /\ rest \in Seq(S)
        /\ Len(rest) = IF w + 1 <= Len(unit) THEN Len(unit) - (w + 1) + 1 ELSE 0
    <3>. HIDE DEF S
    <3>. QED
      BY <2>1, <2>2, SubSeqProperties
  <2>. HIDE DEF rest
  <2>. QED
    BY <2>1, <2>3
<1>. HIDE DEF rest
<1>7. <<a>> \o rest \in Seq(S) /\ Len(<<a>> \o rest) = 1 + Len(rest)
  <2>. HIDE DEF S
  <2>. QED
    BY <1>5, <1>6, ConcatProperties
<1>8. Shortened(unit) = <<a>> \o rest
  BY DEF Shortened, a, rest, w
<1>9. 1 + Len(rest) < Len(unit)
  BY <1>1, <1>2, <1>6
<1>. QED
  BY <1>7, <1>8, <1>9 DEF Shrunk
-----------------------------------------------------------------------------
(* The text, and what the oracles may answer about a candidate. *)

Byte == Bytes(Len(src))

\* The text of the file, cut into what is reduced and its last newline.
LEMMA TextOf ==
  ASSUME src \in Seq(STRING)
  PROVE  /\ Len(src) \in Nat
         /\ Text \in Seq(Byte) /\ Len(Text) = Len(src)
         /\ \A k \in 1..Len(src) : Text[k].o = k - 1
         /\ Suffix \in Seq(Byte) /\ Body \in Seq(Byte)
         /\ Body \o Suffix = Text
<1>1. Len(src) \in Nat /\ DOMAIN src = 1..Len(src) /\ \A k \in 1..Len(src) : src[k] \in STRING
  BY LenProperties, ElementOfSeq
<1>2. Text = [k \in 1..Len(src) |-> [c |-> src[k], o |-> k - 1]]
  BY <1>1 DEF Text, Original
<1>3. Text \in [1..Len(src) -> Byte]
  <2>1. ASSUME NEW k \in 1..Len(src) PROVE [c |-> src[k], o |-> k - 1] \in Byte
    <3>1. k - 1 \in 0..(Len(src) - 1)
      BY <1>1
    <3>. QED
      BY <1>1, <3>1 DEF Byte, Bytes
  <2>. QED
    BY <1>2, <2>1
<1>4. Text \in Seq(Byte) /\ Len(Text) = Len(src)
  BY <1>1, <1>3
<1>5. \A k \in 1..Len(src) : Text[k].o = k - 1
  BY <1>2
<1>6. Suffix \in Seq(Byte) /\ Body \in Seq(Byte) /\ Body \o Suffix = Text
  <2>1. CASE src # <<>> /\ Last(src) = "\n"
    <3>1. Suffix = <<Last(Text)>> /\ Last(Text) = Text[Len(Text)]
      BY <2>1 DEF Suffix, Last
    <3>2. Len(src) \in 1..Len(src)
      BY <1>1, <2>1, EmptySeq
    <3>3. Text[Len(Text)] \in Byte
      BY <1>3, <1>4, <3>2
    <3>. DEFINE x == Text[Len(Text)]
                n == Len(Text)
    <3>4. Suffix = <<x>> /\ x \in Byte /\ Len(<<x>>) = 1
      BY <3>1, <3>3
    <3>5. Body = SubSeq(Text, 1, n - 1)
      BY <3>4 DEF Body
    <3>6. n \in 1..Len(Text) /\ n \in 1..n /\ 1 \in 1..Len(Text) /\ n \in Int
      BY <1>1, <1>4, <3>2
    <3>7. SubSeq(Text, 1, n) = SubSeq(Text, 1, n - 1) \o <<Text[n]>>
      <4>. HIDE DEF n
      <4>. QED
        BY <1>4, <3>6, SubSeqRecursiveSecond
    <3>8. SubSeq(Text, 1, n) = Text
      BY <1>4, SubSeqFull
    <3>9. Body \in Seq(Byte)
      <4>1. \A k \in 1..(n - 1) : Text[k] \in Byte
        BY <1>1, <1>3, <1>4
      <4>2. 1 \in Int /\ n - 1 \in Int
        BY <3>6
      <4>. HIDE DEF n
      <4>. QED
        BY <3>5, <4>1, <4>2, SubSeqProperties
    <3>10. <<x>> \in Seq(Byte)
      BY <3>4
    <3>. QED
      BY <3>4, <3>5, <3>7, <3>8, <3>9, <3>10
  <2>2. CASE ~(src # <<>> /\ Last(src) = "\n")
    <3>1. Suffix = <<>> /\ Len(Suffix) = 0
      BY <2>2, EmptySeq DEF Suffix
    <3>2. Body = SubSeq(Text, 1, Len(Text))
      BY <1>1, <1>4, <3>1 DEF Body
    <3>3. Body = Text
      BY <1>4, <3>2, SubSeqFull
    <3>. QED
      BY <1>4, <3>1, <3>3, ConcatEmptySeq, EmptySeq
  <2>. QED
    BY <2>1, <2>2
<1>. QED
  BY <1>1, <1>4, <1>5, <1>6

\* A site that lies in a text.
Within(s, text) == s.start \in 0..Len(text) /\ s.end \in s.start..Len(text)

\* A judgement's site lies in the text that was judged.
LEMMA SitesOf ==
  ASSUME NEW S, NEW text \in Seq(S), NEW class, NEW s \in Sites(class, text)
  PROVE  Within(s, text)
<1>1. Len(text) \in Nat /\ DOMAIN text = 1..Len(text)
  BY LenProperties
<1>2. CASE class = "GAP"
  <2>1. PICK k \in 0..Len(text) : s = [start |-> k, end |-> k]
    BY <1>2 DEF Sites
  <2>. QED
    BY <1>1, <2>1 DEF Within
<1>3. CASE class # "GAP"
  <2>. DEFINE ends == {k \in DOMAIN text : text[k].c = "\n"} \cup {0}
              after(b) == {k \in ends : k > b}
              end(b) == IF \E k \in ends : k > b
                          THEN CHOOSE k \in ends : k > b /\ \A d \in ends : d > b => k <= d
                          ELSE Len(text)
  <2>1. PICK b \in ends : s = [start |-> b, end |-> end(b)]
    BY <1>3 DEF Sites, LineRanges
  <2>2. b \in 0..Len(text) /\ ends \subseteq 0..Len(text)
    BY <1>1
  <2>3. end(b) \in b..Len(text)
    <3>1. CASE \E k \in ends : k > b
      <4>1. after(b) \subseteq Nat /\ after(b) # {}
        BY <1>1, <2>2, <3>1
      <4>2. \E k \in after(b) : \A d \in after(b) : k <= d
        <5>. HIDE DEF after
        <5>. QED
          BY <4>1, LeastOf
      <4>3. \E k \in ends : k > b /\ \A d \in ends : d > b => k <= d
        BY <4>2
      <4>4. end(b) \in ends /\ end(b) > b
        <5>. HIDE DEF ends
        <5>. QED
          BY <3>1, <4>3
      <4>. HIDE DEF end
      <4>. QED
        BY <1>1, <2>2, <4>4
    <3>2. CASE ~(\E k \in ends : k > b)
      <4>1. end(b) = Len(text)
        <5>. HIDE DEF ends
        <5>. QED
          BY <3>2
      <4>. HIDE DEF end
      <4>. QED
        BY <1>1, <2>2, <4>1
    <3>. QED
      BY <3>1, <3>2
  <2>. HIDE DEF end, ends
  <2>. QED
    BY <2>1, <2>2, <2>3 DEF Within
<1>. QED
  BY <1>2, <1>3

\* The original is a defect that can be found again.
Sought == want.class # "AGREE" /\ Fixes(want) /\ Within(want.site, Text)

\* The original holds for itself: its error maps to its own byte.
LEMMA OriginalHolds ==
  ASSUME src \in Seq(STRING), Sought
  PROVE  Holds(want, Text)
<1>. DEFINE s == want.site
<1>1. /\ Len(src) \in Nat /\ Len(Text) = Len(src)
      /\ \A k \in 1..Len(src) : Text[k].o = k - 1
  BY TextOf
<1>2. s.start \in 0..Len(src) /\ s.end \in s.start..Len(src)
  BY <1>1 DEF Sought, Within
<1>3. ASSUME NEW k \in 0..Len(src) PROVE OriginAt(Text, k, Len(src)) = k
  <2>1. CASE k < Len(src)
    <3>1. k \in 0..(Len(Text) - 1) /\ k + 1 \in 1..Len(src) /\ (k + 1) - 1 = k
      BY <1>1, <2>1
    <3>2. OriginAt(Text, k, Len(src)) = Text[k + 1].o
      BY <3>1 DEF OriginAt
    <3>. QED
      BY <1>1, <3>1, <3>2
  <2>2. CASE ~(k < Len(src))
    <3>1. k = Len(Text) /\ k = Len(src) /\ k \notin 0..(Len(Text) - 1)
      BY <1>1, <2>2
    <3>. QED
      BY <3>1 DEF OriginAt
  <2>. QED
    BY <2>1, <2>2
<1>. HIDE DEF s
<1>4. Matches(s, s, Text)
  <2>1. CASE s.end = s.start
    BY <1>2, <1>3, <2>1 DEF Matches
  <2>2. CASE s.end # s.start
    <3>1. s.start \in s.start..(s.end - 1) /\ s.start \in 0..Len(src)
      BY <1>1, <1>2, <2>2
    <3>2. OriginAt(Text, s.start, Len(src)) = s.start
      BY <1>3, <3>1
    <3>. QED
      BY <2>2, <3>1, <3>2 DEF Matches
  <2>. QED
    BY <2>1, <2>2
<1>. QED
  BY <1>4 DEF Holds, Sought, s

\* So does that of a judgement that is taken for the original's.
LEMMA JudgementsOf ==
  ASSUME Sought, NEW S, NEW text \in Seq(S), NEW j \in Judgements(text), Holds(j, text)
  PROVE  Within(j.site, text)
<1>1. j.class # "AGREE" /\ want # Nothing
  BY DEF Holds, Sought, Nothing
<1>2. CASE text = Text
  BY <1>1, <1>2 DEF Judgements, Sought
<1>3. CASE text # Text
  <2>1. j # Nothing
    BY <1>1 DEF Nothing
  <2>2. PICK class \in {"GAP", "FALSE-ACCEPT"} :
          j \in [class : {class}, message : Messages, site : Sites(class, text),
                 fixed : IF hasFixed THEN BOOLEAN ELSE {TRUE}]
    BY <1>3, <2>1 DEF Judgements
  <2>3. j.site \in Sites(class, text)
    BY <2>2
  <2>. QED
    BY <2>3, SitesOf
<1>. QED
  BY <1>2, <1>3
-----------------------------------------------------------------------------
(* The inductive invariant. *)

ReducePasses == {"lines", "blocks", "tokens", "pairs", "window", "shorten", "trim"}


\* The command line; a mode is chosen from flags that go together.
CommandInv ==
  /\ flags \subseteq Flags
  /\ files \in 0..NumFiles
  /\ src \in Sources /\ limit \in Limits
  /\ mode \in {"flags", "survey", "compare", "judge", "reduce", "over"}
  /\ mode \in {"survey", "compare", "judge", "reduce"} => ~BadFlags
  /\ mode = "survey" => ~Judging /\ ~Given("compare")
  /\ mode = "judge" => Given("judge")
  /\ mode = "flags" => rows = <<>>

\* What a row of a mode may say: its class is that of its answers, and an
\* answer is there exactly when it was asked for.
SurveyRows == [class : Verdicts]

JudgeRows ==
  {r \in [class : {"GAP", "FALSE-ACCEPT", "AGREE"}, after : Verdicts,
          native : {"valid", "invalid"}] :
     r.class = Class(r.native = "valid", r.after)}

Changes == {"UNCHANGED", "known GAP", "known ACCEPTED", "MOVED", "NOW-OK", "NOW-FAIL",
            "RUNTIME-REJECTED", "FIXED", "FALSE-ACCEPT", "REGRESSED", "REJECTED"}

CompareRows ==
  {r \in [class : Changes, before : Verdicts, after : Verdicts,
          native : {"valid", "invalid", "unasked"}, run : {"clean", "error", "unasked"}] :
     /\ r.class = ChangeClass(r.before, r.after, r.native # "invalid", r.run)
     /\ (r.native # "unasked") = AsksNative(r.before, r.after)
     /\ (r.run # "unasked") = AsksRuntime(r.before, r.after, r.native # "invalid")}

RowsInv ==
  /\ Len(rows) \in 0..files
  /\ mode = "survey" => rows \in Seq(SurveyRows)
  /\ mode = "judge" => rows \in Seq(JudgeRows)
  /\ mode = "compare" => rows \in Seq(CompareRows)

\* The pieces of a pass, and its loop variables.
Cursors == (Nat \ {0}) \X (Nat \ {0})

PassInv ==
  /\ pc \in ReducePasses \cup {"open", "judge", "start", "write", "done"}
  /\ units \in Seq(Seq(Byte))
  /\ pc \in ReducePasses => cursor \in Cursors
  /\ pc = "window" => outer >= Len(units) \/ inner + outer - 1 <= Len(units)

\* The cache and the budget.
Cache ==
  /\ IsFiniteSet(DOMAIN seen)
  /\ seen \in [DOMAIN seen -> BOOLEAN]
  /\ DOMAIN seen \subseteq Seq(Byte)
  /\ Tests <= limit
  /\ capped \in BOOLEAN
  /\ capped => Tests = limit
  /\ oracleErr \in BOOLEAN

CacheInv == Cache /\ (pc \in {"open", "judge", "start"} => DOMAIN seen = {})

\* What is reduced is a defect that can be found again.
WantInv == /\ pc \in {"open", "judge"} => want = Nothing
           /\ pc \in ReducePasses \cup {"start", "write"} => Sought

\* The judgement that is kept is that of the text.
Kept(text) == /\ kept.text = text
              /\ Holds(kept.j, text)
              /\ Within(kept.j.site, text)

\* The text is the last candidate that held: all others that did are longer,
\* so that a candidate that is cached as one that holds is the text itself.
Recent(text) == /\ Kept(text)
                /\ text \in DOMAIN seen
                /\ \A t \in DOMAIN seen : seen[t] => t = text \/ Len(t) > Len(text)

KeptInv == pc \in ReducePasses \/ (pc = "write" /\ ~oracleErr) => Recent(Candidate(units))

ExitInv ==
  /\ exit \in 0..Running
  /\ mode # "reduce" => pc = "open"
  /\ mode # "over" /\ pc # "done" => exit = Running
  /\ mode = "reduce" /\ exit = 0 => Within(want.site, Text) /\ Kept(out)

Inv == CommandInv /\ RowsInv /\ PassInv /\ CacheInv /\ WantInv /\ KeptInv /\ ExitInv
-----------------------------------------------------------------------------
(* One call of test. *)

\* A call of test keeps the cache within its budget.
LEMMA TestCache ==
  ASSUME NEW text, NEW holds \in BOOLEAN, text \in Seq(Byte), Cache, limit \in Nat,
         Test(text, holds), UNCHANGED options
  PROVE  /\ Cache' /\ text \in Seq(Byte)'
         /\ DOMAIN seen \subseteq DOMAIN seen'
<1>1. Byte' = Byte /\ limit' = limit
  BY DEF options, Byte, Bytes
<1>2. CASE UNCHANGED <<seen, capped>>
  BY <1>1, <1>2 DEF Cache, Tests, Test, Judged
<1>3. CASE text \notin DOMAIN seen /\ Spent /\ capped' = TRUE /\ UNCHANGED <<seen, oracleErr>>
  <2>1. Tests \in Nat /\ Tests <= limit /\ Tests >= limit
    BY <1>3, FS_CardinalityType DEF Cache, Tests, Spent
  <2>2. Tests = limit /\ Tests' = Tests
    BY <1>3, <2>1 DEF Tests
  <2>. QED
    BY <1>1, <1>3, <2>1, <2>2 DEF Cache
<1>4. CASE /\ text \notin DOMAIN seen /\ ~Spent
           /\ seen' = [t \in DOMAIN seen \cup {text} |-> IF t = text THEN holds ELSE seen[t]]
           /\ Judged(text, holds) /\ UNCHANGED capped
  <2>1. DOMAIN seen' = DOMAIN seen \cup {text} /\ seen' \in [DOMAIN seen' -> BOOLEAN]
    BY <1>4 DEF Cache
  <2>2. /\ IsFiniteSet(DOMAIN seen \cup {text})
        /\ Cardinality(DOMAIN seen \cup {text}) = Cardinality(DOMAIN seen) + 1
        /\ Cardinality(DOMAIN seen) \in Nat
    BY <1>4, FS_AddElement, FS_CardinalityType DEF Cache
  <2>3. Tests' <= limit' /\ (capped' => Tests' = limit')
    BY <1>1, <1>4, <2>1, <2>2 DEF Cache, Tests, Spent
  <2>4. oracleErr' \in BOOLEAN
    BY <1>4 DEF Judged, Cache
  <2>. QED
    BY <1>1, <1>4, <2>1, <2>2, <2>3, <2>4 DEF Cache
<1>5. \/ UNCHANGED <<seen, capped>>
      \/ text \notin DOMAIN seen /\ Spent /\ capped' = TRUE /\ UNCHANGED <<seen, oracleErr>>
      \/ /\ text \notin DOMAIN seen /\ ~Spent
         /\ seen' = [t \in DOMAIN seen \cup {text} |-> IF t = text THEN holds ELSE seen[t]]
         /\ Judged(text, holds) /\ UNCHANGED capped
  BY DEF Test
<1>6. Cache' /\ DOMAIN seen \subseteq DOMAIN seen'
  <2>1. CASE UNCHANGED <<seen, capped>>
    BY <1>2, <2>1
  <2>2. CASE text \notin DOMAIN seen /\ Spent /\ capped' = TRUE /\ UNCHANGED <<seen, oracleErr>>
    BY <1>3, <2>2
  <2>3. CASE /\ text \notin DOMAIN seen /\ ~Spent
             /\ seen' = [t \in DOMAIN seen \cup {text} |-> IF t = text THEN holds ELSE seen[t]]
             /\ Judged(text, holds) /\ UNCHANGED capped
    <3>1. DOMAIN seen' = DOMAIN seen \cup {text}
      BY <2>3
    <3>. QED
      BY <1>4, <2>3, <3>1
  <2>. QED
    BY <1>5, <2>1, <2>2, <2>3
<1>. QED
  BY <1>1, <1>6

\* A candidate that is found to hold for the first time.
LEMMA FreshHeld ==
  ASSUME NEW text, text \in Seq(Byte), Sought, Judged(text, TRUE), UNCHANGED <<options, want>>
  PROVE  Kept(text)'
<1>1. PICK j \in Judgements(text) : Holds(j, text) = TRUE /\ kept' = [j |-> j, text |-> text]
  BY DEF Judged
<1>2. Holds(j, text)
  BY <1>1
<1>3. Within(j.site, text)
  BY <1>1, <1>2, JudgementsOf
<1>4. kept'.j = j /\ kept'.text = text
  BY <1>1
<1>5. Holds(j, text)'
  BY <1>2 DEF options, Holds, Matches, Fixes
<1>. QED
  BY <1>3, <1>4, <1>5 DEF Kept

\* The text stays the last one that held while others do not.
LEMMA TestMissed ==
  ASSUME NEW text, NEW cur, text \in Seq(Byte), Recent(cur), Cache, Test(text, FALSE),
         UNCHANGED <<options, want>>
  PROVE  Recent(cur)'
<1>1. UNCHANGED kept
  BY DEF Test, Judged
<1>2. Kept(cur)'
  BY <1>1 DEF Recent, Kept, options, Holds, Matches, Fixes
<1>3. \/ UNCHANGED seen
      \/ /\ text \notin DOMAIN seen
         /\ seen' = [t \in DOMAIN seen \cup {text} |-> IF t = text THEN FALSE ELSE seen[t]]
  BY DEF Test
<1>4. /\ DOMAIN seen \subseteq DOMAIN seen'
      /\ \A t \in DOMAIN seen' : seen'[t] => t \in DOMAIN seen /\ seen[t]
  BY <1>3 DEF Cache
<1>. QED
  BY <1>2, <1>4 DEF Recent

\* A candidate that holds is the last one that did.
LEMMA TestHeld ==
  ASSUME NEW text, NEW cur, text \in Seq(Byte), cur \in Seq(Byte), Sought, Recent(cur), Cache,
         Shrunk(text, cur), Test(text, TRUE), UNCHANGED <<options, want>>
  PROVE  Recent(text)'
<1>1. Len(text) \in Nat /\ Len(cur) \in Nat
  BY LenProperties
<1>2. CASE text \in DOMAIN seen
  <2>1. seen[text] = TRUE /\ UNCHANGED <<seen, kept>>
    BY <1>2 DEF Test
  <2>2. text = cur
    BY <1>1, <1>2, <2>1 DEF Recent, Shrunk
  <2>. QED
    BY <2>1, <2>2 DEF Recent, Kept, options, Holds, Matches, Fixes
<1>3. CASE text \notin DOMAIN seen
  <2>1. /\ seen' = [t \in DOMAIN seen \cup {text} |-> IF t = text THEN TRUE ELSE seen[t]]
        /\ Judged(text, TRUE)
    BY <1>3 DEF Test
  <2>2. Kept(text)'
    BY <2>1, FreshHeld
  <2>3. /\ text \in DOMAIN seen'
        /\ \A t \in DOMAIN seen' : seen'[t] => t = text \/ (t \in DOMAIN seen /\ seen[t])
    BY <2>1 DEF Cache
  <2>4. text # cur
    BY <1>3 DEF Recent
  <2>5. Len(text) < Len(cur)
    BY <2>4 DEF Shrunk
  <2>6. ASSUME NEW t \in DOMAIN seen, seen[t] PROVE Len(t) > Len(text)
    <3>1. Len(t) \in Nat
      BY LenProperties DEF Cache
    <3>. QED
      BY <1>1, <2>5, <2>6, <3>1 DEF Recent
  <2>. QED
    BY <2>2, <2>3, <2>6 DEF Recent
<1>. QED
  BY <1>2, <1>3

-----------------------------------------------------------------------------
(* The steps of a reduction. *)

\* What every step of a reduction leaves as it is.
Steady == UNCHANGED <<options, flags, files, mode, rows>>

\* Such a step changes neither the command line nor the rows.
LEMMA ReduceFrame ==
  ASSUME CommandInv, RowsInv, mode = "reduce", Steady
  PROVE  /\ src \in Seq(STRING) /\ limit \in Nat
         /\ Byte' = Byte /\ Text' = Text /\ Suffix' = Suffix
         /\ CommandInv' /\ RowsInv'
<1>1. src \in Seq(STRING) /\ limit \in Nat
  BY ReduceAssumption DEF CommandInv
<1>2. Byte' = Byte /\ Text' = Text /\ Suffix' = Suffix
  BY DEF Steady, options, Byte, Text, Suffix
<1>3. CommandInv'
  BY DEF Steady, options, CommandInv, BadFlags, Judging, Given, Native
<1>4. RowsInv'
  BY DEF Steady, RowsInv
<1>. QED
  BY <1>1, <1>2, <1>3, <1>4

\* Nor is the original judged again.
LEMMA SoughtKept ==
  ASSUME Sought, UNCHANGED <<options, want>>
  PROVE  Sought'
BY DEF Sought, options, Fixes, Within, Text

\* A candidate is a text, no longer than the one its pieces are taken from.
LEMMA CandidateOf ==
  ASSUME src \in Seq(STRING), NEW pieces, pieces \in Seq(Seq(Byte))
  PROVE  Candidate(pieces) \in Seq(Byte)
<1>1. FlattenSeq(pieces) \in Seq(Byte) /\ Suffix \in Seq(Byte)
  BY FlattenSeqOf, TextOf
<1>. QED
  BY <1>1, ConcatProperties DEF Candidate

LEMMA CandidateShrunk ==
  ASSUME src \in Seq(STRING), NEW pieces, pieces \in Seq(Seq(Byte)),
         NEW old, old \in Seq(Seq(Byte)), Shrunk(FlattenSeq(pieces), FlattenSeq(old))
  PROVE  Shrunk(Candidate(pieces), Candidate(old))
<1>. DEFINE x == FlattenSeq(pieces)
            y == FlattenSeq(old)
            z == Suffix
<1>1. x \in Seq(Byte) /\ y \in Seq(Byte) /\ z \in Seq(Byte) /\ Shrunk(z, z)
  BY FlattenSeqOf, TextOf DEF Shrunk
<1>2. Candidate(pieces) = x \o z /\ Candidate(old) = y \o z
  BY DEF Candidate
<1>3. Shrunk(x, y)
  OBVIOUS
<1>. HIDE DEF x, y, z
<1>4. Shrunk(x \o z, y \o z)
  BY <1>1, <1>3, ShrunkConcat
<1>. QED
  BY <1>2, <1>4

\* A window lies in the units, or they are all that is left.
Fits(pieces, at) == at[1] >= Len(pieces) \/ at[2] + at[1] - 1 <= Len(pieces)

\* A try keeps the invariant when what it tries is no longer than the text.
LEMMA TryOf ==
  ASSUME NEW pieces, pieces \in Seq(Seq(Byte)), NEW from \in Cursors, NEW otherwise \in Cursors,
         Inv, mode = "reduce", pc \in ReducePasses,
         Shrunk(FlattenSeq(pieces), FlattenSeq(units)),
         pc = "window" => Fits(pieces, from) /\ Fits(units, otherwise),
         Try(pieces, from, otherwise), Rest, Steady
  PROVE  Inv'
<1>1. /\ src \in Seq(STRING) /\ limit \in Nat
      /\ Byte' = Byte /\ Text' = Text /\ Suffix' = Suffix
      /\ CommandInv' /\ RowsInv'
  BY ReduceFrame DEF Inv
<1>2. UNCHANGED <<options, want, out, exit>> /\ pc' = pc
  BY DEF Rest, Try
<1>3. Sought /\ Sought'
  BY <1>2, SoughtKept DEF Inv, WantInv
<1>4. PICK old : old = units
  OBVIOUS
<1>5. PICK text : text = Candidate(pieces)
  OBVIOUS
<1>6. PICK cur : cur = Candidate(old)
  OBVIOUS
<1>7. units \in Seq(Seq(Byte)) /\ cursor \in Cursors /\ Cache /\ Recent(cur)
  BY <1>4, <1>6 DEF Inv, PassInv, CacheInv, KeptInv
<1>8. text \in Seq(Byte) /\ cur \in Seq(Byte) /\ Shrunk(text, cur)
  <2>1. old \in Seq(Seq(Byte)) /\ Shrunk(FlattenSeq(pieces), FlattenSeq(old))
    BY <1>4, <1>7
  <2>. QED
    BY <1>1, <1>5, <1>6, <2>1, CandidateOf, CandidateShrunk
<1>9. /\ Cache'
      /\ \/ units' = pieces /\ cursor' = from /\ Recent(text)'
         \/ units' = old /\ cursor' = otherwise /\ Recent(cur)'
  <2>1. CASE Test(text, TRUE) /\ units' = pieces /\ cursor' = from
    <3>1. Cache'
      BY <1>1, <1>2, <1>7, <1>8, <2>1, TestCache
    <3>2. Recent(text)'
      BY <1>2, <1>3, <1>7, <1>8, <2>1, TestHeld
    <3>. QED
      BY <2>1, <3>1, <3>2
  <2>2. CASE Test(text, FALSE) /\ units' = units /\ cursor' = otherwise
    <3>1. Cache'
      BY <1>1, <1>2, <1>7, <1>8, <2>2, TestCache
    <3>2. Recent(cur)'
      BY <1>2, <1>7, <1>8, <2>2, TestMissed
    <3>. QED
      BY <1>4, <2>2, <3>1, <3>2
  <2>. QED
    BY <1>5, <2>1, <2>2 DEF Try
<1>10. PassInv'
  <2>1. pc' \in ReducePasses /\ units' \in Seq(Seq(Byte))' /\ cursor' \in Cursors
    BY <1>1, <1>2, <1>4, <1>7, <1>9
  <2>2. pc' = "window" => Fits(units', cursor')
    BY <1>2, <1>4, <1>9
  <2>. QED
    BY <2>1, <2>2 DEF PassInv, Fits, outer, inner
<1>11. CacheInv' /\ WantInv'
  BY <1>2, <1>3, <1>9 DEF CacheInv, WantInv, ReducePasses
<1>12. KeptInv'
  <2>1. Candidate(pieces)' = text /\ Candidate(old)' = cur
    BY <1>1, <1>5, <1>6 DEF Candidate
  <2>2. CASE units' = pieces /\ Recent(text)'
    <3>1. Candidate(units)' = text
      BY <1>1, <1>5, <2>2 DEF Candidate
    <3>. QED
      BY <2>2, <3>1 DEF KeptInv, Recent, Kept
  <2>3. CASE units' = old /\ Recent(cur)'
    <3>1. Candidate(units)' = cur
      BY <1>1, <1>6, <2>3 DEF Candidate
    <3>. QED
      BY <2>3, <3>1 DEF KeptInv, Recent, Kept
  <2>. QED
    BY <1>9, <2>2, <2>3
<1>13. ExitInv'
  <2>1. exit = Running /\ pc # "open"
    BY DEF Inv, ExitInv, ReducePasses
  <2>. QED
    BY <1>2, <2>1 DEF ExitInv, Steady, Running, ReducePasses
<1>. QED
  BY <1>1, <1>10, <1>11, <1>12, <1>13 DEF Inv

\* The pieces of the pass and its loop variables, by the invariant.
LEMMA UnitsOf ==
  ASSUME Inv
  PROVE  /\ src \in Seq(STRING) /\ limit \in Nat
         /\ units \in Seq(Seq(Byte)) /\ Len(units) \in Nat /\ DOMAIN units = 1..Len(units)
         /\ \A k \in 1..Len(units) : units[k] \in Seq(Byte)
         /\ pc \in ReducePasses => outer \in Nat /\ inner \in Nat /\ outer >= 1 /\ inner >= 1
<1>1. src \in Seq(STRING) /\ limit \in Nat
  BY ReduceAssumption DEF Inv, CommandInv
<1>2. units \in Seq(Seq(Byte))
  BY DEF Inv, PassInv
<1>3. Len(units) \in Nat /\ DOMAIN units = 1..Len(units)
  BY <1>2, LenProperties
<1>4. \A k \in 1..Len(units) : units[k] \in Seq(Byte)
  BY <1>2, ElementOfSeq
<1>5. pc \in ReducePasses => outer \in Nat /\ inner \in Nat /\ outer >= 1 /\ inner >= 1
  BY DEF Inv, PassInv, Cursors, outer, inner
<1>. QED
  BY <1>1, <1>2, <1>3, <1>4, <1>5

\* Pieces left out of those of the pass.
LEMMA OmitOf ==
  ASSUME Inv, NEW omitted
  PROVE  /\ Without(units, omitted) \in Seq(Seq(Byte))
         /\ Shrunk(FlattenSeq(Without(units, omitted)), FlattenSeq(units))
BY UnitsOf, WithoutOf

\* Every pass tries what is no longer than the text, in its own way.
LEMMA DdminStep ==
  ASSUME Inv, mode = "reduce", Ddmin, Steady
  PROVE  Inv'
<1>1. pc \in {"lines", "tokens"} /\ pc \in ReducePasses /\ pc # "window" /\ Rest
  BY DEF Ddmin, ReducePasses
<1>2. /\ units \in Seq(Seq(Byte)) /\ Len(units) \in Nat
      /\ outer \in Nat /\ inner \in Nat /\ outer >= 1 /\ inner >= 1
  BY <1>1, UnitsOf
<1>3. CASE Try(<<>>, <<1, 1>>, <<1, 1>>)
  <2>1. PICK none : none = <<>>
    OBVIOUS
  <2>2. <<1, 1>> \in Cursors
    BY DEF Cursors
  <2>3. none \in Seq(Seq(Byte)) /\ FlattenSeq(none) = <<>>
    BY <2>1, EmptySeq DEF FlattenSeq
  <2>4. FlattenSeq(units) \in Seq(Byte)
    BY <1>2, FlattenSeqOf
  <2>5. Shrunk(<<>>, FlattenSeq(units))
    <3>1. Len(FlattenSeq(units)) \in Nat /\ (FlattenSeq(units) = <<>> \/ Len(FlattenSeq(units)) # 0)
      BY <2>4, EmptySeq, LenProperties
    <3>. QED
      BY <3>1, EmptySeq DEF Shrunk
  <2>6. Try(none, <<1, 1>>, <<1, 1>>)
    BY <1>3, <2>1
  <2>. QED
    BY <1>1, <2>2, <2>3, <2>5, <2>6, TryOf
<1>4. ASSUME Len(units) > 1, inner <= Len(units),
             LET chunk == Chunk(units, outer, inner) IN
             Try(Without(units, chunk), <<IF outer > 3 THEN outer - 1 ELSE 2, 1>>,
                 <<outer, inner + Cardinality(chunk)>>)
      PROVE  Inv'
  <2>1. PICK chunk : chunk = Chunk(units, outer, inner)
    OBVIOUS
  <2>2. PICK pieces : pieces = Without(units, chunk)
    OBVIOUS
  <2>3. PICK from : from = <<IF outer > 3 THEN outer - 1 ELSE 2, 1>>
    OBVIOUS
  <2>4. PICK otherwise : otherwise = <<outer, inner + Cardinality(chunk)>>
    OBVIOUS
  <2>5. Try(pieces, from, otherwise)
    BY <1>4, <2>1, <2>2, <2>3, <2>4
  <2>6. pieces \in Seq(Seq(Byte)) /\ Shrunk(FlattenSeq(pieces), FlattenSeq(units))
    BY <2>2, OmitOf
  <2>7. from \in Cursors
    BY <1>2, <2>3 DEF Cursors
  <2>8. Cardinality(chunk) \in Nat
    <3>. DEFINE size == (Len(units) + outer - 1) \div outer
                end == IF inner + size - 1 < Len(units) THEN inner + size - 1 ELSE Len(units)
    <3>1. size \in Int
      <4>1. Len(units) + outer - 1 \in Int /\ outer \in Int /\ outer > 0
        BY <1>2
      <4>. QED
        BY <4>1
    <3>2. chunk = inner..end
      BY <2>1 DEF Chunk
    <3>. HIDE DEF size
    <3>3. end \in Int /\ inner \in Int
      BY <1>2, <3>1
    <3>. HIDE DEF end
    <3>4. IsFiniteSet(inner..end)
      BY <3>3, FS_Interval
    <3>. QED
      BY <3>2, <3>4, FS_CardinalityType
  <2>9. otherwise \in Cursors
    BY <1>2, <2>4, <2>8 DEF Cursors
  <2>. QED
    BY <1>1, <2>5, <2>6, <2>7, <2>9, TryOf
<1>5. ASSUME Len(units) > 1, cursor' = <<Finer(Len(units)), 1>>, Quiet, UNCHANGED <<pc, units>>
      PROVE  Inv'
  <2>1. /\ Byte' = Byte /\ Text' = Text /\ Suffix' = Suffix
        /\ CommandInv' /\ RowsInv'
    BY ReduceFrame DEF Inv
  <2>2. UNCHANGED <<options, before, want, out, exit, seen, capped, kept, oracleErr, mode>>
    BY <1>1, <1>5 DEF Rest, Quiet, Steady
  <2>3. Finer(Len(units)) \in Nat \ {0}
    BY <1>2, <1>5 DEF Finer
  <2>4. PassInv'
    BY <1>1, <1>2, <1>5, <2>1, <2>3 DEF PassInv, Cursors
  <2>5. Cache'
    BY <2>1, <2>2 DEF Inv, CacheInv, Cache, options, Tests
  <2>6. Sought'
    BY <1>1, <2>2, SoughtKept DEF Inv, WantInv
  <2>7. KeptInv'
    BY <1>1, <1>5, <2>1, <2>2
       DEF Inv, KeptInv, Recent, Kept, Candidate, options, Holds, Matches, Fixes
  <2>8. ExitInv'
    BY <1>1, <1>5, <2>2 DEF Inv, ExitInv, Running, ReducePasses
  <2>9. CacheInv' /\ WantInv'
    BY <1>1, <1>5, <2>5, <2>6 DEF CacheInv, WantInv
  <2>. QED
    BY <2>1, <2>4, <2>7, <2>8, <2>9 DEF Inv
<1>. QED
  BY <1>3, <1>4, <1>5 DEF Ddmin

LEMMA BlocksStep ==
  ASSUME Inv, mode = "reduce", Blocks, Steady
  PROVE  Inv'
<1>1. pc = "blocks" /\ pc \in ReducePasses /\ Rest
  BY DEF Blocks, ReducePasses
<1>2. PICK b \in BlockFrom(units, outer) :
        IF inner = 1
          THEN Try(Without(units, b[1]..b[2]), <<b[1], 1>>, <<b[1], 2>>)
          ELSE Try(Without(units, {b[1], b[2]}), <<b[1], 1>>, <<b[1] + 1, 1>>)
  BY DEF Blocks
<1>3. b[1] \in 1..Len(units)
  BY <1>2, UnitsOf DEF BlockFrom
<1>4. PICK omitted : omitted = IF inner = 1 THEN b[1]..b[2] ELSE {b[1], b[2]}
  OBVIOUS
<1>5. PICK pieces : pieces = Without(units, omitted)
  OBVIOUS
<1>6. PICK otherwise : otherwise = IF inner = 1 THEN <<b[1], 2>> ELSE <<b[1] + 1, 1>>
  OBVIOUS
<1>7. Try(pieces, <<b[1], 1>>, otherwise)
  BY <1>2, <1>4, <1>5, <1>6
<1>8. <<b[1], 1>> \in Cursors /\ otherwise \in Cursors
  BY <1>3, <1>6 DEF Cursors
<1>9. pieces \in Seq(Seq(Byte)) /\ Shrunk(FlattenSeq(pieces), FlattenSeq(units))
  BY <1>5, OmitOf
<1>. QED
  BY <1>1, <1>7, <1>8, <1>9, TryOf

LEMMA PairsStep ==
  ASSUME Inv, mode = "reduce", Pairs, Steady
  PROVE  Inv'
<1>1. pc = "pairs" /\ pc \in ReducePasses /\ Rest
  BY DEF Pairs, ReducePasses
<1>2. PICK pieces : pieces = Without(units, {outer, inner})
  OBVIOUS
<1>3. PICK otherwise :
        otherwise = IF inner < Len(units) THEN <<outer, inner + 1>> ELSE <<outer + 1, outer + 2>>
  OBVIOUS
<1>4. Try(pieces, <<1, 2>>, otherwise)
  BY <1>2, <1>3 DEF Pairs
<1>5. <<1, 2>> \in Cursors /\ otherwise \in Cursors
  BY <1>1, <1>3, UnitsOf DEF Cursors
<1>6. pieces \in Seq(Seq(Byte)) /\ Shrunk(FlattenSeq(pieces), FlattenSeq(units))
  BY <1>2, OmitOf
<1>. QED
  BY <1>1, <1>4, <1>5, <1>6, TryOf

LEMMA WindowStep ==
  ASSUME Inv, mode = "reduce", Window, Steady
  PROVE  Inv'
<1>1. pc = "window" /\ pc \in ReducePasses /\ Rest /\ ~PassOver
  BY DEF Window, ReducePasses
<1>2. /\ units \in Seq(Seq(Byte)) /\ Len(units) \in Nat
      /\ outer \in Nat /\ inner \in Nat /\ outer >= 1 /\ inner >= 1
  BY <1>1, UnitsOf
<1>3. outer < Len(units) /\ inner + outer - 1 <= Len(units)
  <2>1. ~(outer >= Len(units))
    BY <1>1 DEF PassOver
  <2>2. outer >= Len(units) \/ inner + outer - 1 <= Len(units)
    BY <1>1 DEF Inv, PassInv
  <2>. QED
    BY <1>2, <2>1, <2>2
<1>4. PICK pieces : pieces = SubSeq(units, inner, inner + outer - 1)
  OBVIOUS
<1>5. PICK from : from = <<outer, 1>>
  OBVIOUS
<1>6. PICK otherwise :
        otherwise = IF inner + outer <= Len(units) THEN <<outer, inner + 1>> ELSE <<outer + 1, 1>>
  OBVIOUS
<1>7. Try(pieces, from, otherwise)
  BY <1>4, <1>5, <1>6 DEF Window
<1>8. from \in Cursors /\ otherwise \in Cursors
  BY <1>2, <1>5, <1>6 DEF Cursors
<1>9. inner \in 1..Len(units) /\ inner + outer - 1 \in 0..Len(units)
  BY <1>2, <1>3
<1>10. pieces \in Seq(Seq(Byte)) /\ Shrunk(FlattenSeq(pieces), FlattenSeq(units))
  <2>1. PICK last : last = inner + outer - 1
    OBVIOUS
  <2>2. last \in 0..Len(units) /\ pieces = SubSeq(units, inner, last)
    BY <1>4, <1>9, <2>1
  <2>. QED
    BY <1>2, <1>9, <2>2, RunOf
<1>11. Len(pieces) = outer
  <2>1. \A k \in inner..(inner + outer - 1) : units[k] \in Seq(Byte)
    BY <1>2, <1>3, UnitsOf
  <2>2. inner \in Int /\ inner + outer - 1 \in Int /\ inner <= inner + outer - 1
        /\ (inner + outer - 1) - inner + 1 = outer
    BY <1>2
  <2>. DEFINE last == inner + outer - 1
  <2>3. Len(SubSeq(units, inner, last)) = IF inner <= last THEN last - inner + 1 ELSE 0
    <3>. HIDE DEF last
    <3>. QED
      BY <2>1, <2>2, SubSeqProperties DEF last
  <2>. QED
    BY <1>4, <2>2, <2>3
<1>12. Fits(pieces, from)
  BY <1>2, <1>5, <1>11 DEF Fits
<1>13. Fits(units, otherwise)
  BY <1>2, <1>3, <1>6 DEF Fits
<1>. QED
  BY <1>1, <1>7, <1>8, <1>10, <1>12, <1>13, TryOf

LEMMA ShortenStep ==
  ASSUME Inv, mode = "reduce", Shorten, Steady
  PROVE  Inv'
<1>1. pc = "shorten" /\ pc \in ReducePasses /\ Rest
  BY DEF Shorten, ReducePasses
<1>2. PICK k \in LongWordFrom(units, outer) :
        Try([units EXCEPT ![k] = Shortened(@)], <<k + 1, 1>>, <<k + 1, 1>>)
  BY DEF Shorten
<1>3. k \in 1..Len(units) /\ IsLongWord(units[k])
  <2>1. k \in outer..Len(units) /\ IsLongWord(units[k])
    BY <1>2 DEF LongWordFrom
  <2>. QED
    BY <1>1, <2>1, UnitsOf
<1>4. PICK word : word = Shortened(units[k])
  OBVIOUS
<1>5. PICK pieces : pieces = [units EXCEPT ![k] = word]
  OBVIOUS
<1>6. Try(pieces, <<k + 1, 1>>, <<k + 1, 1>>)
  BY <1>2, <1>4, <1>5
<1>7. <<k + 1, 1>> \in Cursors
  BY <1>3, UnitsOf DEF Cursors
<1>8. word \in Seq(Byte) /\ Shrunk(word, units[k])
  BY <1>3, <1>4, UnitsOf, ShortenedOf DEF Byte
<1>9. pieces \in Seq(Seq(Byte)) /\ Shrunk(FlattenSeq(pieces), FlattenSeq(units))
  BY <1>3, <1>5, <1>8, UnitsOf, ReplaceOf
<1>. QED
  BY <1>1, <1>6, <1>7, <1>9, TryOf

LEMMA TrimStep ==
  ASSUME Inv, mode = "reduce", TrimBlanks, Steady
  PROVE  Inv'
<1>1. pc = "trim" /\ pc \in ReducePasses /\ Rest
  BY DEF TrimBlanks, ReducePasses
<1>2. PICK pieces : pieces = Trimmed(units)
  OBVIOUS
<1>3. Try(pieces, <<2, 1>>, <<2, 1>>)
  BY <1>2 DEF TrimBlanks
<1>4. <<2, 1>> \in Cursors
  BY DEF Cursors
<1>5. pieces \in Seq(Seq(Byte)) /\ Shrunk(FlattenSeq(pieces), FlattenSeq(units))
  BY <1>2, UnitsOf, TrimmedOf
<1>. QED
  BY <1>1, <1>3, <1>4, <1>5, TryOf

\* A pass begins with the text the last one ended with.
LEMMA EnterOf ==
  ASSUME NEW pass \in ReducePasses, NEW text, text \in Seq(Byte), Enter(pass, text)
  PROVE  /\ pc' = pass /\ cursor' \in Cursors
         /\ units' \in Seq(Seq(Byte)) /\ FlattenSeq(units') = text
         /\ pass = "window" => Fits(units', cursor')
<1>1. pc' = pass /\ units' = IF pass = "lines" THEN Lines(text) ELSE Tokens(text)
  BY DEF Enter
<1>2. units' \in Seq(Seq(Byte)) /\ FlattenSeq(units') = text
  BY <1>1, LinesOf, TokensOf
<1>3. cursor' \in {<<2, 1>>, <<1, 2>>, <<1, 1>>} /\ (pass = "window" => cursor' = <<1, 1>>)
  BY DEF Enter, ReducePasses
<1>4. cursor' \in Cursors
  BY <1>3 DEF Cursors
<1>5. pass = "window" => Fits(units', cursor')
  <2>1. Len(units') \in Nat
    BY <1>2, LenProperties
  <2>. QED
    BY <1>3, <2>1 DEF Fits
<1>. QED
  BY <1>1, <1>2, <1>4, <1>5

LEMMA NextPassStep ==
  ASSUME Inv, mode = "reduce", NextPass, Steady
  PROVE  Inv'
<1>1. pc \in ReducePasses /\ Quiet /\ UNCHANGED <<options, want, out, exit>>
  BY DEF NextPass, PassOver, ReducePasses, Inv, PassInv
<1>2. /\ src \in Seq(STRING)
      /\ Byte' = Byte /\ Text' = Text /\ Suffix' = Suffix
      /\ CommandInv' /\ RowsInv'
  BY ReduceFrame DEF Inv
<1>3. units \in Seq(Seq(Byte)) /\ Cache /\ Sought /\ Recent(Candidate(units))
  BY <1>1 DEF Inv, PassInv, CacheInv, WantInv, KeptInv
<1>4. PICK text : text = FlattenSeq(units)
  OBVIOUS
<1>5. text \in Seq(Byte)
  BY <1>3, <1>4, FlattenSeqOf
<1>6. /\ pc' \in ReducePasses \cup {"write"} /\ FlattenSeq(units') = text
      /\ units' \in Seq(Seq(Byte))
      /\ pc' \in ReducePasses => cursor' \in Cursors
      /\ pc' = "window" => Fits(units', cursor')
  <2>1. CASE \E pass \in ReducePasses : Enter(pass, text)
    <3>1. PICK pass \in ReducePasses : Enter(pass, text)
      BY <2>1
    <3>. QED
      BY <1>5, <3>1, EnterOf
  <2>2. CASE pc' = "write" /\ UNCHANGED <<units, cursor, before>>
    BY <1>3, <1>4, <2>2 DEF ReducePasses
  <2>3. ASSUME NEW k \in 1..6 PROVE Passes[k + 1] \in ReducePasses
    BY DEF Passes, ReducePasses
  <2>. QED
    BY <1>4, <2>1, <2>2, <2>3 DEF NextPass, ReducePasses
<1>7. PassInv'
  BY <1>2, <1>6 DEF PassInv, Fits, outer, inner
<1>8. Cache' /\ Sought'
  BY <1>1, <1>2, <1>3, SoughtKept DEF Quiet, Cache, options, Tests
<1>9. CacheInv' /\ WantInv'
  BY <1>6, <1>8 DEF CacheInv, WantInv, ReducePasses
<1>10. KeptInv'
  <2>1. PICK cur : cur = Candidate(units)
    OBVIOUS
  <2>2. Candidate(units)' = cur
    BY <1>2, <1>4, <1>6, <2>1 DEF Candidate
  <2>3. Recent(cur)'
    BY <1>1, <1>3, <2>1 DEF Recent, Kept, Quiet, options, Holds, Matches, Fixes
  <2>. QED
    BY <2>2, <2>3 DEF KeptInv, Recent, Kept
<1>11. ExitInv'
  <2>1. exit = Running
    BY <1>1 DEF Inv, ExitInv, ReducePasses
  <2>. QED
    BY <1>1, <1>6, <2>1 DEF ExitInv, Steady, Running, ReducePasses
<1>. QED
  BY <1>2, <1>7, <1>9, <1>10, <1>11 DEF Inv

\* With nothing in the cache, the original can only fail to hold because an
\* oracle failed.
LEMMA StartStep ==
  ASSUME Inv, mode = "reduce", Start, Steady
  PROVE  Inv'
<1>1. pc = "start" /\ UNCHANGED <<options, want, out, exit>>
  BY DEF Start
<1>2. /\ src \in Seq(STRING) /\ limit \in Nat /\ limit > 0
      /\ Byte' = Byte /\ Text' = Text /\ Suffix' = Suffix
      /\ CommandInv' /\ RowsInv'
  BY ReduceFrame, ReduceAssumption DEF Inv, CommandInv
<1>3. Cache /\ DOMAIN seen = {} /\ Sought /\ exit = Running
  BY <1>1 DEF Inv, CacheInv, WantInv, ExitInv
<1>4. Text \in Seq(Byte) /\ Body \in Seq(Byte) /\ Body \o Suffix = Text
  BY <1>2, TextOf
<1>5. PICK text : text = Text
  OBVIOUS
<1>6. PICK body : body = Body
  OBVIOUS
<1>7. Tests = 0
  BY <1>3, FS_EmptySet DEF Tests
<1>8. Sought'
  BY <1>1, <1>3, SoughtKept
<1>9. CASE Test(text, TRUE) /\ Enter("lines", body)
  <2>1. /\ pc' = "lines" /\ cursor' \in Cursors
        /\ units' \in Seq(Seq(Byte)) /\ FlattenSeq(units') = body
    BY <1>4, <1>6, <1>9, EnterOf DEF ReducePasses
  <2>2. Cache'
    BY <1>2, <1>3, <1>4, <1>5, <1>9, TestCache DEF Steady
  <2>3. seen' = [t \in DOMAIN seen \cup {text} |-> IF t = text THEN TRUE ELSE seen[t]]
        /\ Judged(text, TRUE)
    BY <1>3, <1>9 DEF Test
  <2>4. Kept(text)'
    BY <1>1, <1>3, <1>4, <1>5, <2>3, FreshHeld
  <2>5. Recent(text)'
    BY <1>3, <2>3, <2>4 DEF Recent
  <2>6. Candidate(units)' = text
    BY <1>2, <1>4, <1>5, <1>6, <2>1 DEF Candidate
  <2>7. KeptInv'
    BY <2>5, <2>6 DEF KeptInv, Recent, Kept
  <2>8. PassInv'
    BY <1>2, <2>1 DEF PassInv, ReducePasses
  <2>9. CacheInv' /\ WantInv' /\ ExitInv'
    BY <1>1, <1>3, <1>8, <2>1, <2>2
       DEF CacheInv, WantInv, ExitInv, Steady, Running, ReducePasses
  <2>. QED
    BY <1>2, <2>7, <2>8, <2>9 DEF Inv
<1>10. CASE Test(text, FALSE) /\ pc' = "write" /\ units' = <<Body>>
  <2>1. units' \in Seq(Seq(Byte))
    BY <1>4, <1>10
  <2>2. Cache'
    BY <1>2, <1>3, <1>4, <1>5, <1>10, TestCache DEF Steady
  <2>3. Judged(text, FALSE)
    <3>1. ~Spent
      BY <1>2, <1>7 DEF Spent
    <3>. QED
      BY <1>3, <1>10, <3>1 DEF Test
  <2>4. oracleErr'
    <3>1. Judgements(text) = {want}
      <4>1. want # Nothing
        BY <1>3 DEF Sought, Nothing
      <4>. QED
        BY <1>5, <4>1, Zenon DEF Judgements
    <3>2. Holds(want, text)
      BY <1>2, <1>3, <1>5, OriginalHolds
    <3>. QED
      BY <2>3, <3>1, <3>2 DEF Judged
  <2>5. KeptInv' /\ PassInv'
    BY <1>2, <1>10, <2>1, <2>4 DEF KeptInv, PassInv, ReducePasses
  <2>6. CacheInv' /\ WantInv' /\ ExitInv'
    BY <1>1, <1>3, <1>8, <1>10, <2>2
       DEF CacheInv, WantInv, ExitInv, Steady, Running, ReducePasses
  <2>. QED
    BY <1>2, <2>5, <2>6 DEF Inv
<1>. QED
  BY <1>5, <1>6, <1>9, <1>10 DEF Start

\* What is written is the text that held last.
LEMMA WriteStep ==
  ASSUME Inv, mode = "reduce", Write, Steady
  PROVE  Inv'
<1>1. /\ pc = "write" /\ pc' = "done" /\ Quiet
      /\ UNCHANGED <<options, units, cursor, before, want>>
  BY DEF Write, Exit
<1>2. /\ Byte' = Byte /\ Text' = Text /\ Suffix' = Suffix
      /\ CommandInv' /\ RowsInv'
  BY ReduceFrame DEF Inv
<1>3. PassInv'
  BY <1>1, <1>2 DEF Inv, PassInv, ReducePasses
<1>4. CacheInv' /\ WantInv' /\ KeptInv'
  BY <1>1, <1>2 DEF Inv, CacheInv, Cache, WantInv, KeptInv, Quiet, options, Tests, ReducePasses
<1>5. Sought
  BY <1>1 DEF Inv, WantInv
<1>6. CASE ~oracleErr /\ exit' = 0 /\ out' = Candidate(units)
  <2>1. PICK cur : cur = Candidate(units)
    OBVIOUS
  <2>2. Kept(cur)
    BY <1>1, <1>6, <2>1 DEF Inv, KeptInv, Recent
  <2>3. Kept(cur)'
    BY <1>1, <2>2 DEF Kept, Quiet, options, Holds, Matches, Fixes
  <2>4. Kept(out)'
    BY <1>6, <2>1, <2>3 DEF Kept
  <2>5. Within(want.site, Text)'
    BY <1>1, <1>2, <1>5 DEF Sought, Within
  <2>. QED
    BY <1>1, <1>2, <1>3, <1>4, <1>6, <2>4, <2>5 DEF Inv, ExitInv, Steady, Running
<1>7. CASE exit' = 2
  BY <1>1, <1>2, <1>3, <1>4, <1>7 DEF Inv, ExitInv, Steady, Running
<1>. QED
  BY <1>6, <1>7 DEF Write, Exit

\* What is sought is what the original was judged to be.
LEMMA JudgeOriginalStep ==
  ASSUME Inv, mode = "reduce", JudgeOriginal, Steady
  PROVE  Inv'
<1>1. pc = "judge" /\ UNCHANGED <<options, units, cursor, before, seen, capped, kept, out>>
  BY DEF JudgeOriginal
<1>2. /\ src \in Seq(STRING)
      /\ Byte' = Byte /\ Text' = Text /\ Suffix' = Suffix
      /\ CommandInv' /\ RowsInv'
  BY ReduceFrame DEF Inv
<1>3. Cache /\ DOMAIN seen = {} /\ exit = Running
  BY <1>1 DEF Inv, CacheInv, ExitInv
<1>4. ASSUME pc' = "done", exit' \in {1, 2}, oracleErr' \in BOOLEAN
      PROVE  Inv'
  <2>1. PassInv' /\ KeptInv' /\ WantInv'
    BY <1>1, <1>2, <1>4 DEF Inv, PassInv, KeptInv, WantInv, ReducePasses
  <2>2. CacheInv'
    BY <1>1, <1>2, <1>3, <1>4 DEF CacheInv, Cache, options, Tests
  <2>3. ExitInv'
    BY <1>4 DEF ExitInv, Steady, Running
  <2>. QED
    BY <1>2, <2>1, <2>2, <2>3 DEF Inv
<1>5. ASSUME NEW j \in Judgements(Text), j.class # "AGREE", Fixes(j), pc' = "start",
             want' = j, UNCHANGED <<exit, oracleErr>>
      PROVE  Inv'
  <2>1. j # Nothing /\ want = Nothing
    BY <1>1, <1>5 DEF Nothing, Inv, WantInv
  <2>2. PICK class \in {"GAP", "FALSE-ACCEPT"} :
          j \in [class : {class}, message : Messages, site : Sites(class, Text),
                 fixed : IF hasFixed THEN BOOLEAN ELSE {TRUE}]
    BY <1>5, <2>1 DEF Judgements
  <2>3. PICK text : text = Text
    OBVIOUS
  <2>4. text \in Seq(Byte) /\ j.site \in Sites(class, text)
    BY <1>2, <2>2, <2>3, TextOf
  <2>5. Within(j.site, text)
    BY <2>4, SitesOf
  <2>6. Sought'
    BY <1>1, <1>2, <1>5, <2>3, <2>5 DEF Sought, Within, Fixes, options
  <2>7. PassInv' /\ KeptInv' /\ WantInv' /\ CacheInv'
    BY <1>1, <1>2, <1>3, <1>5, <2>6
       DEF Inv, PassInv, KeptInv, WantInv, CacheInv, Cache, options, Tests, ReducePasses
  <2>8. ExitInv'
    BY <1>3, <1>5 DEF ExitInv, Steady, Running
  <2>. QED
    BY <1>2, <2>7, <2>8 DEF Inv
<1>. QED
  <2>1. CASE Exit(2) /\ (oracleErr' = TRUE \/ UNCHANGED oracleErr)
    BY <1>3, <1>4, <2>1 DEF Exit, Cache
  <2>2. CASE \E j \in Judgements(Text) :
               /\ IF j.class = "AGREE" \/ ~Fixes(j) THEN Exit(1)
                  ELSE pc' = "start" /\ UNCHANGED exit
               /\ want' = j
               /\ UNCHANGED oracleErr
    <3>1. PICK j \in Judgements(Text) :
               /\ IF j.class = "AGREE" \/ ~Fixes(j) THEN Exit(1)
                  ELSE pc' = "start" /\ UNCHANGED exit
               /\ want' = j
               /\ UNCHANGED oracleErr
      BY <2>2
    <3>2. CASE j.class = "AGREE" \/ ~Fixes(j)
      BY <1>3, <1>4, <3>1, <3>2 DEF Exit, Cache
    <3>3. CASE ~(j.class = "AGREE" \/ ~Fixes(j))
      BY <1>5, <3>1, <3>3
    <3>. QED
      BY <3>2, <3>3
  <2>. QED
    BY <2>1, <2>2 DEF JudgeOriginal

\* The file is read, or not.
LEMMA OpenStep ==
  ASSUME Inv, mode = "reduce", Open, Steady
  PROVE  Inv'
<1>1. /\ pc = "open" /\ pc' \in {"judge", "done"} /\ (exit' = exit \/ exit' = 2)
      /\ UNCHANGED <<options, units, cursor, before, seen, capped, want, kept, oracleErr, out>>
  BY DEF Open, Exit
<1>2. /\ Byte' = Byte /\ Text' = Text /\ Suffix' = Suffix
      /\ CommandInv' /\ RowsInv'
  BY ReduceFrame DEF Inv
<1>3. PassInv' /\ KeptInv' /\ WantInv'
  BY <1>1, <1>2 DEF Inv, PassInv, KeptInv, WantInv, ReducePasses
<1>4. CacheInv'
  BY <1>1, <1>2 DEF Inv, CacheInv, Cache, options, Tests
<1>5. ExitInv'
  BY <1>1 DEF Open, Exit, Inv, ExitInv, Steady, Running
<1>. QED
  BY <1>2, <1>3, <1>4, <1>5 DEF Inv
-----------------------------------------------------------------------------
(* The steps of the command, and the invariant. *)

\* The steps begin with an empty cache and no rows.
LEMMA InitInv == SurveyInit => Inv
<1>. SUFFICES ASSUME SurveyInit PROVE Inv
  OBVIOUS
<1>. USE DEF SurveyInit, Init
<1>1. CommandInv
  BY SurveyAssumption DEF CommandInv
<1>2. RowsInv
  BY SurveyAssumption, EmptySeq DEF RowsInv
<1>3. PassInv
  BY EmptySeq DEF PassInv, ReducePasses
<1>4. DOMAIN seen = {} /\ IsFiniteSet({}) /\ Cardinality({}) = 0
  BY FS_EmptySet, EmptySeq
<1>5. limit \in Nat
  BY ReduceAssumption
<1>6. CacheInv
  <2>1. seen \in [DOMAIN seen -> BOOLEAN]
    <3>1. <<>> \in Seq(BOOLEAN)
      BY EmptySeq
    <3>. QED
      BY <3>1, LenProperties
  <2>2. Tests = 0
    BY <1>4 DEF Tests
  <2>3. Tests <= limit /\ capped = FALSE /\ oracleErr = FALSE
    BY <1>5, <2>2
  <2>4. IsFiniteSet(DOMAIN seen) /\ DOMAIN seen \subseteq Seq(Byte)
    BY <1>4
  <2>. QED
    BY <1>4, <2>1, <2>3, <2>4, Zenon DEF CacheInv, Cache
<1>7. WantInv /\ KeptInv /\ ExitInv
  BY DEF WantInv, KeptInv, ExitInv, ReducePasses, Running
<1>. QED
  BY <1>1, <1>2, <1>3, <1>6, <1>7 DEF Inv

\* Every step of a reduction keeps the invariant.
LEMMA ReduceStepOf ==
  ASSUME Inv, ReduceStep
  PROVE  Inv'
<1>1. mode = "reduce" /\ ReduceNext /\ UNCHANGED <<flags, files, mode, rows>>
  BY DEF ReduceStep
<1>2. UNCHANGED options
  BY <1>1 DEF ReduceNext, Open, JudgeOriginal, Start, Ddmin, Blocks, Pairs, Window, Shorten,
              TrimBlanks, NextPass, Write, Rest
<1>3. Steady
  BY <1>1, <1>2 DEF Steady
<1>. QED
  BY <1>1, <1>3, OpenStep, JudgeOriginalStep, StartStep, DdminStep, BlocksStep, PairsStep,
     WindowStep, ShortenStep, TrimStep, NextPassStep, WriteStep DEF ReduceNext

\* The steps outside of a reduction leave its variables alone.
LEMMA FrameOf ==
  ASSUME Inv, mode # "reduce", Frame
  PROVE  /\ pc = "open" /\ PassInv' /\ CacheInv' /\ WantInv' /\ KeptInv'
         /\ UNCHANGED <<flags, files, src, limit, hasFixed, pc>>
<1>1. pc = "open" /\ UNCHANGED <<flags, files, src, limit, hasFixed, pc>>
  BY DEF Inv, ExitInv, Frame, command, options
<1>2. Byte' = Byte
  BY <1>1 DEF Byte
<1>3. PassInv' /\ KeptInv' /\ WantInv'
  BY <1>1, <1>2 DEF Inv, PassInv, KeptInv, WantInv, ReducePasses, Frame
<1>4. CacheInv'
  BY <1>1, <1>2 DEF Inv, CacheInv, Cache, Tests, Frame
<1>. QED
  BY <1>1, <1>3, <1>4

\* A command that ends leaves its rows.
LEMMA LeaveOf ==
  ASSUME Inv, mode # "reduce", Frame, UNCHANGED rows, NEW code \in 0..2, Leave(code)
  PROVE  Inv'
<1>1. /\ PassInv' /\ CacheInv' /\ WantInv' /\ KeptInv'
      /\ UNCHANGED <<flags, files, src, limit, hasFixed, pc>> /\ pc = "open"
  BY FrameOf
<1>2. mode' = "over" /\ exit' = code
  BY DEF Leave
<1>3. CommandInv' /\ RowsInv' /\ ExitInv'
  BY <1>1, <1>2 DEF Inv, CommandInv, RowsInv, ExitInv, Running
<1>. QED
  BY <1>1, <1>3 DEF Inv

\* Another file has its row.
LEMMA RowOf ==
  ASSUME Inv, mode \in {"survey", "judge", "compare"}, More, Frame, Stay,
         NEW Rows, rows \in Seq(Rows), NEW row \in Rows, rows' = Append(rows, row),
         mode = "survey" => Rows = SurveyRows,
         mode = "judge" => Rows = JudgeRows,
         mode = "compare" => Rows = CompareRows
  PROVE  Inv'
<1>1. /\ PassInv' /\ CacheInv' /\ WantInv' /\ KeptInv'
      /\ UNCHANGED <<flags, files, src, limit, hasFixed, pc>> /\ pc = "open"
  BY FrameOf
<1>2. mode' = mode /\ exit' = exit
  BY DEF Stay
<1>3. CommandInv'
  BY <1>1, <1>2 DEF Inv, CommandInv, BadFlags, Judging, Given, Native
<1>4. rows' \in Seq(Rows) /\ Len(rows') = Len(rows) + 1
  BY AppendProperties
<1>5. Len(rows') \in 0..files
  BY <1>4, SurveyAssumption DEF Inv, RowsInv, CommandInv, More
<1>6. /\ SurveyRows' = SurveyRows /\ JudgeRows' = JudgeRows /\ CompareRows' = CompareRows
  <2>1. SurveyRows' = SurveyRows /\ JudgeRows' = JudgeRows
    BY DEF SurveyRows, JudgeRows, Verdicts
  <2>2. CompareRows' = CompareRows
    BY <1>1 DEF CompareRows, ChangeClass, AsksNative, AsksRuntime, Native, Given
  <2>. QED
    BY <2>1, <2>2
<1>7. RowsInv'
  BY <1>1, <1>2, <1>4, <1>5, <1>6 DEF RowsInv
<1>8. ExitInv'
  BY <1>1, <1>2 DEF Inv, ExitInv
<1>. QED
  BY <1>1, <1>3, <1>7, <1>8 DEF Inv

\* So does the choice of the mode.
LEMMA MainStep ==
  ASSUME Inv, Main
  PROVE  Inv'
<1>1. mode = "flags" /\ Frame /\ UNCHANGED rows
  BY DEF Main
<1>2. CASE Leave(2)
  BY <1>1, <1>2, LeaveOf
<1>3. CASE /\ ~BadFlags
           /\ mode' = IF Given("judge") THEN "judge"
                      ELSE IF Given("reduce") THEN "reduce"
                      ELSE IF Given("compare") THEN "compare" ELSE "survey"
           /\ UNCHANGED exit
  <2>1. /\ PassInv' /\ CacheInv' /\ WantInv' /\ KeptInv'
        /\ UNCHANGED <<flags, files, src, limit, hasFixed, pc>> /\ pc = "open"
    BY <1>1, FrameOf
  <2>2. BadFlags' = BadFlags /\ Judging' = Judging /\ \A f \in Flags : Given(f)' = Given(f)
    BY <2>1 DEF BadFlags, Judging, Given, Native
  <2>3. CommandInv'
    BY <1>1, <1>3, <2>1, <2>2 DEF Inv, CommandInv, Judging, Given
  <2>4. RowsInv'
    BY <1>1, <2>1, EmptySeq DEF Inv, CommandInv, RowsInv
  <2>5. ExitInv'
    BY <1>1, <1>3, <2>1 DEF Inv, ExitInv, Running
  <2>. QED
    BY <2>1, <2>3, <2>4, <2>5 DEF Inv
<1>. QED
  BY <1>2, <1>3 DEF Main

\* In each mode a file's row says what its answers say.
LEMMA SurveyStep ==
  ASSUME Inv, Survey \/ Surveyed
  PROVE  Inv'
<1>1. mode = "survey" /\ Frame /\ rows \in Seq(SurveyRows)
  BY DEF Survey, Surveyed, Inv, RowsInv
<1>2. ASSUME NEW v \in Verdicts, rows' = Append(rows, [class |-> v]), Stay, More
      PROVE  Inv'
  <2>1. [class |-> v] \in SurveyRows
    BY DEF SurveyRows
  <2>. QED
    BY <1>1, <1>2, <2>1, RowOf
<1>3. ASSUME NEW code \in 0..2, Leave(code), UNCHANGED rows PROVE Inv'
  BY <1>1, <1>3, LeaveOf
<1>. QED
  <2>1. CASE Survey
    <3>1. CASE Leave(2) /\ UNCHANGED rows
      BY <1>3, <3>1
    <3>2. CASE (\E v \in Verdicts : rows' = Append(rows, [class |-> v])) /\ Stay /\ More
      BY <1>2, <3>2
    <3>. QED
      BY <2>1, <3>1, <3>2 DEF Survey
  <2>2. CASE Surveyed
    <3>1. UNCHANGED rows /\ \E code \in 0..2 : Leave(code)
      BY <2>2 DEF Surveyed
    <3>. QED
      BY <1>3, <3>1
  <2>. QED
    BY <2>1, <2>2

LEMMA JudgeStep ==
  ASSUME Inv, Judge \/ JudgedAll
  PROVE  Inv'
<1>1. mode = "judge" /\ Frame /\ rows \in Seq(JudgeRows)
  BY DEF Judge, JudgedAll, Inv, RowsInv
<1>2. ASSUME NEW valid \in BOOLEAN, NEW lint \in Verdicts, Stay, More,
             rows' = Append(rows, [class |-> Class(valid, lint), after |-> lint,
                                   native |-> IF valid THEN "valid" ELSE "invalid"])
      PROVE  Inv'
  <2>1. PICK row : row = [class |-> Class(valid, lint), after |-> lint,
                          native |-> IF valid THEN "valid" ELSE "invalid"]
    OBVIOUS
  <2>2. row \in JudgeRows
    BY <2>1 DEF JudgeRows, Class
  <2>. QED
    BY <1>1, <1>2, <2>1, <2>2, RowOf
<1>3. ASSUME NEW code \in 0..2, Leave(code), UNCHANGED rows PROVE Inv'
  BY <1>1, <1>3, LeaveOf
<1>. QED
  <2>1. CASE Judge
    <3>1. CASE Leave(2) /\ UNCHANGED rows
      BY <1>3, <3>1
    <3>2. CASE /\ \E valid \in BOOLEAN, lint \in Verdicts :
                    rows' = Append(rows, [class |-> Class(valid, lint), after |-> lint,
                                          native |-> IF valid THEN "valid" ELSE "invalid"])
               /\ Stay /\ More
      BY <1>2, <3>2
    <3>. QED
      BY <2>1, <3>1, <3>2 DEF Judge
  <2>2. CASE JudgedAll
    <3>1. UNCHANGED rows /\ \E code \in 0..2 : Leave(code)
      BY <2>2 DEF JudgedAll
    <3>. QED
      BY <1>3, <3>1
  <2>. QED
    BY <2>1, <2>2

LEMMA CompareStep ==
  ASSUME Inv, Compare \/ Compared
  PROVE  Inv'
<1>1. mode = "compare" /\ Frame /\ rows \in Seq(CompareRows)
  BY DEF Compare, Compared, Inv, RowsInv
<1>2. ASSUME NEW b \in Verdicts, NEW a \in Verdicts, Stay, More,
             NEW native \in IF AsksNative(b, a) THEN {"valid", "invalid"} ELSE {"unasked"},
             NEW run \in IF AsksRuntime(b, a, native # "invalid") THEN {"clean", "error"}
                         ELSE {"unasked"},
             rows' = Append(rows, [class |-> ChangeClass(b, a, native # "invalid", run),
                                   before |-> b, after |-> a, native |-> native, run |-> run])
      PROVE  Inv'
  <2>1. PICK row : row = [class |-> ChangeClass(b, a, native # "invalid", run),
                          before |-> b, after |-> a, native |-> native, run |-> run]
    OBVIOUS
  <2>2. /\ native \in {"valid", "invalid", "unasked"}
        /\ (native # "unasked") = AsksNative(b, a)
    BY DEF AsksNative
  <2>3. /\ run \in {"clean", "error", "unasked"}
        /\ (run # "unasked") = AsksRuntime(b, a, native # "invalid")
    BY DEF AsksRuntime
  <2>4. ChangeClass(b, a, native # "invalid", run) \in Changes
    BY DEF ChangeClass, NativeClass, Changes
  <2>5. row \in CompareRows
    BY <2>1, <2>2, <2>3, <2>4 DEF CompareRows
  <2>. QED
    BY <1>1, <1>2, <2>1, <2>5, RowOf
<1>3. ASSUME NEW code \in 0..2, Leave(code), UNCHANGED rows PROVE Inv'
  BY <1>1, <1>3, LeaveOf
<1>. QED
  <2>1. CASE Compare
    <3>1. CASE Leave(2) /\ UNCHANGED rows
      BY <1>3, <3>1
    <3>2. CASE ~(Leave(2) /\ UNCHANGED rows)
      <4>1. More /\ Stay
        BY <2>1, <3>2 DEF Compare
      <4>2. PICK b \in Verdicts, a \in Verdicts :
              \E native \in IF AsksNative(b, a) THEN {"valid", "invalid"} ELSE {"unasked"} :
                LET valid == native # "invalid" IN
                \E run \in IF AsksRuntime(b, a, valid) THEN {"clean", "error"} ELSE {"unasked"} :
                  rows' = Append(rows, [class |-> ChangeClass(b, a, valid, run), before |-> b,
                                        after |-> a, native |-> native, run |-> run])
        BY <2>1, <3>2 DEF Compare
      <4>3. PICK native \in IF AsksNative(b, a) THEN {"valid", "invalid"} ELSE {"unasked"} :
              \E run \in IF AsksRuntime(b, a, native # "invalid") THEN {"clean", "error"}
                         ELSE {"unasked"} :
                rows' = Append(rows, [class |-> ChangeClass(b, a, native # "invalid", run),
                                      before |-> b, after |-> a, native |-> native, run |-> run])
        BY <4>2
      <4>. QED
        BY <1>2, <4>1, <4>3
    <3>. QED
      BY <3>1, <3>2
  <2>2. CASE Compared
    <3>1. UNCHANGED rows /\ \E code \in 0..2 : Leave(code)
      BY <2>2 DEF Compared
    <3>. QED
      BY <1>3, <3>1
  <2>. QED
    BY <2>1, <2>2

\* A step that changes nothing keeps it too.
LEMMA StutterStep ==
  ASSUME Inv, UNCHANGED surveyVars
  PROVE  Inv'
<1>. USE DEF surveyVars, vars, options
<1>1. Byte' = Byte /\ Text' = Text /\ Suffix' = Suffix
  BY DEF Byte, Text, Suffix
<1>2. CommandInv'
  BY DEF Inv, CommandInv, BadFlags, Judging, Given, Native
<1>3. RowsInv'
  BY DEF Inv, RowsInv, SurveyRows, JudgeRows, CompareRows, ChangeClass, AsksNative, AsksRuntime,
         Native, Given, Verdicts
<1>4. PassInv' /\ CacheInv'
  BY <1>1 DEF Inv, PassInv, CacheInv, Cache, Tests, outer, inner
<1>5. WantInv' /\ KeptInv' /\ ExitInv'
  BY <1>1 DEF Inv, WantInv, Sought, Within, Fixes, KeptInv, Recent, Kept, Candidate, Holds, Matches,
              ExitInv
<1>. QED
  BY <1>2, <1>3, <1>4, <1>5 DEF Inv

\* The invariant holds in every state.
THEOREM Invariance == Spec => []Inv
<1>1. SurveyInit => Inv
  BY InitInv
<1>2. Inv /\ [SurveyNext]_surveyVars => Inv'
  BY MainStep, SurveyStep, JudgeStep, CompareStep, ReduceStepOf, StutterStep
     DEF SurveyNext, Ended
<1>. QED
  BY <1>1, <1>2, PTL DEF Spec

\* The variables have the types the code gives them: the pieces are bytes of
\* the file, and the oracles are never asked more often than -max-tests allows.
THEOREM TypeCorrect == Spec => []TypeOK
<1>1. ASSUME Inv PROVE TypeOK
  <2>1. ToSet(Passes) = ReducePasses
    BY DEF ToSet, Passes, ReducePasses
  <2>2. ASSUME NEW k \in DOMAIN units, NEW b \in ToSet(units[k])
        PROVE  b.o \in 0..(Len(src) - 1)
    <3>1. units[k] \in Seq(Byte)
      BY <1>1, UnitsOf
    <3>2. b \in Byte
      BY <3>1, ToSetOf
    <3>. QED
      BY <3>2 DEF Byte, Bytes
  <2>3. flags \subseteq Flags /\ files \in 0..NumFiles /\ Len(rows) <= files
    BY <1>1, SurveyAssumption DEF Inv, CommandInv, RowsInv
  <2>. QED
    BY <1>1, <2>1, <2>2, <2>3
       DEF Inv, CommandInv, RowsInv, PassInv, CacheInv, Cache, ExitInv, TypeOK
<1>. QED
  BY <1>1, Invariance, PTL

\* A candidate that holds maps one of the bytes of its own error to one of the
\* original's.
LEMMA MatchesOf ==
  ASSUME src \in Seq(STRING), Within(want.site, Text),
         NEW site, NEW text, Within(site, text), Matches(want.site, site, text)
  PROVE  ErrorBytes(text, site) \cap ErrorBytes(Text, want.site) # {}
<1>. DEFINE s == want.site
<1>1. /\ Len(src) \in Nat /\ Len(Text) = Len(src)
      /\ \A k \in 1..Len(src) : Text[k].o = k - 1
  BY TextOf
<1>2. s.start \in 0..Len(src) /\ s.end \in s.start..Len(src)
  BY <1>1 DEF Within
<1>3. site.start \in 0..Len(text) /\ site.end \in site.start..Len(text)
  BY DEF Within
<1>. HIDE DEF s
<1>4. CASE s.end = s.start
  <2>1. OriginAt(text, site.start, Len(src)) = s.start
    BY <1>4 DEF Matches, s
  <2>2. s.start \in ErrorBytes(Text, s)
    <3>1. CASE s.start = Len(Text)
      BY <1>1, <3>1 DEF ErrorBytes
    <3>2. CASE s.start # Len(Text)
      <4>1. s.start + 1 \in 1..Len(src) /\ (s.start + 1) - 1 = s.start
        BY <1>1, <1>2, <3>2
      <4>2. Text[s.start + 1].o = s.start
        BY <1>1, <4>1
      <4>3. s.start + 1 \in (s.start + 1)..(s.start + 1)
        BY <4>1
      <4>. QED
        BY <1>4, <3>2, <4>2, <4>3 DEF ErrorBytes
    <3>. QED
      BY <3>1, <3>2
  <2>3. s.start \in ErrorBytes(text, site)
    <3>1. CASE site.start = Len(text)
      <4>1. OriginAt(text, site.start, Len(src)) = Len(src)
        BY <3>1 DEF OriginAt
      <4>. QED
        BY <2>1, <3>1, <4>1 DEF ErrorBytes
    <3>2. CASE site.start # Len(text)
      <4>1. site.start \in 0..(Len(text) - 1)
        BY <1>3, <3>2
      <4>2. text[site.start + 1].o = s.start
        BY <2>1, <4>1 DEF OriginAt
      <4>3. site.start + 1 \in (site.start + 1)..(IF site.end = site.start THEN site.start + 1
                                                  ELSE site.end)
        BY <1>3
      <4>. QED
        BY <3>2, <4>2, <4>3 DEF ErrorBytes
    <3>. QED
      BY <3>1, <3>2
  <2>. QED
    BY <2>2, <2>3 DEF s
<1>5. CASE s.end # s.start
  <2>1. PICK k \in site.start..(site.end - 1) :
          OriginAt(text, k, Len(src)) \in s.start..(s.end - 1)
    BY <1>5 DEF Matches, s
  <2>2. /\ k \in 0..(Len(text) - 1) /\ site.end # site.start /\ site.start # Len(text)
        /\ k + 1 \in (site.start + 1)..site.end
    BY <1>3, <2>1
  <2>. DEFINE o == text[k + 1].o
  <2>3. o \in s.start..(s.end - 1)
    BY <2>1, <2>2 DEF OriginAt
  <2>4. o \in ErrorBytes(text, site)
    BY <2>2 DEF ErrorBytes
  <2>. HIDE DEF o
  <2>5. /\ o + 1 \in (s.start + 1)..s.end /\ s.start # Len(Text)
        /\ o + 1 \in 1..Len(src) /\ (o + 1) - 1 = o
    BY <1>1, <1>2, <2>3
  <2>6. Text[o + 1].o = o
    BY <1>1, <2>5
  <2>7. o \in ErrorBytes(Text, s)
    BY <1>5, <2>5, <2>6 DEF ErrorBytes
  <2>. QED
    BY <2>4, <2>7 DEF s
<1>. QED
  BY <1>4, <1>5

\* What a reduction writes was judged last, and still has the original's
\* defect at the original's error, whatever the oracles answer and whenever
\* the budget is spent.
THEOREM ResultHasTheDefect == Spec => []ResultKeepsDefect
<1>1. ASSUME Inv PROVE ResultKeepsDefect
  <2>. SUFFICES ASSUME mode = "reduce", exit = 0
                PROVE  /\ kept.text = out
                       /\ kept.j.class = want.class /\ kept.j.message = want.message
                       /\ ErrorBytes(out, kept.j.site) \cap ErrorBytes(Text, want.site) # {}
                       /\ hasFixed => kept.j.fixed
    BY DEF ResultKeepsDefect
  <2>1. Within(want.site, Text) /\ Kept(out)
    BY <1>1 DEF Inv, ExitInv
  <2>2. /\ kept.text = out /\ kept.j.class = want.class /\ kept.j.message = want.message
        /\ Within(kept.j.site, out) /\ Matches(want.site, kept.j.site, out)
        /\ hasFixed => kept.j.fixed
    BY <2>1 DEF Kept, Holds, Fixes
  <2>3. PICK site, text : site = kept.j.site /\ text = out
    OBVIOUS
  <2>4. ErrorBytes(text, site) \cap ErrorBytes(Text, want.site) # {}
    BY <1>1, <2>1, <2>2, <2>3, UnitsOf, MatchesOf
  <2>. QED
    BY <2>2, <2>3, <2>4
<1>. QED
  BY <1>1, Invariance, PTL

\* A row counts against the exit status exactly when its file got worse.
LEMMA CountedIsWorse ==
  ASSUME NEW r
  PROVE  /\ mode = "survey" /\ r \in SurveyRows => (r.class \in Diagnostics <=> Worse(r))
         /\ mode = "judge" /\ r \in JudgeRows =>
              (r.class \in {"GAP", "FALSE-ACCEPT"} <=> Worse(r))
         /\ mode = "compare" /\ r \in CompareRows =>
              (r.class \in {"REGRESSED", "FALSE-ACCEPT", "NOW-FAIL"} <=> Worse(r))
<1>1. mode = "survey" /\ r \in SurveyRows => (r.class \in Diagnostics <=> Worse(r))
  BY SurveyAssumption DEF SurveyRows, Verdicts, Worse
<1>2. mode = "judge" /\ r \in JudgeRows => (r.class \in {"GAP", "FALSE-ACCEPT"} <=> Worse(r))
  BY DEF JudgeRows, Class, Worse
<1>3. ASSUME mode = "compare", r \in CompareRows
      PROVE  r.class \in {"REGRESSED", "FALSE-ACCEPT", "NOW-FAIL"} <=> Worse(r)
  <2>1. /\ r.class = ChangeClass(r.before, r.after, r.native # "invalid", r.run)
        /\ r.native \in {"valid", "invalid", "unasked"}
        /\ (r.native # "unasked") = AsksNative(r.before, r.after)
    BY <1>3 DEF CompareRows
  <2>2. Worse(r) <=> \/ r.before = "ok" /\ r.after # "ok" /\ ~Native
                     \/ r.before = "ok" /\ r.after # "ok" /\ r.native = "valid" /\ r.run # "error"
                     \/ r.before # "ok" /\ r.after = "ok" /\ r.native = "invalid"
    BY <1>3 DEF Worse
  <2>3. r.native # "unasked" => Native
    BY <2>1 DEF AsksNative
  <2>4. Native /\ (r.before = "ok" \/ r.after = "ok") => r.native # "unasked"
    BY <2>1 DEF AsksNative
  <2>5. CASE ~Native
    BY <2>1, <2>2, <2>3, <2>5 DEF ChangeClass
  <2>6. CASE Native
    BY <2>1, <2>2, <2>4, <2>6 DEF ChangeClass, NativeClass
  <2>. QED
    BY <2>5, <2>6
<1>. QED
  BY <1>1, <1>2, <1>3

\* The command exits 1 exactly when a file got worse, once every file has its
\* row, and a table shows no answer of Zsh that was not asked for.
THEOREM ExitIsTheRows == Spec => ExitTellsTheFiles
<1>. DEFINE Told == mode # "over" /\ mode' = "over" /\ exit' \in {0, 1} =>
                      /\ Len(rows) = files
                      /\ (exit' = 1) = \E k \in DOMAIN rows : Worse(rows[k])
                      /\ Given("table") => \A k \in DOMAIN rows : rows[k].native # "unasked"
<1>1. ASSUME Inv, [SurveyNext]_surveyVars PROVE Told
  <2>. SUFFICES ASSUME mode # "over", mode' = "over", exit' \in {0, 1}
                PROVE  /\ Len(rows) = files
                       /\ (exit' = 1) = \E k \in DOMAIN rows : Worse(rows[k])
                       /\ Given("table") => \A k \in DOMAIN rows : rows[k].native # "unasked"
    OBVIOUS
  <2>1. CASE Surveyed /\ Leave(IF Counted(Diagnostics) THEN 1 ELSE 0)
    <3>1. mode = "survey" /\ rows \in Seq(SurveyRows) /\ Len(rows) = files
      BY <1>1, <2>1, SurveyAssumption DEF Surveyed, More, Inv, CommandInv, RowsInv
    <3>2. \A k \in DOMAIN rows : rows[k] \in SurveyRows
      BY <3>1, LenProperties, ElementOfSeq
    <3>3. \A k \in DOMAIN rows : rows[k].class \in Diagnostics <=> Worse(rows[k])
      BY <3>1, <3>2, CountedIsWorse
    <3>4. ~Given("table")
      BY <1>1, <3>1 DEF Inv, CommandInv, BadFlags, Given
    <3>5. (exit' = 1) <=> Counted(Diagnostics)
      BY <2>1 DEF Leave
    <3>. QED
      BY <3>1, <3>3, <3>4, <3>5 DEF Counted
  <2>2. CASE JudgedAll /\ Leave(IF Counted({"GAP", "FALSE-ACCEPT"}) THEN 1 ELSE 0)
    <3>1. mode = "judge" /\ rows \in Seq(JudgeRows) /\ Len(rows) = files
      BY <1>1, <2>2, SurveyAssumption DEF JudgedAll, More, Inv, CommandInv, RowsInv
    <3>2. \A k \in DOMAIN rows : rows[k] \in JudgeRows
      BY <3>1, LenProperties, ElementOfSeq
    <3>3. \A k \in DOMAIN rows : rows[k].class \in {"GAP", "FALSE-ACCEPT"} <=> Worse(rows[k])
      BY <3>1, <3>2, CountedIsWorse
    <3>4. ~Given("table")
      BY <1>1, <3>1 DEF Inv, CommandInv, BadFlags, Judging, Given
    <3>5. (exit' = 1) <=> Counted({"GAP", "FALSE-ACCEPT"})
      BY <2>2 DEF Leave
    <3>. QED
      BY <3>1, <3>3, <3>4, <3>5 DEF Counted
  <2>3. CASE Compared /\ Leave(IF Counted({"REGRESSED", "FALSE-ACCEPT", "NOW-FAIL"}) THEN 1 ELSE 0)
    <3>1. mode = "compare" /\ rows \in Seq(CompareRows) /\ Len(rows) = files
      BY <1>1, <2>3, SurveyAssumption DEF Compared, More, Inv, CommandInv, RowsInv
    <3>2. \A k \in DOMAIN rows : rows[k] \in CompareRows
      BY <3>1, LenProperties, ElementOfSeq
    <3>3. \A k \in DOMAIN rows :
            rows[k].class \in {"REGRESSED", "FALSE-ACCEPT", "NOW-FAIL"} <=> Worse(rows[k])
      BY <3>1, <3>2, CountedIsWorse
    <3>4. ASSUME Given("table"), NEW k \in DOMAIN rows PROVE rows[k].native # "unasked"
      <4>1. Native
        BY <1>1, <3>1, <3>4 DEF Inv, CommandInv, BadFlags, Given
      <4>. QED
        BY <3>2, <3>4, <4>1 DEF CompareRows, AsksNative
    <3>5. (exit' = 1) <=> Counted({"REGRESSED", "FALSE-ACCEPT", "NOW-FAIL"})
      BY <2>3 DEF Leave
    <3>. QED
      BY <3>1, <3>3, <3>4, <3>5 DEF Counted
  <2>4. ~Leave(2) /\ ~Stay /\ ~ReduceStep /\ ~Ended /\ ~UNCHANGED surveyVars
    BY DEF Leave, Stay, ReduceStep, Ended, surveyVars
  <2>5. ~Main
    BY <2>4 DEF Main, Leave
  <2>. QED
    BY <1>1, <2>1, <2>2, <2>3, <2>4, <2>5
       DEF SurveyNext, Survey, Surveyed, Judge, JudgedAll, Compare, Compared
<1>2. [][Told]_surveyVars <=> ExitTellsTheFiles
  BY DEF ExitTellsTheFiles
<1>3. Inv /\ [SurveyNext]_surveyVars => [Told]_surveyVars
  BY <1>1
<1>. QED
  BY <1>2, <1>3, Invariance, PTL DEF Spec

-----------------------------------------------------------------------------
(* A reduction ends at a local minimum. *)

\* The bodies that were tried without holding.
Missed == {body \in Seq(Byte) : /\ body \o Suffix \in DOMAIN seen
                                /\ seen[body \o Suffix] = FALSE}

\* Every piece, pair and run of pieces, and the shortening of every word, is
\* among the texts of a set.
OnesIn(us, M) == \A k \in 1..Len(us) : FlattenSeq(Without(us, {k})) \in M

PairsIn(us, M) ==
  \/ Len(us) > MaxQuadraticUnits
  \/ \A j, k \in 1..Len(us) : j < k => FlattenSeq(Without(us, {j, k})) \in M

RunsIn(us, M) ==
  \/ Len(us) > MaxQuadraticUnits
  \/ \A a, b \in 1..Len(us) :
       a <= b /\ b - a + 1 < Len(us) => FlattenSeq(SubSeq(us, a, b)) \in M

ShortenedAt(us, k) == [us EXCEPT ![k] = Shortened(us[k])]
WordsIn(us, M) ==
  \A k \in 1..Len(us) : IsLongWord(us[k]) => FlattenSeq(ShortenedAt(us, k)) \in M

Minimal(text, M) ==
  /\ OnesIn(Lines(text), M)
  /\ OnesIn(Tokens(text), M) /\ PairsIn(Tokens(text), M)
  /\ RunsIn(Tokens(text), M) /\ WordsIn(Tokens(text), M)

\* What the passes before this one have tried.
Past(pass, text, M) ==
  /\ pass # "lines" => OnesIn(Lines(text), M)
  /\ pass \in {"pairs", "window", "shorten", "trim"} => OnesIn(Tokens(text), M)
  /\ pass \in {"window", "shorten", "trim"} => PairsIn(Tokens(text), M)
  /\ pass \in {"shorten", "trim"} => RunsIn(Tokens(text), M)
  /\ pass = "trim" => WordsIn(Tokens(text), M)

\* What a pass has tried when its loop variables are at.
OnesBefore(at, us, M) ==
  /\ Len(us) = 1 /\ at[1] = 1 => OnesIn(us, M)
  /\ Len(us) > 1 /\ at[1] >= Len(us) =>
       \A k \in 1..Len(us) : k < at[2] => FlattenSeq(Without(us, {k})) \in M

PairsBefore(at, us, M) ==
  Len(us) <= MaxQuadraticUnits =>
    /\ at[1] < at[2] /\ (at[2] <= Len(us) \/ at[2] = at[1] + 1)
    /\ \A j, k \in 1..Len(us) :
         j < k /\ (j < at[1] \/ (j = at[1] /\ k < at[2])) =>
           FlattenSeq(Without(us, {j, k})) \in M

RunsBefore(at, us, M) ==
  Len(us) <= MaxQuadraticUnits =>
    \A a, b \in 1..Len(us) :
      a <= b /\ (b - a + 1 < at[1] \/ (b - a + 1 = at[1] /\ a < at[2])) =>
        FlattenSeq(SubSeq(us, a, b)) \in M

WordsBefore(at, us, M) ==
  \A k \in 1..Len(us) : k < at[1] /\ IsLongWord(us[k]) =>
    FlattenSeq(ShortenedAt(us, k)) \in M

Ahead(pass, at, us, M) ==
  /\ pass \in {"lines", "tokens"} => OnesBefore(at, us, M)
  /\ pass = "pairs" => PairsBefore(at, us, M)
  /\ pass = "window" => RunsBefore(at, us, M)
  /\ pass = "shorten" => WordsBefore(at, us, M)

PiecesOf(pass, text) == IF pass = "lines" THEN Lines(text) ELSE Tokens(text)

Settled(pass, at, us, M) ==
  /\ us = PiecesOf(pass, FlattenSeq(us))
  /\ Past(pass, FlattenSeq(us), M)
  /\ Ahead(pass, at, us, M)

\* A round that has found nothing shorter has tried what it has passed.
RoundInv ==
  pc \in ReducePasses =>
    /\ Len(before) \in Nat
    /\ Len(FlattenSeq(units)) <= Len(before)
    /\ ~capped /\ Len(FlattenSeq(units)) = Len(before) =>
         Settled(pc, cursor, units, Missed)

MinimalInv ==
  pc = "write" /\ ~capped /\ ~oracleErr => Minimal(FlattenSeq(units), Missed)

WrittenInv ==
  mode = "reduce" /\ exit = 0 /\ ~capped =>
    \E body \in Seq(Byte) : out = body \o Suffix /\ Minimal(body, Missed)

-----------------------------------------------------------------------------
LEMMA InMore ==
  ASSUME NEW us, NEW M, NEW N, M \subseteq N
  PROVE  /\ OnesIn(us, M) => OnesIn(us, N)
         /\ PairsIn(us, M) => PairsIn(us, N)
         /\ RunsIn(us, M) => RunsIn(us, N)
         /\ WordsIn(us, M) => WordsIn(us, N)
BY DEF OnesIn, PairsIn, RunsIn, WordsIn

LEMMA PastMore ==
  ASSUME NEW pass, NEW text, NEW M, NEW N, M \subseteq N, Past(pass, text, M)
  PROVE  Past(pass, text, N)
<1>. DEFINE ts == Tokens(text)
            ls == Lines(text)
<1>1. /\ OnesIn(ts, M) => OnesIn(ts, N)
      /\ PairsIn(ts, M) => PairsIn(ts, N)
      /\ RunsIn(ts, M) => RunsIn(ts, N)
      /\ WordsIn(ts, M) => WordsIn(ts, N)
  <2>. HIDE DEF ts
  <2>. QED
    BY InMore
<1>2. OnesIn(ls, M) => OnesIn(ls, N)
  <2>. HIDE DEF ls
  <2>. QED
    BY InMore
<1>. QED
  BY <1>1, <1>2 DEF Past

LEMMA MinimalMore ==
  ASSUME NEW text, NEW M, NEW N, M \subseteq N, Minimal(text, M)
  PROVE  Minimal(text, N)
<1>1. Past("trim", text, M)
  BY DEF Past, Minimal
<1>2. Past("trim", text, N)
  BY <1>1, PastMore
<1>. QED
  BY <1>2 DEF Past, Minimal

LEMMA AheadMore ==
  ASSUME NEW pass, NEW at, NEW us, NEW M, NEW N, M \subseteq N, Ahead(pass, at, us, M)
  PROVE  Ahead(pass, at, us, N)
<1>1. OnesBefore(at, us, M) => OnesBefore(at, us, N)
  BY InMore DEF OnesBefore
<1>2. PairsBefore(at, us, M) => PairsBefore(at, us, N)
  BY DEF PairsBefore
<1>3. RunsBefore(at, us, M) => RunsBefore(at, us, N)
  BY DEF RunsBefore
<1>4. WordsBefore(at, us, M) => WordsBefore(at, us, N)
  BY DEF WordsBefore
<1>. QED
  BY <1>1, <1>2, <1>3, <1>4 DEF Ahead

\* A call of test that fails adds its text to those missed, or spends the
\* budget.
LEMMA MissedGrows ==
  ASSUME NEW body, body \in Seq(Byte), Cache, Test(body \o Suffix, FALSE), ~capped',
         UNCHANGED options
  PROVE  ~capped /\ Missed \subseteq Missed' /\ body \in Missed'
<1>1. Byte' = Byte /\ Suffix' = Suffix
  BY DEF options, Byte, Bytes, Suffix, Text
<1>. DEFINE text == body \o Suffix
<1>2. /\ DOMAIN seen \subseteq DOMAIN seen'
      /\ \A t \in DOMAIN seen : seen'[t] = seen[t]
      /\ text \in DOMAIN seen' /\ seen'[text] = FALSE
      /\ capped' = capped
  <2>. HIDE DEF text
  <2>1. Test(text, FALSE)
    BY DEF text
  <2>2. CASE text \in DOMAIN seen
    BY <2>1, <2>2 DEF Test
  <2>3. CASE text \notin DOMAIN seen
    <3>1. seen' = [t \in DOMAIN seen \cup {text} |-> IF t = text THEN FALSE ELSE seen[t]]
          /\ capped' = capped
      BY <2>1, <2>3 DEF Test
    <3>. QED
      BY <2>3, <3>1
  <2>. QED
    BY <2>2, <2>3
<1>3. body \in Missed'
  BY <1>1, <1>2 DEF Missed
<1>4. ASSUME NEW b \in Missed PROVE b \in Missed'
  <2>1. b \in Seq(Byte) /\ b \o Suffix \in DOMAIN seen /\ seen[b \o Suffix] = FALSE
    BY <1>4 DEF Missed
  <2>. HIDE DEF text
  <2>. QED
    BY <1>1, <1>2, <2>1 DEF Missed
<1>. QED
  BY <1>2, <1>3, <1>4

\* The pieces of a pass are not empty.
LEMMA SettledSolid ==
  ASSUME NEW pass, NEW at, NEW us, us \in Seq(Seq(Byte)), NEW M, Settled(pass, at, us, M)
  PROVE  Solid(us)
<1>1. PICK text : text = FlattenSeq(us)
  OBVIOUS
<1>2. text \in Seq(Byte) /\ us = PiecesOf(pass, text)
  BY <1>1, FlattenSeqOf DEF Settled
<1>3. Solid(Lines(text)) /\ Solid(Tokens(text))
  BY <1>2, LinesOf, TokensOf
<1>. QED
  BY <1>2, <1>3 DEF PiecesOf

\* A try that holds makes the text shorter than it was when the round began;
\* one that does not is one more that was missed.
LEMMA TryRound ==
  ASSUME NEW pieces, pieces \in Seq(Seq(Byte)), NEW from, NEW otherwise,
         Inv, RoundInv, pc \in ReducePasses,
         Shrunk(FlattenSeq(pieces), FlattenSeq(units)),
         Solid(units) => Len(FlattenSeq(pieces)) < Len(FlattenSeq(units)),
         Settled(pc, cursor, units, Missed) =>
           Ahead(pc, otherwise, units, Missed \cup {FlattenSeq(pieces)}),
         Try(pieces, from, otherwise), Rest, Steady
  PROVE  RoundInv'
<1>1. PICK body : body = FlattenSeq(pieces)
  OBVIOUS
<1>2. PICK text : text = FlattenSeq(units)
  OBVIOUS
<1>3. /\ body \in Seq(Byte) /\ text \in Seq(Byte) /\ Shrunk(body, text)
      /\ Len(body) \in Nat /\ Len(text) \in Nat
      /\ units \in Seq(Seq(Byte))
  BY <1>1, <1>2, UnitsOf, FlattenSeqOf, LenProperties
<1>4. pc' = pc /\ before' = before /\ UNCHANGED options /\ Cache
  BY DEF Try, Rest, Inv, CacheInv
<1>5. /\ Len(before) \in Nat /\ Len(text) <= Len(before)
      /\ ~capped /\ Len(text) = Len(before) => Settled(pc, cursor, units, Missed)
  BY <1>2 DEF RoundInv
<1>6. Settled(pc, cursor, units, Missed) => Len(body) < Len(text)
  BY <1>1, <1>2, <1>3, SettledSolid
<1>7. Len(body) <= Len(text)
  BY <1>3 DEF Shrunk
<1>8. Candidate(pieces) = body \o Suffix
  BY <1>1 DEF Candidate
<1>9. CASE Test(body \o Suffix, TRUE) /\ units' = pieces
  <2>1. FlattenSeq(units') = body
    BY <1>1, <1>9
  <2>2. capped' = capped
    BY <1>9 DEF Test
  <2>3. Len(body) <= Len(before) /\ ~(~capped /\ Len(body) = Len(before))
    BY <1>3, <1>5, <1>6, <1>7
  <2>. QED
    BY <1>4, <1>5, <2>1, <2>2, <2>3 DEF RoundInv
<1>10. CASE Test(body \o Suffix, FALSE) /\ cursor' = otherwise /\ units' = units
  <2>1. ASSUME ~capped', Len(text) = Len(before)
        PROVE  Settled(pc, otherwise, units, Missed')
    <3>1. ~capped /\ Missed \subseteq Missed' /\ body \in Missed'
      BY <1>3, <1>4, <1>10, <2>1, MissedGrows
    <3>2. Settled(pc, cursor, units, Missed)
      BY <1>5, <2>1, <3>1
    <3>3. PICK M, N : M = Missed /\ N = Missed'
      OBVIOUS
    <3>4. M \subseteq N /\ M \cup {body} \subseteq N
      BY <3>1, <3>3
    <3>5. Past(pc, text, M) /\ units = PiecesOf(pc, text)
      BY <1>2, <3>2, <3>3 DEF Settled
    <3>6. Past(pc, text, N)
      BY <3>4, <3>5, PastMore
    <3>7. Ahead(pc, otherwise, units, M \cup {body})
      BY <1>1, <3>2, <3>3
    <3>8. Ahead(pc, otherwise, units, N)
      <4>1. PICK L : L = M \cup {body}
        OBVIOUS
      <4>2. Ahead(pc, otherwise, units, L) /\ L \subseteq N
        BY <3>4, <3>7, <4>1
      <4>. QED
        BY <4>2, AheadMore
    <3>. QED
      BY <1>2, <3>3, <3>5, <3>6, <3>8 DEF Settled
  <2>2. FlattenSeq(units') = text
    BY <1>2, <1>10
  <2>3. ~capped' /\ Len(FlattenSeq(units')) = Len(before') =>
          Settled(pc', cursor', units', Missed')
    BY <1>4, <1>10, <2>1, <2>2
  <2>. QED
    BY <1>4, <1>5, <2>2, <2>3 DEF RoundInv
<1>. QED
  BY <1>8, <1>9, <1>10 DEF Try

LEMMA DivAtLeastOne ==
  ASSUME NEW l \in Nat, NEW n \in Nat, l >= 1, n >= 1
  PROVE  (l + n - 1) \div n \in Int /\ (l + n - 1) \div n >= 1
<1>1. l + n - 1 \in Int /\ n > 0 /\ l + n - 1 >= n
  OBVIOUS
<1>. QED
  BY <1>1

LEMMA DivOne ==
  ASSUME NEW l \in Nat, NEW n \in Nat, l >= 1, n >= l
  PROVE  (l + n - 1) \div n = 1
<1>1. l + n - 1 \in Int /\ n > 0 /\ l + n - 1 >= n /\ l + n - 1 < 2 * n
  OBVIOUS
<1>. QED
  BY <1>1

\* Each pass tries what comes next.
LEMMA OnesNext ==
  ASSUME NEW us, Len(us) \in Nat, NEW M, NEW n \in Nat, NEW k \in Nat, n >= 1, k >= 1,
         Len(us) > 1, k <= Len(us), OnesBefore(<<n, k>>, us, M), NEW chunk,
         chunk = Chunk(us, n, k)
  PROVE  /\ k \in chunk
         /\ OnesBefore(<<n, k + Cardinality(chunk)>>, us,
                       M \cup {FlattenSeq(Without(us, chunk))})
<1>. DEFINE len == Len(us)
            size == (len + n - 1) \div n
            end == IF k + size - 1 < len THEN k + size - 1 ELSE len
<1>1. chunk = k..end
  BY DEF Chunk
<1>2. size \in Int /\ size >= 1
  BY DivAtLeastOne
<1>3. n >= len => size = 1
  BY DivOne
<1>. HIDE DEF size
<1>4. end \in Int /\ end >= k
  BY <1>2
<1>5. k \in chunk
  BY <1>1, <1>4
<1>6. ASSUME n >= len, NEW j \in 1..len, j < k + Cardinality(chunk)
      PROVE  FlattenSeq(Without(us, {j})) \in M \cup {FlattenSeq(Without(us, chunk))}
  <2>1. chunk = {k}
    BY <1>1, <1>3, <1>6
  <2>2. Cardinality(chunk) = 1
    BY <2>1, FS_Singleton
  <2>3. j < k \/ j = k
    BY <1>6, <2>2
  <2>4. CASE j < k
    BY <1>6, <2>4 DEF OnesBefore
  <2>5. CASE j = k
    BY <2>1, <2>5
  <2>. QED
    BY <2>3, <2>4, <2>5
<1>7. PICK c, N : /\ c = k + Cardinality(chunk)
                  /\ N = M \cup {FlattenSeq(Without(us, chunk))}
  OBVIOUS
<1>8. ASSUME n >= Len(us), NEW j \in 1..Len(us), j < c
      PROVE  FlattenSeq(Without(us, {j})) \in N
  BY <1>6, <1>7, <1>8
<1>9. OnesBefore(<<n, c>>, us, N)
  <2>1. PICK at : at = <<n, c>>
    OBVIOUS
  <2>2. at[1] = n /\ at[2] = c /\ ~(Len(us) = 1)
    BY <2>1
  <2>3. OnesBefore(at, us, N)
    BY <1>8, <2>2 DEF OnesBefore
  <2>. QED
    BY <2>1, <2>3
<1>. QED
  BY <1>5, <1>7, <1>9

LEMMA PairsNext ==
  ASSUME NEW us, Len(us) \in Nat, NEW M, NEW p \in Nat, NEW q \in Nat, p >= 1, q >= 1,
         Len(us) <= MaxQuadraticUnits, q <= Len(us), PairsBefore(<<p, q>>, us, M)
  PROVE  PairsBefore(IF q < Len(us) THEN <<p, q + 1>> ELSE <<p + 1, p + 2>>, us,
                     M \cup {FlattenSeq(Without(us, {p, q}))})
<1>. DEFINE N == M \cup {FlattenSeq(Without(us, {p, q}))}
<1>1. /\ p < q
      /\ \A j, k \in 1..Len(us) : j < k /\ (j < p \/ (j = p /\ k < q)) =>
           FlattenSeq(Without(us, {j, k})) \in M
  BY DEF PairsBefore
<1>2. ASSUME NEW j \in 1..Len(us), NEW k \in 1..Len(us), j < k,
             j < p \/ (j = p /\ k <= q)
      PROVE  FlattenSeq(Without(us, {j, k})) \in N
  <2>1. CASE j = p /\ k = q
    BY <2>1
  <2>2. CASE ~(j = p /\ k = q)
    <3>1. j < p \/ (j = p /\ k < q)
      BY <1>2, <2>2
    <3>. QED
      BY <1>1, <1>2, <3>1
  <2>. QED
    BY <2>1, <2>2
<1>. HIDE DEF N
<1>3. CASE q < Len(us)
  <2>1. p < q + 1 /\ q + 1 <= Len(us)
    BY <1>1, <1>3
  <2>2. ASSUME NEW j \in 1..Len(us), NEW k \in 1..Len(us), j < k,
               j < p \/ (j = p /\ k < q + 1)
        PROVE  FlattenSeq(Without(us, {j, k})) \in N
    <3>1. j < p \/ (j = p /\ k <= q)
      BY <2>2
    <3>. QED
      BY <1>2, <2>2, <3>1
  <2>3. PairsBefore(<<p, q + 1>>, us, N)
    BY <2>1, <2>2 DEF PairsBefore
  <2>. QED
    BY <1>3, <2>3 DEF N
<1>4. CASE ~(q < Len(us))
  <2>1. p + 1 < p + 2 /\ p + 2 = (p + 1) + 1
    OBVIOUS
  <2>2. ASSUME NEW j \in 1..Len(us), NEW k \in 1..Len(us), j < k,
               j < p + 1 \/ (j = p + 1 /\ k < p + 2)
        PROVE  FlattenSeq(Without(us, {j, k})) \in N
    <3>1. j < p \/ (j = p /\ k <= q)
      BY <1>4, <2>2
    <3>. QED
      BY <1>2, <2>2, <3>1
  <2>3. PairsBefore(<<p + 1, p + 2>>, us, N)
    BY <2>1, <2>2 DEF PairsBefore
  <2>. QED
    BY <1>4, <2>3 DEF N
<1>. QED
  BY <1>3, <1>4

LEMMA RunsNext ==
  ASSUME NEW us, Len(us) \in Nat, NEW M, NEW n \in Nat, NEW s \in Nat, n >= 1, s >= 1,
         Len(us) <= MaxQuadraticUnits, RunsBefore(<<n, s>>, us, M)
  PROVE  RunsBefore(IF s + n <= Len(us) THEN <<n, s + 1>> ELSE <<n + 1, 1>>, us,
                    M \cup {FlattenSeq(SubSeq(us, s, s + n - 1))})
<1>. DEFINE N == M \cup {FlattenSeq(SubSeq(us, s, s + n - 1))}
<1>1. \A a, b \in 1..Len(us) :
        a <= b /\ (b - a + 1 < n \/ (b - a + 1 = n /\ a < s)) => FlattenSeq(SubSeq(us, a, b)) \in M
  BY DEF RunsBefore
<1>2. ASSUME NEW a \in 1..Len(us), NEW b \in 1..Len(us), a <= b,
             b - a + 1 < n \/ (b - a + 1 = n /\ a <= s)
      PROVE  FlattenSeq(SubSeq(us, a, b)) \in N
  <2>1. CASE b - a + 1 = n /\ a = s
    <3>1. b = s + n - 1 /\ a = s
      BY <2>1
    <3>. QED
      BY <3>1
  <2>2. CASE ~(b - a + 1 = n /\ a = s)
    <3>1. b - a + 1 < n \/ (b - a + 1 = n /\ a < s)
      BY <1>2, <2>2
    <3>. QED
      BY <1>1, <1>2, <3>1
  <2>. QED
    BY <2>1, <2>2
<1>. HIDE DEF N
<1>3. CASE s + n <= Len(us)
  <2>2. ASSUME NEW a \in 1..Len(us), NEW b \in 1..Len(us), a <= b,
               b - a + 1 < n \/ (b - a + 1 = n /\ a < s + 1)
        PROVE  FlattenSeq(SubSeq(us, a, b)) \in N
    <3>1. b - a + 1 < n \/ (b - a + 1 = n /\ a <= s)
      BY <2>2
    <3>. QED
      BY <1>2, <2>2, <3>1
  <2>3. RunsBefore(<<n, s + 1>>, us, N)
    BY <2>2 DEF RunsBefore
  <2>. QED
    BY <1>3, <2>3 DEF N
<1>4. CASE ~(s + n <= Len(us))
  <2>2. ASSUME NEW a \in 1..Len(us), NEW b \in 1..Len(us), a <= b,
               b - a + 1 < n + 1 \/ (b - a + 1 = n + 1 /\ a < 1)
        PROVE  FlattenSeq(SubSeq(us, a, b)) \in N
    <3>1. b - a + 1 < n \/ (b - a + 1 = n /\ a <= s)
      BY <1>4, <2>2
    <3>. QED
      BY <1>2, <2>2, <3>1
  <2>3. RunsBefore(<<n + 1, 1>>, us, N)
    BY <2>2 DEF RunsBefore
  <2>. QED
    BY <1>4, <2>3 DEF N
<1>. QED
  BY <1>3, <1>4

LEMMA WordsNext ==
  ASSUME NEW us, Len(us) \in Nat, NEW M, NEW n \in Nat, NEW i, n >= 1,
         WordsBefore(<<n, i>>, us, M), NEW k \in LongWordFrom(us, n)
  PROVE  WordsBefore(<<k + 1, 1>>, us, M \cup {FlattenSeq(ShortenedAt(us, k))})
<1>1. /\ k \in n..Len(us) /\ k \in Int
      /\ \A d \in n..(k - 1) : ~IsLongWord(us[d])
  BY DEF LongWordFrom
<1>2. ASSUME NEW d \in 1..Len(us), d < k + 1, IsLongWord(us[d])
      PROVE  FlattenSeq(ShortenedAt(us, d)) \in M \cup {FlattenSeq(ShortenedAt(us, k))}
  <2>1. CASE d < n
    BY <1>2, <2>1 DEF WordsBefore
  <2>2. CASE d = k
    BY <2>2
  <2>3. CASE ~(d < n) /\ d # k
    <3>1. d \in n..(k - 1)
      BY <1>1, <1>2, <2>3
    <3>. QED
      BY <1>1, <1>2, <3>1
  <2>. QED
    BY <2>1, <2>2, <2>3
<1>. QED
  BY <1>2 DEF WordsBefore

\* The loop variables are a pair of positive numbers.
LEMMA CursorOf ==
  ASSUME Inv, pc \in ReducePasses
  PROVE  /\ cursor = <<outer, inner>>
         /\ outer \in Nat /\ inner \in Nat /\ outer >= 1 /\ inner >= 1
         /\ units \in Seq(Seq(Byte)) /\ Len(units) \in Nat
BY UnitsOf DEF Inv, PassInv, Cursors, outer, inner

LEMMA DdminRound ==
  ASSUME Inv, RoundInv, Ddmin, Steady
  PROVE  RoundInv'
<1>1. pc \in {"lines", "tokens"} /\ pc \in ReducePasses /\ Rest
  BY DEF Ddmin, ReducePasses
<1>2. /\ cursor = <<outer, inner>>
      /\ outer \in Nat /\ inner \in Nat /\ outer >= 1 /\ inner >= 1
      /\ units \in Seq(Seq(Byte)) /\ Len(units) \in Nat
  BY <1>1, CursorOf
<1>3. CASE Len(units) = 1 /\ Try(<<>>, <<1, 1>>, <<1, 1>>)
  <2>1. PICK none : none = Without(units, {1})
    OBVIOUS
  <2>2. none = <<>>
    BY <1>2, <1>3, <2>1, WithoutOne
  <2>3. /\ none \in Seq(Seq(Byte))
        /\ Shrunk(FlattenSeq(none), FlattenSeq(units))
        /\ Solid(units) => Len(FlattenSeq(none)) < Len(FlattenSeq(units))
    <3>1. Solid(units) => 1 \in 1..Len(units) /\ 1 \in {1} /\ units[1] # <<>>
      BY <1>3 DEF Solid
    <3>. QED
      BY <1>2, <2>1, <3>1, WithoutOf
  <2>4. PICK M : M = Missed \cup {FlattenSeq(none)}
    OBVIOUS
  <2>5. OnesBefore(<<1, 1>>, units, M)
    <3>1. OnesIn(units, M)
      BY <1>3, <2>1, <2>4 DEF OnesIn
    <3>. QED
      BY <1>3, <3>1 DEF OnesBefore
  <2>6. Ahead(pc, <<1, 1>>, units, M)
    BY <1>1, <2>5 DEF Ahead
  <2>7. Try(none, <<1, 1>>, <<1, 1>>)
    BY <1>3, <2>2
  <2>. QED
    BY <1>1, <2>3, <2>4, <2>6, <2>7, TryRound
<1>4. ASSUME Len(units) > 1, inner <= Len(units),
             LET chunk == Chunk(units, outer, inner) IN
             Try(Without(units, chunk), <<IF outer > 3 THEN outer - 1 ELSE 2, 1>>,
                 <<outer, inner + Cardinality(chunk)>>)
      PROVE  RoundInv'
  <2>1. PICK chunk : chunk = Chunk(units, outer, inner)
    OBVIOUS
  <2>2. PICK pieces : pieces = Without(units, chunk)
    OBVIOUS
  <2>3. PICK from : from = <<IF outer > 3 THEN outer - 1 ELSE 2, 1>>
    OBVIOUS
  <2>4. PICK otherwise : otherwise = <<outer, inner + Cardinality(chunk)>>
    OBVIOUS
  <2>5. Try(pieces, from, otherwise)
    BY <1>4, <2>1, <2>2, <2>3, <2>4
  <2>6. PICK M : M = Missed
    OBVIOUS
  <2>7. PICK n, k, us : n = outer /\ k = inner /\ us = units
    OBVIOUS
  <2>8. inner \in chunk
    <3>1. chunk = inner..(IF inner + (Len(units) + outer - 1) \div outer - 1 < Len(units)
                            THEN inner + (Len(units) + outer - 1) \div outer - 1 ELSE Len(units))
      BY <2>1 DEF Chunk
    <3>. DEFINE size == (Len(units) + outer - 1) \div outer
    <3>2. size \in Int /\ size >= 1
      <4>1. Len(units) >= 1
        BY <1>2, <1>4
      <4>2. PICK l : l = Len(units)
        OBVIOUS
      <4>. QED
        BY <1>2, <2>7, <4>1, <4>2, DivAtLeastOne
    <3>. HIDE DEF size
    <3>3. chunk = inner..(IF inner + size - 1 < Len(units) THEN inner + size - 1 ELSE Len(units))
      BY <3>1 DEF size
    <3>. QED
      BY <1>2, <1>4, <3>2, <3>3
  <2>9. /\ pieces \in Seq(Seq(Byte))
        /\ Shrunk(FlattenSeq(pieces), FlattenSeq(units))
        /\ Solid(units) => Len(FlattenSeq(pieces)) < Len(FlattenSeq(units))
    <3>1. Solid(units) => inner \in 1..Len(units) /\ inner \in chunk /\ units[inner] # <<>>
      BY <1>2, <1>4, <2>8 DEF Solid
    <3>. QED
      BY <1>2, <2>2, <3>1, WithoutOf
  <2>10. Settled(pc, cursor, units, Missed) => OnesBefore(<<n, k>>, us, M)
    BY <1>1, <1>2, <2>6, <2>7 DEF Settled, Ahead
  <2>11. OnesBefore(<<n, k>>, us, M) =>
           OnesBefore(<<n, k + Cardinality(chunk)>>, us, M \cup {FlattenSeq(Without(us, chunk))})
    BY <1>2, <1>4, <2>1, <2>7, OnesNext
  <2>12. Settled(pc, cursor, units, Missed) =>
           OnesBefore(otherwise, units, Missed \cup {FlattenSeq(pieces)})
    BY <2>2, <2>4, <2>6, <2>7, <2>10, <2>11
  <2>13. Settled(pc, cursor, units, Missed) =>
           Ahead(pc, otherwise, units, Missed \cup {FlattenSeq(pieces)})
    BY <1>1, <2>12 DEF Ahead
  <2>. QED
    BY <1>1, <2>5, <2>9, <2>13, TryRound
<1>5. ASSUME Len(units) > 1, cursor' = <<Finer(Len(units)), 1>>, Quiet, UNCHANGED <<pc, units>>
      PROVE  RoundInv'
  <2>1. UNCHANGED <<pc, units, before, capped, seen>> /\ UNCHANGED options
    BY <1>1, <1>5 DEF Quiet, Rest
  <2>2. Missed' = Missed
    BY <2>1 DEF Missed, options, Byte, Bytes, Suffix, Text
  <2>3. PICK M, at : M = Missed /\ at = <<Finer(Len(units)), 1>>
    OBVIOUS
  <2>4. OnesBefore(at, units, M)
    <3>1. at[2] = 1
      BY <2>3
    <3>. QED
      BY <1>5, <3>1 DEF OnesBefore
  <2>5. Settled(pc, cursor, units, M) => Settled(pc, at, units, M)
    BY <1>1, <2>4 DEF Settled, Ahead
  <2>6. cursor' = at /\ Missed' = M
    BY <1>5, <2>2, <2>3
  <2>. QED
    BY <1>1, <2>1, <2>3, <2>5, <2>6 DEF RoundInv
<1>. QED
  BY <1>3, <1>4, <1>5 DEF Ddmin

LEMMA BlocksRound ==
  ASSUME Inv, RoundInv, Blocks, Steady
  PROVE  RoundInv'
<1>1. pc = "blocks" /\ pc \in ReducePasses /\ Rest
  BY DEF Blocks, ReducePasses
<1>2. PICK b \in BlockFrom(units, outer) :
        IF inner = 1
          THEN Try(Without(units, b[1]..b[2]), <<b[1], 1>>, <<b[1], 2>>)
          ELSE Try(Without(units, {b[1], b[2]}), <<b[1], 1>>, <<b[1] + 1, 1>>)
  BY DEF Blocks
<1>3. /\ units \in Seq(Seq(Byte)) /\ b[1] \in 1..Len(units)
      /\ b[1] \in b[1]..b[2]
  <2>1. DOMAIN units = 1..Len(units) /\ Len(units) \in Nat /\ units \in Seq(Seq(Byte))
    BY UnitsOf
  <2>2. b \in (1..Len(units)) \X (1..Len(units)) /\ b[2] \in CloserOf(units, b[1])
    BY <1>2, <2>1 DEF BlockFrom
  <2>3. b[2] \in (b[1] + 1)..Len(units)
    BY <2>2 DEF CloserOf
  <2>. QED
    BY <2>1, <2>2, <2>3
<1>4. PICK omitted : omitted = IF inner = 1 THEN b[1]..b[2] ELSE {b[1], b[2]}
  OBVIOUS
<1>5. PICK pieces : pieces = Without(units, omitted)
  OBVIOUS
<1>6. PICK otherwise : otherwise = IF inner = 1 THEN <<b[1], 2>> ELSE <<b[1] + 1, 1>>
  OBVIOUS
<1>7. Try(pieces, <<b[1], 1>>, otherwise)
  BY <1>2, <1>4, <1>5, <1>6
<1>8. /\ pieces \in Seq(Seq(Byte))
      /\ Shrunk(FlattenSeq(pieces), FlattenSeq(units))
      /\ Solid(units) => Len(FlattenSeq(pieces)) < Len(FlattenSeq(units))
  <2>1. b[1] \in omitted
    BY <1>3, <1>4
  <2>2. Solid(units) => b[1] \in 1..Len(units) /\ b[1] \in omitted /\ units[b[1]] # <<>>
    BY <1>3, <2>1 DEF Solid
  <2>. QED
    BY <1>3, <1>5, <2>2, WithoutOf
<1>9. Ahead(pc, otherwise, units, Missed \cup {FlattenSeq(pieces)})
  BY <1>1 DEF Ahead
<1>10. PICK from : from = <<b[1], 1>>
  OBVIOUS
<1>. QED
  BY <1>1, <1>7, <1>8, <1>9, <1>10, TryRound

LEMMA PairsRound ==
  ASSUME Inv, RoundInv, Pairs, Steady
  PROVE  RoundInv'
<1>1. pc = "pairs" /\ pc \in ReducePasses /\ Rest
  BY DEF Pairs, ReducePasses
<1>2. /\ cursor = <<outer, inner>>
      /\ outer \in Nat /\ inner \in Nat /\ outer >= 1 /\ inner >= 1
      /\ units \in Seq(Seq(Byte)) /\ Len(units) \in Nat
  BY <1>1, CursorOf
<1>3. Len(units) <= MaxQuadraticUnits /\ inner <= Len(units)
  <2>1. ~(Len(units) > MaxQuadraticUnits \/ inner > Len(units))
    BY <1>1 DEF Pairs, PassOver
  <2>. QED
    BY <1>2, <2>1, ReduceAssumption
<1>4. PICK p, q, us, M : p = outer /\ q = inner /\ us = units /\ M = Missed
  OBVIOUS
<1>5. PICK pieces : pieces = Without(us, {p, q})
  OBVIOUS
<1>6. PICK otherwise :
        otherwise = IF q < Len(us) THEN <<p, q + 1>> ELSE <<p + 1, p + 2>>
  OBVIOUS
<1>7. Try(pieces, <<1, 2>>, otherwise)
  BY <1>4, <1>5, <1>6 DEF Pairs
<1>8. /\ pieces \in Seq(Seq(Byte))
      /\ Shrunk(FlattenSeq(pieces), FlattenSeq(units))
      /\ Solid(units) => Len(FlattenSeq(pieces)) < Len(FlattenSeq(units))
  <2>1. PICK omitted : omitted = {p, q}
    OBVIOUS
  <2>2. Solid(units) => q \in 1..Len(units) /\ q \in omitted /\ units[q] # <<>>
    BY <1>2, <1>3, <1>4, <2>1 DEF Solid
  <2>. QED
    BY <1>2, <1>4, <1>5, <2>1, <2>2, WithoutOf
<1>9. Settled(pc, cursor, units, Missed) => PairsBefore(<<p, q>>, us, M)
  BY <1>1, <1>2, <1>4 DEF Settled, Ahead
<1>10. PairsBefore(<<p, q>>, us, M) =>
         PairsBefore(otherwise, us, M \cup {FlattenSeq(pieces)})
  BY <1>2, <1>3, <1>4, <1>5, <1>6, PairsNext
<1>11. Settled(pc, cursor, units, Missed) =>
         Ahead(pc, otherwise, units, Missed \cup {FlattenSeq(pieces)})
  BY <1>1, <1>4, <1>9, <1>10 DEF Ahead
<1>12. PICK from : from = <<1, 2>>
  OBVIOUS
<1>. QED
  BY <1>1, <1>7, <1>8, <1>11, <1>12, TryRound

LEMMA WindowRound ==
  ASSUME Inv, RoundInv, Window, Steady
  PROVE  RoundInv'
<1>1. pc = "window" /\ pc \in ReducePasses /\ Rest
  BY DEF Window, ReducePasses
<1>2. /\ cursor = <<outer, inner>>
      /\ outer \in Nat /\ inner \in Nat /\ outer >= 1 /\ inner >= 1
      /\ units \in Seq(Seq(Byte)) /\ Len(units) \in Nat
  BY <1>1, CursorOf
<1>3. Len(units) <= MaxQuadraticUnits /\ outer < Len(units)
      /\ inner + outer - 1 <= Len(units)
  <2>1. ~(Len(units) > MaxQuadraticUnits \/ outer >= Len(units))
    BY <1>1 DEF Window, PassOver
  <2>2. outer >= Len(units) \/ inner + outer - 1 <= Len(units)
    BY <1>1 DEF Inv, PassInv
  <2>. QED
    BY <1>2, <2>1, <2>2, ReduceAssumption
<1>4. PICK n, s, us, M : n = outer /\ s = inner /\ us = units /\ M = Missed
  OBVIOUS
<1>5. PICK pieces : pieces = SubSeq(us, s, s + n - 1)
  OBVIOUS
<1>6. PICK otherwise :
        otherwise = IF s + n <= Len(us) THEN <<n, s + 1>> ELSE <<n + 1, 1>>
  OBVIOUS
<1>7. Try(pieces, <<n, 1>>, otherwise)
  BY <1>4, <1>5, <1>6 DEF Window
<1>8. /\ pieces \in Seq(Seq(Byte))
      /\ Shrunk(FlattenSeq(pieces), FlattenSeq(units))
      /\ Solid(units) => Len(FlattenSeq(pieces)) < Len(FlattenSeq(units))
  <2>1. PICK last : last = s + n - 1
    OBVIOUS
  <2>2. s \in 1..Len(us) /\ last \in 0..Len(us)
    BY <1>2, <1>3, <1>4, <2>1
  <2>3. PICK k : k = IF s > 1 THEN 1 ELSE Len(us)
    OBVIOUS
  <2>4. k \in 1..Len(us) /\ k \notin s..last
    BY <1>2, <1>3, <1>4, <2>1, <2>3
  <2>5. Solid(us) => k \in 1..Len(us) /\ k \notin s..last /\ us[k] # <<>>
    BY <2>4 DEF Solid
  <2>6. us \in Seq(Seq(Byte)) /\ pieces = SubSeq(us, s, last)
    BY <1>2, <1>4, <1>5, <2>1
  <2>7. /\ SubSeq(us, s, last) \in Seq(Seq(Byte))
        /\ Shrunk(FlattenSeq(SubSeq(us, s, last)), FlattenSeq(us))
        /\ Solid(us) => Len(FlattenSeq(SubSeq(us, s, last))) < Len(FlattenSeq(us))
    BY <2>2, <2>5, <2>6, RunOf
  <2>. QED
    BY <1>4, <2>6, <2>7
<1>9. Settled(pc, cursor, units, Missed) => RunsBefore(<<n, s>>, us, M)
  BY <1>1, <1>2, <1>4 DEF Settled, Ahead
<1>10. RunsBefore(<<n, s>>, us, M) =>
         RunsBefore(otherwise, us, M \cup {FlattenSeq(pieces)})
  BY <1>2, <1>3, <1>4, <1>5, <1>6, RunsNext
<1>11. Settled(pc, cursor, units, Missed) =>
         Ahead(pc, otherwise, units, Missed \cup {FlattenSeq(pieces)})
  BY <1>1, <1>4, <1>9, <1>10 DEF Ahead
<1>12. PICK from : from = <<n, 1>>
  OBVIOUS
<1>. QED
  BY <1>1, <1>7, <1>8, <1>11, <1>12, TryRound

LEMMA ShortenRound ==
  ASSUME Inv, RoundInv, Shorten, Steady
  PROVE  RoundInv'
<1>1. pc = "shorten" /\ pc \in ReducePasses /\ Rest
  BY DEF Shorten, ReducePasses
<1>2. PICK k \in LongWordFrom(units, outer) :
        Try([units EXCEPT ![k] = Shortened(@)], <<k + 1, 1>>, <<k + 1, 1>>)
  BY DEF Shorten
<1>3. /\ cursor = <<outer, inner>>
      /\ outer \in Nat /\ inner \in Nat /\ outer >= 1 /\ inner >= 1
      /\ units \in Seq(Seq(Byte)) /\ Len(units) \in Nat
  BY <1>1, CursorOf
<1>4. k \in 1..Len(units) /\ IsLongWord(units[k])
  <2>1. k \in outer..Len(units) /\ IsLongWord(units[k])
    BY <1>2 DEF LongWordFrom
  <2>. QED
    BY <1>3, <2>1
<1>5. PICK n, i, us, M : n = outer /\ i = inner /\ us = units /\ M = Missed
  OBVIOUS
<1>6. PICK word : word = Shortened(us[k])
  OBVIOUS
<1>7. PICK pieces : pieces = [us EXCEPT ![k] = word]
  OBVIOUS
<1>8. pieces = ShortenedAt(us, k)
  BY <1>6, <1>7 DEF ShortenedAt
<1>9. Try(pieces, <<k + 1, 1>>, <<k + 1, 1>>)
  BY <1>2, <1>5, <1>6, <1>7
<1>10. us[k] \in Seq(Byte)
  BY <1>4, <1>5, UnitsOf
<1>11. word \in Seq(Byte) /\ Shrunk(word, us[k]) /\ Len(word) < Len(us[k])
  BY <1>4, <1>5, <1>6, <1>10, ShortenedOf DEF Byte
<1>12. /\ pieces \in Seq(Seq(Byte))
       /\ Shrunk(FlattenSeq(pieces), FlattenSeq(us))
       /\ Len(FlattenSeq(pieces)) < Len(FlattenSeq(us))
  BY <1>3, <1>4, <1>5, <1>7, <1>11, ReplaceOf
<1>13. Settled(pc, cursor, units, Missed) => WordsBefore(<<n, i>>, us, M)
  BY <1>1, <1>3, <1>5 DEF Settled, Ahead
<1>14. WordsBefore(<<n, i>>, us, M) =>
         WordsBefore(<<k + 1, 1>>, us, M \cup {FlattenSeq(ShortenedAt(us, k))})
  BY <1>2, <1>3, <1>5, WordsNext
<1>15. PICK at : at = <<k + 1, 1>>
  OBVIOUS
<1>16. Settled(pc, cursor, units, Missed) =>
         Ahead(pc, at, units, Missed \cup {FlattenSeq(pieces)})
  BY <1>1, <1>5, <1>8, <1>13, <1>14, <1>15 DEF Ahead
<1>. QED
  BY <1>1, <1>5, <1>9, <1>12, <1>15, <1>16, TryRound

LEMMA TrimRound ==
  ASSUME Inv, RoundInv, TrimBlanks, Steady
  PROVE  RoundInv'
<1>1. pc = "trim" /\ pc \in ReducePasses /\ Rest
  BY DEF TrimBlanks, ReducePasses
<1>2. PICK pieces : pieces = Trimmed(units)
  OBVIOUS
<1>3. PICK at : at = <<2, 1>>
  OBVIOUS
<1>4. Try(pieces, at, at)
  BY <1>2, <1>3 DEF TrimBlanks
<1>5. pieces # units
  BY <1>1, <1>2 DEF TrimBlanks, PassOver
<1>6. /\ pieces \in Seq(Seq(Byte))
      /\ Shrunk(FlattenSeq(pieces), FlattenSeq(units))
      /\ Len(FlattenSeq(pieces)) < Len(FlattenSeq(units))
  BY <1>2, <1>5, UnitsOf, TrimmedOf
<1>7. Ahead(pc, at, units, Missed \cup {FlattenSeq(pieces)})
  BY <1>1 DEF Ahead
<1>. QED
  BY <1>1, <1>4, <1>6, <1>7, TryRound

\* A pass that is over has tried everything it tries.
LEMMA PassDone ==
  ASSUME Inv, pc \in ReducePasses, PassOver, NEW M, Ahead(pc, cursor, units, M)
  PROVE  /\ pc \in {"lines", "tokens"} => OnesIn(units, M)
         /\ pc = "pairs" => PairsIn(units, M)
         /\ pc = "window" => RunsIn(units, M)
         /\ pc = "shorten" => WordsIn(units, M)
<1>1. PICK us, len, n, k : us = units /\ len = Len(units) /\ n = outer /\ k = inner
  OBVIOUS
<1>2. PICK at : at = cursor
  OBVIOUS
<1>3. /\ at[1] = n /\ at[2] = k /\ len = Len(us)
      /\ n \in Nat /\ k \in Nat /\ n >= 1 /\ k >= 1 /\ len \in Nat /\ MaxQuadraticUnits \in Nat
  BY <1>1, <1>2, CursorOf, ReduceAssumption DEF outer, inner
<1>4. ASSUME pc \in {"lines", "tokens"} PROVE OnesIn(us, M)
  <2>1. OnesBefore(at, us, M)
    BY <1>1, <1>2, <1>4 DEF Ahead
  <2>2. len = 0 \/ (len = 1 /\ n = 1) \/ (len > 1 /\ k > len /\ n >= len)
    BY <1>1, <1>4 DEF PassOver, Halve
  <2>3. CASE len = 0
    BY <1>3, <2>3 DEF OnesIn
  <2>4. CASE len = 1 /\ n = 1
    BY <1>3, <2>1, <2>4 DEF OnesBefore
  <2>5. CASE len > 1 /\ k > len /\ n >= len
    <3>1. \A j \in 1..len : j < k
      BY <1>3, <2>5
    <3>. QED
      BY <1>3, <2>1, <2>5, <3>1 DEF OnesBefore, OnesIn
  <2>. QED
    BY <2>2, <2>3, <2>4, <2>5
<1>5. ASSUME pc = "pairs" PROVE PairsIn(us, M)
  <2>1. PairsBefore(at, us, M)
    BY <1>1, <1>2, <1>5 DEF Ahead
  <2>2. len > MaxQuadraticUnits \/ k > len
    BY <1>1, <1>5 DEF PassOver
  <2>3. CASE len > MaxQuadraticUnits
    BY <1>3, <2>3 DEF PairsIn
  <2>4. CASE ~(len > MaxQuadraticUnits)
    <3>1. len <= MaxQuadraticUnits /\ k > len
      BY <1>3, <2>2, <2>4
    <3>2. k = n + 1 \/ k <= len
      BY <1>3, <2>1, <3>1 DEF PairsBefore
    <3>3. \A j, d \in 1..len : j < d => j < n
      BY <1>3, <3>1, <3>2
    <3>. QED
      BY <1>3, <2>1, <3>1, <3>3 DEF PairsBefore, PairsIn
  <2>. QED
    BY <2>3, <2>4
<1>6. ASSUME pc = "window" PROVE RunsIn(us, M)
  <2>1. RunsBefore(at, us, M)
    BY <1>1, <1>2, <1>6 DEF Ahead
  <2>2. len > MaxQuadraticUnits \/ n >= len
    BY <1>1, <1>6 DEF PassOver
  <2>3. CASE len > MaxQuadraticUnits
    BY <1>3, <2>3 DEF RunsIn
  <2>4. CASE ~(len > MaxQuadraticUnits)
    <3>1. len <= MaxQuadraticUnits /\ n >= len
      BY <1>3, <2>2, <2>4
    <3>2. \A a, b \in 1..len : b - a + 1 < len => b - a + 1 < n
      BY <1>3, <3>1
    <3>. QED
      BY <1>3, <2>1, <3>1, <3>2 DEF RunsBefore, RunsIn
  <2>. QED
    BY <2>3, <2>4
<1>7. ASSUME pc = "shorten" PROVE WordsIn(us, M)
  <2>1. WordsBefore(at, us, M)
    BY <1>1, <1>2, <1>7 DEF Ahead
  <2>2. LongWordFrom(us, n) = {}
    BY <1>1, <1>7 DEF PassOver
  <2>3. ASSUME NEW d \in n..len, IsLongWord(us[d]) PROVE FALSE
    <3>. DEFINE long == {j \in n..len : IsLongWord(us[j])}
    <3>1. long \subseteq Nat /\ long # {}
      BY <1>3, <2>3
    <3>2. PICK j \in long : \A i \in long : j <= i
      <4>. HIDE DEF long
      <4>. QED
        BY <3>1, LeastOf
    <3>3. \A i \in n..(j - 1) : ~IsLongWord(us[i])
      <4>. SUFFICES ASSUME NEW i \in n..(j - 1), IsLongWord(us[i]) PROVE FALSE
        OBVIOUS
      <4>1. i \in n..len /\ i < j
        BY <1>3, <3>2
      <4>2. i \in long
        BY <4>1
      <4>. QED
        BY <1>3, <3>2, <4>1, <4>2
    <3>4. j \in LongWordFrom(us, n)
      BY <1>3, <3>2, <3>3 DEF LongWordFrom
    <3>. QED
      BY <2>2, <3>4
  <2>4. \A d \in 1..len : IsLongWord(us[d]) => d < n
    BY <1>3, <2>3
  <2>. QED
    BY <1>3, <2>1, <2>4 DEF WordsBefore, WordsIn
<1>. QED
  BY <1>1, <1>4, <1>5, <1>6, <1>7

\* A pass that begins has tried nothing.
LEMMA EnterSettled ==
  ASSUME NEW pass \in ReducePasses, NEW text, text \in Seq(Byte), Enter(pass, text),
         NEW M, Past(pass, text, M), NEW at, NEW us, at = cursor', us = units'
  PROVE  Settled(pass, at, us, M)
<1>1. us = PiecesOf(pass, text)
  BY DEF Enter, PiecesOf
<1>2. FlattenSeq(us) = text /\ Len(us) \in Nat
  <2>1. us \in Seq(Seq(Byte)) /\ FlattenSeq(us) = text
    BY <1>1, LinesOf, TokensOf DEF PiecesOf
  <2>. QED
    BY <2>1, LenProperties
<1>3. /\ pass \in {"lines", "tokens"} => at[1] = 2 /\ at[2] = 1
      /\ pass = "pairs" => at[1] = 1 /\ at[2] = 2
      /\ pass \in {"window", "shorten"} => at[1] = 1 /\ at[2] = 1
  BY DEF Enter
<1>4. pass \in {"lines", "tokens"} => OnesBefore(at, us, M)
  BY <1>2, <1>3 DEF OnesBefore
<1>5. pass = "pairs" => PairsBefore(at, us, M)
  BY <1>2, <1>3 DEF PairsBefore
<1>6. pass = "window" => RunsBefore(at, us, M)
  BY <1>2, <1>3 DEF RunsBefore
<1>7. pass = "shorten" => WordsBefore(at, us, M)
  BY <1>2, <1>3 DEF WordsBefore
<1>. QED
  BY <1>1, <1>2, <1>4, <1>5, <1>6, <1>7 DEF Settled, Ahead

\* Characters are as many as the bytes.
LEMMA CharsOf ==
  ASSUME NEW S, NEW t \in Seq(S)
  PROVE  Len(Chars(t)) = Len(t)
<1>1. Len(t) \in Nat /\ DOMAIN t = 1..Len(t)
  BY LenProperties
<1>2. Chars(t) = [k \in 1..Len(t) |-> t[k].c]
  BY <1>1 DEF Chars
<1>. DEFINE C == {t[k].c : k \in 1..Len(t)}
<1>3. Chars(t) \in [1..Len(t) -> C]
  BY <1>2
<1>. HIDE DEF C
<1>. QED
  BY <1>1, <1>3

\* The next pass knows what this one has tried, and the last one everything.
LEMMA NextPassRound ==
  ASSUME Inv, RoundInv, NextPass, Steady
  PROVE  RoundInv' /\ MinimalInv'
<1>1. pc \in ReducePasses /\ PassOver /\ Quiet /\ UNCHANGED options
  BY DEF NextPass, PassOver, ReducePasses, Inv, PassInv
<1>2. PICK text, M : text = FlattenSeq(units) /\ M = Missed
  OBVIOUS
<1>3. text \in Seq(Byte) /\ Len(text) \in Nat
  BY <1>2, UnitsOf, FlattenSeqOf, LenProperties
<1>4. Missed' = M /\ capped' = capped /\ oracleErr' = oracleErr
  BY <1>1, <1>2 DEF Quiet, Missed, options, Byte, Bytes, Suffix, Text
<1>5. /\ Len(before) \in Nat /\ Len(text) <= Len(before)
      /\ ~capped /\ Len(text) = Len(before) => Settled(pc, cursor, units, M)
  BY <1>1, <1>2 DEF RoundInv
<1>6. ASSUME Settled(pc, cursor, units, M)
      PROVE  /\ pc \in {"lines", "tokens"} => OnesIn(PiecesOf(pc, text), M)
             /\ pc = "pairs" => PairsIn(Tokens(text), M)
             /\ pc = "window" => RunsIn(Tokens(text), M)
             /\ pc = "shorten" => WordsIn(Tokens(text), M)
             /\ Past(pc, text, M)
  <2>1. units = PiecesOf(pc, text) /\ Past(pc, text, M) /\ Ahead(pc, cursor, units, M)
    BY <1>2, <1>6 DEF Settled
  <2>2. /\ pc \in {"lines", "tokens"} => OnesIn(units, M)
        /\ pc = "pairs" => PairsIn(units, M)
        /\ pc = "window" => RunsIn(units, M)
        /\ pc = "shorten" => WordsIn(units, M)
    BY <1>1, <2>1, PassDone
  <2>. QED
    BY <2>1, <2>2 DEF PiecesOf
<1>7. CASE pc # "trim" /\ before' = before
           /\ \E k \in 1..6 : pc = Passes[k] /\ Enter(Passes[k + 1], text)
  <2>1. PICK pass : /\ Enter(pass, text)
                    /\ <<pc, pass>> \in {<<"lines", "blocks">>, <<"blocks", "tokens">>,
                         <<"tokens", "pairs">>, <<"pairs", "window">>, <<"window", "shorten">>,
                         <<"shorten", "trim">>}
    <3>1. PICK k \in 1..6 : pc = Passes[k] /\ Enter(Passes[k + 1], text)
      BY <1>7
    <3>2. k \in {1, 2, 3, 4, 5, 6}
      BY <3>1
    <3>3. <<Passes[k], Passes[k + 1]>> \in {<<"lines", "blocks">>, <<"blocks", "tokens">>,
             <<"tokens", "pairs">>, <<"pairs", "window">>, <<"window", "shorten">>,
             <<"shorten", "trim">>}
      BY <3>2 DEF Passes
    <3>. QED
      BY <3>1, <3>3
  <2>2. pass \in ReducePasses /\ pass # "lines"
    BY <2>1 DEF ReducePasses
  <2>3. pc' = pass /\ FlattenSeq(units') = text
    BY <1>3, <2>1, <2>2, EnterOf
  <2>4. ASSUME Settled(pc, cursor, units, M) PROVE Past(pass, text, M)
    <3>. DEFINE ts == Tokens(text)
                ls == Lines(text)
    <3>1. /\ pc = "lines" => OnesIn(ls, M)
          /\ pc = "tokens" => OnesIn(ts, M)
          /\ pc = "pairs" => PairsIn(ts, M)
          /\ pc = "window" => RunsIn(ts, M)
          /\ pc = "shorten" => WordsIn(ts, M)
      BY <1>6, <2>4 DEF PiecesOf
    <3>2. /\ pc # "lines" => OnesIn(ls, M)
          /\ pc \in {"pairs", "window", "shorten", "trim"} => OnesIn(ts, M)
          /\ pc \in {"window", "shorten", "trim"} => PairsIn(ts, M)
          /\ pc \in {"shorten", "trim"} => RunsIn(ts, M)
      BY <1>6, <2>4 DEF Past
    <3>3. /\ pass # "lines" => OnesIn(ls, M)
          /\ pass \in {"pairs", "window", "shorten", "trim"} => OnesIn(ts, M)
          /\ pass \in {"window", "shorten", "trim"} => PairsIn(ts, M)
          /\ pass \in {"shorten", "trim"} => RunsIn(ts, M)
          /\ pass = "trim" => WordsIn(ts, M)
      <4>. HIDE DEF ts, ls
      <4>. QED
        BY <2>1, <3>1, <3>2
    <3>. QED
      BY <3>3 DEF Past
  <2>5. PICK at, us : at = cursor' /\ us = units'
    OBVIOUS
  <2>6. Settled(pc, cursor, units, M) => Settled(pass, at, us, M)
    BY <1>3, <2>1, <2>2, <2>4, <2>5, EnterSettled
  <2>7. RoundInv'
    BY <1>4, <1>5, <1>7, <2>3, <2>5, <2>6 DEF RoundInv
  <2>8. pc' # "write"
    BY <2>2, <2>3 DEF ReducePasses
  <2>. QED
    BY <2>7, <2>8 DEF MinimalInv
<1>8. CASE pc = "trim" /\ (Chars(text) = before \/ capped) /\ pc' = "write" /\ units' = units
  <2>1. RoundInv'
    BY <1>8 DEF RoundInv, ReducePasses
  <2>2. ASSUME ~capped PROVE Minimal(text, M)
    <3>1. Len(text) = Len(before)
      BY <1>3, <1>8, <2>2, CharsOf
    <3>2. Past("trim", text, M)
      BY <1>5, <1>6, <1>8, <2>2, <3>1
    <3>. QED
      BY <3>2 DEF Past, Minimal
  <2>3. MinimalInv'
    BY <1>2, <1>4, <1>8, <2>2 DEF MinimalInv
  <2>. QED
    BY <2>1, <2>3
<1>9. CASE pc = "trim" /\ Enter("lines", text) /\ before' = Chars(text)
  <2>1. "lines" \in ReducePasses /\ Past("lines", text, M)
    BY DEF ReducePasses, Past
  <2>2. pc' = "lines" /\ FlattenSeq(units') = text
    BY <1>3, <1>9, <2>1, EnterOf
  <2>3. PICK at, us : at = cursor' /\ us = units'
    OBVIOUS
  <2>4. Settled("lines", at, us, M)
    BY <1>3, <1>9, <2>1, <2>3, EnterSettled
  <2>5. Len(before') = Len(text)
    BY <1>3, <1>9, CharsOf
  <2>. QED
    BY <1>3, <1>4, <2>2, <2>3, <2>4, <2>5 DEF RoundInv, MinimalInv
<1>. QED
  BY <1>2, <1>7, <1>8, <1>9 DEF NextPass

\* With nothing in the cache, the original can only fail to hold because an
\* oracle failed.
LEMMA StartFails ==
  ASSUME Inv, pc = "start", Test(Text, FALSE)
  PROVE  oracleErr'
<1>1. src \in Seq(STRING) /\ limit \in Nat /\ limit > 0
  BY UnitsOf, ReduceAssumption DEF Inv, CommandInv
<1>2. Cache /\ DOMAIN seen = {} /\ Sought
  BY DEF Inv, CacheInv, WantInv
<1>3. Tests = 0
  BY <1>2, FS_EmptySet DEF Tests
<1>4. PICK text : text = Text
  OBVIOUS
<1>5. Judged(text, FALSE)
  <2>1. ~Spent
    BY <1>1, <1>3 DEF Spent
  <2>. QED
    BY <1>2, <1>4, <2>1 DEF Test
<1>6. Judgements(text) = {want}
  <2>1. want # Nothing
    BY <1>2 DEF Sought, Nothing
  <2>. QED
    BY <1>4, <2>1, Zenon DEF Judgements
<1>7. Holds(want, text)
  BY <1>1, <1>2, <1>4, OriginalHolds
<1>. QED
  BY <1>5, <1>6, <1>7 DEF Judged

\* The first round begins with the original, which holds.
LEMMA StartRound ==
  ASSUME Inv, Start, Inv', Steady
  PROVE  RoundInv' /\ MinimalInv'
<1>1. pc = "start" /\ UNCHANGED options
  BY DEF Start
<1>2. src \in Seq(STRING)
  BY UnitsOf
<1>3. PICK body, text : body = Body /\ text = Text
  OBVIOUS
<1>4. body \in Seq(Byte) /\ Len(body) \in Nat
  BY <1>2, <1>3, TextOf, LenProperties
<1>5. CASE Enter("lines", body) /\ before' = Chars(body)
  <2>1. PICK M, at, us : M = Missed' /\ at = cursor' /\ us = units'
    OBVIOUS
  <2>2. "lines" \in ReducePasses /\ Past("lines", body, M)
    BY DEF ReducePasses, Past
  <2>3. pc' = "lines" /\ FlattenSeq(units') = body
    BY <1>4, <1>5, <2>2, EnterOf
  <2>4. Settled("lines", at, us, M)
    BY <1>4, <1>5, <2>1, <2>2, EnterSettled
  <2>5. Len(before') = Len(body)
    BY <1>4, <1>5, CharsOf
  <2>. QED
    BY <1>4, <2>1, <2>3, <2>4, <2>5 DEF RoundInv, MinimalInv
<1>6. CASE Test(text, FALSE) /\ pc' = "write"
  <2>1. oracleErr'
    BY <1>1, <1>2, <1>3, <1>6, StartFails
  <2>. QED
    BY <1>6, <2>1 DEF RoundInv, MinimalInv, ReducePasses
<1>. QED
  BY <1>3, <1>5, <1>6 DEF Start

\* What is written was reduced to a minimum.
LEMMA WriteRound ==
  ASSUME Inv, MinimalInv, Write, Steady
  PROVE  RoundInv' /\ MinimalInv' /\ WrittenInv'
<1>1. /\ pc = "write" /\ pc' = "done" /\ Quiet /\ UNCHANGED options
      /\ exit' = 0 => ~oracleErr /\ out' = Candidate(units)
  BY DEF Write, Exit
<1>2. PICK body, M : body = FlattenSeq(units) /\ M = Missed
  OBVIOUS
<1>3. body \in Seq(Byte)
  BY <1>2, UnitsOf, FlattenSeqOf
<1>4. Missed' = M /\ Suffix' = Suffix /\ Byte' = Byte /\ capped' = capped
  BY <1>1, <1>2 DEF Quiet, Missed, options, Byte, Bytes, Suffix, Text
<1>5. ~capped /\ ~oracleErr => Minimal(body, M)
  BY <1>1, <1>2 DEF MinimalInv
<1>6. Candidate(units) = body \o Suffix
  BY <1>2 DEF Candidate
<1>7. ASSUME exit' = 0, ~capped' PROVE out' = body \o Suffix' /\ Minimal(body, M)
  BY <1>1, <1>4, <1>5, <1>6, <1>7
<1>8. WrittenInv'
  BY <1>3, <1>4, <1>7 DEF WrittenInv
<1>. QED
  BY <1>1, <1>8 DEF RoundInv, MinimalInv, ReducePasses

\* A round that goes on, the text it ends with and the text that is written.
RoundsInv == RoundInv /\ MinimalInv /\ WrittenInv

LEMMA RoundsStep ==
  ASSUME Inv, Inv', RoundsInv, [SurveyNext]_surveyVars
  PROVE  RoundsInv'
<1>1. ASSUME mode = "reduce", ReduceNext, Steady PROVE RoundsInv'
  <2>1. ASSUME pc' \in ReducePasses, RoundInv' PROVE RoundsInv'
    <3>1. exit' # 0 /\ pc' # "write"
      BY <1>1, <2>1 DEF Inv, ExitInv, Steady, Running, ReducePasses
    <3>. QED
      BY <2>1, <3>1 DEF RoundsInv, MinimalInv, WrittenInv
  <2>2. ASSUME RoundInv', MinimalInv', pc' # "done" PROVE RoundsInv'
    <3>1. exit' # 0
      BY <1>1, <2>2 DEF Inv, ExitInv, Steady, Running
    <3>. QED
      BY <2>2, <3>1 DEF RoundsInv, WrittenInv
  <2>3. CASE Open \/ JudgeOriginal
    <3>1. pc' \in {"judge", "start", "done"} /\ exit' \in {1, 2, exit} /\ exit = Running
      <4>1. pc \in {"open", "judge"} /\ mode # "over"
        BY <1>1, <2>3 DEF Open, JudgeOriginal
      <4>2. exit = Running
        BY <4>1 DEF Inv, ExitInv
      <4>3. CASE Open
        BY <4>2, <4>3 DEF Open, Exit
      <4>4. CASE JudgeOriginal
        <5>1. CASE \E j \in Judgements(Text) :
                     /\ IF j.class = "AGREE" \/ ~Fixes(j) THEN Exit(1)
                        ELSE pc' = "start" /\ UNCHANGED exit
                     /\ want' = j
                     /\ UNCHANGED oracleErr
          BY <4>2, <5>1 DEF Exit
        <5>2. CASE Exit(2)
          BY <4>2, <5>2 DEF Exit
        <5>. QED
          BY <4>4, <5>1, <5>2 DEF JudgeOriginal
      <4>. QED
        BY <2>3, <4>3, <4>4
    <3>2. exit' # 0
      BY <3>1 DEF Running
    <3>. QED
      BY <3>1, <3>2 DEF RoundsInv, RoundInv, MinimalInv, WrittenInv, ReducePasses
  <2>4. CASE Start
    <3>1. RoundInv' /\ MinimalInv'
      BY <1>1, <2>4, StartRound
    <3>2. pc' # "done"
      BY <2>4 DEF Start, Enter
    <3>. QED
      BY <2>2, <3>1, <3>2
  <2>5. CASE Ddmin \/ Blocks \/ Pairs \/ Window \/ Shorten \/ TrimBlanks
    <3>1. RoundInv'
      BY <1>1, <2>5, DdminRound, BlocksRound, PairsRound, WindowRound, ShortenRound, TrimRound
         DEF RoundsInv
    <3>2. pc \in ReducePasses /\ pc' = pc
      BY <2>5 DEF Ddmin, Blocks, Pairs, Window, Shorten, TrimBlanks, Try, Quiet, ReducePasses
    <3>. QED
      BY <2>1, <3>1, <3>2
  <2>6. CASE NextPass
    <3>1. RoundInv' /\ MinimalInv'
      BY <1>1, <2>6, NextPassRound DEF RoundsInv
    <3>2. exit' = exit /\ exit # 0
      BY <1>1, <2>6 DEF NextPass, PassOver, Inv, ExitInv, Running
    <3>. QED
      BY <3>1, <3>2 DEF RoundsInv, WrittenInv
  <2>7. CASE Write
    BY <1>1, <2>7, WriteRound DEF RoundsInv
  <2>. QED
    BY <1>1, <2>3, <2>4, <2>5, <2>6, <2>7 DEF ReduceNext
<1>2. ASSUME mode # "reduce", pc' = pc, mode' = "reduce" => exit' = Running PROVE RoundsInv'
  <2>1. pc' = "open"
    BY <1>2 DEF Inv, ExitInv
  <2>. QED
    BY <1>2, <2>1 DEF RoundsInv, RoundInv, MinimalInv, WrittenInv, Running, ReducePasses
<1>3. CASE ReduceStep
  BY <1>1, <1>3 DEF ReduceStep, Steady, ReduceNext, Open, JudgeOriginal, Start, Ddmin, Blocks,
     Pairs, Window, Shorten, TrimBlanks, NextPass, Write, Rest
<1>4. CASE Main
  <2>1. mode = "flags" /\ pc' = pc /\ exit = Running
    BY <1>4 DEF Main, Frame, Inv, ExitInv
  <2>2. mode' = "reduce" => exit' = Running
    BY <1>4, <2>1 DEF Main, Leave
  <2>. QED
    BY <1>2, <2>1, <2>2
<1>5. CASE Survey \/ Surveyed \/ Judge \/ JudgedAll \/ Compare \/ Compared
  <2>1. mode # "reduce" /\ pc' = pc /\ mode' # "reduce"
    BY <1>5 DEF Survey, Surveyed, Judge, JudgedAll, Compare, Compared, Frame, Leave, Stay
  <2>. QED
    BY <1>2, <2>1
<1>6. CASE UNCHANGED surveyVars
  <2>1. /\ UNCHANGED <<pc, units, cursor, before, seen, capped, oracleErr, out, exit, mode>>
        /\ UNCHANGED options
    BY <1>6 DEF surveyVars, vars
  <2>2. Missed' = Missed /\ Suffix' = Suffix /\ Byte' = Byte
    BY <2>1 DEF Missed, options, Byte, Bytes, Suffix, Text
  <2>. QED
    BY <2>1, <2>2 DEF RoundsInv, RoundInv, MinimalInv, WrittenInv
<1>. QED
  BY <1>3, <1>4, <1>5, <1>6 DEF SurveyNext, Ended

LEMMA RoundsInit == SurveyInit => RoundsInv
BY DEF SurveyInit, Init, RoundsInv, RoundInv, MinimalInv, WrittenInv, ReducePasses

\* A text is found again in front of what was added to it.
LEMMA FrontOf ==
  ASSUME NEW S, NEW s \in Seq(S), NEW t \in Seq(S), NEW st, st = s \o t
  PROVE  SubSeq(st, 1, Len(st) - Len(t)) = s
<1>1. /\ Len(st) = Len(s) + Len(t) /\ Len(s) \in Nat /\ Len(t) \in Nat
      /\ \A k \in 1..Len(s) : st[k] = s[k] /\ s[k] \in S
  BY ConcatProperties, LenProperties, ElementOfSeq
<1>2. Len(st) - Len(t) = Len(s)
  BY <1>1
<1>. DEFINE front == SubSeq(st, 1, Len(s))
<1>3. /\ front \in Seq(S) /\ Len(front) = Len(s)
      /\ \A k \in 1..Len(s) : front[k] = st[k]
  <2>1. \A k \in 1..Len(s) : st[k] \in S
    BY <1>1
  <2>2. 1 \in Int /\ Len(s) \in Int
    BY <1>1
  <2>3. /\ front \in Seq(S)
        /\ Len(front) = IF 1 <= Len(s) THEN Len(s) - 1 + 1 ELSE 0
        /\ \A k \in 1..(Len(s) - 1 + 1) : front[k] = st[1 + k - 1]
    BY <2>1, <2>2, SubSeqProperties
  <2>. HIDE DEF front
  <2>4. Len(front) = Len(s)
    BY <1>1, <2>3
  <2>5. ASSUME NEW k \in 1..Len(s) PROVE front[k] = st[k]
    <3>1. k \in 1..(Len(s) - 1 + 1) /\ 1 + k - 1 = k
      BY <1>1
    <3>. QED
      BY <2>3, <3>1
  <2>. QED
    BY <2>3, <2>4, <2>5
<1>. HIDE DEF front
<1>4. front = s
  BY <1>1, <1>3, SeqEqual
<1>. QED
  BY <1>2, <1>4 DEF front

\* The minimum that is written, in the words of the property.
LEMMA MinimalOf ==
  ASSUME src \in Seq(STRING), NEW body, body \in Seq(Byte), Minimal(body, Missed),
         NEW u \in Neighbours(body)
  PROVE  LET c == Candidate(u) IN
           c = body \o Suffix \/ (c \in DOMAIN seen /\ ~seen[c])
<1>. DEFINE Passed(us) == \/ FlattenSeq(us) = body
                          \/ FlattenSeq(us) \in Missed
<1>1. PICK ts, ls : ts = Tokens(body) /\ ls = Lines(body)
  OBVIOUS
<1>2. /\ ts \in Seq(Seq(Byte)) /\ FlattenSeq(ts) = body
      /\ ls \in Seq(Seq(Byte))
      /\ DOMAIN ts = 1..Len(ts) /\ DOMAIN ls = 1..Len(ls)
      /\ Len(ts) \in Nat /\ Len(ls) \in Nat
  BY <1>1, TokensOf, LinesOf, LenProperties
<1>3. /\ OnesIn(ts, Missed) /\ OnesIn(ls, Missed) /\ PairsIn(ts, Missed)
      /\ RunsIn(ts, Missed) /\ WordsIn(ts, Missed)
  BY <1>1 DEF Minimal
<1>4. ASSUME NEW k \in 1..Len(ts), u = Without(ts, {k}) PROVE Passed(u)
  BY <1>3, <1>4 DEF OnesIn
<1>5. ASSUME NEW k \in 1..Len(ls), u = Without(ls, {k}) PROVE Passed(u)
  BY <1>3, <1>5 DEF OnesIn
<1>6. ASSUME NEW k \in 1..Len(ts), IsLongWord(ts[k]), u = [ts EXCEPT ![k] = Shortened(@)]
      PROVE  Passed(u)
  BY <1>3, <1>6 DEF WordsIn, ShortenedAt
<1>7. ASSUME ~(Len(ts) > MaxQuadraticUnits), NEW j \in 1..Len(ts), NEW k \in 1..Len(ts),
             u = Without(ts, {j, k})
      PROVE  Passed(u)
  <2>1. CASE j = k
    <3>1. {j, k} = {k}
      BY <2>1
    <3>. QED
      BY <1>4, <1>7, <3>1
  <2>2. CASE j < k
    BY <1>3, <1>7, <2>2 DEF PairsIn
  <2>3. CASE k < j
    <3>1. {j, k} = {k, j}
      OBVIOUS
    <3>. QED
      BY <1>3, <1>7, <2>3, <3>1 DEF PairsIn
  <2>. QED
    BY <2>1, <2>2, <2>3
<1>8. ASSUME ~(Len(ts) > MaxQuadraticUnits), NEW a \in 1..Len(ts), NEW b \in 1..Len(ts),
             a <= b, u = SubSeq(ts, a, b)
      PROVE  Passed(u)
  <2>1. CASE b - a + 1 < Len(ts)
    BY <1>3, <1>8, <2>1 DEF RunsIn
  <2>2. CASE ~(b - a + 1 < Len(ts))
    <3>1. a = 1 /\ b = Len(ts)
      <4>1. PICK n : n = Len(ts)
        OBVIOUS
      <4>2. n \in Nat /\ a \in 1..n /\ b \in 1..n /\ ~(b - a + 1 < n)
        BY <1>2, <2>2, <4>1
      <4>3. a = 1 /\ b = n
        BY <4>2
      <4>. QED
        BY <4>1, <4>3
    <3>2. u = ts
      BY <1>2, <1>8, <3>1, SubSeqFull
    <3>. QED
      BY <1>2, <3>2
  <2>. QED
    BY <2>1, <2>2
<1>9. Passed(u)
  <2>1. \/ \E k \in 1..Len(ts) : u = Without(ts, {k})
        \/ \E k \in 1..Len(ls) : u = Without(ls, {k})
        \/ \E k \in 1..Len(ts) : IsLongWord(ts[k]) /\ u = [ts EXCEPT ![k] = Shortened(@)]
        \/ /\ ~(Len(ts) > MaxQuadraticUnits)
           /\ \/ \E j, k \in 1..Len(ts) : u = Without(ts, {j, k})
              \/ \E a, b \in 1..Len(ts) : a <= b /\ u = SubSeq(ts, a, b)
    <3>. DEFINE tokens == {Without(ts, {k}) : k \in DOMAIN ts}
                lines == {Without(ls, {k}) : k \in DOMAIN ls}
                words == {[ts EXCEPT ![k] = Shortened(@)] :
                            k \in {d \in DOMAIN ts : IsLongWord(ts[d])}}
                pairs == {Without(ts, {p[1], p[2]}) : p \in (DOMAIN ts) \X (DOMAIN ts)}
                runs == {SubSeq(ts, p[1], p[2]) :
                           p \in {q \in (DOMAIN ts) \X (DOMAIN ts) : q[1] <= q[2]}}
    <3>1. Neighbours(body) = tokens \cup lines \cup words
            \cup (IF Len(ts) > MaxQuadraticUnits THEN {} ELSE pairs \cup runs)
      BY <1>1 DEF Neighbours
    <3>2. u \in tokens => \E k \in 1..Len(ts) : u = Without(ts, {k})
      BY <1>2
    <3>3. u \in lines => \E k \in 1..Len(ls) : u = Without(ls, {k})
      BY <1>2
    <3>4. u \in words =>
            \E k \in 1..Len(ts) : IsLongWord(ts[k]) /\ u = [ts EXCEPT ![k] = Shortened(@)]
      BY <1>2
    <3>5. u \in pairs => \E j, k \in 1..Len(ts) : u = Without(ts, {j, k})
      <4>. SUFFICES ASSUME u \in pairs
                    PROVE  \E j, k \in 1..Len(ts) : u = Without(ts, {j, k})
        OBVIOUS
      <4>1. PICK p \in (DOMAIN ts) \X (DOMAIN ts) : u = Without(ts, {p[1], p[2]})
        OBVIOUS
      <4>2. p[1] \in 1..Len(ts) /\ p[2] \in 1..Len(ts)
        BY <1>2, <4>1
      <4>. QED
        BY <4>1, <4>2
    <3>6. u \in runs => \E a, b \in 1..Len(ts) : a <= b /\ u = SubSeq(ts, a, b)
      <4>. SUFFICES ASSUME u \in runs
                    PROVE  \E a, b \in 1..Len(ts) : a <= b /\ u = SubSeq(ts, a, b)
        OBVIOUS
      <4>1. PICK p \in {q \in (DOMAIN ts) \X (DOMAIN ts) : q[1] <= q[2]} : u = SubSeq(ts, p[1], p[2])
        OBVIOUS
      <4>2. p[1] \in 1..Len(ts) /\ p[2] \in 1..Len(ts) /\ p[1] <= p[2]
        BY <1>2, <4>1
      <4>. QED
        BY <4>1, <4>2
    <3>7. \/ u \in tokens \/ u \in lines \/ u \in words
          \/ ~(Len(ts) > MaxQuadraticUnits) /\ (u \in pairs \/ u \in runs)
      <4>. HIDE DEF tokens, lines, words, pairs, runs
      <4>. QED
        BY <3>1
    <3>. HIDE DEF tokens, lines, words, pairs, runs
    <3>. QED
      BY <3>2, <3>3, <3>4, <3>5, <3>6, <3>7
  <2>. HIDE DEF Passed
  <2>. QED
    BY <1>4, <1>5, <1>6, <1>7, <1>8, <2>1
<1>10. CASE FlattenSeq(u) = body
  BY <1>10 DEF Candidate
<1>11. CASE FlattenSeq(u) \in Missed
  <2>1. PICK c : c = FlattenSeq(u) \o Suffix
    OBVIOUS
  <2>2. Candidate(u) = c /\ c \in DOMAIN seen /\ seen[c] = FALSE
    BY <1>11, <2>1 DEF Candidate, Missed
  <2>. QED
    BY <2>2
<1>. QED
  BY <1>9, <1>10, <1>11

\* A reduction that was not capped ends at a local minimum, whatever the
\* oracles answer: for the text that is written, each line, token, pair and
\* run of tokens and shortened word was tried without it holding.
THEOREM ResultIsMinimal == Spec => []LocallyMinimal
<1>1. ASSUME Inv, WrittenInv PROVE LocallyMinimal
  <2>. SUFFICES ASSUME mode = "reduce", exit = 0, ~capped
                PROVE  LET text == SubSeq(out, 1, Len(out) - Len(Suffix)) IN
                       \A u \in Neighbours(text) :
                         LET c == Candidate(u) IN c = out \/ (c \in DOMAIN seen /\ ~seen[c])
    BY DEF LocallyMinimal
  <2>1. PICK body \in Seq(Byte) : out = body \o Suffix /\ Minimal(body, Missed)
    BY <1>1 DEF WrittenInv
  <2>2. src \in Seq(STRING) /\ Suffix \in Seq(Byte)
    BY <1>1, UnitsOf, TextOf
  <2>3. SubSeq(out, 1, Len(out) - Len(Suffix)) = body
    <3>1. PICK tail : tail = Suffix
      OBVIOUS
    <3>2. tail \in Seq(Byte) /\ out = body \o tail
      BY <2>1, <2>2, <3>1
    <3>. QED
      BY <3>1, <3>2, FrontOf
  <2>. QED
    BY <2>1, <2>2, <2>3, MinimalOf
<1>2. RoundsInv => WrittenInv
  BY DEF RoundsInv
<1>. QED
  BY <1>1, <1>2, RoundsInit, RoundsStep, Invariance, PTL DEF Spec
=============================================================================
