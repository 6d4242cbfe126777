------------------------------- MODULE Reduce -------------------------------
(***************************************************************************)
(* ReduceFile of internal/survey/reduce.go and Reduce of                   *)
(* internal/reduce/reduce.go: a gap or a false accept shrunk while native  *)
(* Zsh and zsh-lint keep disagreeing in the same way at the same byte.     *)
(*                                                                         *)
(* The oracles answer anything; an answer is cached, so that a candidate   *)
(* is judged once.  One step is one call of test, or the end of a pass.    *)
(***************************************************************************)
EXTENDS Pieces, FiniteSets

CONSTANTS Sources,      \* sequences of characters
          Limits,       \* MaxTests
          Messages,     \* first messages, without their position
          MaxQuadraticUnits

ASSUME ReduceAssumption == /\ Sources \subseteq Seq(STRING)
                           /\ Limits \subseteq Nat \ {0}
                           /\ MaxQuadraticUnits \in Nat
                           /\ Messages # {}

Passes == <<"lines", "blocks", "tokens", "pairs", "window", "shorten", "trim">>
Running == 3

VARIABLES src,          \* the file
          limit,
          hasFixed,     \* opts.Fixed is set
          pc,           \* "open", "judge", "start", a pass, "write" or "done"
          units,        \* the pieces of the pass
          cursor,       \* the loop variables of the pass
          before,       \* the text when the round began
          seen,         \* cached verdicts
          capped,
          want,         \* the original's judgement, its site in src
          kept,         \* the judgement of the last candidate that held
          oracleErr,
          out,          \* what was written to opts.Out
          exit

options == <<src, limit, hasFixed>>
vars == <<options, pc, units, cursor, before, seen, capped, want, kept, oracleErr,
          out, exit>>

Text == Original(src)
Suffix == IF src # <<>> /\ Last(src) = "\n" THEN <<Last(Text)>> ELSE <<>>
Body == SubSeq(Text, 1, Len(Text) - Len(Suffix))
Candidate(pieces) == FlattenSeq(pieces) \o Suffix
Tests == Cardinality(DOMAIN seen)

Nothing == [class |-> "AGREE"]
Exit(code) == pc' = "done" /\ exit' = code
-----------------------------------------------------------------------------
\* The byte ranges of the lines of a text; the last one may be empty.
LineRanges(text) ==
  LET ends == {k \in DOMAIN text : text[k].c = "\n"} \cup {0}
  IN  {[start |-> s,
        end |-> IF \E k \in ends : k > s THEN CHOOSE k \in ends :
                     k > s /\ \A d \in ends : d > s => k <= d
                ELSE Len(text)] : s \in ends}

\* errorSite: the byte of zsh-lint's error, or the line of Zsh's.
Sites(class, text) == IF class = "GAP" THEN {[start |-> k, end |-> k] : k \in 0..Len(text)}
                      ELSE LineRanges(text)

\* Judgements of a text: a class, a message, a site, and whether the fixed
\* build fixes it.  The file itself is judged as it was before.
Judgements(text) ==
  IF text = Text /\ want # Nothing THEN {want}
  ELSE {Nothing} \cup
       UNION {[class : {c}, message : Messages, site : Sites(c, text),
               fixed : IF hasFixed THEN BOOLEAN ELSE {TRUE}] : c \in {"GAP", "FALSE-ACCEPT"}}

\* Mutant: offsets of the candidate are taken for offsets of the original.
Matches_Unmapped(s, c, text) == IF s.end = s.start THEN c.start = s.start
                                ELSE c.start < s.end /\ s.start < c.end

\* The original site s is in the candidate's site c.
Matches(s, c, text) ==
  IF s.end = s.start THEN OriginAt(text, c.start, Len(src)) = s.start
  ELSE \E k \in c.start..(c.end - 1) : OriginAt(text, k, Len(src)) \in s.start..(s.end - 1)

Fixes(j) == hasFixed => j.fixed

Holds(j, text) == /\ j.class = want.class
                  /\ j.class # "AGREE"
                  /\ j.message = want.message
                  /\ Matches(want.site, j.site, text)
                  /\ Fixes(j)
-----------------------------------------------------------------------------
Init == /\ src \in Sources
        /\ limit \in Limits
        /\ hasFixed \in BOOLEAN
        /\ pc = "open"
        /\ units = <<>>
        /\ cursor = <<0, 0>>
        /\ before = <<>>
        /\ seen = << >>
        /\ capped = FALSE
        /\ want = Nothing
        /\ kept = Nothing
        /\ oracleErr = FALSE
        /\ out = <<>>
        /\ exit = Running

\* The file is read and a temporary directory made, or not.
Open == /\ pc = "open"
        /\ (pc' = "judge" /\ UNCHANGED exit) \/ Exit(2)
        /\ UNCHANGED <<options, units, cursor, before, seen, capped, want, kept, oracleErr,
                       out>>

\* The judgement of the file itself.
JudgeOriginal ==
  /\ pc = "judge"
  /\ \/ Exit(2) /\ oracleErr' = TRUE /\ UNCHANGED want
     \/ \* The parser panics, or the diagnostic has no position.
        Exit(2) /\ UNCHANGED <<oracleErr, want>>
     \/ \E j \in Judgements(Text) :
          /\ IF j.class = "AGREE" \/ ~Fixes(j) THEN Exit(1)
             ELSE pc' = "start" /\ UNCHANGED exit
          /\ want' = j
          /\ UNCHANGED oracleErr
  /\ UNCHANGED <<options, units, cursor, before, seen, capped, kept, out>>

\* A pass begins with the text of the one before.
Enter(pass, text) ==
  /\ pc' = pass
  /\ units' = IF pass = "lines" THEN Lines(text) ELSE Tokens(text)
  /\ cursor' = CASE pass \in {"lines", "tokens"} -> <<2, 1>>
                 [] pass = "pairs" -> <<1, 2>>
                 [] OTHER -> <<1, 1>>

\* Mutant: one call too many is allowed.
Spent_ByOne == Tests > limit

\* The budget is spent.
Spent == Tests >= limit

\* test: the cache, the budget, or a call of the oracles.  A candidate that
\* makes the parser panic, and any after an oracle failed, does not hold.
Judged(text, holds) ==
  \/ /\ ~holds
     /\ oracleErr' = TRUE
     /\ UNCHANGED kept
  \/ /\ ~oracleErr
     /\ \E j \in Judgements(text) :
          /\ Holds(j, text) = holds
          /\ kept' = IF holds THEN [j |-> j, text |-> text] ELSE kept
     /\ UNCHANGED oracleErr

Test(text, holds) ==
  \/ /\ text \in DOMAIN seen
     /\ holds = seen[text]
     /\ UNCHANGED <<seen, capped, kept, oracleErr>>
  \/ /\ text \notin DOMAIN seen
     /\ Spent
     /\ ~holds
     /\ capped' = TRUE
     /\ UNCHANGED <<seen, kept, oracleErr>>
  \/ /\ text \notin DOMAIN seen
     /\ ~Spent
     /\ seen' = [t \in DOMAIN seen \cup {text} |-> IF t = text THEN holds ELSE seen[t]]
     /\ Judged(text, holds)
     /\ UNCHANGED capped

\* A pass tries its next candidate: if it holds the pass goes on with these
\* pieces from there, and from elsewhere otherwise.
Try(pieces, from, otherwise) ==
  \/ /\ Test(Candidate(pieces), TRUE)
     /\ units' = pieces
     /\ cursor' = from
     /\ UNCHANGED pc
  \/ /\ Test(Candidate(pieces), FALSE)
     /\ cursor' = otherwise
     /\ UNCHANGED <<units, pc>>

Rest == UNCHANGED <<options, before, want, out, exit>>
Quiet == UNCHANGED <<seen, capped, kept, oracleErr>>

\* Reduce begins with a test of the original, as one of the oracles' calls.
Start == /\ pc = "start"
         /\ \/ Test(Text, TRUE) /\ Enter("lines", Body) /\ before' = Chars(Body)
            \/ /\ Test(Text, FALSE)
               /\ pc' = "write"
               /\ units' = <<Body>>
               /\ UNCHANGED <<cursor, before>>
         /\ UNCHANGED <<options, want, out, exit>>
-----------------------------------------------------------------------------
\* The loop variables of a pass.
outer == cursor[1]
inner == cursor[2]

\* Mutant: the last halving is left out.
Halve_Early(len) == 2 * outer >= len

\* The chunks are single units.
Halve(len) == outer >= len

\* A pass is over.
PassOver ==
  LET len == Len(units) IN
  CASE pc \in {"lines", "tokens"} -> \/ len = 0
                                     \/ len = 1 /\ outer = 1
                                     \/ len > 1 /\ inner > len /\ Halve(len)
    [] pc = "blocks" -> BlockFrom(units, outer) = {}
    [] pc = "pairs" -> len > MaxQuadraticUnits \/ inner > len
    [] pc = "window" -> len > MaxQuadraticUnits \/ outer >= len
    [] pc = "shorten" -> LongWordFrom(units, outer) = {}
    [] pc = "trim" -> outer = 2 \/ Trimmed(units) = units
    [] OTHER -> FALSE

\* Mutant: the chunks are not halved.
Finer_Never(len) == outer

\* Chunks of half the size.
Finer(len) == IF outer * 2 < len THEN outer * 2 ELSE len

\* ddmin: chunk after chunk, then twice as many; one unit is tried as none.
Ddmin == /\ pc \in {"lines", "tokens"}
         /\ ~PassOver
         /\ LET len == Len(units) IN
            \/ /\ len = 1
               /\ Try(<<>>, <<1, 1>>, <<1, 1>>)
            \/ /\ len > 1 /\ inner <= len
               /\ LET chunk == Chunk(units, outer, inner) IN
                  Try(Without(units, chunk), <<IF outer > 3 THEN outer - 1 ELSE 2, 1>>,
                      <<outer, inner + Cardinality(chunk)>>)
            \/ /\ len > 1 /\ inner > len
               /\ cursor' = <<Finer(len), 1>>
               /\ Quiet /\ UNCHANGED <<pc, units>>
         /\ Rest

\* Each block is removed, or else unwrapped.
Blocks == /\ pc = "blocks"
          /\ \E b \in BlockFrom(units, outer) :
               IF inner = 1
                 THEN Try(Without(units, b[1]..b[2]), <<b[1], 1>>, <<b[1], 2>>)
                 ELSE Try(Without(units, {b[1], b[2]}), <<b[1], 1>>, <<b[1] + 1, 1>>)
          /\ Rest

Pairs == /\ pc = "pairs"
         /\ ~PassOver
         /\ Try(Without(units, {outer, inner}), <<1, 2>>,
                IF inner < Len(units) THEN <<outer, inner + 1>> ELSE <<outer + 1, outer + 2>>)
         /\ Rest

\* The shortest run of units that holds.
Window == /\ pc = "window"
          /\ ~PassOver
          /\ Try(SubSeq(units, inner, inner + outer - 1), <<outer, 1>>,
                 IF inner + outer <= Len(units) THEN <<outer, inner + 1>> ELSE <<outer + 1, 1>>)
          /\ Rest

Shorten == /\ pc = "shorten"
           /\ \E k \in LongWordFrom(units, outer) :
                Try([units EXCEPT ![k] = Shortened(@)], <<k + 1, 1>>, <<k + 1, 1>>)
           /\ Rest

TrimBlanks == /\ pc = "trim"
              /\ ~PassOver
              /\ Try(Trimmed(units), <<2, 1>>, <<2, 1>>)
              /\ Rest

\* The next pass, the next round, or the end of the last one.
NextPass == /\ PassOver
            /\ LET text == FlattenSeq(units) IN
               IF pc # "trim"
                 THEN /\ \E k \in 1..6 : pc = Passes[k] /\ Enter(Passes[k + 1], text)
                      /\ UNCHANGED before
               ELSE IF Chars(text) = before \/ capped
                 THEN pc' = "write" /\ UNCHANGED <<units, cursor, before>>
                 ELSE Enter("lines", text) /\ before' = Chars(text)
            /\ Quiet
            /\ UNCHANGED <<options, want, out, exit>>

\* The result is written, unless an oracle failed on the way.
Write == /\ pc = "write"
         /\ \/ oracleErr /\ Exit(2) /\ UNCHANGED out
            \/ ~oracleErr /\ Exit(0) /\ out' = Candidate(units)
            \/ ~oracleErr /\ Exit(2) /\ UNCHANGED out
         /\ UNCHANGED <<options, units, cursor, before, want>>
         /\ Quiet

ReduceNext == Open \/ JudgeOriginal \/ Start \/ Ddmin \/ Blocks \/ Pairs \/ Window \/ Shorten
                \/ TrimBlanks \/ NextPass \/ Write
=============================================================================
