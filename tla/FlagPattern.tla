----------------------------- MODULE FlagPattern -----------------------------
(***************************************************************************)
(* Where a flagged subscript's pattern ends: the scanners of               *)
(* internal/parse/subscript_flag_pattern.go and                            *)
(* subscript_pattern_after_comma.go.  A text is what follows `name[(flags)'*)
(* up to the end of the expansion, one token a character, with these       *)
(* abbreviations: "${" and "$(" are one token, "a" is any byte with no     *)
(* meaning here, "!" is a word of a substitution body the parser refuses,  *)
(* "\\" is the backslash, "bq" the backquote.  A text is one line: the      *)
(* newline arms, which all refuse, are left out.                           *)
(***************************************************************************)
EXTENDS Integers, Sequences, FiniteSets

Least(S) == CHOOSE i \in S : \A j \in S : i <= j
Greatest(S) == CHOOSE i \in S : \A j \in S : j <= i

At(t, chars) == { i \in 1 .. Len(t) : t[i] \in chars }

(* What a scan decides: the offsets to mask and where the pattern ends; an
   extent that cannot be decided has no end. *)
Refused == [edits |-> {}, close |-> 0]

----------------------------------------------------------------------------
(* The step-overs. *)

(* A command substitution or an arithmetic expansion ends where its
   parentheses balance, a backquoted one at the next backquote; every byte
   whose reading inside one is unlike the code around it refuses. *)
Undecided(opener) ==
  {"[", "]", "${", "}", "'", "\"", "#", "\\"}
     \cup (IF opener = "bq" THEN {"(", ")", "$("} ELSE {"bq"})

BodyParses(body) ==
  /\ At(body, {"!"}) = {}
  /\ ~ \E k \in 1 .. Len(body) - 1 : body[k] = "(" /\ body[k + 1] = ")"

maskPatternSubstitution(t, start) ==
  LET depth(j) == Cardinality({ k \in start .. j : t[k] \in {"(", "$("} })
                   - Cardinality({ k \in start .. j : t[k] = ")" })
      ends == { j \in start + 1 .. Len(t) :
                  IF t[start] = "bq" THEN t[j] = "bq"
                                    ELSE t[j] = ")" /\ depth(j) = 0 }
      end  == Least(ends)
      body == SubSeq(t, start + 1, end - 1)
  IN  IF \/ ends = {}
         \/ At(body, Undecided(t[start])) # {}
         \/ t[start] = "$(" /\ ~ BodyParses(body)
      THEN Refused
      ELSE [edits |-> { k \in start .. end : t[k] = "," }, close |-> end]

(* A single-quoted key stands inside the nested subscript's own brackets and
   holds no delimiter. *)
maskSingleQuotedKey(t, quote) ==
  LET ends == { j \in quote + 1 .. Len(t) : t[j] = "'" }
      key  == quote + 1 .. Least(ends) - 1
  IN  IF ends = {} \/ \E k \in key : t[k] \in {"[", "]", "${", "}", "(", ")", "$("}
      THEN Refused
      ELSE [edits |-> { k \in key : t[k] = "," }, close |-> Least(ends)]

----------------------------------------------------------------------------
(* The loops.  A scan is at a byte, with what is open there and the offsets to
   mask so far; at 0 it has stopped, refused unless it found a close. *)

Scanning(start) ==
  [at |-> start, brackets |-> 0, braces |-> 0, parens |-> 0, quote |-> "none",
   edits |-> {}, close |-> 0]

Refuse(s)   == [s EXCEPT !.at = 0]
Close(s)    == [s EXCEPT !.at = 0, !.close = s.at]
Skip(s)     == [s EXCEPT !.at = @ + 1]
Mask(s)     == [Skip(s) EXCEPT !.edits = @ \cup {s.at}]
Over(s, span) ==
  IF span.close = 0 THEN Refuse(s)
  ELSE [s EXCEPT !.at = span.close + 1, !.edits = @ \cup span.edits]
Escape(t, s) ==
  IF s.at = Len(t) THEN Refuse(s)
  ELSE [s EXCEPT !.at = @ + 2, !.edits = @ \cup (At(t, {"[", "]"}) \cap {s.at + 1})]

Found(s) == IF s.close = 0 THEN Refused ELSE [edits |-> s.edits, close |-> s.close]

(* A nested expansion ends where its braces balance; its brackets must
   balance there and never close one that is not open. *)
NestedStep(t, s) ==
  IF s.at \notin 1 .. Len(t) THEN s ELSE
  CASE t[s.at] = "\\" -> Escape(t, s)
    [] t[s.at] = "\"" -> Refuse(s)
    [] t[s.at] = "'" -> IF s.brackets = 0 THEN Refuse(s)
                       ELSE Over(s, maskSingleQuotedKey(t, s.at))
    [] t[s.at] = "${" -> [Skip(s) EXCEPT !.braces = @ + 1]
    [] t[s.at] = "[" -> [Mask(s) EXCEPT !.brackets = @ + 1]
    [] t[s.at] = "]" -> IF s.brackets = 0 THEN Refuse(s)
                       ELSE [Mask(s) EXCEPT !.brackets = @ - 1]
    [] t[s.at] = "," -> Mask(s)
    [] t[s.at] = "}" -> IF s.braces > 1 THEN [Skip(s) EXCEPT !.braces = @ - 1]
                       ELSE IF s.brackets # 0 THEN Refuse(s) ELSE Close(s)
    [] OTHER -> Skip(s)

maskNestedExpansion(t, brace) ==
  LET scan[n \in 0 .. Len(t)] ==
        IF n = 0 THEN Scanning(brace) ELSE NestedStep(t, scan[n - 1])
  IN  Found(scan[Len(t)])

----------------------------------------------------------------------------
(* The pattern. *)

(* A pattern with nothing to mask is not this adapter's. *)
PatternStep(t, s) ==
  LET end == IF s.edits = {} THEN Refuse(s) ELSE Close(s) IN
  IF s.at \notin 1 .. Len(t) THEN s ELSE
  CASE t[s.at] = "\\" -> Escape(t, s)
    [] t[s.at] \in {"bq", "$("} -> Over(s, maskPatternSubstitution(t, s.at))
    [] t[s.at] = "${" -> Over(s, maskNestedExpansion(t, s.at))
    [] t[s.at] = "(" -> [Skip(s) EXCEPT !.parens = @ + 1]
    [] t[s.at] = ")" -> IF s.parens = 0 THEN Refuse(s)
                       ELSE [Skip(s) EXCEPT !.parens = @ - 1]
    [] t[s.at] = "[" -> [Mask(s) EXCEPT !.brackets = @ + 1]
    [] t[s.at] = "]" -> IF s.brackets = 0 THEN end
                       ELSE [Mask(s) EXCEPT !.brackets = @ - 1]
    [] t[s.at] = "," -> IF s.brackets = 0 THEN end ELSE Mask(s)
    [] t[s.at] = "}" -> IF s.brackets = 0 THEN Refuse(s) ELSE Skip(s)
    [] OTHER -> Skip(s)

scanFlagPatternBrackets(t) ==
  LET scan[n \in 0 .. Len(t)] ==
        IF n = 0 THEN Scanning(1) ELSE PatternStep(t, scan[n - 1])
  IN  Found(scan[Len(t)])

(* For an error that only its position ties to a pattern, quotes, escapes and
   unbalanced parentheses make the pattern undecidable. *)
positionalPatternDecidable(pattern) ==
  LET opens(j)  == Cardinality({ k \in 1 .. j : pattern[k] \in {"(", "$("} })
      closes(j) == Cardinality({ k \in 1 .. j : pattern[k] = ")" })
  IN  /\ At(pattern, {"\"", "'", "\\"}) = {}
      /\ \A j \in 1 .. Len(pattern) : closes(j) <= opens(j)
      /\ closes(Len(pattern)) = opens(Len(pattern))

----------------------------------------------------------------------------
(* The expression after the pattern's comma. *)

(* The byte that ends a pattern with no expansion in it. *)
EndStep(t, s) ==
  IF s.at \notin 1 .. Len(t) THEN s ELSE
  CASE t[s.at] = "\\" -> Escape(t, s)
    [] t[s.at] \in {"bq", "${", "$("} -> Refuse(s)
    [] t[s.at] = "}" /\ s.brackets = 0 -> Refuse(s)
    [] t[s.at] = "[" -> [Skip(s) EXCEPT !.brackets = @ + 1]
    [] t[s.at] = "]" /\ s.brackets > 0 -> [Skip(s) EXCEPT !.brackets = @ - 1]
    [] t[s.at] \in {"]", ","} /\ s.brackets = 0 -> Close(s)
    [] OTHER -> Skip(s)

flagPatternEnd(t) ==
  LET scan[n \in 0 .. Len(t)] ==
        IF n = 0 THEN Scanning(1) ELSE EndStep(t, scan[n - 1])
  IN  scan[Len(t)].close

(* The `]' that closes the subscript: a quoted string is masked whole, but
   its brackets count, as they do for Zsh. *)
AfterStep(t, start, s) ==
  IF s.at \notin 1 .. Len(t) THEN s ELSE
  CASE /\ t[s.at] = "\\"
       /\ \/ s.quote # "'"
          \/ s.at < Len(t) /\ t[s.at + 1] \in {"]", "\\"} -> Escape(t, s)
    [] t[s.at] \in {"bq", "${", "$("} -> Refuse(s)
    [] t[s.at] = "}" /\ s.brackets = 0 -> Refuse(s)
    [] t[s.at] = "," /\ s.brackets = 0 /\ s.quote = "none" -> Refuse(s)
    [] t[s.at] = s.quote -> [Skip(s) EXCEPT !.quote = "none"]
    [] t[s.at] \in {"'", "\""} /\ s.quote = "none" -> [Skip(s) EXCEPT !.quote = t[s.at]]
    [] t[s.at] = "[" -> [Skip(s) EXCEPT !.brackets = @ + 1]
    [] t[s.at] = "]" /\ s.brackets > 0 -> [Skip(s) EXCEPT !.brackets = @ - 1]
    [] t[s.at] = "]" /\ s.brackets = 0 ->
         IF s.quote # "none" \/ s.at = start THEN Refuse(s) ELSE Close(s)
    [] OTHER -> Skip(s)

scanPatternAfterComma(t, comma) ==
  LET scan[n \in 0 .. Len(t)] ==
        IF n = 0 THEN Scanning(comma + 1) ELSE AfterStep(t, comma + 1, scan[n - 1])
      end == scan[Len(t)].close
  IN  IF end = 0 THEN Refused
      ELSE [edits |-> comma + 1 .. end - 1, close |-> end]

----------------------------------------------------------------------------
(* Where the parser's fork ends the raw text, after its zshSubFlags: at the
   first `]' or `,' that no command substitution holds.  In a braced expansion
   (`param') quotes keep a comma, a backslash takes the next byte and no `]'
   of a backquoted command ends the text. *)

Escaped(t, i) ==
  LET run == { k \in 1 .. i - 1 : \A j \in k .. i - 1 : t[j] = "\\" }
  IN  Cardinality(run) % 2 = 1

Reading ==
  [at |-> 1, quote |-> "none", body |-> "none", inner |-> "none", open |-> 0, close |-> 0]

(* In the body of `$( )' and of backquotes. *)
SubstStep(t, s) ==
  LET quiet == Escaped(t, s.at)
  IN  CASE s.inner # "none" ->
             [Skip(s) EXCEPT !.inner =
                IF t[s.at] = @ /\ (@ = "'" \/ ~ quiet) THEN "none" ELSE @]
        [] s.inner = "none" /\ ~ quiet /\ t[s.at] \in {"'", "\""} ->
             [Skip(s) EXCEPT !.inner = t[s.at]]
        [] s.inner = "none" /\ ~ quiet /\ t[s.at] \in {"(", "$("} ->
             [Skip(s) EXCEPT !.open = @ + 1]
        [] s.inner = "none" /\ ~ quiet /\ t[s.at] = ")" ->
             [Skip(s) EXCEPT !.open = @ - 1, !.body = IF s.open = 1 THEN "none" ELSE @]
        [] OTHER -> Skip(s)
TickStep(t, param, s) ==
  IF Escaped(t, s.at) THEN Skip(s) ELSE
  CASE t[s.at] = "bq" -> [Skip(s) EXCEPT !.body = "none"]
    [] t[s.at] = "[" -> [Skip(s) EXCEPT !.open = @ + 1]
    [] t[s.at] = "]" /\ s.open > 0 -> [Skip(s) EXCEPT !.open = @ - 1]
    [] t[s.at] = "]" /\ s.open = 0 /\ ~ param -> Close(s)
    [] OTHER -> Skip(s)

RawStep(t, param, s) ==
  IF s.at \notin 1 .. Len(t) THEN s ELSE
  CASE s.body = "$(" -> SubstStep(t, s)
    [] s.body = "bq" -> TickStep(t, param, s)
    [] s.body = "none" /\ t[s.at] = "]" -> Close(s)
    [] s.body = "none" /\ t[s.at] = "," ->
         IF s.quote = "none" THEN Close(s) ELSE Skip(s)
    [] s.body = "none" /\ t[s.at] \in {"$(", "bq"} /\ ~ Escaped(t, s.at) ->
         [Skip(s) EXCEPT !.body = t[s.at], !.open = IF t[s.at] = "$(" THEN 1 ELSE 0]
    [] s.body = "none" /\ param /\ t[s.at] = "\\" /\ s.quote # "'" ->
         [s EXCEPT !.at = @ + 2]
    [] s.body = "none" /\ param /\ t[s.at] \in {"'", "\""} ->
         [Skip(s) EXCEPT !.quote = CASE @ = "none" -> t[s.at]
                                     [] @ = t[s.at] -> "none"
                                     [] OTHER -> @]
    [] OTHER -> Skip(s)

RawEnd(t, param) ==
  LET read[n \in 0 .. Len(t)] ==
        IF n = 0 THEN Reading ELSE RawStep(t, param, read[n - 1])
  IN  read[Len(t)].close

----------------------------------------------------------------------------
(* Native Zsh delimits a subscript by bracket nesting with backslash escapes,
   whatever encloses the brackets; a comma of a nested expansion or of a
   substitution is that construct's own (zshparam, Array Subscripts). *)

NativeDepth(t, i) ==
  Cardinality({ k \in 1 .. i - 1 : t[k] = "[" /\ ~ Escaped(t, k) })
     - Cardinality({ k \in 1 .. i - 1 : t[k] = "]" /\ ~ Escaped(t, k) })

Enclosed(t, i) ==
  LET before(char) ==
        Cardinality({ k \in 1 .. i - 1 : t[k] = char /\ ~ Escaped(t, k) })
  IN  \/ before("${") > before("}")
      \/ before("$(") > before(")")
      \/ before("bq") % 2 = 1

NativeEnd(t) ==
  LET ends == { i \in 1 .. Len(t) :
                  /\ ~ Escaped(t, i) /\ NativeDepth(t, i) = 0
                  /\ \/ t[i] = "]"
                     \/ t[i] = "," /\ ~ Enclosed(t, i) }
  IN  IF ends = {} THEN 0 ELSE Least(ends)
=============================================================================
