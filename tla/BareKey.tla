------------------------------- MODULE BareKey -------------------------------
(***************************************************************************)
(* The bare key of an associative subscript, `m[key]':                     *)
(* internal/parse/subscript_compat.go.  The base parser reads the key as   *)
(* arithmetic; the adapter turns its punctuation into word bytes.  A text  *)
(* is as in FlagPattern, with "e" for an expansion `$name' and " " for a   *)
(* blank.  Offset 0 is the `[' before the text; a key inside a text has    *)
(* its own.                                                                *)
(***************************************************************************)
EXTENDS FlagPattern

isIdentByte == {"a", "_"}
isBareKeyPunctuation ==
  {".", "-", "+", ":", "@", "<", ">", "/", "%", "*", "?", "~", ",", "="}

(* A nested expansion ends where its own delimiters balance. *)
skipKeyExpansion(t, start) ==
  LET openers  == IF t[start] = "${" THEN {"${"} ELSE {"$(", "("}
      closer   == IF t[start] = "${" THEN "}" ELSE ")"
      depth(j) == Cardinality(At(t, openers) \cap start .. j)
                    - Cardinality(At(t, {closer}) \cap start .. j)
      ends     == { j \in start + 1 .. Len(t) : t[j] = closer /\ depth(j) = 0 }
  IN  IF ends = {} \/ At(t, {"'", "\"", "bq"}) \cap start .. Least(ends) # {}
      THEN Refused
      ELSE [edits |-> {}, close |-> Least(ends)]

(* The name before the `[' follows a `${', its prefixes and flag groups.  Of
   the text's own subscript `braced' says so. *)
isInsideBracedParamExp(t, open, braced) ==
  LET opening(p) == { k \in 1 .. p - 1 :
                        /\ t[k] \in {"(", "$("}
                        /\ Cardinality(At(t, {"(", "$("}) \cap k .. p)
                             = Cardinality(At(t, {")"}) \cap k .. p) }
      back[p \in 0 .. open] ==
        CASE p = 0 -> 0
          [] p > 0 /\ t[p] \in {"+", "~", "=", "#", "^"} -> back[p - 1]
          [] p > 0 /\ t[p] = ")" /\ opening(p) # {} ->
               IF t[Greatest(opening(p))] = "(" THEN back[Greatest(opening(p)) - 1] ELSE 0
          [] OTHER -> p
      before == { p \in 1 .. open - 1 : t[p] \notin isIdentByte }
  IN  IF open = 0 THEN braced
      ELSE /\ before # {}
           /\ back[Greatest(before)] # 0
           /\ t[back[Greatest(before)]] = "${"

(* Blanks are part of a key only inside `${ }'. *)
KeyStep(t, open, braced, s) ==
  IF s.at \notin 1 .. Len(t) THEN s ELSE
  CASE t[s.at] = "]" -> IF s.at = open + 1 THEN Refuse(s) ELSE Close(s)
    [] t[s.at] \in isIdentByte \cup {"e"} -> Skip(s)
    [] t[s.at] \in isBareKeyPunctuation -> Mask(s)
    [] t[s.at] \in {"${", "$("} -> Over(s, skipKeyExpansion(t, s.at))
    [] t[s.at] = " " /\ isInsideBracedParamExp(t, open, braced) -> Mask(s)
    [] OTHER -> Refuse(s)

scanBareAssociativeKey(t, open, braced) ==
  LET scan[n \in 0 .. Len(t)] ==
        IF n = 0 THEN Scanning(open + 1) ELSE KeyStep(t, open, braced, scan[n - 1])
  IN  Found(scan[Len(t)])

(* Outside `${ }' an angle beside an operator byte is a redirection's. *)
isUnbracedAngleKeyWithOperatorByte(t, open, braced, key) ==
  /\ ~ isInsideBracedParamExp(t, open, braced)
  /\ key.edits \cap At(t, {"<", ">"}) # {}
  /\ key.edits \cap At(t, {"%", "*", "?", "~", ",", "="}) # {}

(* A key word straight after another across blanks, where arithmetic cannot
   go on (#372). *)
isBareKeyWordAfterSpaceAt(t, seed) ==
  LET before == { i \in 1 .. seed - 1 : t[i] # " " }
  IN  /\ seed > 1 /\ t[seed] \in isIdentByte /\ t[seed - 1] = " "
      /\ before # {} /\ t[Greatest(before)] \in isIdentByte \cup {"e"}

isDoubledSignAt(t, key, p) ==
  /\ p \in key.edits /\ p + 1 \in key.edits
  /\ t[p] \in {"-", "+"} /\ t[p + 1] = t[p]

(* The `[' of the key that holds the byte at seed: the nearest before it, past
   the expansions that close in between; an opener or a `]' on the way ends
   the search.  0 is the text's own, Len(t) + 1 none. *)
OpenBefore(t, seed) ==
  LET opener(p) == t[p] = "(" \/ (t[p] \in {"${", "$("} /\ p < seed)
      depth(p) == Cardinality(At(t, {"}", ")"}) \cap p .. seed)
                    - Cardinality({ k \in p .. seed : k > 0 /\ opener(k) })
      opens    == { p \in 0 .. seed : (p = 0 \/ t[p] = "[") /\ depth(p) = 0 }
      open     == Greatest(opens)
  IN  IF \/ opens = {}
         \/ \E k \in open + 1 .. seed :
              depth(k + 1) = 0 /\ (opener(k) \/ t[k] = "]")
      THEN Len(t) + 1 ELSE open

(* What each error text says of the byte it names, which must be the key's. *)
TiedToKey(t, open, key, class, seed) ==
  LET bare == key.edits \cap At(t, {" "}) = {}
      own(chars) == seed \in key.edits /\ t[seed] \in chars
  IN  CASE class = "expression" -> bare /\ seed = open /\ t[open + 1] = "."
        [] class = "ternary" -> bare /\ own({":"})
        [] class = "ternaryColon" -> bare /\ own({"?"})
        [] class = "tilde" -> bare /\ seed = open /\ key.edits \cap At(t, {"~"}) # {}
        [] class \in {"arithmetic", "call"} ->
             IF bare
             THEN \/ t[open + 1] \in {"@", "*"} /\ key.close - open > 2
                  \/ isDoubledSignAt(t, key, seed - 2)
             ELSE isBareKeyWordAfterSpaceAt(t, seed)
        [] class \in {"decrement", "postfix"} -> bare /\ isDoubledSignAt(t, key, seed)
        [] class \in {"operator", "follow"} -> bare /\ own(isBareKeyPunctuation)
        [] OTHER -> FALSE

(* The offsets to mask for the base parser's error, or none.  The byte before
   the key's `[' ends a name; a flagged text's own `[' holds its flags. *)
findBareAssociativeKey(t, braced, flagged, class, seed) ==
  LET open  == IF seed \in 0 .. Len(t) THEN OpenBefore(t, seed) ELSE Len(t) + 1
      key   == scanBareAssociativeKey(t, open, braced)
      named == IF open = 0 THEN ~ flagged
               ELSE open \in 2 .. Len(t) /\ t[open - 1] \in isIdentByte \cup {"e"}
  IN  IF /\ named
         /\ key.close # 0
         /\ ~ isUnbracedAngleKeyWithOperatorByte(t, open, braced, key)
         /\ TiedToKey(t, open, key, class, seed)
      THEN key.edits ELSE {}
=============================================================================
