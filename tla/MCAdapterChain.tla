---------------------------- MODULE MCAdapterChain ----------------------------
(***************************************************************************)
(* Files for TLC: every pair of a list of sites that covers each kind,     *)
(* form and gate, triples of the kinds that interact, and files with       *)
(* hosts, words and subscript texts.                                       *)
(***************************************************************************)
EXTENDS AdapterChain, SequencesExt

Line(kind, form, text, says) ==
  [kind |-> kind, form |-> form, text |-> text, host |-> 0, says |-> says]
S(kind, form)   == Line(kind, form, <<>>, {})
E(kind, form, class) == Line(kind, form, <<>>, {class})
T(kind, form, text)  == Line(kind, form, text, {})
In(h, s) == [s EXCEPT !.host = h]

(* Each construct with each error of its gate, and with one its recogniser
   declines. *)
Gated == UNION { { E(k, "native", class) : class \in Gate[k] } : k \in DOMAIN Gate }
Declined ==
  { E(k, "declined", CHOOSE class \in Gate[k] : TRUE) : k \in DOMAIN Gate }
    \cup {E("anon", "group", "statements"), E("anon", "redirect", "statements")}
(* What no adapter is for, under the errors that their gates take. *)
Bad == { E("bad", "native", class) : class \in (UNION { Gate[k] : k \in DOMAIN Gate })
                                                \cup {"lang", "expression", "cut"} }
Quiet0 ==
  {S("alternation", "quoted"), S("math", "quoted"), S("nested", "native"),
   S("guarded", "pattern"), S("guarded", "repeat"), S("guarded", "brace"),
   S("cr", "word"), S("cr", "harmless")}

Keys == {T("key", "braced", <<"a", " ", "a", "]">>), T("key", "other", <<"a", "<", "-", "]">>)}
Patterns ==
  {T("flag", "param", <<"[", "a", "]", "#", "]">>), T("flag", "assign", <<"[", "]", "]">>),
   T("flag", "param", <<"a", ",", "[", "a", "]", "]">>)}

Plain == Gated \cup Declined \cup Bad \cup Quiet0
Returning(f) ==
  /\ \E i \in DOMAIN f : f[i].kind = "cr"
  /\ \E i \in DOMAIN f : f[i].text # <<>> \/ f[i].kind = "anon"
Pairs == { f \in {<<x, y>> : x, y \in Plain \cup Keys \cup Patterns} : ~ Returning(f) }

Mixed ==
  {E("alternation", "native", "test"), E("always", "native", "statements"),
   E("semi", "native", "statement"), E("brace", "native", "unclosed"),
   E("brace", "native", "keyword"), E("math", "native", "call"),
   E("anon", "native", "statements"), E("anon", "group", "statements"), S("nested", "native"),
   E("bad", "native", "statements"), E("bad", "native", "unclosed")}
Triples == { <<x, y, z>> : x, y, z \in Mixed }

Texts(bytes, n) == { Append(text, "]") : text \in BoundedSeq(bytes, n) }
FlagFiles ==
  { <<T("flag", form, text)>> : form \in {"param", "arith", "assign"},
                                text \in Texts({"a", "[", "]", ","}, 4) }
    \cup
  { <<T("flag", "param", text)>> :
      text \in Texts({"[", "]", "^", ","}, 4)
                 \cup Texts({"[", "]", "\\", ","}, 4) \cup Texts({"[", "$(", ")", ","}, 4)
                 \cup Texts({"[", "bq", "!", ","}, 4) \cup Texts({"${", "[", "'", "}"}, 5) }

KeyFiles ==
  { <<T("key", form, text)>> : form \in {"braced", "other"},
                               text \in Texts({"a", ".", "-", "<", "*", " "}, 3) \ {<<"]">>} }

Hosts ==
  { <<S("nested", "native"), In(1, x), y>> :
      x \in {E("math", "native", "call"), S("nested", "native"), E("bad", "native", "other"),
             T("flag", "arith", <<"[", "a", "]", "]">>)},
      y \in Mixed }
    \cup
  { <<S("tick", "native"), In(1, x), y>> :
      x \in {E("alternation", form, "test") : form \in {"native", "declined"}} \cup Keys
              \cup {E("always", "native", "statements"), E("bad", "native", "other")},
      y \in Mixed }
    \cup
  { <<S("tick", "native"), In(1, E("alternation", "native", "test")), In(1, x), y>> :
      x \in {E("alternation", "native", "test"), E("math", "native", "call"),
             E("bad", "native", "other")},
      y \in Mixed }

Words ==
  { <<E("anon", form, "statements"), In(1, x), y>> :
      form \in {"native", "group"},
      x \in {E("math", "native", "call"), E("assign", "native", "follow"),
             E("bad", "native", "other"), E("bad", "native", "statements")},
      y \in Mixed }
    \cup
  { <<E("anon", form, "statements"), In(1, x), y>> :
      form \in {"native", "group"}, x \in Keys \cup Patterns,
      y \in {E("bad", "native", "statements"), E("always", "native", "statements")} }

Alone == Pairs \cup Triples \cup FlagFiles \cup KeyFiles \cup Hosts \cup Words

(* A file for one caller, or two parses at once, the first after a reset. *)
Together == { <<E("always", "native", "statements"), E("semi", "native", "statement")>>,
              <<E("bad", "native", "other")>>,
              <<E("alternation", "native", "test"), E("anon", "native", "statements")>> }
MCBatches ==
  { [c \in Goroutines |-> IF c = "c2" THEN f ELSE <<>>] : f \in Alone }
    \cup [Goroutines -> Together]

ReturnFiles ==
  { <<S("cr", "harmless"), E("anon", "native", "statements")>>,
    <<E("anon", "native", "statements"), S("cr", "harmless")>> }
MCReturns == { [c \in Goroutines |-> f] : f \in ReturnFiles }
=============================================================================
