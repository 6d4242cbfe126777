---------------------------- MODULE AdapterChain ----------------------------
(***************************************************************************)
(* The compatibility front end of internal/parse: parseSource, the adapter *)
(* chain under it and the counters of stats.go.                            *)
(*                                                                         *)
(* The base parser refuses some Zsh constructs.  An adapter recognises one *)
(* of them from the parser's error, masks it so that the parser reads the  *)
(* file, parses the masked file again through the whole chain, checks that *)
(* the tree holds the construct and puts the masked bytes back.            *)
(*                                                                         *)
(* A file is a sequence of sites, one a line, in source order.  A site has *)
(* a kind (which construct it is), a form (what the recogniser finds       *)
(* there), a text where the bytes matter (a subscript), a host (the nested *)
(* arithmetic, the backquotes or the anonymous function whose words hold   *)
(* it, or 0) and the errors the base parser may report there; none when it *)
(* reads the site, rightly or in silence.                                  *)
(*                                                                         *)
(* The base parser, the fork under third_party/mvdan-sh, is the            *)
(* environment: it stops at any site it cannot read, whichever comes       *)
(* first, and of a subscript it may give any error that the bytes have.    *)
(***************************************************************************)
EXTENDS Integers, Sequences, FiniteSets, FlagPattern, BareKey

CONSTANTS Goroutines,  \* the callers of Parse
          Batches,     \* the choices of a file for every caller; <<>> is none
          Resets,      \* the callers that reset the counters before a parse
          MaxClosers   \* maxClosers: 32 and the braces before the candidate

Site ==
  [kind : STRING, form : STRING, text : Seq(STRING), host : Nat, says : SUBSET STRING]

(* A host stands before what it holds. *)
ASSUME BatchesAssumption ==
  \A b \in Batches :
    /\ b \in [Goroutines -> Seq(Site)]
    /\ \A c \in Goroutines : \A i \in DOMAIN b[c] : b[c][i].host < i
ASSUME ResetsAssumption == Resets \subseteq Goroutines
ASSUME MaxClosersAssumption == MaxClosers \in Nat

VARIABLES
  file,     \* caller -> the sites of its file
  phase,    \* caller -> the step of parseSource it is at
  stack,    \* caller -> the calls of parseWithAdaptersExcept, innermost first
  answer,   \* caller -> what the last outermost call returned
  work,     \* caller -> what the steps of parseSource carry along
  verdict,  \* caller -> what Parse returned
  treeParses, adapterNesting, maxAdapterDepth,   \* the counters of stats.go
  entered   \* the depths counted since the last reset: history

chainVars == << file, phase, stack, answer, work, verdict,
                treeParses, adapterNesting, maxAdapterDepth, entered >>
counters == << treeParses, adapterNesting, maxAdapterDepth, entered >>

----------------------------------------------------------------------------
(* Errors, trees and masks.  A mask is a set of pairs of a site and an offset
   in its text; offset 0 stands for the construct as a whole.  Of an anonymous
   function the pairs are its words: 0 for the plain ones, a site for each that
   is a construct.  A tree is the mask it was read under and what is left of
   that mask in it. *)

NoErr == [class |-> "none", site |-> 0, at |-> 0]
ErrorAt(class, i, at) == [class |-> class, site |-> i, at |-> at]

NoTree      == [read |-> {}, left |-> {}]
Read(tree)  == [ok |-> TRUE, tree |-> tree, err |-> NoErr]
Failed(err) == [ok |-> FALSE, tree |-> NoTree, err |-> err]
Pending     == Failed(NoErr)

(* An error an adapter builds itself is no syntax.ParseError, nor is the one
   for another shell's construct; one from inside a backquote island has that
   island's offsets, and no gate is taken to accept them. *)
IsParseErr(err) == err.class \notin {"restore", "island", "lang"}

Offsets(mask, i) == { m[2] : m \in { m \in mask : m[1] = i } }
Masked(t, offsets) ==
  [ p \in 1 .. Len(t) |-> IF p \in offsets THEN "_" ELSE t[p] ]

Hidden(f, mask, i) ==
  LET hidden[j \in DOMAIN f] ==
        LET h == f[j].host
        IN  /\ h # 0
            /\ \/ <<h, IF f[h].kind = "anon" THEN j ELSE 0>> \in mask
               \/ hidden[h]
  IN  hidden[i]

Inside(f, h) == { i \in DOMAIN f : Hidden(f, {h} \X (0 .. Len(f)), i) }

----------------------------------------------------------------------------
(* The base parser. *)

(* The sites a parse of the sites `span' meets under a mask. *)
Seen(f, span, mask) == { i \in span : ~ Hidden(f, mask, i) }

(* Every error of the arithmetic of a subscript and of what a cut pattern
   leaves behind, at the bytes it can name: more than any one parse gives. *)
Named(t) ==
  LET on(class, chars) == {class} \X At(t, chars)
      doubled == { p \in 1 .. Len(t) - 1 : t[p] \in {"-", "+"} /\ t[p + 1] = t[p] }
  IN  (UNION { on("name", {"["}), on("caret", {"^"}), on("ternary", {":"}),
               on("ternaryColon", {"?"}), on("follow", {"="}), on("quote", {"'"}),
               on("call", {"("}), on("operator", isBareKeyPunctuation) })
        \cup ({"expression", "tilde"} \X ({0} \cup At(t, {"["})))
        \cup ({"decrement", "postfix"} \X doubled)
        \cup ({"arithmetic"} \X DOMAIN t) \cup ({"other"} \X {1, Len(t)})
        \cup ({"cut", "word", "lang"} \X { p \in 2 .. Len(t) : t[p - 1] = "]" })
        \cup {<<"assignment", 0>>}

(* What the parser may make of a site: it reads a masked construct, all words
   of an anonymous function must be masked, and arithmetic that it reads as a
   command need not show what is wrong in it. *)
Answers(f, span, mask, i) ==
  LET s      == f[i]
      silent == IF s.says = {} \/ s.host \in { h \in span : f[h].kind = "nested" }
                THEN {NoErr} ELSE {}
      errors == silent \cup { ErrorAt(class, i, 0) : class \in s.says }
      words  == {0} \cup { j \in DOMAIN f : f[j].host = i }
  IN  CASE s.text # <<>> ->
             {NoErr} \cup { ErrorAt(e[1], i, e[2]) :
                              e \in Named(Masked(s.text, Offsets(mask, i))) }
        [] s.text = <<>> /\ s.kind = "anon" ->
             IF words \subseteq Offsets(mask, i) THEN {NoErr} ELSE errors
        [] s.text = <<>> /\ s.kind = "cr" ->
             IF <<i, 0>> \in mask /\ s.form = "word"
             THEN {ErrorAt("other", i, 0)} ELSE {NoErr}
        [] OTHER -> IF Offsets(mask, i) # {} THEN {NoErr} ELSE errors

(* parseTree. *)
BaseErrors(f, span, mask) ==
  LET seen   == Seen(f, span, mask)
      errors == UNION { Answers(f, span, mask, i) : i \in seen }
  IN  (errors \ {NoErr})
        \cup (IF \A i \in seen : NoErr \in Answers(f, span, mask, i)
              THEN {NoErr} ELSE {})

LiteralEnd(f, mask, i) ==
  RawEnd(Masked(f[i].text, Offsets(mask, i)), f[i].form = "param")

----------------------------------------------------------------------------
(* The adapters: each one's edits for an error of the base parser, none when
   its gate refuses.  c is the call they serve: [span, mask, err, ...].  A
   gate knows the error's text and place, never which construct it is of. *)

Gate ==
  [alternation |-> {"test", "unmatched", "quote"}, always |-> {"statements"},
   semi |-> {"statement"}, multi |-> {"parenthesis"}, assign |-> {"follow"},
   brace |-> {"unclosed", "keyword"}, math |-> {"call", "ternaryColon", "group"},
   nested |-> {"other", "call", "unclosed"}, anon |-> {"statements"}]

Native(s) == s.form \notin {"declined", "quoted", "group"}
Whole(S)  == { <<i, 0>> : i \in S }
Texted(i, offsets) == { <<i, p>> : p \in offsets }

(* The sites of a kind that stand in active source, recognised there, not
   masked: what an adapter that masks a whole file's occurrences collects. *)
Active(f, c, kind) ==
  { i \in Seen(f, c.span, c.mask) :
      f[i].kind = kind /\ Native(f[i]) /\ Offsets(c.mask, i) = {} }

(* Of every alternation in the file, in one batch; the backquotes that hold
   one are blanked as well and parsed on their own afterwards. *)
Islands(f, c) ==
  { h \in c.span : /\ f[h].kind = "tick"
                   /\ \E i \in Active(f, c, "alternation") : f[i].host = h }
AlternationEdits(f, c) ==
  IF /\ c.err.class \in Gate.alternation
     /\ c.err.site \in Active(f, c, "alternation")
  THEN Whole(Active(f, c, "alternation") \cup Islands(f, c))
  ELSE {}

(* Of whichever subscript holds the error: a key in another's text, or in a
   flagged pattern, is claimed as well. *)
KeyEdits(f, c) ==
  LET i == c.err.site IN
  IF i # 0 /\ f[i].text # <<>>
  THEN Texted(i, findBareAssociativeKey(
                   Masked(f[i].text, Offsets(c.mask, i)),
                   f[i].form = "braced", f[i].kind = "flag", c.err.class, c.err.at))
  ELSE {}

(* A cut names the byte after the premature `]', an assignment its name, a
   quote a comma before it; any other error only its place after a `]' that
   the scan would mask. *)
FlagGate(t, scan, class, seed) ==
  LET earlier(char) == \E p \in scan.edits : t[p] = char /\ p < seed
  IN  CASE class \in {"cut", "word", "lang"} ->
             /\ seed - 1 \in scan.edits /\ t[seed - 1] = "]"
             /\ At(SubSeq(t, 1, seed - 2), {"]"}) = {}
        [] class = "assignment" -> TRUE
        [] class = "quote" -> earlier(",")
        [] OTHER -> /\ earlier("]")
                    /\ positionalPatternDecidable(SubSeq(t, 1, scan.close - 1))
FlagEdits(f, c) ==
  LET i    == c.err.site
      t    == Masked(f[i].text, Offsets(c.mask, i))
      scan == scanFlagPatternBrackets(t)
  IN  IF i # 0 /\ f[i].kind = "flag"
      THEN IF scan.close # 0 /\ FlagGate(t, scan, c.err.class, c.err.at)
           THEN Texted(i, scan.edits) ELSE {}
      ELSE {}

(* The expression after the pattern's comma, or else a later subscript
   straight after the pattern's own. *)
patternAfterCommaError(t, class, seed) ==
  \/ class \in {"name", "caret"}
  \/ class = "decrement" /\ t[seed] = "-"
locatePatternAfterComma(t, seed) ==
  LET end == flagPatternEnd(t)
  IN  CASE end # 0 /\ t[end] = "," /\ end < seed -> scanPatternAfterComma(t, end)
        [] end \in 1 .. Len(t) - 1 /\ t[end] = "]" /\ t[end + 1] = "[" /\ end + 1 < seed ->
             scanPatternAfterComma(t, end + 1)
        [] OTHER -> Refused
CommaEdits(f, c) ==
  LET i     == c.err.site
      t     == Masked(f[i].text, Offsets(c.mask, i))
      after == locatePatternAfterComma(t, c.err.at)
  IN  IF i # 0 /\ f[i].kind = "flag"
      THEN IF /\ patternAfterCommaError(t, c.err.class, c.err.at)
              /\ after.close # 0 /\ c.err.at <= after.close
           THEN Texted(i, { p \in after.edits : t[p] # "_" })
           ELSE {}
      ELSE {}

(* Every `} always {' of the file, when the error lies in one of them. *)
AlwaysEdits(f, c) ==
  IF c.err.class \in Gate.always /\ c.err.site \in Active(f, c, "always")
  THEN Whole(Active(f, c, "always"))
  ELSE {}

(* The definition at the error, or the first `function' of the source after
   it, read or not: one that is masked already, or no such definition, ends
   the search. *)
SemiEdits(f, c) ==
  LET later == { i \in Seen(f, c.span, c.mask) : f[i].kind = "semi" /\ i >= c.err.site }
      found == { i \in Active(f, c, "semi") : c.err.site # 0 /\ i \in later
                                               /\ \A j \in later : i <= j }
  IN  IF c.err.class \in Gate.semi THEN Whole(found) ELSE {}

(* One site, the one the error names. *)
MultiEdits(f, c) ==
  IF c.err.class \in Gate.multi /\ c.err.site \in Active(f, c, "multi")
  THEN Whole({c.err.site})
  ELSE {}
AssignEdits(f, c) ==
  IF c.err.class \in Gate.assign /\ c.err.site \in Active(f, c, "assign")
  THEN Whole({c.err.site})
  ELSE {}

(* The error of an open block is at its `{', the one of a keyword after the
   block: the first brace after the one, the first before the other. *)
BraceEdits(f, c) ==
  LET braces == Active(f, c, "brace")
      sites  == CASE c.err.class = "unclosed" -> { i \in braces : i >= c.err.site }
                  [] c.err.class = "keyword"  -> { i \in braces : i <= c.err.site }
                  [] OTHER -> {}
  IN  IF sites = {} THEN {} ELSE Whole({Least(sites)})

(* Every call of the file, whichever the error is about; a ternary or a group
   must hold one. *)
MathEdits(f, c) ==
  IF \/ c.err.class = "call"
     \/ c.err.class \in Gate.math /\ c.err.site \in Active(f, c, "math")
  THEN Whole(Active(f, c, "math"))
  ELSE {}

(* Any error inside a nested arithmetic masks its whole body, innermost. *)
NestedEdits(f, c) ==
  LET i     == c.err.site
      hosts == { h \in Active(f, c, "nested") : h = i \/ i \in Inside(f, h) }
  IN  IF hosts = {} THEN {} ELSE Whole({Greatest(hosts)})

(* The chain, in order. *)
adapterChain == << "alternation", "key", "flag", "comma", "always", "semi",
                   "multi", "assign", "brace", "math", "nested" >>

Edits(a, f, c) ==
  IF ~ IsParseErr(c.err) /\ ~ (a = "flag" /\ c.err.class = "lang") THEN {} ELSE
  CASE a = "alternation" -> AlternationEdits(f, c)
    [] a = "key"    -> KeyEdits(f, c)
    [] a = "flag"   -> FlagEdits(f, c)
    [] a = "comma"  -> CommaEdits(f, c)
    [] a = "always" -> AlwaysEdits(f, c)
    [] a = "semi"   -> SemiEdits(f, c)
    [] a = "multi"  -> MultiEdits(f, c)
    [] a = "assign" -> AssignEdits(f, c)
    [] a = "brace"  -> BraceEdits(f, c)
    [] a = "math"   -> MathEdits(f, c)
    [] a = "nested" -> NestedEdits(f, c)

(* What an adapter makes of the tree its retry gave: it must hold the
   construct at the masked site, and then gets its bytes back.  The masks of
   `always', `;', a call's name and a nested arithmetic stay in the tree. *)
holdsFlagPattern(f, c, tree, i) ==
  LiteralEnd(f, tree.read, i)
    = scanFlagPatternBrackets(Masked(f[i].text, Offsets(c.mask, i))).close

(* An assignment's error must repair an assignment (#266). *)
repairsAssignment(f, c, i) == c.err.class = "assignment" => f[i].form = "assign"

(* A comma is the pattern's own; a later subscript is an expansion's. *)
verify(f, c, tree, i) ==
  LET t   == Masked(f[i].text, Offsets(c.mask, i))
      end == flagPatternEnd(t)
  IN  /\ LiteralEnd(f, tree.read, i) = end
      /\ t[end] = "]" => f[i].form = "param"

Settle(a, f, c, tree) ==
  LET sites    == { m[1] : m \in c.edits }
      the      == CHOOSE i \in sites : TRUE
      inTree   == \A i \in sites : ~ Hidden(f, tree.left, i)
      restored == Read([tree EXCEPT !.left = @ \ c.edits])
      check(cond) == IF cond THEN restored ELSE Failed(c.err)
  IN
  CASE a \in {"always", "semi", "math"} -> Read(tree)
    [] a = "nested" -> IF inTree THEN Read(tree) ELSE Failed(c.err)
    [] a \in {"alternation", "key"} ->
         IF inTree THEN restored ELSE Failed(ErrorAt("restore", the, 0))
    [] a = "flag" -> check(/\ inTree /\ holdsFlagPattern(f, c, tree, the)
                           /\ repairsAssignment(f, c, the))
    [] a = "comma" -> check(inTree /\ verify(f, c, tree, the))
    [] OTHER -> check(inTree)

----------------------------------------------------------------------------
(* The chain: parseWithAdaptersExcept as a stack of calls. *)

ChainCall(span, mask) ==
  [span |-> span, mask |-> mask, stage |-> "enter", depth |-> 0, seen |-> 0,
   err |-> NoErr, next |-> 1, adapter |-> "none", edits |-> {},
   islands |-> {}, result |-> Pending]

Top(c) == stack[c][1]
AtStage(c, stage) == stack[c] # <<>> /\ Top(c).stage = stage
SetTop(c, call) == stack' = [stack EXCEPT ![c][1] = call]
Push(c, call, caller) == stack' = [stack EXCEPT ![c] = <<call, caller>> \o Tail(@)]

(* enterAdapterChain: the level is counted, then the maximum is raised by
   compare-and-swap until it is no lower. *)
EnterChain(c) ==
  /\ AtStage(c, "enter")
  /\ adapterNesting' = adapterNesting + 1
  /\ SetTop(c, [Top(c) EXCEPT !.depth = adapterNesting, !.stage = "load"])
  /\ UNCHANGED << file, phase, answer, work, verdict,
                  treeParses, maxAdapterDepth, entered >>

LoadDeepest(c) ==
  /\ AtStage(c, "load")
  /\ IF Top(c).depth <= maxAdapterDepth
     THEN /\ SetTop(c, [Top(c) EXCEPT !.stage = "parse"])
          /\ entered' = entered \cup {Top(c).depth}
     ELSE /\ SetTop(c, [Top(c) EXCEPT !.seen = maxAdapterDepth, !.stage = "swap"])
          /\ UNCHANGED entered
  /\ UNCHANGED << file, phase, answer, work, verdict,
                  treeParses, adapterNesting, maxAdapterDepth >>

Swaps_Always(call) == TRUE
Swaps(call) == maxAdapterDepth = call.seen

SwapDeepest(c) ==
  /\ AtStage(c, "swap")
  /\ IF Swaps(Top(c))
     THEN /\ maxAdapterDepth' = Top(c).depth
          /\ SetTop(c, [Top(c) EXCEPT !.stage = "parse"])
          /\ entered' = entered \cup {Top(c).depth}
     ELSE /\ SetTop(c, [Top(c) EXCEPT !.stage = "load"])
          /\ UNCHANGED << maxAdapterDepth, entered >>
  /\ UNCHANGED << file, phase, answer, work, verdict, treeParses, adapterNesting >>

Leaving(call, result) == [call EXCEPT !.stage = "leave", !.result = result]

ParseTree(c) ==
  /\ AtStage(c, "parse")
  /\ treeParses' = treeParses + 1
  /\ \E err \in BaseErrors(file[c], Top(c).span, Top(c).mask) :
       SetTop(c, IF err = NoErr
                 THEN Leaving(Top(c), Read([read |-> Top(c).mask, left |-> Top(c).mask]))
                 ELSE [Top(c) EXCEPT !.err = err, !.stage = "attempt"])
  /\ UNCHANGED << file, phase, answer, work, verdict,
                  adapterNesting, maxAdapterDepth, entered >>

(* The retry with the adapter's edits alone, the earlier masks forgotten. *)
Retry_OwnMask(call, edits) == ChainCall(call.span, edits)

(* The call an adapter's masked retry makes: the whole chain, never the base
   parser alone. *)
Retry(call, edits) == ChainCall(call.span, call.mask \cup edits)

(* The next adapter whose gate takes the error parses the masked file; when
   none is left the last error is the call's. *)
Attempt(c) ==
  /\ AtStage(c, "attempt")
  /\ LET call   == Top(c)
         takers == { k \in call.next .. Len(adapterChain) :
                       Edits(adapterChain[k], file[c], call) # {} }
         a      == adapterChain[Least(takers)]
         edits  == Edits(a, file[c], call)
     IN  IF takers = {} THEN SetTop(c, Leaving(call, Failed(call.err)))
         ELSE Push(c, Retry(call, edits),
                   [call EXCEPT !.next = Least(takers) + 1, !.adapter = a,
                      !.edits = edits, !.stage = "settle", !.result = Pending,
                      !.islands = IF a = "alternation" THEN Islands(file[c], call) ELSE {}])
  /\ UNCHANGED << file, phase, answer, work, verdict, counters >>

(* parseAndGraftLegacyBacktickIslands: each island is parsed by itself under
   the batch's pattern edits. *)
GraftIsland(c) ==
  /\ AtStage(c, "settle") /\ Top(c).islands # {}
  /\ LET call == Top(c)
         h    == Least(call.islands)
     IN  Push(c, ChainCall(call.span \cap Inside(file[c], h),
                      { m \in call.mask \cup call.edits : m[1] # h }),
              [call EXCEPT !.islands = @ \ {h}, !.stage = "graft"])
  /\ UNCHANGED << file, phase, answer, work, verdict, counters >>

(* The adapter's own check of the tree, and the bytes it puts back. *)
SettleRetry(c) ==
  /\ AtStage(c, "settle") /\ Top(c).islands = {}
  /\ LET call   == Top(c)
         result == Settle(call.adapter, file[c], call, call.result.tree)
     IN  SetTop(c, IF result.ok THEN Leaving(call, result)
                   ELSE [call EXCEPT !.err = result.err, !.stage = "attempt"])
  /\ UNCHANGED << file, phase, answer, work, verdict, counters >>

(* What the caller of a chain does with its answer.  A failed retry's error
   replaces the error the adapter was given. *)
Deliver(f, call, result) ==
  LET island == call.stage = "graft"
      tree   == [read |-> call.result.tree.read \cup result.tree.read,
                 left |-> (call.result.tree.left \cup result.tree.left)
                             \ { m \in call.edits : f[m[1]].kind = "tick"
                                                     /\ m[1] \notin call.islands }]
  IN  CASE ~ result.ok ->
             [call EXCEPT !.stage = "attempt",
                !.err = IF island THEN ErrorAt("island", result.err.site, 0)
                        ELSE result.err]
        [] result.ok /\ island -> [call EXCEPT !.stage = "settle", !.result = Read(tree)]
        [] OTHER -> [call EXCEPT !.stage = "settle", !.result = result]

LeaveChain(c) ==
  /\ AtStage(c, "leave")
  /\ adapterNesting' = adapterNesting - 1
  /\ IF Len(stack[c]) = 1
     THEN /\ stack' = [stack EXCEPT ![c] = <<>>]
          /\ answer' = [answer EXCEPT ![c] = Top(c).result]
     ELSE /\ stack' = [stack EXCEPT ![c] =
                          <<Deliver(file[c], stack[c][2], Top(c).result)>>
                             \o SubSeq(@, 3, Len(@))]
          /\ UNCHANGED answer
  /\ UNCHANGED << file, phase, work, verdict, treeParses, maxAdapterDepth, entered >>

----------------------------------------------------------------------------
(* parseSource: what happens around the outermost calls. *)

Sites(c) == DOMAIN file[c]
Idle(c, p) == phase[c] = p /\ stack[c] = <<>>
Run(c, p, span, mask) ==
  /\ stack' = [stack EXCEPT ![c] = <<ChainCall(span, mask)>>]
  /\ phase' = [phase EXCEPT ![c] = p]
GoTo(c, p) == phase' = [phase EXCEPT ![c] = p] /\ UNCHANGED stack
Carry(c, w) == work' = [work EXCEPT ![c] = w]

NoWords == [site |-> 0, end |-> 0, tree |-> NoTree, cut |-> {}]
NoWork ==
  [cut |-> {}, kept |-> FALSE, anonymous |-> FALSE, tree |-> NoTree, mask |-> {},
   candidates |-> <<>>, words |-> NoWords, err |-> NoErr, closers |-> {},
   previous |-> NoErr, appended |-> 0]

(* The pass fails; a failed repair of a cut pattern keeps the tree it has. *)
Reject(c, err) ==
  /\ verdict' = [verdict EXCEPT ![c] = Failed(err)]
  /\ GoTo(c, "done")
Fail(c, err) ==
  IF work[c].kept THEN GoTo(c, "resolve") /\ UNCHANGED verdict
                  ELSE Reject(c, err)

(* ResetStats: two stores. *)
ResetTreeParses(c) ==
  /\ phase[c] = "reset" /\ GoTo(c, "resetDepth")
  /\ treeParses' = 0
  /\ UNCHANGED << file, answer, work, verdict, adapterNesting, maxAdapterDepth, entered >>

ResetDepth(c) ==
  /\ phase[c] = "resetDepth" /\ GoTo(c, "start")
  /\ maxAdapterDepth' = 0 /\ entered' = {}
  /\ UNCHANGED << file, answer, work, verdict, treeParses, adapterNesting >>

Begin(c) ==
  /\ Idle(c, "start") /\ Run(c, "chain", Sites(c), {})
  /\ UNCHANGED << file, answer, work, verdict, counters >>

(* A tree read under the mask of a cut's repair must hold every masked site,
   once, to get its bytes back. *)
Accept(c, w, tree, anonymous) ==
  IF \E m \in w.cut : Hidden(file[c], tree.left, m[1])
  THEN Fail(c, NoErr) /\ UNCHANGED work
  ELSE /\ Carry(c, [w EXCEPT !.tree = [tree EXCEPT !.left = @ \ w.cut],
                             !.anonymous = anonymous])
       /\ GoTo(c, "cuts") /\ UNCHANGED verdict

(* parseFull and parseIncludingAnonymousArgs: the chain, then the anonymous
   function fallback.  A repair takes the path that produced the tree. *)
ChainAnswered(c) ==
  /\ Idle(c, "chain")
  /\ LET w == work[c] IN
     IF answer[c].ok THEN Accept(c, w, answer[c].tree, w.anonymous)
     ELSE IF w.kept /\ ~ w.anonymous
          THEN Fail(c, answer[c].err) /\ UNCHANGED work
          ELSE /\ Carry(c, [w EXCEPT !.err = answer[c].err, !.mask = w.cut,
                               !.candidates = <<>>])
               /\ GoTo(c, "anonymous") /\ UNCHANGED verdict
  /\ UNCHANGED << file, answer, counters >>

(* The pattern cuts a tree of the sites `span' shows: literals that end before
   the scan's end. *)
Shown(f, span, tree, kind) == { i \in Seen(f, span, tree.left) : f[i].kind = kind }

flagPatternCutEdits(f, span, tree) ==
  UNION { LET scan == scanFlagPatternBrackets(f[i].text)
          IN  IF scan.close > LiteralEnd(f, tree.read, i)
              THEN Texted(i, scan.edits) ELSE {} : i \in Shown(f, span, tree, "flag") }

(* The words after an anonymous function, or after any `}' that the error as
   it stands points at, are parsed as an island: all that follows the brace, a
   cut repair's masks included. *)
After(c, a) == { i \in Sites(c) : i > a }
WholeIsland(c) == Len(file[c]) + 1
Island(c, w) == { i \in After(c, w.words.site) : i < w.words.end }
anonymousFunctionInvocationCandidate(f, err) ==
  { i \in {err.site} \ {0} : /\ err.class = "statements"
                             /\ f[i].kind = "anon" /\ f[i].form # "declined" }

FindCandidate(c) ==
  /\ Idle(c, "anonymous")
  /\ LET w     == work[c]
         found == anonymousFunctionInvocationCandidate(file[c], w.err)
         a     == Least(found)
     IN  IF found = {} THEN GoTo(c, "validate") /\ UNCHANGED work
         ELSE /\ Run(c, "words", After(c, a), w.cut)
              /\ Carry(c, [w EXCEPT !.words = [site |-> a, end |-> WholeIsland(c),
                                               tree |-> NoTree, cut |-> w.cut]])
  /\ UNCHANGED << file, answer, verdict, counters >>

(* An error cuts the island off where it stands. *)
parseAnonymousInvocationWords(c) ==
  /\ Idle(c, "words")
  /\ LET w     == work[c]
         until == answer[c].err.site
     IN  IF answer[c].ok
         THEN /\ Carry(c, [w EXCEPT !.words.tree = answer[c].tree])
              /\ GoTo(c, "wordCuts")
         ELSE IF IsParseErr(answer[c].err)
              THEN /\ Carry(c, [w EXCEPT !.words.end = until])
                   /\ Run(c, "words", { i \in Island(c, w) : i < until }, w.cut)
              ELSE GoTo(c, "validate") /\ UNCHANGED work
  /\ UNCHANGED << file, answer, verdict, counters >>

(* The words found are blanked and the file is parsed again, unless they are
   those of an earlier candidate. *)
BlankWords(c, w) ==
  LET a     == w.words.site
      words == { <<a, j>> : j \in {0} \cup { j \in Island(c, w) : file[c][j].host = a } }
  IN  IF \E k \in DOMAIN w.candidates : w.candidates[k].site = a
      THEN Carry(c, w) /\ GoTo(c, "validate")
      ELSE /\ Carry(c, [w EXCEPT !.candidates = Append(@, w.err), !.mask = @ \cup words])
           /\ Run(c, "bind", Sites(c), w.mask \cup words)

(* Their cut patterns are repaired by the bare chain over the whole island,
   the part that was cut off included; a repair that fails is dropped. *)
RepairWords(c) ==
  /\ Idle(c, "wordCuts")
  /\ LET w     == work[c]
         grown == w.words.cut \cup flagPatternCutEdits(file[c], Island(c, w), w.words.tree)
     IN  IF grown = w.words.cut THEN BlankWords(c, w)
         ELSE /\ Carry(c, [w EXCEPT !.words.cut = grown])
              /\ Run(c, "wordRepair", After(c, w.words.site), grown)
  /\ UNCHANGED << file, answer, verdict, counters >>

WordsRepaired(c) ==
  /\ Idle(c, "wordRepair")
  /\ LET w == work[c] IN
     IF /\ answer[c].ok
        /\ ~ \E m \in w.words.cut : Hidden(file[c], answer[c].tree.left, m[1])
     THEN /\ Carry(c, [w EXCEPT !.words.end = WholeIsland(c),
                                !.words.tree = answer[c].tree])
          /\ GoTo(c, "wordCuts")
     ELSE BlankWords(c, w)
  /\ UNCHANGED << file, answer, verdict, counters >>

Unbound(f, candidates) ==
  { k \in DOMAIN candidates : f[candidates[k].site].form # "native" }

bindAnonymousInvocations(c) ==
  /\ Idle(c, "bind")
  /\ LET w       == work[c]
         unbound == Unbound(file[c], w.candidates)
     IN  IF ~ answer[c].ok
         THEN /\ Carry(c, [w EXCEPT !.err = answer[c].err])
              /\ GoTo(c, "anonymous") /\ UNCHANGED verdict
         ELSE IF unbound # {}
              THEN Fail(c, w.candidates[Least(unbound)]) /\ UNCHANGED work
              ELSE Accept(c, w, answer[c].tree, TRUE)
  /\ UNCHANGED << file, answer, counters >>

(* Before an error is trusted every candidate is checked: the file up to its
   brace, with the closers its errors ask for, must end in an anonymous
   function.  The retries end at their bound, and at an error that a closer
   left as it was. *)
Closers(err) == IF err.class = "unclosed" THEN {<<err.site, 1>>} ELSE {}
AsksForCloser(err) ==
  err.class \in {"unclosed", "keyword", "assignment", "call", "group", "test", "quote",
                 "unmatched", "parenthesis", "ternary", "ternaryColon", "tilde", "cut"}

ValidateCandidate(c) ==
  /\ Idle(c, "validate")
  /\ LET w == work[c] IN
     IF w.candidates = <<>> THEN Fail(c, w.err)
     ELSE /\ Run(c, "prefix", { i \in Sites(c) : i <= Head(w.candidates).site },
                 w.mask \cup w.closers)
          /\ UNCHANGED verdict
  /\ UNCHANGED << file, answer, work, counters >>

prefixEndsWithAnonymousFunction(c) ==
  /\ Idle(c, "prefix")
  /\ LET w    == work[c]
         err  == answer[c].err
         ends == answer[c].ok
                   /\ file[c][Head(w.candidates).site].form \in {"native", "redirect"}
         more == ~ answer[c].ok /\ err # w.previous /\ AsksForCloser(err)
                   /\ w.appended < MaxClosers
     IN  IF ends \/ more
         THEN /\ Carry(c, IF ends
                          THEN [w EXCEPT !.candidates = Tail(@), !.previous = NoErr,
                                         !.closers = {}, !.appended = 0]
                          ELSE [w EXCEPT !.previous = err, !.appended = @ + 1,
                                         !.closers = @ \cup Closers(err)])
              /\ GoTo(c, "validate") /\ UNCHANGED verdict
         ELSE Fail(c, Head(w.candidates)) /\ UNCHANGED work
  /\ UNCHANGED << file, answer, counters >>

(* One pass of the repair: the mask grows, so the passes end. *)
resolveFlagPatternCuts(c) ==
  /\ Idle(c, "cuts")
  /\ LET w     == work[c]
         grown == w.cut \cup flagPatternCutEdits(file[c], Sites(c), w.tree)
     IN  IF grown = w.cut THEN GoTo(c, "resolve") /\ UNCHANGED work
         ELSE /\ Carry(c, [w EXCEPT !.cut = grown, !.kept = TRUE])
              /\ Run(c, "chain", Sites(c), grown)
  /\ UNCHANGED << file, answer, verdict, counters >>

(* resolveNestedArithmetic: every nested `$(( ))' of the tree, outermost first,
   is parsed again as arithmetic; those inside it are found in its own tree. *)
Unresolved(c) ==
  LET tree == work[c].tree
  IN  { h \in Shown(file[c], Sites(c), tree, "nested") : /\ Native(file[c][h])
                                         /\ <<h, 1>> \notin tree.read }
resolveNestedArithmetic(c) ==
  /\ Idle(c, "resolve")
  /\ LET h == Least(Unresolved(c)) IN
     IF Unresolved(c) = {} THEN GoTo(c, "conditional")
     ELSE Run(c, "resolved", Inside(file[c], h), {})
  /\ UNCHANGED << file, answer, work, verdict, counters >>

parseArithmeticSpan(c) ==
  /\ Idle(c, "resolved")
  /\ LET h    == Least(Unresolved(c))
         mine == answer[c].tree
     IN  IF ~ answer[c].ok THEN Reject(c, answer[c].err) /\ UNCHANGED work
         ELSE /\ work' = [work EXCEPT
                   ![c].tree.read = @ \cup mine.read \cup {<<h, 1>>},
                   ![c].tree.left = (@ \ Whole({h})) \cup mine.left]
              /\ GoTo(c, "resolve") /\ UNCHANGED verdict
  /\ UNCHANGED << file, answer, counters >>

(* The guards, in their order: the sites that the base parser reads and Zsh
   does not. *)
Guarded(c, form) ==
  { i \in Sites(c) : file[c][i].kind = "guarded" /\ file[c][i].form = form }
Guard(c, at, next, wrong, class) ==
  /\ Idle(c, at)
  /\ IF wrong # {} THEN Reject(c, ErrorAt(class, Least(wrong), 0))
                   ELSE GoTo(c, next) /\ UNCHANGED verdict
  /\ UNCHANGED << file, answer, work, counters >>

validateConditionalPatterns(c) ==
  Guard(c, "conditional", "returns", Guarded(c, "pattern"), "guard")
rejectUnsupportedLoopWords(c) ==
  Guard(c, "loopWords", "braces", Guarded(c, "repeat"), "guard")
rejectCloseBraceWords(c) ==
  Guard(c, "braces", "patterns", Guarded(c, "brace"), "guard")

(* rejectCarriageReturns: every carriage return becomes a word byte, and the
   bare chain parses the file once more. *)
Returns(c) == { i \in Sites(c) : file[c][i].kind = "cr" }
rejectCarriageReturns(c) ==
  /\ Idle(c, "returns")
  /\ IF Returns(c) = {} THEN GoTo(c, "loopWords")
                        ELSE Run(c, "probe", Sites(c), Whole(Returns(c)))
  /\ UNCHANGED << file, answer, work, verdict, counters >>
CarriageReturnProbe(c) ==
  Guard(c, "probe", "loopWords", IF answer[c].ok THEN {} ELSE Returns(c), "cr")

(* What the repair could not mend: a cut at a `]', or a pattern that ends
   inside an expansion it opened and holds no single quote. *)
litEndsInsideExpansion(value) ==
  LET at(j, chars) == Cardinality({ k \in j .. Len(value) :
                                      value[k] \in chars /\ ~ Escaped(value, k) })
  IN  /\ At(value, {"'"}) = {}
      /\ \E j \in At(value, {"${", "$("}) :
           /\ ~ Escaped(value, j)
           /\ at(j, {"${", "$("}) > at(j, {"}", ")"})

rejectFlagPatternCuts(c) ==
  LET tree == work[c].tree
      text(i) == file[c][i].text
      premature == { m[1] : m \in { m \in flagPatternCutEdits(file[c], Sites(c), tree) :
                                      text(m[1])[m[2]] = "]" } }
      unclosed == { i \in Shown(file[c], Sites(c), tree, "flag") :
                      litEndsInsideExpansion(
                        SubSeq(text(i), 1, LiteralEnd(file[c], tree.read, i) - 1)) }
  IN  Guard(c, "patterns", "file",
            IF premature # {} THEN premature ELSE unclosed, "guard")

NewFile(c) ==
  /\ Idle(c, "file")
  /\ verdict' = [verdict EXCEPT ![c] = Read(work[c].tree)]
  /\ GoTo(c, "done")
  /\ UNCHANGED << file, answer, work, counters >>

----------------------------------------------------------------------------
ChainInit ==
  /\ file \in Batches
  /\ phase = [c \in Goroutines |-> CASE file[c] = <<>> -> "done"
                                  [] c \in Resets -> "reset"
                                  [] OTHER -> "start"]
  /\ stack = [c \in Goroutines |-> <<>>]
  /\ answer = [c \in Goroutines |-> Pending]
  /\ work = [c \in Goroutines |-> NoWork]
  /\ verdict = [c \in Goroutines |-> Pending]
  /\ treeParses = 0 /\ adapterNesting = 0 /\ maxAdapterDepth = 0 /\ entered = {}

ChainStep(c) ==
  \/ EnterChain(c)
  \/ LoadDeepest(c)
  \/ SwapDeepest(c)
  \/ ParseTree(c)
  \/ Attempt(c)
  \/ GraftIsland(c)
  \/ SettleRetry(c)
  \/ LeaveChain(c)

parseSource(c) ==
  \/ Begin(c)
  \/ ChainAnswered(c)
  \/ FindCandidate(c)
  \/ parseAnonymousInvocationWords(c)
  \/ RepairWords(c)
  \/ WordsRepaired(c)
  \/ bindAnonymousInvocations(c)
  \/ ValidateCandidate(c)
  \/ prefixEndsWithAnonymousFunction(c)
  \/ resolveFlagPatternCuts(c)
  \/ resolveNestedArithmetic(c)
  \/ parseArithmeticSpan(c)
  \/ validateConditionalPatterns(c)
  \/ rejectCarriageReturns(c)
  \/ CarriageReturnProbe(c)
  \/ rejectUnsupportedLoopWords(c)
  \/ rejectCloseBraceWords(c)
  \/ rejectFlagPatternCuts(c)
  \/ NewFile(c)

Quiet == \A c \in Goroutines : phase[c] = "done"
Ended == Quiet /\ UNCHANGED chainVars

Parsing(c) == ResetTreeParses(c) \/ ResetDepth(c) \/ ChainStep(c) \/ parseSource(c)

ChainNext == (\E c \in Goroutines : Parsing(c)) \/ Ended

ChainSpec == ChainInit /\ [][ChainNext]_chainVars

----------------------------------------------------------------------------
(* A retry never gives up an earlier mask and always adds to it, on every level
   of the chain, so an adapter that meets its own construct again has less to
   mask and a parse of a finite file ends (adapter_chain.go). *)
RetriesEnd ==
  \A c \in Goroutines : \A k \in 1 .. Len(stack[c]) - 1 :
    LET caller == stack[c][k + 1]
        retry  == stack[c][k]
    IN  caller.stage = "settle" =>
          /\ caller.mask \subseteq retry.mask
          /\ \E m \in retry.mask : m[1] \in caller.span /\ m \notin caller.mask

(* What the front end should make of a site.  Zsh refuses some; the supported
   ones are the constructs whose errors their own adapter takes.  Of a
   subscript's key nothing is said: the key adapter has known false accepts
   (subscript_compat.go:294-303), and the parser may refuse any. *)
ZshRefuses(s) ==
  \/ s.kind \in {"bad", "guarded"}
  \/ s.form \in {"declined", "group"} /\ s.says # {}
  \/ s.kind = "cr" /\ s.form = "word"
Supported(s) ==
  /\ s.text = <<>> /\ ~ ZshRefuses(s) /\ s.form # "redirect"
  /\ s.says # {} => s.says \subseteq Gate[s.kind]

(* A pattern of brackets, commas and nested expansions is read to its end. *)
PatternWhole(f, tree, i) ==
  LET text == f[i].text IN
  (NativeEnd(text) # 0 /\ At(text, {"'", "\\", "!", "(", ")", "$(", "bq"}) = {}) =>
    LiteralEnd(f, tree.read, i) = NativeEnd(text)

(* A return's error is at the first of them, and a candidate that cannot be
   checked, for what stands before it or the bound on the closers, gives the
   error at the candidate. *)
Blamed(c, err) ==
  CASE err.class = "cr" -> Returns(c)
    [] err.class = "statements" -> Sites(c)
    [] OTHER -> {err.site} \cap Sites(c)
LeftMasked == {"always", "semi", "math", "anon"}


(* The maximum is never below a depth counted since the last reset, and the
   nesting is the number of calls under way (stats.go). *)
Calls ==
  UNION { { <<c, Len(stack[c]) - k>> :
              k \in { k \in DOMAIN stack[c] : stack[c][k].stage # "enter" } } :
            c \in Goroutines }
StatsKept ==
  /\ \A d \in entered : d <= maxAdapterDepth
  /\ adapterNesting = Cardinality(Calls)

(* A carriage return where Zsh takes any word byte changes no verdict
   (carriage_return_guard.go). *)
HarmlessReturnsPass ==
  \A c \in Goroutines :
    (phase[c] = "done" /\ verdict[c].err.class = "cr") =>
      \E i \in Returns(c) : file[c][i].form = "word"
=============================================================================
