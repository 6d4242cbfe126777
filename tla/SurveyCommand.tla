--------------------------- MODULE SurveyCommand ---------------------------
(***************************************************************************)
(* The zsh-lint-survey command (cmd/zsh-lint-survey/main.go) and what it   *)
(* runs: a survey of files (internal/survey/survey.go), a comparison of    *)
(* two builds (compare.go), a judgement by native Zsh (judge.go) or the    *)
(* reduction of one file (Reduce).                                         *)
(*                                                                         *)
(* A file's verdict is "ok", its first diagnostic, or "panic"; native Zsh  *)
(* and a run of the file answer or fail.  The answers a mode asks for are  *)
(* kept in rows, one per file.                                             *)
(***************************************************************************)
EXTENDS Reduce

CONSTANTS FlagSets,      \* the flags that may be given together
          NumFiles,      \* on the command line
          DefaultMaxTests,
          Diagnostics    \* first diagnostics of a file that fails

Flags == {"trace-parses", "compare", "native", "known", "candidate", "runtime", "table",
          "judge", "reduce", "fixed", "max-tests"}

ASSUME SurveyAssumption == /\ FlagSets \subseteq SUBSET Flags
                           /\ NumFiles \in Nat \ {0}
                           /\ <<>> \in Sources
                           /\ DefaultMaxTests \in Limits
                           /\ "ok" \notin Diagnostics

VARIABLES flags,   \* the flags that were given
          files,   \* the files
          mode,    \* "flags", "survey", "compare", "judge" or "reduce"
          rows

surveyVars == <<vars, flags, files, mode, rows>>
reduceVars == vars
command == <<flags, files>>

Given(f) == f \in flags
Verdicts == {"ok"} \cup Diagnostics
Native == Given("native")

TypeOK == /\ flags \subseteq Flags
          /\ files \in 0..NumFiles
          /\ mode \in {"flags", "survey", "compare", "judge", "reduce", "over"}
          /\ Len(rows) <= files
          /\ pc \in ToSet(Passes) \cup {"open", "judge", "start", "write", "done"}
          /\ \A k \in DOMAIN units : \A b \in ToSet(units[k]) : b.o \in 0..(Len(src) - 1)
          /\ Tests <= limit
          /\ capped => Tests = limit
          /\ exit \in 0..Running

\* Without -reduce there is no source to reduce.
SurveyInit == /\ Init
              /\ flags \in FlagSets
              /\ "reduce" \notin flags => src = <<>>
              /\ {"reduce", "max-tests"} \subseteq flags \/ limit = DefaultMaxTests
              /\ hasFixed = ("fixed" \in flags)
              /\ files \in 0..NumFiles
              /\ mode = "flags"
              /\ rows = <<>>
-----------------------------------------------------------------------------
\* The flags that do not go together.
Judging == Given("judge") \/ Given("reduce")
BadFlags ==
  \/ files = 0
  \/ {"judge", "reduce"} \subseteq flags
  \/ Judging /\ flags \cap {"trace-parses", "compare", "native", "known", "runtime", "table"} # {}
  \/ ~Given("reduce") /\ flags \cap {"fixed", "max-tests"} # {}
  \/ Given("reduce") /\ files # 1
  \/ ~Judging /\ ~Given("compare")
       /\ flags \cap {"native", "known", "candidate", "runtime", "table"} # {}
  \/ Given("compare") /\ Given("trace-parses")
  \/ flags \cap {"known", "runtime", "table"} # {} /\ ~Native

Leave(code) == mode' = "over" /\ exit' = code
Stay == UNCHANGED <<mode, exit>>
Frame == UNCHANGED <<command, options, pc, units, cursor, before, seen, capped, want, kept,
                     oracleErr, out>>

\* The mode is chosen; zsh may not be on the PATH, the base survey, the
\* candidate's or the table may fail as a whole.
Main == /\ mode = "flags"
        /\ \/ Leave(2) /\ (BadFlags \/ Judging \/ Given("compare"))
           \/ /\ ~BadFlags
              /\ mode' = IF Given("judge") THEN "judge"
                         ELSE IF Given("reduce") THEN "reduce"
                         ELSE IF Given("compare") THEN "compare" ELSE "survey"
              /\ UNCHANGED exit
        /\ UNCHANGED rows
        /\ Frame

Counted(classes) == \E k \in DOMAIN rows : rows[k].class \in classes
More == Len(rows) < files

\* RunWithOptions: a file parses or fails; a panic ends the process.
Survey == /\ mode = "survey"
          /\ More
          /\ \/ /\ \E v \in Verdicts : rows' = Append(rows, [class |-> v])
                /\ Stay
             \/ Leave(2) /\ UNCHANGED rows
          /\ Frame

Surveyed == /\ mode = "survey"
            /\ ~More
            /\ Leave(IF Counted(Diagnostics) THEN 1 ELSE 0)
            /\ UNCHANGED rows
            /\ Frame
-----------------------------------------------------------------------------
\* classify
Class(valid, lint) == IF valid /\ lint # "ok" THEN "GAP"
                      ELSE IF ~valid /\ lint = "ok" THEN "FALSE-ACCEPT" ELSE "AGREE"

\* JudgeFiles: zsh-lint first, whose panic is an error, then native Zsh.
Judge == /\ mode = "judge"
         /\ More
         /\ \/ /\ \E valid \in BOOLEAN, lint \in Verdicts :
                    rows' = Append(rows, [class |-> Class(valid, lint), after |-> lint,
                                          native |-> IF valid THEN "valid" ELSE "invalid"])
               /\ Stay
            \/ Leave(2) /\ UNCHANGED rows
         /\ Frame

JudgedAll == /\ mode = "judge"
             /\ ~More
             /\ Leave(IF Counted({"GAP", "FALSE-ACCEPT"}) THEN 1 ELSE 0)
             /\ UNCHANGED rows
             /\ Frame
-----------------------------------------------------------------------------
\* Mutant: valid and invalid are confused when a file is rejected now.
NativeClass_Swapped(after, valid) ==
  IF after = "ok" THEN IF valid THEN "FIXED" ELSE "FALSE-ACCEPT"
  ELSE IF valid THEN "REJECTED" ELSE "REGRESSED"

NativeClass(after, valid) ==
  IF after = "ok" THEN IF valid THEN "FIXED" ELSE "FALSE-ACCEPT"
  ELSE IF valid THEN "REGRESSED" ELSE "REJECTED"

\* Whether native Zsh is asked about a file, with these two verdicts.
AsksNative(b, a) == Native /\ (b = a \/ b = "ok" \/ a = "ok" \/ Given("table"))

\* The class of a file from the answers of Zsh; "run" is what running it says.
ChangeClass(b, a, valid, run) ==
  IF b = a THEN IF ~Native THEN "UNCHANGED"
                ELSE IF valid /\ a # "ok" THEN "known GAP"
                ELSE IF ~valid /\ a = "ok" THEN "known ACCEPTED" ELSE "UNCHANGED"
  ELSE IF b # "ok" /\ a # "ok" THEN "MOVED"
  ELSE IF ~Native THEN IF a = "ok" THEN "NOW-OK" ELSE "NOW-FAIL"
  ELSE IF NativeClass(a, valid) = "REGRESSED" /\ run = "error" THEN "RUNTIME-REJECTED"
  ELSE NativeClass(a, valid)

AsksRuntime(b, a, valid) == /\ Native /\ Given("runtime")
                            /\ b = "ok" /\ a # "ok"
                            /\ NativeClass(a, valid) = "REGRESSED"

\* Compare, one file.  A verdict may be missing or in error.
Compare ==
  /\ mode = "compare"
  /\ More
  /\ \/ /\ \E b, a \in Verdicts :
             \E native \in IF AsksNative(b, a) THEN {"valid", "invalid"} ELSE {"unasked"} :
               LET valid == native # "invalid" IN
               \E run \in IF AsksRuntime(b, a, valid) THEN {"clean", "error"} ELSE {"unasked"} :
                 rows' = Append(rows, [class |-> ChangeClass(b, a, valid, run), before |-> b,
                                       after |-> a, native |-> native, run |-> run])
        /\ Stay
     \/ Leave(2) /\ UNCHANGED rows
  /\ Frame

Compared == /\ mode = "compare"
            /\ ~More
            /\ \/ Leave(IF Counted({"REGRESSED", "FALSE-ACCEPT", "NOW-FAIL"}) THEN 1 ELSE 0)
               \/ Given("table") /\ Leave(2)
            /\ UNCHANGED rows
            /\ Frame
-----------------------------------------------------------------------------
ReduceStep == /\ mode = "reduce"
              /\ ReduceNext
              /\ UNCHANGED <<flags, files, mode, rows>>

Over == mode = "over" \/ (mode = "reduce" /\ pc = "done")
Ended == Over /\ UNCHANGED surveyVars

SurveyNext == Main \/ Survey \/ Surveyed \/ Judge \/ JudgedAll \/ Compare \/ Compared
                \/ ReduceStep \/ Ended

Spec == SurveyInit /\ [][SurveyNext]_surveyVars
FairSpec == Spec /\ WF_surveyVars(SurveyNext)
-----------------------------------------------------------------------------
\* A reduction that is written is the candidate that was judged last, and it
\* still has the defect: the same class and message, at a byte that came from
\* where the original's error is (internal/survey/reduce.go:41).
ErrorBytes(text, site) ==
  IF site.start = Len(text) THEN {Len(src)}
  ELSE {text[k].o : k \in (site.start + 1)..(IF site.end = site.start THEN site.start + 1
                                             ELSE site.end)}

ResultKeepsDefect ==
  mode = "reduce" /\ exit = 0 =>
    /\ kept.text = out
    /\ kept.j.class = want.class /\ kept.j.message = want.message
    /\ ErrorBytes(out, kept.j.site) \cap ErrorBytes(Text, want.site) # {}
    /\ hasFixed => kept.j.fixed

\* A reduction that was not capped ends at a local minimum: every line, token
\* and pair of tokens, the shortening of every word and every shorter run of
\* tokens was tried without it holding, for the text that is written.
Neighbours(text) ==
  LET ts == Tokens(text)
      ls == Lines(text)
  IN  {Without(ts, {k}) : k \in DOMAIN ts} \cup {Without(ls, {k}) : k \in DOMAIN ls}
        \cup {[ts EXCEPT ![k] = Shortened(@)] : k \in {d \in DOMAIN ts : IsLongWord(ts[d])}}
        \cup IF Len(ts) > MaxQuadraticUnits THEN {}
             ELSE {Without(ts, {p[1], p[2]}) : p \in (DOMAIN ts) \X (DOMAIN ts)}
                    \cup {SubSeq(ts, p[1], p[2]) : p \in {q \in (DOMAIN ts) \X (DOMAIN ts) : q[1] <= q[2]}}

LocallyMinimal ==
  mode = "reduce" /\ exit = 0 /\ ~capped =>
    LET text == SubSeq(out, 1, Len(out) - Len(Suffix)) IN
    \A u \in Neighbours(text) :
      LET c == Candidate(u) IN c = out \/ (c \in DOMAIN seen /\ ~seen[c])

\* The exit status is what native Zsh and the two builds say of the files:
\* 1 exactly when a file got worse or, without a base, is wrong; and a table
\* shows no verdict of Zsh that was not asked for.  A reduction has no rows.
Worse(r) ==
  CASE mode = "survey" -> r.class # "ok"
    [] mode = "judge" -> (r.native = "valid") # (r.after = "ok")
    [] OTHER -> \/ r.before = "ok" /\ r.after # "ok" /\ ~Native
                \/ r.before = "ok" /\ r.after # "ok" /\ r.native = "valid" /\ r.run # "error"
                \/ r.before # "ok" /\ r.after = "ok" /\ r.native = "invalid"

ExitTellsTheFiles ==
  [][mode # "over" /\ mode' = "over" /\ exit' \in {0, 1} =>
       /\ Len(rows) = files
       /\ (exit' = 1) = \E k \in DOMAIN rows : Worse(rows[k])
       /\ Given("table") =>
            \A k \in DOMAIN rows : rows[k].native # "unasked"]_surveyVars

\* Every mode comes to an end, and so does every reduction.
CommandEnds == <>Over
=============================================================================
