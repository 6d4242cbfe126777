------------------------------ MODULE Suppress ------------------------------
(***************************************************************************)
(* Inline suppression (internal/suppress).  A source is a record whose     *)
(* lines are "blank", "comment" (the trimmed text starts with #) or "code" *)
(* and whose directives are records [line, malformed, rules], rules a      *)
(* sequence of rule IDs.  A diagnostic is a record [file, line, id, sev,   *)
(* slot]: line 0 is a finding with no position, slot <<d, r>> the rule ID  *)
(* of the directive a meta diagnostic is about (<<0, 0>> for a finding).   *)
(***************************************************************************)
EXTENDS Naturals, Sequences, SequencesExt, FiniteSetsExt

\* What a rule reports, and a directive as it is parsed.
Severities == {"error", "warning", "info", "hint"}
Reported == [line : Nat, id : STRING, sev : Severities]
Directive == [line : Nat, malformed : BOOLEAN, rules : Seq(STRING)]

Finding(path, x) == [file |-> path, line |-> x.line, id |-> x.id, sev |-> x.sev,
                     slot |-> <<0, 0>>]

IsMeta(x) == x.id \in {"meta/malformed-suppression", "meta/unused-suppression"}

\* Code before the comment on its own line makes the directive trailing.
Trailing(f, d) == f.lines[d.line] = "code"

\* targetLine: its own line, or the next line that is neither blank nor comment.
Target(f, d) ==
  LET later == {i \in (d.line + 1)..Len(f.lines) : f.lines[i] = "code"}
  IN  IF Trailing(f, d) THEN d.line ELSE IF later = {} THEN 0 ELSE Min(later)

\* headerDirective: standalone, with no code on any earlier line.
Header(f, d) == /\ ~Trailing(f, d)
                /\ \A i \in 1..(d.line - 1) : f.lines[i] # "code"

\* Every rule ID of every well-formed directive.
WellFormed(f) == {d \in DOMAIN f.ds : ~f.ds[d].malformed}
Slots(f) == UNION {{d} \X DOMAIN f.ds[d].rules : d \in WellFormed(f)}

\* The directive drops findings of its rule on the line it targets; a header
\* directive also those that have no position.
Covers(f, s, x) == LET d == f.ds[s[1]] IN
  /\ d.rules[s[2]] = x.id
  /\ IF x.line = 0 THEN Header(f, d) ELSE Target(f, d) = x.line

Dropped(f, x) == ~IsMeta(x) /\ \E s \in Slots(f) : Covers(f, s, x)

Meta(path, f, id, sev, s) == [file |-> path, line |-> f.ds[s[1]].line, id |-> id,
                              sev |-> sev, slot |-> s]

Malformed(path, f) == {Meta(path, f, "meta/malformed-suppression", "warning", <<d, 0>>) :
                         d \in {d \in DOMAIN f.ds : f.ds[d].malformed}}

Unused(path, f, findings) ==
  {Meta(path, f, "meta/unused-suppression", "info", s) :
     s \in {s \in Slots(f) : ~\E x \in findings : ~IsMeta(x) /\ Covers(f, s, x)}}

\* The elements of s at the positions in at, in their order.
Picked(s, at) ==
  LET picked[n \in 0..Len(s)] ==
        IF n = 0 THEN <<>>
        ELSE IF n \in at THEN Append(picked[n - 1], s[n]) ELSE picked[n - 1]
  IN  picked[Len(s)]

\* Apply: what is left of the findings, and the meta diagnostics.
Apply(path, f, findings) ==
  Picked(findings, {n \in DOMAIN findings : ~Dropped(f, findings[n])})
    \o SetToSeq(Malformed(path, f) \cup Unused(path, f, ToSet(findings)))
=============================================================================
