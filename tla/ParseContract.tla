--------------------------- MODULE ParseContract ---------------------------
(***************************************************************************)
(* What parse.Parse promises to one caller, whatever other callers do: the *)
(* answer depends on the source alone.  The typed reading of nested        *)
(* assignment targets decides when it accepts the source; otherwise the    *)
(* raw reading decides, so a file the raw reading accepts is never         *)
(* rejected because of the typed one, and a rejected file reports the raw  *)
(* reading's error.                                                        *)
(***************************************************************************)
CONSTANTS Callers,   \* goroutines that call Parse
          Sources    \* [nested, typed, raw] records, see ParseCalls

VARIABLES pending,   \* pending[c]: c is inside Parse
          asked,     \* asked[c]: the source of c's last call
          answer     \* answer[c]: what c's last call returned

vars == <<pending, asked, answer>>

\* The answer the comment on nestedAssignRaw promises for a source.
Verdict(s) == IF s.typed = "error" THEN s.raw ELSE s.typed

Init == /\ pending = [c \in Callers |-> FALSE]
        /\ asked \in [Callers -> Sources]
        /\ answer = [c \in Callers |-> "none"]

Ask(c) == /\ ~pending[c]
          /\ pending' = [pending EXCEPT ![c] = TRUE]
          /\ \E s \in Sources : asked' = [asked EXCEPT ![c] = s]
          /\ answer' = [answer EXCEPT ![c] = "none"]

Answer(c) == /\ pending[c]
             /\ pending' = [pending EXCEPT ![c] = FALSE]
             /\ answer' = [answer EXCEPT ![c] = Verdict(asked[c])]
             /\ UNCHANGED asked

Next == \E c \in Callers : Ask(c) \/ Answer(c)

Spec == Init /\ [][Next]_vars
=============================================================================
