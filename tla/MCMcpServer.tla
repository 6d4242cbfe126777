---------------------------- MODULE MCMcpServer ----------------------------
(***************************************************************************)
(* Client sessions for TLC: every order of a rejected frame among tool     *)
(* calls, and a cancellation of a call that runs.                          *)
(***************************************************************************)
EXTENDS McpServer

F(json, object, version, id, method, outcome, target) ==
  [json |-> json, object |-> object, version |-> version, id |-> id, method |-> method,
   outcome |-> outcome, target |-> target]

LintCall == F(TRUE, TRUE, TRUE, "good", "lint", FALSE, 0)
SyntaxCall == F(TRUE, TRUE, TRUE, "good", "syntax", FALSE, 0)
Cancel(n) == F(TRUE, TRUE, TRUE, "absent", "cancel", FALSE, n)

Rejected == {F(FALSE, FALSE, FALSE, "absent", "absent", FALSE, 0),    \* not JSON
             F(TRUE, FALSE, FALSE, "absent", "absent", FALSE, 0),     \* not an object
             F(TRUE, TRUE, TRUE, "number", "lint", FALSE, 0),         \* ID out of range
             F(TRUE, TRUE, TRUE, "other", "syntax", FALSE, 0),        \* null ID
             F(TRUE, TRUE, TRUE, "good", "bad", FALSE, 0),            \* method not a string
             F(TRUE, TRUE, TRUE, "good", "lint", TRUE, 0),            \* request with a result
             F(TRUE, TRUE, FALSE, "absent", "cancel", FALSE, 1),      \* no version
             F(TRUE, TRUE, TRUE, "absent", "absent", FALSE, 0)}       \* neither
Ignored == {Cancel(0), F(TRUE, TRUE, TRUE, "absent", "lint", TRUE, 0),
            F(TRUE, TRUE, TRUE, "good", "absent", TRUE, 0)}

MCInputs == {<<SyntaxCall, x, LintCall>> : x \in Rejected}
              \cup {<<SyntaxCall, x>> : x \in Ignored}
              \cup {<<SyntaxCall, LintCall, Cancel(n)>> : n \in 1..2}
=============================================================================
