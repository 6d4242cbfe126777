---------------------------- MODULE MCParseCalls ----------------------------
(***************************************************************************)
(* Sources for TLC: one per behaviour Parse distinguishes.                 *)
(***************************************************************************)
EXTENDS ParseCalls

Src(n, t, r) == [nested |-> n, typed |-> t, raw |-> r]

Plain == {Src(FALSE, "tree", "tree"), Src(FALSE, "error", "error")}
Nested == {Src(TRUE, "tree", "error"), Src(TRUE, "error", "tree"),
           Src(TRUE, "error", "error")}
RawPanic == {Src(TRUE, "error", "panic")}

\* Sources no typed pass of which panics, and those the reducer also meets.
SafeSources == Plain \cup Nested \cup RawPanic
ReducerSources == SafeSources \cup {Src(FALSE, "panic", "panic")}
=============================================================================
