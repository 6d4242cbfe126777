----------------------------- MODULE MCVerifyDiff -----------------------------
(***************************************************************************)
(* Comparisons for TLC: two populations that overlap, a configuration that *)
(* appears, goes wrong or stops matching, and two rules.                   *)
(***************************************************************************)
EXTENDS VerifyDiff, TLC

MCFilesOf == <<{"a"}, {"a", "b"}>>
MCManifestOf == <<"m1", "m2">>
MCModes == {<<"configured-only", "no-config">>, <<"configured", "configured-only">>}
MCSources == {"main.go", "rules.go"}
MCConfigSays == (0 :> "absent") @@ (1 :> "matched") @@ (2 :> "unmatched") @@ (3 :> "invalid")
MCFindings == {"f", "g"}
MCRuleOf == [f |-> "r1", g |-> "r2"]
MCSevere == {"f"}
MCOutputs == {[f |-> 0, g |-> 0], [f |-> 1, g |-> 2], [f |-> 1, g |-> 1]}
MCTargets == {"no rule", "r1"}
=============================================================================
