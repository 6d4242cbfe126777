----------------------------- MODULE MCMutation -----------------------------
(***************************************************************************)
(* Campaigns for TLC: three mutants, the first two decided by one suite.   *)
(***************************************************************************)
EXTENDS Mutation

MCSuites == {"unit", "fork"}
MCSuiteOf == <<"unit", "unit", "fork">>
MCTruths == {<<"KILLED", "KILLED", "KILLED">>, <<"KILLED", "HANGS", "LIVED">>,
             <<"INVALID", "LIVED", "KILLED">>}
=============================================================================
