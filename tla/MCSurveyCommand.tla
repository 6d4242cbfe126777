--------------------------- MODULE MCSurveyCommand ---------------------------
(***************************************************************************)
(* Sources for TLC: a block on one line, two lines that share a word, and  *)
(* a word with blanks before the end of the file.                          *)
(***************************************************************************)
EXTENDS SurveyCommand

MCFlagSets == {f \in SUBSET Flags : Cardinality(f) <= 3 \/ {"compare", "native"} \subseteq f}
MCSources == {<<>>, <<"{", "b", ";", "}", "\n">>, <<"b", "b", "\n", "c", "\n">>,
              <<"b", " ">>}
MCLimits == {3, 99}
=============================================================================
