-------------------------- MODULE MCEvidenceCommand --------------------------
(***************************************************************************)
(* Commands for TLC: a child, a helper in its process group and one that   *)
(* left it, all able to hold the pipes.                                    *)
(***************************************************************************)
EXTENDS EvidenceCommand

MCProcs == {"child", "helper", "daemon"}
MCGroup == {"child", "helper"}
MCAllowed == {{0}, {0, 1}}
MCCodes == 0..2
=============================================================================
