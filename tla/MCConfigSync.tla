----------------------------- MODULE MCConfigSync -----------------------------
(***************************************************************************)
(* ConfigSync with two panels and two configurations.                      *)
(***************************************************************************)
EXTENDS ConfigSync

CONSTANTS d, c

MCConfigs == {d, c}
LastPanel == {N}
=============================================================================
