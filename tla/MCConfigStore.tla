---------------------------- MODULE MCConfigStore ----------------------------
(***************************************************************************)
(* ConfigStore with three configurations and sequence numbers of three     *)
(* bits, so that they wrap.                                                *)
(***************************************************************************)
EXTENDS ConfigStore

CONSTANTS d, c1, c2

MCConfigs == {d, c1, c2}
=============================================================================
