----------------------------- MODULE MCPanelBoot -----------------------------
(***************************************************************************)
(* PanelBoot on a small flash: two images, one of them ending inside a     *)
(* page and a sector, so that the last page and the last sector are        *)
(* partial.                                                                *)
(***************************************************************************)
EXTENDS PanelBoot

CONSTANTS old, new

MCImages == {old, new}
MCLen == [i \in MCImages |-> IF i = old THEN 4 ELSE 3]
=============================================================================
