---------------------------- MODULE MCFieldUpdate ----------------------------
(***************************************************************************)
(* FieldUpdate with two panels and images of two blocks: the one in use,   *)
(* and two new ones that agree in their second block.                      *)
(***************************************************************************)
EXTENDS FieldUpdate

CONSTANTS p1, p2, old, v1, v2

MCPanels  == {p1, p2}
MCImages  == {old, v1, v2}
MCBlocks  == {0, 1}
MCContent == [i \in MCImages |-> [b \in MCBlocks |->
                IF b = 1 /\ i = v2 THEN <<v1, 1>> ELSE <<i, b>>]]

AOrInterrupt   == {"A", "interrupt"}
UDXOrInterrupt == {"U", "D", "X", "interrupt"}
=============================================================================
