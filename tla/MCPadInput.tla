------------------------------ MODULE MCPadInput ------------------------------
(***************************************************************************)
(* PadInput with two panels, a ring of two entries and one queued report.  *)
(***************************************************************************)
EXTENDS PadInput

CONSTANTS p1, p2

MCPanels == {p1, p2}
=============================================================================
