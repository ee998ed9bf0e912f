------------------------------ MODULE MCPadLink -------------------------------
(***************************************************************************)
(* PadLink with a queue of three packets and one slot, so that it is full  *)
(* soon, and a program that turns telemetry on, sends a frame and has the  *)
(* master reboot into its bootloader.                                      *)
(***************************************************************************)
EXTENDS PadLink

MCAppCodes == {"stream", "reboot", "frame"}
=============================================================================
