---------------------------- MODULE MCBootInstall ----------------------------
(***************************************************************************)
(* BootInstall with an old and a new build, three pages in sector 0 and a  *)
(* slot of three pages in two sectors, the header in the second.           *)
(***************************************************************************)
EXTENDS BootInstall

CONSTANT old

MCBuilds == {old, New}
=============================================================================
