---------------------------- MODULE AtomicInstall ----------------------------
(***************************************************************************)
(* What the panel bootloader promises of an update: one application is     *)
(* installed at a time, an install replaces it in a single step, and what  *)
(* is started is always the application that is installed.  PanelBoot      *)
(* keeps the promise with a staging area, a boot-control record and a      *)
(* copy that power may cut anywhere.                                       *)
(*                                                                         *)
(* A flash that silently fails to program voids the promise: failed marks  *)
(* such a panel, and nothing is said of it from there on.                  *)
(***************************************************************************)
CONSTANTS
  Images,     \* application images
  NoImage     \* none: no application is running

VARIABLES
  installed,  \* the application in the application region
  running,    \* the application the panel has been handed to, or NoImage
  failed      \* a flash operation has silently failed

vars == <<installed, running, failed>>

Init ==
  /\ installed \in Images
  /\ running = NoImage
  /\ failed = FALSE

Install(i) ==
  /\ running = NoImage
  /\ installed' = i
  /\ UNCHANGED <<running, failed>>

Start ==
  /\ running = NoImage
  /\ running' = installed
  /\ UNCHANGED <<installed, failed>>

Stop ==
  /\ running' = NoImage
  /\ UNCHANGED <<installed, failed>>

Fail ==
  /\ failed' = TRUE
  /\ installed' = NoImage
  /\ running' = NoImage

Next ==
  /\ ~failed
  /\ \/ \E i \in Images : Install(i)
     \/ Start
     \/ Stop
     \/ Fail

Spec == Init /\ [][Next]_vars
=============================================================================
