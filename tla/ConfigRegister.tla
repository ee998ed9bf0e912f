---------------------------- MODULE ConfigRegister ----------------------------
(***************************************************************************)
(* What the master's saved configuration promises: a register that a save  *)
(* sets in one step to the copy in use, that a boot reads into the copy,   *)
(* and that neither an edit nor a power cut changes.                       *)
(*                                                                         *)
(* The one exception is external: a power cut while the EEPROM emulation   *)
(* compacts a flash sector may lose what was saved.                        *)
(***************************************************************************)
CONSTANTS
  Configs,   \* configurations of the whole pad
  Defaults   \* the one a pad without a record runs

VARIABLES
  on,        \* the master is running
  copy,      \* the configuration it uses
  stored     \* the configuration the next boot will use

vars == <<on, copy, stored>>

Init ==
  /\ on = FALSE
  /\ copy = Defaults
  /\ stored \in Configs

Boot ==
  /\ ~on
  /\ on' = TRUE
  /\ copy' = stored
  /\ UNCHANGED stored

Edit(c) ==
  /\ on
  /\ copy' = c
  /\ UNCHANGED <<on, stored>>

Save ==
  /\ on
  /\ stored' = copy
  /\ UNCHANGED <<on, copy>>

Off ==
  /\ on
  /\ on' = FALSE
  /\ copy' = Defaults
  /\ UNCHANGED stored

Lose(c) ==
  /\ on
  /\ on' = FALSE
  /\ copy' = Defaults
  /\ stored' = c

Next == Boot \/ (\E c \in Configs : Edit(c) \/ Lose(c)) \/ Save \/ Off

Spec == Init /\ [][Next]_vars
=============================================================================
