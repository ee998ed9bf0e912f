------------------------------ MODULE BootSwitch ------------------------------
(***************************************************************************)
(* What the boot updater promises of a board: which bootloader a power-up  *)
(* enters changes only from the single bootloader, or from some build, to  *)
(* the build being installed, in one step and never back.  A board on the  *)
(* old layout passes through the boot ROM's USB BOOTSEL on the way, and    *)
(* only such a board does; a USB load ends that.                           *)
(***************************************************************************)
CONSTANTS
  Builds,   \* bootloader builds
  Single,   \* the single bootloader of the old layout
  BootSel,  \* the boot ROM's USB loader
  New       \* the build being installed

VARIABLE boots   \* what the board does at its next power-up

Init == boots \in Builds \cup {Single}

Update ==
  /\ boots \in Builds
  /\ boots' = New

OpenWindow ==
  /\ boots = Single
  /\ boots' = BootSel

CloseWindow ==
  /\ boots = BootSel
  /\ boots' = New

UsbLoad(b) ==
  /\ boots = BootSel
  /\ boots' = b

Next == Update \/ OpenWindow \/ CloseWindow \/ \E b \in Builds : UsbLoad(b)

Spec == Init /\ [][Next]_boots
=============================================================================
