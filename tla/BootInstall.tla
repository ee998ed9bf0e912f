----------------------------- MODULE BootInstall -----------------------------
(***************************************************************************)
(* One panel's bootloader slots: how the updater application writes them   *)
(* (bootloader/boot_install.c, updater.c), and what the boot ROM and stage *)
(* 0 make of the flash at any power-up (common/boot_slots.h, stage0.c).    *)
(*                                                                         *)
(* Sector 0 and the two slots are kept page by page; a page holds the name *)
(* of what it is a page of, or Blank, or Torn.  Every flash operation is a *)
(* step, power may be cut in any of them, and a page program may fail      *)
(* without a sign.  CRCs and vector tables are taken to be exact: they     *)
(* accept a whole image and nothing else.  A cut-off erase is taken to     *)
(* spoil every page it covers, as the host test does.                      *)
(***************************************************************************)
EXTENDS Integers

CONSTANTS
  Builds,       \* bootloader builds; a slot holds the slot's version of one
  New,          \* the build in the updater
  Single,       \* the single bootloader of the old layout
  Boot2,        \* the boot2 page of any image that has been built
  Stage0,       \* the updater's stage 0
  Foreign,      \* another stage 0
  BootSel,      \* no code: the boot ROM's USB loader
  NoSlot,       \* a stage 0 that finds no slot, and starts the USB loader
  Hang,         \* a good boot2 in front of code that is not whole
  Blank,
  Torn,
  NoHdr,        \* a header page that fails its check
  NSector0,     \* pages in sector 0 (16 in the code)
  NPages,       \* image pages of a slot
  SectorPages,  \* pages erased together (16 in the code)
  TRIES,
  MaxCuts,      \* bound: power cuts
  MaxFaults     \* bound: page programs that silently fail

Slots    == {0, 1}               \* A and B
Sector0  == 0 .. NSector0 - 1    \* page 0 is boot2, page 1 holds the mark
Pages    == 0 .. NPages - 1
Other(s) == 1 - s

Header == [seq : Nat, build : Builds]

ASSUME BootInstallAssumption ==
  /\ New \in Builds
  /\ NSector0 \in Nat /\ NSector0 >= 2
  /\ NPages \in Nat \ {0}
  /\ SectorPages \in Nat \ {0}
  /\ TRIES \in Nat \ {0}
  /\ MaxCuts \in Nat /\ MaxFaults \in Nat
  /\ NoHdr \notin Header
  /\ {NoSlot, Hang} \cap (Builds \cup {Single, BootSel}) = {}
  /\ {Single, Boot2, Stage0, Foreign, BootSel, Blank, Torn} \cap Builds = {}
  /\ Single \notin {Boot2, Stage0, Foreign, BootSel, Blank, Torn}
  /\ Boot2 \notin {Stage0, Foreign, Blank, Torn}
  /\ Stage0 \notin {Foreign, Blank, Torn}
  /\ Foreign \notin {Blank, Torn}
  /\ BootSel \notin {Blank, Torn}
  /\ Blank # Torn

VARIABLES
  sec0,    \* flash: sector 0, by page
  img,     \* flash: the image pages of each slot
  hdr,     \* flash: the header page of each slot, or NoHdr
  hold,    \* watchdog scratch: the bootloader that starts is to be held
  mode,    \* off, boot (a bootloader runs), held, update, bootsel, or hung
  upd,     \* fw_boot_install under way: where it is and what it writes
  spoilt,  \* observer: a program has failed in this run of the updater, or
           \* in the last if none is under way
  cuts,    \* power cuts so far
  faults   \* silently failed programs so far

flash == <<sec0, img, hdr>>
vars  == <<sec0, img, hdr, hold, mode, upd, spoilt, cuts, faults>>

Modes == {"off", "boot", "held", "update", "bootsel", "hung"}
Pcs   == {"none", "slotErase", "slotPages", "slotCompare", "slotHeader",
          "slotCheck", "s0Erase", "s0Pages", "s0Compare", "s0Boot2", "s0Check",
          "pass", "done"}
Results == {"UP_TO_DATE", "INSTALLED", "MIGRATED", "E_STAGE0", "E_VERIFY"}

-----------------------------------------------------------------------------
(* What is in the flash *)

\* fw_slot_ok: a sound header in front of exactly the image it names.
SlotOk(s) == hdr[s] # NoHdr /\ \A p \in Pages : img[s][p] = hdr[s].build

\* slot_holds: a valid slot with the updater's own build.
SlotHolds(s) == SlotOk(s) /\ hdr[s].build = New

\* fw_slot_select: the valid slot with the higher number, or the other, or none.
Select ==
  LET first == IF hdr[1] # NoHdr /\ (hdr[0] = NoHdr \/ hdr[1].seq > hdr[0].seq)
               THEN 1 ELSE 0
  IN IF SlotOk(first) THEN first
     ELSE IF SlotOk(Other(first)) THEN Other(first)
     ELSE -1

\* Sector 0 as some image has it: its boot2 page and its code behind.
Sector0Is(x) == \A p \in Sector0 : sec0[p] = IF p = 0 THEN Boot2 ELSE x

Stage0Whole == Sector0Is(Stage0) \/ Sector0Is(Foreign)

\* The single bootloader reaches from sector 0 into slot A.
SingleWhole == Sector0Is(Single) /\ \A p \in Pages : img[0][p] = Single

\* Mutant: another stage 0 is taken for the old layout.
Stage0PresentMine == Sector0Is(Stage0)

\* fw_stage0_present looks at the mark alone, memcmp at the whole sector.
Stage0Present == sec0[1] \in {Stage0, Foreign}
Stage0Mine    == Sector0Is(Stage0)

\* What a power-up enters: a build, Single, BootSel, NoSlot or Hang.
Boots ==
  IF sec0[0] # Boot2 THEN BootSel
  ELSE IF Stage0Whole THEN IF Select # -1 THEN hdr[Select].build ELSE NoSlot
  ELSE IF SingleWhole THEN Single
  ELSE Hang

NoUpd == [pc |-> "none", slot |-> 0, seq |-> 0, try |-> 0, at |-> 0, pass |-> 0,
          res |-> "UP_TO_DATE"]

\* A board on the old layout, or one with this or another stage 0 and one or
\* two valid slots, the other cut off in an earlier update.
Init ==
  /\ \/ /\ sec0 = [p \in Sector0 |-> IF p = 0 THEN Boot2 ELSE Single]
        /\ img = [s \in Slots |-> [p \in Pages |-> IF s = 0 THEN Single ELSE Blank]]
        /\ hdr = [s \in Slots |-> NoHdr]
     \/ \E x \in {Stage0, Foreign}, b \in Builds, s \in Slots :
        \E other \in {NoHdr, [seq |-> 1, build |-> b]} :
        /\ sec0 = [p \in Sector0 |-> IF p = 0 THEN Boot2 ELSE x]
        /\ img = [t \in Slots |-> [p \in Pages |->
                    IF t # s /\ other = NoHdr THEN Torn ELSE b]]
        /\ hdr = [t \in Slots |-> IF t = s THEN [seq |-> 2, build |-> b] ELSE other]
  /\ hold = FALSE
  /\ mode = "off"
  /\ upd = NoUpd
  /\ spoilt = FALSE
  /\ cuts = 0
  /\ faults = 0

-----------------------------------------------------------------------------
(* Power-up *)

\* A power-up or a reset.  Only a bootloader reads, and clears, the scratch
\* register.
PowerUp ==
  /\ mode = "off"
  /\ mode' = IF Boots \in {BootSel, NoSlot} THEN "bootsel"
             ELSE IF Boots = Hang THEN "hung"
             ELSE IF hold THEN "held" ELSE "boot"
  /\ hold' = (hold /\ Boots \in {BootSel, NoSlot, Hang})
  /\ UNCHANGED <<flash, upd, spoilt, cuts, faults>>

\* A held bootloader waits for the host's 'X', and runs the application then.
Release ==
  /\ mode = "held"
  /\ mode' = "boot"
  /\ UNCHANGED <<flash, hold, upd, spoilt, cuts, faults>>

\* picotool loads panel_boot_usb.uf2: stage 0, slot A with sequence 1, and the
\* sector of slot B's header erased, and resets the board, or its user takes
\* the power away.
UsbRecover(b) ==
  /\ mode = "bootsel"
  /\ sec0' = [p \in Sector0 |-> IF p = 0 THEN Boot2 ELSE Stage0]
  /\ img' = [s \in Slots |-> [p \in Pages |->
               IF s = 0 THEN b
               ELSE IF p \div SectorPages = (NPages - 1) \div SectorPages THEN Blank
               ELSE img[s][p]]]
  /\ hdr' = [s \in Slots |-> IF s = 0 THEN [seq |-> 1, build |-> b] ELSE NoHdr]
  /\ mode' = "off"
  /\ hold' \in {hold, FALSE}
  /\ UNCHANGED <<upd, spoilt, cuts, faults>>

-----------------------------------------------------------------------------
(* fw_boot_install *)

\* Mutant: the booted slot is the one written.
WriteBootedSlot(s, seq, from) ==
  upd' = [from EXCEPT !.pc = "slotErase", !.slot = Other(s), !.seq = seq,
                      !.try = 0, !.at = 0]

\* Start of write_slot.
WriteSlot(s, seq, from) ==
  upd' = [from EXCEPT !.pc = "slotErase", !.slot = s, !.seq = seq,
                      !.try = 0, !.at = 0]

Done(result) == upd' = [upd EXCEPT !.pc = "done", !.res = result]
Goto(pc)     == upd' = [upd EXCEPT !.pc = pc, !.at = 0]

\* Mutant: the old layout is migrated by way of slot A, where it still runs.
RunUpdaterSlotA ==
  /\ mode = "boot"
  /\ mode' = "update"
  /\ \/ /\ ~Stage0Present
        /\ WriteSlot(0, 1, [NoUpd EXCEPT !.res = "MIGRATED"])
     \/ /\ Stage0Present
        /\ upd' = [NoUpd EXCEPT !.pc = IF Stage0Mine THEN "pass" ELSE "done",
                               !.res = IF Stage0Mine THEN @ ELSE "E_STAGE0"]
  /\ spoilt' = FALSE
  /\ UNCHANGED <<flash, hold, cuts, faults>>

\* The application region holds the updater, which the bootloader runs.
RunUpdater ==
  /\ mode = "boot"
  /\ mode' = "update"
  /\ \/ /\ ~Stage0Present
        /\ WriteSlot(1, 1, [NoUpd EXCEPT !.res = "MIGRATED"])
     \/ /\ Stage0Present
        /\ ~Stage0Mine
        /\ upd' = [NoUpd EXCEPT !.pc = "done", !.res = "E_STAGE0"]
     \/ /\ Stage0Present
        /\ Stage0Mine
        /\ upd' = [NoUpd EXCEPT !.pc = "pass"]
  /\ spoilt' = FALSE
  /\ UNCHANGED <<flash, hold, cuts, faults>>

\* A write that did not verify: try again, TRIES times in all.
Retry(first) ==
  upd' = IF upd.try + 1 < TRIES
         THEN [upd EXCEPT !.pc = first, !.try = @ + 1, !.at = 0]
         ELSE [upd EXCEPT !.pc = "done", !.res = "E_VERIFY"]

At(pc) == mode = "update" /\ upd.pc = pc

LastSector == (NPages - 1) \div SectorPages

\* Slot s with the pages of sector n set to x; the header is in the last one.
SectorSet(s, n, x) ==
  /\ img' = [img EXCEPT ![s] = [p \in Pages |->
               IF p \div SectorPages = n THEN x ELSE img[s][p]]]
  /\ hdr' = IF n = LastSector THEN [hdr EXCEPT ![s] = NoHdr] ELSE hdr

SlotErase ==
  /\ At("slotErase")
  /\ SectorSet(upd.slot, upd.at, Blank)
  /\ IF upd.at < LastSector THEN upd' = [upd EXCEPT !.at = @ + 1]
     ELSE Goto("slotPages")
  /\ UNCHANGED <<sec0, hold, mode, spoilt, cuts, faults>>

\* Programming clears bits: anything but a blank page is spoilt.
Program(old, x) == IF old = Blank THEN x ELSE Torn

SlotPage(x) ==
  /\ At("slotPages")
  /\ img' = [img EXCEPT ![upd.slot][upd.at] = Program(@, x)]
  /\ IF upd.at < NPages - 1 THEN upd' = [upd EXCEPT !.at = @ + 1]
     ELSE Goto("slotCompare")
  /\ UNCHANGED <<sec0, hdr, hold, mode, cuts>>

SlotCompare ==
  /\ At("slotCompare")
  /\ \/ /\ \A p \in Pages : img[upd.slot][p] = New
        /\ Goto("slotHeader")
     \/ /\ \E p \in Pages : img[upd.slot][p] # New
        /\ Retry("slotErase")
  /\ UNCHANGED <<flash, hold, mode, spoilt, cuts, faults>>

SlotHeader(h) ==
  /\ At("slotHeader")
  /\ hdr' = [hdr EXCEPT ![upd.slot] = h]
  /\ Goto("slotCheck")
  /\ UNCHANGED <<sec0, img, hold, mode, cuts>>

NewHeader == [seq |-> upd.seq, build |-> New]

\* Mutant: stage 0 goes in before the slot it needs is valid.
SlotCheckUnread ==
  /\ At("slotCheck")
  /\ Goto(IF Stage0Present THEN "pass" ELSE "s0Erase")
  /\ UNCHANGED <<flash, hold, mode, spoilt, cuts, faults>>

SlotCheck ==
  /\ At("slotCheck")
  /\ \/ /\ SlotOk(upd.slot)
        /\ upd' = [upd EXCEPT !.pc = IF Stage0Present THEN "pass" ELSE "s0Erase",
                              !.try = 0, !.at = 0,
                              !.pass = IF Stage0Present THEN @ + 1 ELSE @,
                              !.res = IF @ = "UP_TO_DATE" THEN "INSTALLED" ELSE @]
     \/ /\ ~SlotOk(upd.slot)
        /\ Retry("slotErase")
  /\ UNCHANGED <<flash, hold, mode, spoilt, cuts, faults>>

\* write_stage0: boot2 goes with the erase and comes back last.
Sector0Erase ==
  /\ At("s0Erase")
  /\ sec0' = [p \in Sector0 |-> Blank]
  /\ upd' = [upd EXCEPT !.pc = "s0Pages", !.at = 1]
  /\ UNCHANGED <<img, hdr, hold, mode, spoilt, cuts, faults>>

Sector0Page(x) ==
  /\ At("s0Pages")
  /\ sec0' = [sec0 EXCEPT ![upd.at] = Program(@, x)]
  /\ IF upd.at < NSector0 - 1 THEN upd' = [upd EXCEPT !.at = @ + 1]
     ELSE Goto("s0Compare")
  /\ UNCHANGED <<img, hdr, hold, mode, cuts>>

Sector0Compare ==
  /\ At("s0Compare")
  /\ \/ /\ \A p \in Sector0 \ {0} : sec0[p] = Stage0
        /\ Goto("s0Boot2")
     \/ /\ \E p \in Sector0 \ {0} : sec0[p] # Stage0
        /\ Retry("s0Erase")
  /\ UNCHANGED <<flash, hold, mode, spoilt, cuts, faults>>

Sector0Boot2(x) ==
  /\ At("s0Boot2")
  /\ sec0' = [sec0 EXCEPT ![0] = Program(@, x)]
  /\ Goto("s0Check")
  /\ UNCHANGED <<img, hdr, hold, mode, cuts>>

Sector0Check ==
  /\ At("s0Check")
  /\ \/ /\ Stage0Mine
        /\ Goto("pass")
     \/ /\ ~Stage0Mine
        /\ Retry("s0Erase")
  /\ UNCHANGED <<flash, hold, mode, spoilt, cuts, faults>>

\* Mutant: the new slot is level with the one it is to outrank.
LevelSeq(sel) == hdr[sel].seq

NextSeq(sel) == hdr[sel].seq + 1

\* Mutant: the booted slot is enough.
BootedIsNew(sel) == SlotHolds(sel)

BothNew(sel) == SlotHolds(sel) /\ SlotHolds(Other(sel))

\* Mutant: a single pass.
OutOfPassesEarly == upd.pass = 1

OutOfPasses == upd.pass = 3

\* The loop of fw_boot_install: the slot that is not booted, then the other.
Pass ==
  LET sel == Select IN
  /\ At("pass")
  /\ \/ /\ sel = -1 \/ OutOfPasses
        /\ Done("E_VERIFY")
     \/ /\ sel # -1 /\ ~OutOfPasses
        /\ BothNew(sel)
        /\ Done(upd.res)
     \/ /\ sel # -1 /\ ~OutOfPasses
        /\ ~BothNew(sel)
        /\ WriteSlot(Other(sel), NextSeq(sel), upd)
  /\ UNCHANGED <<flash, hold, mode, spoilt, cuts, faults>>

\* updater main(): reboot into the bootloader, held, whatever the result.
Reboot ==
  /\ At("done")
  /\ hold' = TRUE
  /\ mode' = "off"
  /\ upd' = NoUpd
  /\ UNCHANGED <<flash, spoilt, cuts, faults>>

-----------------------------------------------------------------------------
(* Flash faults and power cuts *)

ProgramFails ==
  /\ faults < MaxFaults
  /\ faults' = faults + 1
  /\ spoilt' = TRUE
  /\ SlotPage(Torn) \/ SlotHeader(NoHdr) \/ Sector0Page(Torn) \/ Sector0Boot2(Torn)

\* What the operation under way leaves when power goes in the middle of it.
TornOperation ==
  \/ UNCHANGED flash
  \/ /\ At("slotErase")
     /\ SectorSet(upd.slot, upd.at, Torn)
     /\ UNCHANGED sec0
  \/ /\ At("slotPages")
     /\ img' = [img EXCEPT ![upd.slot][upd.at] = Torn]
     /\ UNCHANGED <<sec0, hdr>>
  \/ /\ At("s0Erase")
     /\ sec0' = [p \in Sector0 |-> Torn]
     /\ UNCHANGED <<img, hdr>>
  \/ /\ At("s0Pages") \/ At("s0Boot2")
     /\ sec0' = [sec0 EXCEPT ![IF upd.pc = "s0Boot2" THEN 0 ELSE upd.at] = Torn]
     /\ UNCHANGED <<img, hdr>>

PowerCut ==
  /\ mode # "off" \/ hold
  /\ cuts < MaxCuts
  /\ cuts' = cuts + 1
  /\ hold' = FALSE
  /\ mode' = "off"
  /\ upd' = NoUpd
  /\ TornOperation
  /\ UNCHANGED <<spoilt, faults>>

-----------------------------------------------------------------------------
Writes ==
  \/ SlotErase
  \/ SlotPage(New) /\ UNCHANGED <<spoilt, faults>>
  \/ SlotCompare
  \/ SlotHeader(NewHeader) /\ UNCHANGED <<spoilt, faults>>
  \/ SlotCheck
  \/ Sector0Erase
  \/ Sector0Page(Stage0) /\ UNCHANGED <<spoilt, faults>>
  \/ Sector0Compare
  \/ Sector0Boot2(Boot2) /\ UNCHANGED <<spoilt, faults>>
  \/ Sector0Check

Next ==
  \/ PowerUp
  \/ Release
  \/ RunUpdater
  \/ Writes
  \/ Pass
  \/ Reboot
  \/ \E b \in Builds : UsbRecover(b)
  \/ ProgramFails
  \/ PowerCut

Spec == Init /\ [][Next]_vars

\* A powered board boots, a bootloader that is not held runs the application,
\* and the updater runs on.  Nobody has to send 'X' or come with a USB cable.
Fairness == WF_vars(PowerUp \/ RunUpdater \/ Writes \/ Pass \/ Reboot)
FairSpec == Spec /\ Fairness

-----------------------------------------------------------------------------
(* Properties *)

Contents == Builds \cup {Single, Boot2, Stage0, Foreign, Blank, Torn}

\* Every variable keeps its type.
TypeOK ==
  /\ sec0 \in [Sector0 -> Contents]
  /\ img \in [Slots -> [Pages -> Contents]]
  /\ hdr \in [Slots -> Header \cup {NoHdr}]
  /\ hold \in BOOLEAN
  /\ mode \in Modes
  /\ upd \in [pc : Pcs, slot : Slots, seq : Nat, try : 0 .. TRIES - 1, at : Nat,
              pass : Nat, res : Results]
  /\ spoilt \in BOOLEAN
  /\ cuts \in Nat
  /\ faults \in Nat

\* "A power cut at any point leaves the board either booting or in USB
\* BOOTSEL, never hung" (FIELD_UPDATE.md): the flash never holds a good boot2
\* in front of code that is not whole, nor, as the host test demands, a stage 0
\* that finds no slot.
NeverHung == Boots \notin {Hang, NoSlot}

\* "The slot stage 0 is booting is never written; only the other one", and
\* neither is stage 0 itself: no step touches what the next power-up enters.
BootedCodeKept ==
  [][Stage0Whole /\ Select # -1 =>
       /\ sec0' = sec0
       /\ img'[Select] = img[Select]
       /\ hdr'[Select] = hdr[Select]]_vars

\* Writing the updater's build fails only if the flash does, and in that very
\* run: a slot is always found after a valid write, and three passes are enough
\* from every start, whatever earlier runs have left.
FailsOnlyByFault == upd.res = "E_VERIFY" => spoilt

\* The two valid slots are never level, so which one boots is never in doubt.
SlotsRanked ==
  SlotOk(0) /\ SlotOk(1) => hdr[0].seq # hdr[1].seq

\* This build in both slots, behind its own stage 0.
Finished == Sector0Is(Stage0) /\ SlotHolds(0) /\ SlotHolds(1)

\* What fw_boot_install returns is so: success means this build in both slots,
\* whatever was migrated, retried or left by an update cut off before, and only
\* a board with a whole stage 0 of another kind is refused.
ResultIsTrue ==
  upd.pc = "done" =>
    /\ upd.res \in {"UP_TO_DATE", "INSTALLED", "MIGRATED"} => Finished
    /\ upd.res = "E_STAGE0" => Sector0Is(Foreign)

\* A finished board is never written again, nor one with another stage 0,
\* however often the updater runs and wherever its runs are cut off
\* (fw_boot_install: FW_BI_UP_TO_DATE, FW_BI_E_STAGE0).
SettledStays ==
  [][Finished \/ Sector0Is(Foreign) => UNCHANGED flash]_vars

\* Once power and flash have stopped failing, a board ends with this build in
\* both slots, whatever earlier runs were cut off at, unless it has another
\* stage 0, waits for a USB cable, or waits for the host, held after a run in
\* which the flash has failed.
BothSlotsEnd ==
  <>[]\/ SlotHolds(0) /\ SlotHolds(1)
      \/ Sector0Is(Foreign)
      \/ mode = "bootsel"
      \/ mode = "held" /\ spoilt

\* The switch of bootloaders is that of BootSwitch.
Abstract == INSTANCE BootSwitch WITH boots <- Boots
BootSwitchSpec == Abstract!Spec
=============================================================================
