------------------------------ MODULE PanelBoot ------------------------------
(***************************************************************************)
(* One panel's bootloader (firmware/panel/c/bootloader/main.c): the boot   *)
(* decision, the update commands, and the install that copies a staged     *)
(* image over the application, with power cut at any flash operation.      *)
(*                                                                         *)
(* The flash holds the boot-control record, the application region and     *)
(* the staging region; everything else is RAM, which a reset clears.  The  *)
(* bus is whatever may arrive: any frame the handlers accept, in any       *)
(* order and any number of times, so loss, repetition and a host that      *)
(* restarts are all here.  Frames that arrive during an erase or a copy    *)
(* are thrown away by the code (discard_rx) and have no step.              *)
(*                                                                         *)
(* An image is a name; the content of a block of flash is the name of the  *)
(* image it belongs to, Blank, or what a torn operation left: Torn, or     *)
(* Plausible when its words would still pass for a vector table.  CRCs     *)
(* are taken to be exact.                                                  *)
(***************************************************************************)
EXTENDS Integers, FiniteSets

CONSTANTS
  Images,       \* application images
  NoImage,      \* no image: an app_len of 0
  NoRecord,     \* a boot-control sector whose magic or check is wrong
  Blank,        \* erased flash
  Torn,         \* what a cut-off or failed operation leaves
  Plausible,    \* the same, with a vector table that looks sane
  NBlocks,      \* blocks in the application region
  PageBlocks,   \* blocks in a flash page (4 in the code)
  SectorBlocks, \* blocks in a flash sector (64 in the code)
  Len,          \* blocks in each image
  MaxCuts,      \* bound: power cuts
  MaxFaults     \* bound: sector programs that silently fail

Blocks   == 0 .. NBlocks - 1
Contents == Images \cup {Blank, Torn, Plausible}

ASSUME BootAssumption ==
  /\ NBlocks \in Nat \ {0}
  /\ PageBlocks \in Nat \ {0}
  /\ SectorBlocks \in Nat \ {0}
  /\ Len \in [Images -> 1 .. NBlocks]
  /\ NoImage \notin Contents
  /\ Blank \notin Images \cup {Torn, Plausible}
  /\ {Torn, Plausible} \cap Images = {}
  /\ NoRecord \notin [pending : BOOLEAN, staged : Images \cup {NoImage},
                      app : Images \cup {NoImage}]
  /\ MaxCuts \in Nat
  /\ MaxFaults \in Nat

VARIABLES
  ctrl,     \* flash: the boot-control record, or NoRecord
  app,      \* flash: the application region, by block
  stage,    \* flash: the staging region, by block
  scratch,  \* watchdog scratch[0] holds FW_HOLD_MAGIC
  mode,     \* where the panel is: off, install, decide, listen, hold, run
  holdReq,  \* hold_requested of this boot
  gctrl,    \* RAM: g_ctrl
  st,       \* RAM: g_state
  up,       \* RAM: the image 'U' announced and the blocks accepted since
  page,     \* RAM: the page being collected
  ins,      \* RAM: how far install() has come
  cuts,     \* power cuts so far
  faults    \* silently failed programs so far

flash == <<ctrl, app, stage>>
ram   == <<holdReq, gctrl, st, up, page, ins>>
vars  == <<ctrl, app, stage, scratch, mode, holdReq, gctrl, st, up, page, ins,
           cuts, faults>>

Record == [pending : BOOLEAN, staged : Images \cup {NoImage},
           app : Images \cup {NoImage}]

Modes  == {"off", "install", "decide", "listen", "hold", "run"}
States == {"IDLE", "RECEIVING", "STAGED", "CRC_FAIL", "REFUSED", "INSTALLED",
           "COPY_FAIL"}
InsPcs == {"none", "ctrlErase", "ctrlProgram", "erase", "copy", "verify"}

-----------------------------------------------------------------------------
(* Flash contents *)

ImageBlocks(i) == 0 .. Len[i] - 1
PageOf(b)      == b \div PageBlocks
SectorOf(b)    == b \div SectorBlocks
LastSector(i)  == SectorOf(Len[i] - 1)

\* crc32_buf(region, len) == crc: the region starts with exactly this image.
Holds(region, i) == \A b \in ImageBlocks(i) : region[b] = i

\* Programming clears bits: a blank block takes the data, any other is spoilt.
Programmed(old, data) ==
  IF data = Blank THEN old ELSE IF old = Blank THEN data ELSE Torn

EmptyRecord == [pending |-> FALSE, staged |-> NoImage, app |-> NoImage]

\* ctrl_load: a bad magic or check reads as an empty record.
Loaded(c) == IF c = NoRecord THEN EmptyRecord ELSE c

AppVectorsSane == app[0] \in Images \cup {Plausible}

\* Mutant: the CRC of an installed application is not looked at.
AppValidByVectors == AppVectorsSane

\* app_valid: judged by the record in RAM, or by the vectors alone without one.
AppValid ==
  /\ AppVectorsSane
  /\ gctrl.app # NoImage => Holds(app, gctrl.app)

-----------------------------------------------------------------------------
(* RAM after a reset *)

NoPage == [idx |-> -1, buf |-> [b \in Blocks |-> Blank]]
NoUp   == [img |-> NoImage, got |-> [b \in Blocks |-> NoImage]]
NoIns  == [pc |-> "none", sec |-> 0, img |-> NoImage, resume |-> FALSE]

RamCleared ==
  /\ holdReq' = FALSE
  /\ gctrl' = EmptyRecord
  /\ st' = "IDLE"
  /\ up' = NoUp
  /\ page' = NoPage
  /\ ins' = NoIns

\* A board whose application came over USB (no record) or over the bus.
Init ==
  /\ \E i \in Images :
        /\ app = [b \in Blocks |-> IF b \in ImageBlocks(i) THEN i ELSE Blank]
        /\ ctrl \in {NoRecord, [pending |-> FALSE, staged |-> i, app |-> i]}
  /\ stage = [b \in Blocks |-> Blank]
  /\ scratch = FALSE
  /\ mode = "off"
  /\ holdReq = FALSE
  /\ gctrl = EmptyRecord
  /\ st = "IDLE"
  /\ up = NoUp
  /\ page = NoPage
  /\ ins = NoIns
  /\ cuts = 0
  /\ faults = 0

-----------------------------------------------------------------------------
(* main(): boot, resume, decide, listen *)

\* Mutant: the copy starts before the record is marked.
InstallUnmarked(img, resume) ==
  [pc |-> "erase", sec |-> 0, img |-> img, resume |-> resume]

InstallFrom(img, resume) ==
  [pc |-> "ctrlErase", sec |-> 0, img |-> img, resume |-> resume]

\* The first lines of install(), up to its first ctrl_store.
BeginInstall(rec, img, resume) ==
  /\ mode' = "install"
  /\ gctrl' = [rec EXCEPT !.pending = TRUE, !.staged = img]
  /\ ins' = InstallFrom(img, resume)

\* Mutant: an interrupted install is not taken up again.
NeverResumable(rec) == FALSE

\* A pending install whose source still verifies.
Resumable(rec) ==
  /\ rec.pending
  /\ rec.staged # NoImage
  /\ Holds(stage, rec.staged)

PowerUp ==
  LET rec == Loaded(ctrl) IN
  /\ mode = "off"
  /\ holdReq' = scratch
  /\ scratch' = FALSE
  /\ \/ /\ Resumable(rec)
        /\ BeginInstall(rec, rec.staged, TRUE)
     \/ /\ ~Resumable(rec)
        /\ mode' = "decide"
        /\ gctrl' = rec
        /\ ins' = ins
  /\ UNCHANGED <<flash, st, up, page, cuts, faults>>

Decide ==
  /\ mode = "decide"
  /\ mode' = IF holdReq \/ ~AppValid THEN "hold" ELSE "listen"
  /\ UNCHANGED <<flash, scratch, ram, cuts, faults>>

\* 'B' heard within the 200 ms window.
ListenHold ==
  /\ mode = "listen"
  /\ mode' = "hold"
  /\ UNCHANGED <<flash, scratch, ram, cuts, faults>>

\* The window closes with nothing heard: run_app hands the panel over.
ListenTimeout ==
  /\ mode = "listen"
  /\ mode' = "run"
  /\ RamCleared
  /\ UNCHANGED <<flash, scratch, cuts, faults>>

-----------------------------------------------------------------------------
(* handle(): the commands a held bootloader obeys *)

DoBegin(i) ==
  /\ mode = "hold"
  /\ page' = NoPage
  /\ stage' = [b \in Blocks |->
                 IF SectorOf(b) <= LastSector(i) THEN Blank ELSE stage[b]]
  /\ up' = [img |-> i, got |-> NoUp.got]
  /\ st' = "RECEIVING"
  /\ UNCHANGED <<ctrl, app, scratch, mode, holdReq, gctrl, ins, cuts, faults>>

\* 'U' with a length of zero or over FW_APP_SIZE.
DoBeginRefused ==
  /\ mode = "hold"
  /\ page' = NoPage
  /\ st' = "REFUSED"
  /\ UNCHANGED <<flash, scratch, mode, holdReq, gctrl, up, ins, cuts, faults>>

\* page_flush: program what the page buffer has, leaving its holes as they are.
Flushed(region, pg) ==
  [b \in Blocks |-> IF PageOf(b) = pg.idx
                    THEN Programmed(region[b], pg.buf[b]) ELSE region[b]]

\* page_need: the blocks of page p that the announced image has.
PageNeed(p) == {b \in ImageBlocks(up.img) : PageOf(b) = p}
PageHave(pg) == {b \in Blocks : pg.buf[b] # Blank}

\* The page buffer once block b of image i is in it.
Collect(b, i) ==
  LET base == IF PageOf(b) = page.idx THEN page.buf ELSE NoPage.buf
  IN [idx |-> PageOf(b), buf |-> [base EXCEPT ![b] = i]]

\* Mutant: a page is dropped when the stream moves to another.
PageDropped(b) == stage

\* Staging once the stream has moved to the page of block b.
PageMoved(b) ==
  IF PageOf(b) = page.idx THEN stage ELSE Flushed(stage, page)

\* A 'D' frame: block b of image i.
DoData(b, i) ==
  LET moved == PageMoved(b)
      pg    == Collect(b, i)
      got   == [up.got EXCEPT ![b] = i]
      all   == \A c \in ImageBlocks(up.img) : got[c] # NoImage
      write == all \/ PageHave(pg) = PageNeed(pg.idx)
  IN
  /\ mode = "hold"
  /\ st = "RECEIVING"
  /\ b \in ImageBlocks(up.img)
  /\ up.got[b] = NoImage
  /\ up' = [up EXCEPT !.got = got]
  /\ stage' = IF write THEN Flushed(moved, pg) ELSE moved
  /\ page' = IF write THEN NoPage ELSE pg
  /\ st' = IF ~all THEN st
           ELSE IF Holds(stage', up.img) THEN "STAGED" ELSE "CRC_FAIL"
  /\ UNCHANGED <<ctrl, app, scratch, mode, holdReq, gctrl, ins, cuts, faults>>

\* An 'A' frame whose CRC is that of the staged image.
DoActivate ==
  /\ mode = "hold"
  /\ st = "STAGED"
  /\ BeginInstall(gctrl, up.img, FALSE)
  /\ UNCHANGED <<flash, scratch, holdReq, st, up, page, cuts, faults>>

\* 'X': run the application if it is valid, else stay.
DoExit ==
  /\ mode = "hold"
  /\ \/ /\ AppValid
        /\ mode' = "run"
        /\ RamCleared
     \/ /\ ~AppValid
        /\ mode' = mode
        /\ st' = "IDLE"
        /\ UNCHANGED <<holdReq, gctrl, up, page, ins>>
  /\ UNCHANGED <<flash, scratch, cuts, faults>>

-----------------------------------------------------------------------------
(* install(), one flash operation at a time *)

\* What install() leaves: 'A' reports it, the resume at boot goes on to decide.
FinishInstall(result) ==
  /\ ins' = NoIns
  /\ mode' = IF ins.resume THEN "decide" ELSE "hold"
  /\ st' = IF ins.resume THEN st ELSE result

CtrlErase ==
  /\ mode = "install"
  /\ ins.pc = "ctrlErase"
  /\ ctrl' = NoRecord
  /\ ins' = [ins EXCEPT !.pc = "ctrlProgram"]
  /\ UNCHANGED <<app, stage, scratch, mode, holdReq, gctrl, st, up, page, cuts,
                 faults>>

CtrlProgram ==
  /\ mode = "install"
  /\ ins.pc = "ctrlProgram"
  /\ ctrl' = gctrl
  /\ \/ /\ gctrl.pending
        /\ ins' = [ins EXCEPT !.pc = "erase"]
        /\ UNCHANGED <<mode, st>>
     \/ /\ ~gctrl.pending
        /\ FinishInstall("INSTALLED")
  /\ UNCHANGED <<app, stage, scratch, holdReq, gctrl, up, page, cuts, faults>>

\* After the operation on sector ins.sec: the next one, or the next phase.
Advance(next) ==
  ins' = IF ins.sec < LastSector(ins.img)
         THEN [ins EXCEPT !.sec = @ + 1]
         ELSE [ins EXCEPT !.sec = 0, !.pc = next]

\* The region with sector s written by f, or left torn.
Sector(region, s, f) ==
  [b \in Blocks |-> IF SectorOf(b) = s THEN f[b] ELSE region[b]]

AllBlank == [b \in Blocks |-> Blank]
Copied   == [b \in Blocks |-> Programmed(app[b], stage[b])]
Wreck(t) == [b \in Blocks |-> t]

EraseSector ==
  /\ mode = "install"
  /\ ins.pc = "erase"
  /\ app' = Sector(app, ins.sec, AllBlank)
  /\ Advance("copy")
  /\ UNCHANGED <<ctrl, stage, scratch, mode, holdReq, gctrl, st, up, page,
                 cuts, faults>>

CopySector ==
  /\ mode = "install"
  /\ ins.pc = "copy"
  /\ app' = Sector(app, ins.sec, Copied)
  /\ Advance("verify")
  /\ UNCHANGED <<ctrl, stage, scratch, mode, holdReq, gctrl, st, up, page,
                 cuts, faults>>

\* The flash reports no error, so only the CRC afterwards can tell.
CopySectorFails ==
  /\ mode = "install"
  /\ ins.pc = "copy"
  /\ faults < MaxFaults
  /\ faults' = faults + 1
  /\ \E t \in {Torn, Plausible} : app' = Sector(app, ins.sec, Wreck(t))
  /\ Advance("verify")
  /\ UNCHANGED <<ctrl, stage, scratch, mode, holdReq, gctrl, st, up, page,
                 cuts>>

\* Mutant: success is reported without clearing the pending mark.
VerifyUnrecorded ==
  /\ mode = "install"
  /\ ins.pc = "verify"
  /\ FinishInstall(IF Holds(app, ins.img) THEN "INSTALLED" ELSE "COPY_FAIL")
  /\ UNCHANGED <<flash, scratch, holdReq, gctrl, up, page, cuts, faults>>

Verify ==
  /\ mode = "install"
  /\ ins.pc = "verify"
  /\ \/ /\ Holds(app, ins.img)
        /\ gctrl' = [gctrl EXCEPT !.pending = FALSE, !.app = ins.img]
        /\ ins' = [ins EXCEPT !.pc = "ctrlErase"]
        /\ UNCHANGED <<mode, st>>
     \/ /\ ~Holds(app, ins.img)
        /\ FinishInstall("COPY_FAIL")
        /\ UNCHANGED gctrl
  /\ UNCHANGED <<flash, scratch, holdReq, up, page, cuts, faults>>

-----------------------------------------------------------------------------
(* The application and the supply *)

\* The application hears 'B' (reboot_into_bootloader): the watchdog resets the
\* chip and scratch[0] survives it.
AppHold ==
  /\ mode = "run"
  /\ mode' = "off"
  /\ scratch' = TRUE
  /\ UNCHANGED <<flash, ram, cuts, faults>>

\* Power goes away: RAM and scratch with it, and the operation under way may
\* be left half done.  A half-done record operation leaves no record.
PowerCut ==
  /\ mode # "off"
  /\ cuts < MaxCuts
  /\ cuts' = cuts + 1
  /\ mode' = "off"
  /\ scratch' = FALSE
  /\ RamCleared
  /\ \/ UNCHANGED <<ctrl, app>>
     \/ /\ ins.pc = "ctrlErase"
        /\ ctrl' = NoRecord
        /\ UNCHANGED app
     \/ /\ ins.pc \in {"erase", "copy"}
        /\ \E t \in {Torn, Plausible} : app' = Sector(app, ins.sec, Wreck(t))
        /\ UNCHANGED ctrl
  /\ UNCHANGED <<stage, faults>>

-----------------------------------------------------------------------------
Boot    == PowerUp \/ Decide \/ ListenTimeout
Install == CtrlErase \/ CtrlProgram \/ EraseSector \/ CopySector \/ Verify
Command ==
  \/ ListenHold
  \/ \E i \in Images : DoBegin(i)
  \/ DoBeginRefused
  \/ \E b \in Blocks, i \in Images : DoData(b, i)
  \/ DoActivate
  \/ DoExit
  \/ AppHold
Trouble == CopySectorFails \/ PowerCut

Next == Boot \/ Install \/ Command \/ Trouble

Spec == Init /\ [][Next]_vars

\* The processor runs what it has begun; nobody has to send anything, power
\* need not fail.
Fairness == WF_vars(Boot) /\ WF_vars(Install)
FairSpec == Spec /\ Fairness

-----------------------------------------------------------------------------
(* Properties *)

\* Every variable keeps its type.
TypeOK ==
  /\ ctrl \in Record \cup {NoRecord}
  /\ app \in [Blocks -> Contents]
  /\ stage \in [Blocks -> Contents]
  /\ scratch \in BOOLEAN
  /\ mode \in Modes
  /\ holdReq \in BOOLEAN
  /\ gctrl \in Record
  /\ st \in States
  /\ up \in [img : Images \cup {NoImage}, got : [Blocks -> Images \cup {NoImage}]]
  /\ page \in [idx : Int, buf : [Blocks -> Images \cup {Blank}]]
  /\ ins \in [pc : InsPcs, sec : Nat, img : Images \cup {NoImage},
             resume : BOOLEAN]
  /\ cuts \in Nat
  /\ faults \in Nat

WholeImage == \E i \in Images : Holds(app, i)

\* After one power cut anywhere, or with a record that names the application
\* whatever has happened, the bootloader hands over only to a whole image:
\* never to a region half erased, half copied or torn (install, app_valid).
RunsWholeImage ==
  /\ mode = "run"
  /\ \/ cuts <= 1 /\ faults = 0
     \/ Loaded(ctrl).app # NoImage
  => WholeImage

\* The same with any number of power cuts: "a power cut anywhere in here redoes
\* the copy" (main.c, above install).  Torn vectors that happen to look sane
\* are left out: what runs starts with a whole image's first block.
CutsNeverRunPartialImage ==
  mode = "run" /\ faults = 0 /\ app[0] \in Images => WholeImage

\* "Staging is never written during a copy, so this always has a good source":
\* while the flash programs, a pending record has its image in staging.
PendingHasSource ==
  /\ ctrl # NoRecord
  /\ ctrl.pending
  /\ faults = 0
  => Holds(stage, ctrl.staged)

\* Collecting blocks into pages loses none, in whatever order they come and
\* however often they repeat: a stream of the announced image's own blocks
\* never ends in CRC_FAIL (do_data, page_flush).
OwnBlocksStage ==
  st = "CRC_FAIL" => \E b \in ImageBlocks(up.img) : up.got[b] # up.img

\* An install that power cuts interrupt is redone to its end: the pending mark
\* goes away once power stays, unless the flash fails.
PendingResolves ==
  (ctrl # NoRecord /\ ctrl.pending) ~>
    \/ ctrl # NoRecord /\ ~ctrl.pending
    \/ ctrl = NoRecord /\ mode \in {"listen", "hold", "run"}
    \/ faults > 0

-----------------------------------------------------------------------------
(* The promise of AtomicInstall *)

\* The copy has been decided and can be redone: by install() itself, or from
\* the record at the next boot.
Decided(i) ==
  \/ /\ mode = "install"
     /\ ins.img = i
     /\ ins.resume \/ ins.pc \notin {"ctrlErase", "ctrlProgram"}
  \/ ctrl # NoRecord /\ ctrl.pending /\ ctrl.staged = i

Installed ==
  IF faults > 0 THEN NoImage
  ELSE IF \E i \in Images : Decided(i) THEN CHOOSE i \in Images : Decided(i)
  ELSE IF WholeImage THEN CHOOSE i \in Images : Holds(app, i)
  ELSE NoImage

Running == IF mode = "run" /\ faults = 0 THEN Installed ELSE NoImage

Abstract == INSTANCE AtomicInstall
  WITH installed <- Installed, running <- Running, failed <- faults > 0

\* With at most one power cut the bootloader implements AtomicInstall.
AtomicInstallSpec == Abstract!Spec

=============================================================================
