--------------------------- MODULE PanelBoot_proofs ---------------------------
(***************************************************************************)
(* Proofs about PanelBoot for every set of images, every flash geometry    *)
(* and every number of power cuts and failed programs.                     *)
(***************************************************************************)
EXTENDS PanelBoot, TLAPS

Held == {"decide", "listen", "hold"}

\* The record in RAM and the one in flash.
RecordInv ==
  /\ mode \in Held => gctrl = Loaded(ctrl)
  /\ mode = "install" =>
       /\ ins.pc # "none"
       /\ ins.pc \in {"erase", "copy", "verify"} => gctrl.pending /\ ctrl = gctrl
  /\ mode # "install" => ins.pc = "none"
  /\ mode = "listen" /\ gctrl.app # NoImage => Holds(app, gctrl.app)
  /\ mode = "run" /\ Loaded(ctrl).app # NoImage => Holds(app, Loaded(ctrl).app)

\* Blocks taken in are in staging or still in the page buffer, each once.
PageInv ==
  st = "RECEIVING" =>
    /\ up.img \in Images
    /\ \A b \in ImageBlocks(up.img) :
          /\ up.got[b] = NoImage => stage[b] = Blank /\ page.buf[b] = Blank
          /\ up.got[b] # NoImage =>
               \/ stage[b] = up.got[b] /\ page.buf[b] = Blank
               \/ stage[b] = Blank /\ page.buf[b] = up.got[b]
          /\ page.buf[b] # Blank => PageOf(b) = page.idx

\* An install has a verified source as long as it lasts.
SourceInv ==
  mode = "install" =>
    /\ ins.img \in Images
    /\ gctrl.staged = ins.img
    /\ Holds(stage, ins.img)

\* How far the erase and the copy have come.
CopyInv ==
  mode = "install" /\ faults = 0 =>
    /\ ins.pc \in {"ctrlErase", "ctrlProgram"} /\ gctrl.pending => ins.sec = 0
    /\ ins.pc = "erase" =>
         \A b \in ImageBlocks(ins.img) : SectorOf(b) < ins.sec => app[b] = Blank
    /\ ins.pc = "copy" =>
         \A b \in ImageBlocks(ins.img) :
            app[b] = IF SectorOf(b) < ins.sec THEN ins.img ELSE Blank
    /\ ins.pc = "verify" => Holds(app, ins.img)
    /\ ins.pc \in {"ctrlErase", "ctrlProgram"} /\ ~gctrl.pending =>
         Holds(app, ins.img)

Pending == ctrl # NoRecord /\ ctrl.pending

\* Without faults a pending record means the panel is off or installing.
PendingInv ==
  faults = 0 =>
    /\ Pending => ctrl.staged \in Images /\ Holds(stage, ctrl.staged)
    /\ Pending => mode \in {"off", "install"}

\* Where the application may be in pieces after at most one cut.
WholeInv ==
  cuts <= 1 /\ faults = 0 =>
    /\ mode \in Held \cup {"run"} => WholeImage
    /\ mode = "off" => WholeImage \/ (cuts = 1 /\ Pending)
    /\ mode = "install" /\ ins.pc \in {"ctrlErase", "ctrlProgram"} =>
         WholeImage \/ (cuts = 1 /\ gctrl.pending)

\* What a copy, cut off anywhere and redone, keeps true.
InstallInv ==
  /\ RecordInv
  /\ SourceInv
  /\ CopyInv
  /\ PendingInv
  /\ WholeInv

-----------------------------------------------------------------------------

LEMMA DivMono ==
  ASSUME NEW a \in Nat, NEW b \in Nat, NEW k \in Nat \ {0}, a <= b
  PROVE  a \div k \in Nat /\ b \div k \in Nat /\ a \div k <= b \div k
OBVIOUS

LEMMA SectorFacts ==
  ASSUME NEW i \in Images, NEW b \in ImageBlocks(i)
  PROVE  /\ b \in Blocks
         /\ SectorOf(b) \in Nat
         /\ LastSector(i) \in Nat
         /\ SectorOf(b) <= LastSector(i)
<1>1. Len[i] \in 1 .. NBlocks
  BY BootAssumption
<1>2. b \in Nat /\ Len[i] - 1 \in Nat /\ b <= Len[i] - 1 /\ b \in Blocks
  BY <1>1, BootAssumption DEF ImageBlocks, Blocks
<1> QED
  BY <1>2, DivMono, BootAssumption DEF SectorOf, LastSector

LEMMA LastSectorType ==
  ASSUME NEW i \in Images
  PROVE  LastSector(i) \in Nat
<1>1. Len[i] - 1 \in Nat
  BY BootAssumption
<1> QED
  BY <1>1, DivMono, BootAssumption DEF LastSector, SectorOf

\* A typed record is not NoRecord, so a typed ctrl reads as a typed record.
LEMMA LoadedType ==
  ASSUME TypeOK
  PROVE  Loaded(ctrl) \in Record
BY BootAssumption DEF TypeOK, Loaded, EmptyRecord, Record

LEMMA FlushedType ==
  ASSUME NEW region \in [Blocks -> Contents],
         NEW pg \in [idx : Int, buf : [Blocks -> Images \cup {Blank}]]
  PROVE  Flushed(region, pg) \in [Blocks -> Contents]
BY DEF Flushed, Programmed, Contents

InsType == [pc : InsPcs, sec : Nat, img : Images \cup {NoImage}, resume : BOOLEAN]

\* The values a reset gives the RAM variables have their types.
LEMMA ResetTypes ==
  /\ EmptyRecord \in Record
  /\ NoUp \in [img : Images \cup {NoImage}, got : [Blocks -> Images \cup {NoImage}]]
  /\ NoPage \in [idx : Int, buf : [Blocks -> Images \cup {Blank}]]
  /\ NoIns \in InsType
<1>1. EmptyRecord \in Record
  BY DEF EmptyRecord, Record
<1>2. NoUp \in [img : Images \cup {NoImage}, got : [Blocks -> Images \cup {NoImage}]]
  BY DEF NoUp
<1>3. NoPage \in [idx : Int, buf : [Blocks -> Images \cup {Blank}]]
  <2>1. -1 \in Int /\ [b \in Blocks |-> Blank] \in [Blocks -> Images \cup {Blank}]
    OBVIOUS
  <2> QED
    BY <2>1 DEF NoPage
<1>4. NoIns \in InsType
  BY DEF NoIns, InsType, InsPcs
<1> QED
  BY <1>1, <1>2, <1>3, <1>4

LEMMA RamClearedType ==
  ASSUME RamCleared
  PROVE  /\ holdReq' \in BOOLEAN
         /\ gctrl' \in Record
         /\ st' \in States
         /\ up' \in [img : Images \cup {NoImage},
                     got : [Blocks -> Images \cup {NoImage}]]
         /\ page' \in [idx : Int, buf : [Blocks -> Images \cup {Blank}]]
         /\ ins' \in [pc : InsPcs, sec : Nat, img : Images \cup {NoImage},
                     resume : BOOLEAN]
BY ResetTypes DEF RamCleared, States, InsType

LEMMA InstallFromType ==
  ASSUME NEW i \in Images \cup {NoImage}, NEW r \in BOOLEAN
  PROVE  InstallFrom(i, r) \in InsType
BY DEF InstallFrom, InsType, InsPcs

\* The record of an install in progress, moved on by one field.
LEMMA InsStep ==
  ASSUME NEW x \in InsType, NEW p \in InsPcs, NEW n \in Nat
  PROVE  /\ [x EXCEPT !.pc = p] \in InsType
         /\ [x EXCEPT !.sec = n] \in InsType
         /\ [x EXCEPT !.sec = n, !.pc = p] \in InsType
BY DEF InsType

LEMMA TypeInit == Init => TypeOK
<1> SUFFICES ASSUME Init PROVE TypeOK
  OBVIOUS
<1>1. PICK i \in Images :
         /\ app = [b \in Blocks |-> IF b \in ImageBlocks(i) THEN i ELSE Blank]
         /\ ctrl \in {NoRecord, [pending |-> FALSE, staged |-> i, app |-> i]}
  BY DEF Init
<1>2. app \in [Blocks -> Contents]
  BY <1>1 DEF Contents
<1>3. [pending |-> FALSE, staged |-> i, app |-> i] \in Record
  BY DEF Record
<1>4. stage \in [Blocks -> Contents]
  BY DEF Init, Contents
<1> QED
  BY <1>1, <1>2, <1>3, <1>4, ResetTypes
     DEF Init, TypeOK, States, Modes, InsType

LEMMA TypeStep == TypeOK /\ [Next]_vars => TypeOK'
<1> SUFFICES ASSUME TypeOK, [Next]_vars PROVE TypeOK'
  OBVIOUS
<1>u. CASE UNCHANGED vars
  BY <1>u DEF TypeOK, vars
<1>1. CASE PowerUp
  <2>1. Loaded(ctrl) \in Record
    BY LoadedType
  <2>2. CASE mode' = "decide"
    BY <1>1, <2>1, <2>2 DEF PowerUp, BeginInstall, flash, TypeOK, Modes
  <2>3. CASE mode' = "install"
    <3>1. Loaded(ctrl).staged \in Images
      BY <1>1, <2>1, <2>3 DEF PowerUp, Resumable, Record
    <3>2. ins' \in [pc : InsPcs, sec : Nat, img : Images \cup {NoImage},
                   resume : BOOLEAN]
      BY <1>1, <2>3, <3>1, InstallFromType DEF PowerUp, BeginInstall, InsType
    <3>3. gctrl' \in Record
      BY <1>1, <2>1, <2>3, <3>1 DEF PowerUp, BeginInstall, Record
    <3> QED
      BY <1>1, <2>3, <3>2, <3>3 DEF PowerUp, flash, TypeOK, Modes
  <2> QED
    BY <1>1, <2>2, <2>3 DEF PowerUp, BeginInstall
<1>2. CASE Decide
  BY <1>2 DEF Decide, TypeOK, Modes, flash, ram
<1>3. CASE ListenHold \/ AppHold
  BY <1>3 DEF ListenHold, AppHold, TypeOK, Modes, flash, ram
<1>4. CASE ListenTimeout
  BY <1>4, RamClearedType DEF ListenTimeout, TypeOK, Modes, flash
<1>5. ASSUME NEW i \in Images, DoBegin(i) PROVE TypeOK'
  <2>1. stage' \in [Blocks -> Contents]
    BY <1>5 DEF DoBegin, TypeOK, Contents
  <2> QED
    BY <1>5, <2>1 DEF DoBegin, TypeOK, NoPage, NoUp, States
<1>6. CASE DoBeginRefused
  BY <1>6 DEF DoBeginRefused, TypeOK, NoPage, States, flash
<1>7. ASSUME NEW b \in Blocks, NEW i \in Images, DoData(b, i) PROVE TypeOK'
  <2>1. PageOf(b) \in Int
    BY BootAssumption DEF PageOf, Blocks
  <2>2. Collect(b, i) \in [idx : Int, buf : [Blocks -> Images \cup {Blank}]]
    BY <2>1 DEF Collect, NoPage, TypeOK
  <2>3. PageMoved(b) \in [Blocks -> Contents]
    BY FlushedType DEF PageMoved, TypeOK
  <2>4. Flushed(PageMoved(b), Collect(b, i)) \in [Blocks -> Contents]
    BY <2>2, <2>3, FlushedType
  <2>5. /\ stage' \in [Blocks -> Contents]
        /\ page' \in [idx : Int, buf : [Blocks -> Images \cup {Blank}]]
    BY <1>7, <2>2, <2>3, <2>4 DEF DoData, NoPage
  <2>6. up' \in [img : Images \cup {NoImage},
                got : [Blocks -> Images \cup {NoImage}]]
    BY <1>7 DEF DoData, TypeOK
  <2>7. st' \in States
    BY <1>7 DEF DoData, States
  <2> QED
    BY <1>7, <2>5, <2>6, <2>7 DEF DoData, TypeOK
<1>8. CASE DoActivate
  BY <1>8 DEF DoActivate, BeginInstall, InstallFrom, TypeOK, Modes, InsPcs,
              Record, flash
<1>9. CASE DoExit
  <2>1. CASE RamCleared
    BY <1>9, <2>1, RamClearedType DEF DoExit, TypeOK, Modes, flash
  <2>2. CASE st' = "IDLE" /\ UNCHANGED <<mode, holdReq, gctrl, up, page, ins>>
    BY <1>9, <2>2 DEF DoExit, TypeOK, Modes, flash, States
  <2> QED
    BY <1>9, <2>1, <2>2 DEF DoExit
<1>10. CASE CtrlErase
  BY <1>10 DEF CtrlErase, TypeOK, InsPcs
<1>11. CASE CtrlProgram
  <2>1. "erase" \in InsPcs /\ ins \in InsType
    BY DEF InsPcs, TypeOK, InsType
  <2>2. ins' \in InsType
    BY ZenonT(40), <1>11, <2>1, InsStep, ResetTypes DEF CtrlProgram, FinishInstall
  <2>3. mode' \in Modes /\ st' \in States
    BY <1>11 DEF CtrlProgram, FinishInstall, TypeOK, Modes, States
  <2> QED
    BY <1>11, <2>2, <2>3 DEF CtrlProgram, TypeOK, InsType
<1>12. ASSUME NEW f \in [Blocks -> Contents], NEW next \in InsPcs,
              app' = Sector(app, ins.sec, f), Advance(next)
       PROVE  /\ app' \in [Blocks -> Contents]
              /\ ins' \in [pc : InsPcs, sec : Nat, img : Images \cup {NoImage},
                          resume : BOOLEAN]
  <2>1. ins \in InsType /\ ins.sec + 1 \in Nat /\ 0 \in Nat
    BY DEF TypeOK, InsType
  <2>2. ins' \in InsType
    BY <1>12, <2>1, InsStep DEF Advance
  <2> QED
    BY <1>12, <2>2 DEF Sector, TypeOK, InsType
<1>13. AllBlank \in [Blocks -> Contents] /\ Copied \in [Blocks -> Contents]
  BY DEF AllBlank, Copied, Programmed, TypeOK, Contents
<1>14. ASSUME NEW t \in {Torn, Plausible} PROVE Wreck(t) \in [Blocks -> Contents]
  BY DEF Wreck, Contents
<1>15. CASE EraseSector
  <2>1. "copy" \in InsPcs
    BY DEF InsPcs
  <2> QED
    BY <1>12, <1>13, <1>15, <2>1 DEF EraseSector, TypeOK
<1>16. CASE CopySector
  <2>1. "verify" \in InsPcs
    BY DEF InsPcs
  <2> QED
    BY <1>12, <1>13, <1>16, <2>1 DEF CopySector, TypeOK
<1>17. CASE CopySectorFails
  <2>1. "verify" \in InsPcs
    BY DEF InsPcs
  <2> QED
    BY <1>12, <1>14, <1>17, <2>1 DEF CopySectorFails, TypeOK
<1>18. CASE Verify
  <2>1. "ctrlErase" \in InsPcs /\ ins \in InsType
    BY DEF InsPcs, TypeOK, InsType
  <2>2. ins' \in InsType
    <3>1. ins' = NoIns \/ ins' = [ins EXCEPT !.pc = "ctrlErase"]
      BY <1>18 DEF Verify, FinishInstall
    <3> QED
      BY <2>1, <3>1, InsStep, ResetTypes
  <2>3. mode' \in Modes /\ st' \in States
    BY <1>18 DEF Verify, FinishInstall, TypeOK, Modes, States
  <2>4. gctrl' \in Record
    BY <1>18 DEF Verify, TypeOK, Record
  <2> QED
    BY <1>18, <2>2, <2>3, <2>4 DEF Verify, TypeOK, InsType, flash
<1>19. CASE PowerCut
  <2>1. app' \in [Blocks -> Contents] /\ ctrl' \in Record \cup {NoRecord}
    BY <1>14, <1>19 DEF PowerCut, TypeOK, Sector
  <2>2. RamCleared
    BY <1>19 DEF PowerCut
  <2>3. scratch' \in BOOLEAN /\ mode' \in Modes /\ cuts' \in Nat
    <3>1. scratch' = FALSE /\ mode' = "off" /\ cuts' = cuts + 1
      BY <1>19 DEF PowerCut
    <3>2. cuts' \in Nat
      BY <3>1 DEF TypeOK
    <3>3. scratch' \in BOOLEAN
      BY <3>1
    <3> QED
      BY <3>1, <3>2, <3>3 DEF Modes
  <2> QED
    BY <1>19, <2>1, <2>2, <2>3, RamClearedType DEF PowerCut, TypeOK
<1> QED
  BY <1>u, <1>1, <1>2, <1>3, <1>4, <1>5, <1>6, <1>7, <1>8, <1>9, <1>10, <1>11,
     <1>15, <1>16, <1>17, <1>18, <1>19
     DEF Next, Boot, Install, Command, Trouble

\* Every variable keeps its type, whatever the bus sends and the power does.
THEOREM TypeCorrect == Spec => []TypeOK
BY TypeInit, TypeStep, PTL DEF Spec

-----------------------------------------------------------------------------
(* Staging: what 'U' and 'D' do to it, and who else touches it *)

Staging == {"RECEIVING", "STAGED", "CRC_FAIL"}

\* Only DoBegin and DoData write staging or start or end a reception.
LEMMA StagingSteps ==
  ASSUME [Next]_vars
  PROVE  \/ \E i \in Images : DoBegin(i)
         \/ \E b \in Blocks, i \in Images : DoData(b, i)
         \/ stage' = stage /\ (st' \notin Staging \/ UNCHANGED <<st, up, page>>)
<1>1. CASE UNCHANGED vars
  BY <1>1 DEF vars
<1>2. CASE Boot
  BY <1>2 DEF Boot, PowerUp, Decide, ListenTimeout, RamCleared, flash, ram, Staging
<1>3. CASE Install
  BY <1>3 DEF Install, CtrlErase, CtrlProgram, EraseSector, CopySector, Verify,
              FinishInstall, flash, Staging
<1>4. CASE Trouble
  BY <1>4 DEF Trouble, CopySectorFails, PowerCut, RamCleared, Staging
<1>5. CASE ListenHold \/ DoBeginRefused \/ DoActivate \/ DoExit \/ AppHold
  BY <1>5 DEF ListenHold, DoBeginRefused, DoActivate, DoExit, AppHold, RamCleared,
              flash, ram, Staging
<1> QED
  BY <1>1, <1>2, <1>3, <1>4, <1>5 DEF Next, Command

LEMMA ImageBlocksInBlocks ==
  ASSUME NEW i \in Images, NEW b \in ImageBlocks(i)
  PROVE  b \in Blocks
BY SectorFacts

\* A started reception: staging is blank where the image will go.
LEMMA BeginStages ==
  ASSUME TypeOK, NEW i \in Images, DoBegin(i)
  PROVE  PageInv'
<1>1. up' = [img |-> i, got |-> NoUp.got] /\ page' = NoPage
  BY DEF DoBegin
<1>2. ASSUME NEW b \in ImageBlocks(i)
      PROVE  stage'[b] = Blank /\ up'.got[b] = NoImage /\ page'.buf[b] = Blank
  <2>1. b \in Blocks /\ SectorOf(b) <= LastSector(i)
    BY SectorFacts
  <2> QED
    BY <1>1, <2>1 DEF DoBegin, NoUp, NoPage
<1> QED
  BY <1>1, <1>2 DEF PageInv

\* One block taken in: where every block of the image is afterwards.
LEMMA DataStages ==
  ASSUME TypeOK, PageInv, NEW b \in Blocks, NEW i \in Images, DoData(b, i)
  PROVE  /\ PageInv'
         /\ st' = "STAGED" => up'.img \in Images /\ Holds(stage', up'.img)
         /\ OwnBlocksStage'
<1> DEFINE pg == Collect(b, i)
           moved == PageMoved(b)
           img == up.img
           got == [up.got EXCEPT ![b] = i]
<1>1. /\ st = "RECEIVING"
      /\ img \in Images
      /\ b \in ImageBlocks(img)
      /\ up.got[b] = NoImage
  BY DEF DoData, PageInv
<1>2. /\ \A c \in ImageBlocks(img) : c \in Blocks
      /\ \A c \in Blocks : up.got[c] # NoImage => up.got[c] \in Images
      /\ i # Blank /\ i # NoImage /\ Blank \notin Images
      /\ up.got \in [Blocks -> Images \cup {NoImage}]
      /\ page.buf \in [Blocks -> Images \cup {Blank}]
      /\ stage \in [Blocks -> Contents]
  BY <1>1, ImageBlocksInBlocks, BootAssumption DEF TypeOK, Contents
<1>3. \A c \in ImageBlocks(img) :
        /\ got[c] = IF c = b THEN i ELSE up.got[c]
        /\ got[c] = NoImage => moved[c] = Blank /\ pg.buf[c] = Blank
        /\ got[c] # NoImage =>
             \/ moved[c] = got[c] /\ pg.buf[c] = Blank
             \/ moved[c] = Blank /\ pg.buf[c] = got[c]
        /\ pg.buf[c] # Blank => PageOf(c) = pg.idx
  <2> SUFFICES ASSUME NEW c \in ImageBlocks(img)
               PROVE  /\ got[c] = IF c = b THEN i ELSE up.got[c]
                      /\ got[c] = NoImage => moved[c] = Blank /\ pg.buf[c] = Blank
                      /\ got[c] # NoImage =>
                           \/ moved[c] = got[c] /\ pg.buf[c] = Blank
                           \/ moved[c] = Blank /\ pg.buf[c] = got[c]
                      /\ pg.buf[c] # Blank => PageOf(c) = pg.idx
    OBVIOUS
  <2>1. /\ up.got[c] = NoImage => stage[c] = Blank /\ page.buf[c] = Blank
        /\ up.got[c] # NoImage =>
             \/ stage[c] = up.got[c] /\ page.buf[c] = Blank
             \/ stage[c] = Blank /\ page.buf[c] = up.got[c]
        /\ page.buf[c] # Blank => PageOf(c) = page.idx
    BY <1>1 DEF PageInv
  <2>2. c \in Blocks /\ got[c] = IF c = b THEN i ELSE up.got[c]
    BY <1>2
  <2>3. CASE PageOf(b) = page.idx
    <3>1. moved = stage /\ pg.idx = page.idx
          /\ pg.buf[c] = IF c = b THEN i ELSE page.buf[c]
      BY <1>2, <2>2, <2>3 DEF PageMoved, Collect
    <3> QED
      BY <1>1, <1>2, <2>1, <2>2, <2>3, <3>1
  <2>4. CASE PageOf(b) # page.idx
    <3>1. /\ pg.idx = PageOf(b)
          /\ pg.buf[c] = IF c = b THEN i ELSE Blank
      BY <1>2, <2>2, <2>4 DEF Collect, NoPage
    <3>2. moved[c] = IF PageOf(c) = page.idx
                     THEN Programmed(stage[c], page.buf[c]) ELSE stage[c]
      BY <2>2, <2>4 DEF PageMoved, Flushed
    <3> QED
      BY <1>1, <1>2, <2>1, <2>2, <2>4, <3>1, <3>2 DEF Programmed
  <2> QED
    BY <2>3, <2>4
<1>4. \A c \in ImageBlocks(img) :
        Flushed(moved, pg)[c] = IF got[c] = NoImage THEN Blank ELSE got[c]
  BY <1>2, <1>3 DEF Flushed, Programmed
<1> HIDE DEF pg, moved, got, img
<1>5. /\ up' = [up EXCEPT !.got = got]
      /\ \/ stage' = Flushed(moved, pg) /\ page' = NoPage
         \/ /\ stage' = moved /\ page' = pg
            /\ ~\A c \in ImageBlocks(img) : got[c] # NoImage
      /\ st' = IF ~\A c \in ImageBlocks(img) : got[c] # NoImage THEN st
               ELSE IF Holds(stage', img) THEN "STAGED" ELSE "CRC_FAIL"
  BY DEF DoData, pg, moved, got, img
<1>6. up'.img = img /\ up'.got = got
  BY <1>5 DEF TypeOK, img
<1>7. \A c \in Blocks : NoPage.buf[c] = Blank
  BY DEF NoPage
<1>8. PageInv'
  <2> SUFFICES ASSUME st' = "RECEIVING", NEW c \in ImageBlocks(img)
               PROVE  /\ up'.got[c] = NoImage => stage'[c] = Blank /\ page'.buf[c] = Blank
                      /\ up'.got[c] # NoImage =>
                           \/ stage'[c] = up'.got[c] /\ page'.buf[c] = Blank
                           \/ stage'[c] = Blank /\ page'.buf[c] = up'.got[c]
                      /\ page'.buf[c] # Blank => PageOf(c) = page'.idx
    BY <1>1, <1>6 DEF PageInv
  <2> QED
    BY <1>2, <1>3, <1>4, <1>5, <1>6, <1>7
<1>9. ASSUME \A c \in ImageBlocks(img) : got[c] # NoImage
      PROVE  \A c \in ImageBlocks(img) : stage'[c] = got[c]
  BY <1>4, <1>5, <1>9
<1>10. st' = "STAGED" => up'.img \in Images /\ Holds(stage', up'.img)
  BY <1>1, <1>5, <1>6
<1>11. OwnBlocksStage'
  BY <1>1, <1>5, <1>6, <1>9 DEF OwnBlocksStage, Holds
<1> QED
  BY <1>8, <1>10, <1>11

StagingInv ==
  /\ PageInv
  /\ OwnBlocksStage
  /\ st = "STAGED" => up.img \in Images /\ Holds(stage, up.img)

LEMMA StagingStep ==
  ASSUME TypeOK, StagingInv, [Next]_vars
  PROVE  StagingInv'
<1>1. ASSUME NEW i \in Images, DoBegin(i) PROVE StagingInv'
  BY <1>1, BeginStages DEF StagingInv, OwnBlocksStage, DoBegin
<1>2. ASSUME NEW b \in Blocks, NEW i \in Images, DoData(b, i) PROVE StagingInv'
  BY <1>2, DataStages DEF StagingInv
<1>3. CASE stage' = stage /\ UNCHANGED <<st, up, page>>
  BY <1>3 DEF StagingInv, PageInv, OwnBlocksStage, Holds
<1>4. CASE st' \notin Staging
  BY <1>4 DEF StagingInv, PageInv, OwnBlocksStage, Staging
<1> QED
  BY <1>1, <1>2, <1>3, <1>4, StagingSteps

\* Collecting blocks into pages loses none: a reception of the announced
\* image's own blocks, in any order and with any repeats, never fails its CRC.
THEOREM OwnBlocksAlwaysStage == Spec => []OwnBlocksStage
<1>1. Init => StagingInv
  BY DEF Init, StagingInv, PageInv, OwnBlocksStage
<1>2. TypeOK /\ StagingInv /\ [Next]_vars => StagingInv'
  BY StagingStep
<1>3. StagingInv => OwnBlocksStage
  BY DEF StagingInv
<1> QED
  BY <1>1, <1>2, <1>3, TypeCorrect, PTL DEF Spec

-----------------------------------------------------------------------------
(* The install and the power cuts *)

LEMMA InstallInit == Init => InstallInv
<1> SUFFICES ASSUME Init PROVE InstallInv
  OBVIOUS
<1>1. PICK i \in Images :
         /\ app = [b \in Blocks |-> IF b \in ImageBlocks(i) THEN i ELSE Blank]
         /\ ctrl \in {NoRecord, [pending |-> FALSE, staged |-> i, app |-> i]}
  BY DEF Init
<1>2. WholeImage
  BY <1>1, ImageBlocksInBlocks DEF WholeImage, Holds
<1>3. ~Pending
  BY SMTT(30), <1>1 DEF Pending
<1> QED
  BY <1>2, <1>3 DEF Init, InstallInv, RecordInv, SourceInv, CopyInv, PendingInv,
                    WholeInv, Held, NoIns

LEMMA InstallStep ==
  ASSUME TypeOK, StagingInv, InstallInv, [Next]_vars
  PROVE  InstallInv'
<1> USE DEF InstallInv, RecordInv, SourceInv, CopyInv, PendingInv, WholeInv, Held,
            Pending, Holds, WholeImage
<1>u. CASE UNCHANGED vars
  BY <1>u DEF vars, Loaded
<1>1. CASE PowerUp
  <2>1. /\ Loaded(ctrl) \in Record
        /\ ctrl # NoRecord => Loaded(ctrl) = ctrl
        /\ ctrl = NoRecord => ~Loaded(ctrl).pending
    BY LoadedType DEF Loaded, EmptyRecord
  <2>2. CASE Resumable(Loaded(ctrl)) /\ BeginInstall(Loaded(ctrl), Loaded(ctrl).staged, TRUE)
    <3>1. Loaded(ctrl).staged \in Images
      BY <2>1, <2>2 DEF Resumable, Record
    <3>2. /\ mode = "off" /\ mode' = "install"
          /\ UNCHANGED <<ctrl, app, stage, st, cuts, faults>>
          /\ gctrl'.staged = Loaded(ctrl).staged /\ gctrl'.pending
          /\ ins'.pc = "ctrlErase" /\ ins'.sec = 0 /\ ins'.img = Loaded(ctrl).staged
      BY <1>1, <2>1, <2>2 DEF PowerUp, BeginInstall, InstallFrom, flash, Record
    <3> QED
      BY <2>1, <2>2, <3>1, <3>2 DEF Resumable
  <2>3. CASE ~Resumable(Loaded(ctrl)) /\ mode' = "decide" /\ gctrl' = Loaded(ctrl)
             /\ ins' = ins
    <3>1. mode = "off" /\ UNCHANGED <<ctrl, app, stage, st, cuts, faults>>
      BY <1>1 DEF PowerUp, flash
    <3>2. faults = 0 => ~Pending
      BY <2>1, <2>3, BootAssumption DEF Resumable, Contents
    <3>3. Loaded(ctrl)' = Loaded(ctrl)
      BY <3>1 DEF Loaded
    <3> QED
      BY <2>1, <2>3, <3>1, <3>2, <3>3
  <2> QED
    BY <1>1, <2>2, <2>3 DEF PowerUp
<1>2. CASE Decide
  BY <1>2 DEF Decide, AppValid, Loaded, flash, ram
<1>3. CASE ListenHold \/ AppHold
  BY <1>3 DEF ListenHold, AppHold, Loaded, flash, ram
<1>4. CASE ListenTimeout
  BY <1>4 DEF ListenTimeout, RamCleared, NoIns, Loaded, flash
<1>5. ASSUME NEW i \in Images, DoBegin(i) PROVE InstallInv'
  BY <1>5 DEF DoBegin, Loaded
<1>6. CASE DoBeginRefused
  BY <1>6 DEF DoBeginRefused, Loaded, flash
<1>7. ASSUME NEW b \in Blocks, NEW i \in Images, DoData(b, i) PROVE InstallInv'
  BY <1>7 DEF DoData, Loaded
<1>8. CASE DoActivate
  BY <1>8 DEF DoActivate, BeginInstall, InstallFrom, StagingInv, Loaded, flash
<1>9. CASE DoExit
  BY <1>9 DEF DoExit, RamCleared, NoIns, AppValid, Loaded, flash
<1>10. CASE CtrlErase
  BY <1>10 DEF CtrlErase, Loaded
<1>11. CASE CtrlProgram
  <2>1. gctrl \in Record /\ gctrl # NoRecord
    BY BootAssumption DEF TypeOK, Record
  <2>2. /\ mode = "install" /\ ins.pc = "ctrlProgram" /\ ctrl' = gctrl
        /\ UNCHANGED <<app, stage, gctrl, cuts, faults>>
        /\ Loaded(ctrl)' = gctrl
    BY <1>11, <2>1 DEF CtrlProgram, Loaded
  <2>3. CASE gctrl.pending /\ ins' = [ins EXCEPT !.pc = "erase"] /\ UNCHANGED mode
    <3>1. ins'.pc = "erase" /\ ins'.sec = ins.sec /\ ins'.img = ins.img
      BY <2>3 DEF TypeOK
    <3>2. \A b \in ImageBlocks(ins.img) : ~(SectorOf(b) < 0)
      BY <2>2, SectorFacts
    <3> QED
      BY <2>1, <2>2, <2>3, <3>1, <3>2
  <2>4. CASE ~gctrl.pending /\ FinishInstall("INSTALLED")
    <3>1. ins'.pc = "none" /\ mode' \in {"decide", "hold"}
      BY <2>4 DEF FinishInstall, NoIns
    <3> QED
      BY <2>1, <2>2, <2>4, <3>1
  <2> QED
    BY <1>11, <2>3, <2>4 DEF CtrlProgram
<1>12. mode = "install" =>
         \A b \in ImageBlocks(ins.img) :
            /\ SectorOf(b) \in Nat
            /\ SectorOf(b) <= LastSector(ins.img)
  BY SectorFacts
<1>13. UNCHANGED ctrl => Loaded(ctrl)' = Loaded(ctrl)
  BY DEF Loaded
<1>14. /\ mode = "install" => /\ ins.img \in Images
                             /\ LastSector(ins.img) \in Nat
                             /\ \A b \in ImageBlocks(ins.img) : b \in Blocks
       /\ ins.sec \in Nat
  BY SectorFacts, LastSectorType DEF TypeOK
<1>15. CASE EraseSector
  <2>1. /\ ins.pc = "erase" /\ app' = Sector(app, ins.sec, AllBlank)
        /\ Advance("copy") /\ faults' = faults
    BY <1>15 DEF EraseSector
  <2>2. \A b \in ImageBlocks(ins.img) :
          app'[b] = IF SectorOf(b) = ins.sec THEN Blank ELSE app[b]
    BY <1>14, <1>15, <2>1 DEF EraseSector, Sector, AllBlank
  <2>3. CASE ins.sec < LastSector(ins.img)
    <3>1. ins'.pc = "erase" /\ ins'.sec = ins.sec + 1 /\ ins'.img = ins.img
      BY <2>1, <2>3 DEF Advance, TypeOK
    <3>2. CopyInv'
      BY <1>12, <1>14, <1>15, <2>1, <2>2, <3>1 DEF EraseSector
    <3> QED
      BY <1>13, <1>15, <3>1, <3>2 DEF EraseSector
  <2>4. CASE ~(ins.sec < LastSector(ins.img))
    <3>1. ins'.pc = "copy" /\ ins'.sec = 0 /\ ins'.img = ins.img
      BY <2>1, <2>4 DEF Advance, TypeOK
    <3>2. CopyInv'
      BY <1>12, <1>14, <1>15, <2>1, <2>2, <2>4, <3>1 DEF EraseSector
    <3> QED
      BY <1>13, <1>15, <3>1, <3>2 DEF EraseSector
  <2> QED
    BY <2>3, <2>4
<1>16. CASE CopySector
  <2>1. /\ ins.pc = "copy" /\ app' = Sector(app, ins.sec, Copied)
        /\ Advance("verify") /\ faults' = faults
    BY <1>16 DEF CopySector
  <2>2. \A b \in ImageBlocks(ins.img) :
          app'[b] = IF SectorOf(b) = ins.sec
                    THEN Programmed(app[b], ins.img) ELSE app[b]
    BY <1>14, <1>16, <2>1 DEF CopySector, Sector, Copied
  <2>3. ins.img # Blank
    BY <1>14, <1>16, BootAssumption DEF CopySector
  <2>4. CASE ins.sec < LastSector(ins.img)
    <3>1. ins'.pc = "copy" /\ ins'.sec = ins.sec + 1 /\ ins'.img = ins.img
      BY <2>1, <2>4 DEF Advance, TypeOK
    <3>2. CopyInv'
      BY <1>12, <1>14, <1>16, <2>1, <2>2, <2>3, <3>1 DEF CopySector, Programmed
    <3> QED
      BY <1>13, <1>16, <3>1, <3>2 DEF CopySector
  <2>5. CASE ~(ins.sec < LastSector(ins.img))
    <3>1. ins'.pc = "verify" /\ ins'.img = ins.img
      BY <2>1, <2>5 DEF Advance, TypeOK
    <3>2. CopyInv'
      BY <1>12, <1>14, <1>16, <2>1, <2>2, <2>3, <2>5, <3>1 DEF CopySector, Programmed
    <3> QED
      BY <1>13, <1>16, <3>1, <3>2 DEF CopySector
  <2> QED
    BY <2>4, <2>5
<1>17. CASE CopySectorFails
  <2>1. /\ Advance("verify") /\ faults' = faults + 1 /\ faults \in Nat
        /\ mode = "install" /\ ins.pc = "copy"
    BY <1>17 DEF CopySectorFails, TypeOK
  <2>2. ins'.pc \in {"copy", "verify"} /\ ins'.img = ins.img
    BY <2>1 DEF Advance, TypeOK
  <2>3. UNCHANGED <<ctrl, gctrl, stage, mode>> /\ faults' # 0
    BY <1>17, <2>1 DEF CopySectorFails
  <2> QED
    BY <1>13, <2>1, <2>2, <2>3
<1>18. CASE Verify
  <2>1. /\ mode = "install" /\ ins.pc = "verify"
        /\ UNCHANGED <<ctrl, app, stage, cuts, faults>>
    BY <1>18 DEF Verify, flash
  <2>2. CASE Holds(app, ins.img) /\ UNCHANGED mode
             /\ gctrl' = [gctrl EXCEPT !.pending = FALSE, !.app = ins.img]
             /\ ins' = [ins EXCEPT !.pc = "ctrlErase"]
    <3>1. /\ ins'.pc = "ctrlErase" /\ ins'.img = ins.img /\ ins'.sec = ins.sec
          /\ ~gctrl'.pending /\ gctrl'.staged = gctrl.staged
      BY <2>2 DEF TypeOK, Record
    <3> QED
      BY <1>13, <2>1, <2>2, <3>1
  <2>3. CASE ~Holds(app, ins.img) /\ FinishInstall("COPY_FAIL") /\ UNCHANGED gctrl
    <3>1. ins'.pc = "none" /\ mode' \in {"decide", "hold"}
      BY <2>3 DEF FinishInstall, NoIns
    <3>2. faults # 0 /\ gctrl = Loaded(ctrl)
      BY <2>1, <2>3, BootAssumption DEF Loaded, TypeOK, Record
    <3> QED
      BY <1>13, <2>1, <2>3, <3>1, <3>2
  <2> QED
    BY <1>18, <2>2, <2>3 DEF Verify
<1>20. mode \in Held \cup {"run", "off", "install"}
  BY DEF TypeOK, Modes
<1>19. CASE PowerCut
  <2>1. /\ mode # "off" /\ mode' = "off" /\ ins'.pc = "none"
        /\ cuts' = cuts + 1 /\ cuts \in Nat /\ UNCHANGED <<stage, faults>>
        /\ \/ UNCHANGED <<ctrl, app>>
           \/ ins.pc = "ctrlErase" /\ ctrl' = NoRecord /\ UNCHANGED app
           \/ ins.pc \in {"erase", "copy"} /\ UNCHANGED ctrl
    BY <1>19 DEF PowerCut, RamCleared, NoIns, TypeOK
  <2>2. PendingInv'
    BY <2>1
  <2>3. WholeInv'
    <3> SUFFICES ASSUME cuts' <= 1, faults' = 0
                 PROVE  WholeImage' \/ (cuts' = 1 /\ Pending')
      BY <2>1
    <3>1. cuts = 0 /\ cuts' = 1 /\ faults = 0
      BY <2>1
    <3>2. CASE mode # "install"
      BY <2>1, <3>1, <3>2, <1>20
    <3>3. CASE mode = "install" /\ ins.pc \in {"ctrlErase", "ctrlProgram"}
      BY <2>1, <3>1, <3>3
    <3>4. CASE mode = "install" /\ ins.pc \in {"erase", "copy", "verify"}
      BY <2>1, <3>1, <3>4, BootAssumption DEF TypeOK, Record
    <3> QED
      BY <3>2, <3>3, <3>4 DEF TypeOK, InsPcs
  <2> QED
    BY <2>1, <2>2, <2>3
<1> QED
  BY <1>u, <1>1, <1>2, <1>3, <1>4, <1>5, <1>6, <1>7, <1>8, <1>9, <1>10, <1>11,
     <1>15, <1>16, <1>17, <1>18, <1>19
     DEF Next, Boot, Install, Command, Trouble

LEMMA InstallSafe == Spec => []InstallInv
<1>1. Init => StagingInv
  BY DEF Init, StagingInv, PageInv, OwnBlocksStage
<1>2. TypeOK /\ StagingInv /\ [Next]_vars => StagingInv'
  BY StagingStep
<1>3. TypeOK /\ StagingInv /\ InstallInv /\ [Next]_vars => InstallInv'
  BY InstallStep
<1> QED
  BY <1>1, <1>2, <1>3, InstallInit, TypeCorrect, PTL DEF Spec

\* While the flash programs, a record that is marked pending has its whole
\* image in staging, wherever power is cut: nothing writes staging between
\* the reception that verified it and the end of the copy.
THEOREM PendingAlwaysHasSource == Spec => []PendingHasSource
<1>1. InstallInv => PendingHasSource
  BY DEF InstallInv, PendingInv, Pending, PendingHasSource
<1> QED
  BY <1>1, InstallSafe, PTL

\* After at most one power cut anywhere in an install, and after any number
\* of cuts and failed programs when the record names the application, the
\* panel is handed only to a whole image.
THEOREM AlwaysRunsWholeImage == Spec => []RunsWholeImage
<1>1. TypeOK /\ InstallInv => RunsWholeImage
  <2> SUFFICES ASSUME TypeOK, InstallInv, mode = "run",
                      \/ cuts <= 1 /\ faults = 0
                      \/ Loaded(ctrl).app # NoImage
               PROVE  WholeImage
    BY DEF RunsWholeImage
  <2>1. CASE cuts <= 1 /\ faults = 0
    BY <2>1 DEF InstallInv, WholeInv
  <2>2. CASE Loaded(ctrl).app # NoImage
    <3>1. Loaded(ctrl).app \in Images
      BY <2>2, LoadedType DEF Record
    <3>2. Holds(app, Loaded(ctrl).app)
      BY <2>2 DEF InstallInv, RecordInv
    <3> QED
      BY <3>1, <3>2 DEF WholeImage
  <2> QED
    BY <2>1, <2>2
<1> QED
  BY <1>1, TypeCorrect, InstallSafe, PTL

-----------------------------------------------------------------------------
(* An install is a single step, unless a cut takes the record of a redone one *)

\* The one cut that is not made good: power goes while an install that is being
\* redone has its record erased and not written again.
LosesRecord ==
  /\ PowerCut
  /\ faults = 0
  /\ mode = "install" /\ ins.resume /\ gctrl.pending
  /\ ctrl' = NoRecord

\* A first install that has not replaced the record yet.
Undecided ==
  /\ mode = "install"
  /\ ins.pc \in {"ctrlErase", "ctrlProgram"}
  /\ gctrl.pending
  /\ ~ins.resume

\* Where the application may be in pieces, after any number of cuts: only while
\* a record that is pending, or the install that replaces it, has it redone.
DecideInv ==
  faults = 0 =>
    /\ mode \in Held \cup {"run"} => WholeImage
    /\ mode = "off" => WholeImage \/ Pending
    /\ Undecided => ~Pending /\ WholeImage
    /\ mode = "install" =>
         /\ Pending => ctrl.staged = ins.img
         /\ ins.pc = "ctrlProgram" => ctrl = NoRecord
         /\ ins.resume /\ gctrl.pending /\ ins.pc = "ctrlErase" => Pending

\* What the mapping takes for the installed application.
InstalledInv ==
  faults = 0 =>
    /\ mode = "install" /\ ~Undecided => Installed = ins.img
    /\ mode # "install" /\ Pending => Installed = ctrl.staged
    /\ Undecided \/ (mode # "install" /\ ~Pending) =>
         Installed \in Images /\ Holds(app, Installed)
    /\ Installed \in Images

\* A region starts with at most one image, since every image has a block.
LEMMA HoldsOne ==
  ASSUME NEW region, NEW i \in Images, NEW j \in Images,
         Holds(region, i), Holds(region, j)
  PROVE  i = j
<1>1. 0 \in ImageBlocks(i) /\ 0 \in ImageBlocks(j)
  BY BootAssumption DEF ImageBlocks
<1> QED
  BY <1>1 DEF Holds

LEMMA FaultsStay ==
  ASSUME TypeOK, [Next]_vars
  PROVE  /\ faults \in Nat /\ faults' \in Nat
         /\ faults' = 0 => faults = 0
<1>1. faults \in Nat
  BY DEF TypeOK
<1>2. faults' = faults \/ faults' = faults + 1
  BY DEF Next, Boot, Install, Command, Trouble, PowerUp, Decide, ListenTimeout, CtrlErase,
         CtrlProgram, EraseSector, CopySector, Verify, ListenHold, DoBegin,
         DoBeginRefused, DoData, DoActivate, DoExit, AppHold, CopySectorFails, PowerCut,
         vars
<1> QED
  BY <1>1, <1>2

LEMMA DecideInit == Init => DecideInv
<1> SUFFICES ASSUME Init PROVE DecideInv
  OBVIOUS
<1>1. WholeImage /\ mode = "off"
  BY InstallInit DEF Init, InstallInv, WholeInv, Pending
<1> QED
  BY <1>1 DEF DecideInv, Undecided, Held

LEMMA DecideStep ==
  ASSUME TypeOK, InstallInv, DecideInv, [Next]_vars, ~LosesRecord
  PROVE  DecideInv'
<1> USE DEF DecideInv, Undecided, Pending, WholeImage, Holds, Held
<1>t. faults' = 0 => faults = 0
  BY FaultsStay
<1>1. CASE UNCHANGED vars
  BY <1>1 DEF vars
<1>2. CASE PowerUp
  <2>1. CASE mode' = "install"
    <3>1. Resumable(Loaded(ctrl)) /\ BeginInstall(Loaded(ctrl), Loaded(ctrl).staged, TRUE)
          /\ ctrl' = ctrl
      BY <1>2, <2>1 DEF PowerUp, flash
    <3>2. ins'.resume /\ ins'.pc = "ctrlErase" /\ ins'.img = Loaded(ctrl).staged
      BY <3>1 DEF BeginInstall, InstallFrom
    <3>3. ctrl # NoRecord /\ Loaded(ctrl) = ctrl /\ ctrl.pending
      BY <3>1 DEF Loaded, Resumable, EmptyRecord
    <3> QED
      BY <1>t, <2>1, <3>1, <3>2, <3>3
  <2>2. CASE mode' = "decide"
    <3>1. mode = "off" /\ UNCHANGED <<ctrl, app, faults>> /\ ~Resumable(Loaded(ctrl))
      BY <1>2, <2>2 DEF PowerUp, BeginInstall, flash
    <3>2. faults = 0 => ~Pending
      BY <3>1, BootAssumption DEF Resumable, Loaded, InstallInv, PendingInv, Contents
    <3> QED
      BY <2>2, <3>1, <3>2
  <2> QED
    BY <1>2, <2>1, <2>2 DEF PowerUp, BeginInstall
<1>3. CASE DoActivate
  <2>1. /\ mode = "hold" /\ UNCHANGED <<ctrl, app, faults>>
        /\ mode' = "install" /\ ins'.resume = FALSE /\ ins'.pc = "ctrlErase"
        /\ faults = 0 => ~Pending /\ WholeImage
    BY <1>3 DEF DoActivate, BeginInstall, InstallFrom, flash, InstallInv, PendingInv
  <2> QED
    BY <2>1
<1>4. CASE CtrlErase
  <2>1. /\ mode = "install" /\ ins.pc = "ctrlErase" /\ ins'.pc = "ctrlProgram"
        /\ ctrl' = NoRecord /\ ins'.resume = ins.resume
        /\ UNCHANGED <<app, gctrl, mode, faults>>
    BY <1>4 DEF CtrlErase, TypeOK
  <2> QED
    BY <2>1
<1>5. CASE CtrlProgram
  <2>0. mode = "install" /\ ins.pc = "ctrlProgram" /\ ctrl' = gctrl
        /\ UNCHANGED <<app, gctrl, faults>>
    BY <1>5 DEF CtrlProgram
  <2>1. CASE mode' = "install"
    <3>1. ins' = [ins EXCEPT !.pc = "erase"]
      BY <1>5, <2>1 DEF CtrlProgram, FinishInstall
    <3>2. ins'.pc = "erase" /\ ins'.img = ins.img
      BY <3>1 DEF TypeOK
    <3> QED
      BY <2>0, <2>1, <3>2 DEF InstallInv, SourceInv
  <2>2. CASE mode' \in {"decide", "hold"}
    <3>1. ~gctrl.pending
      BY <1>5, <2>0, <2>2 DEF CtrlProgram
    <3>2. faults = 0 => WholeImage
      BY <2>0, <3>1 DEF InstallInv, CopyInv, SourceInv
    <3> QED
      BY <2>0, <2>2, <3>2
  <2> QED
    BY <1>5, <2>1, <2>2 DEF CtrlProgram, FinishInstall
<1>6. CASE EraseSector \/ CopySector \/ CopySectorFails
  <2>1. /\ mode = "install" /\ ins.pc \in {"erase", "copy"}
        /\ UNCHANGED <<ctrl, gctrl, mode>>
        /\ Advance("copy") \/ Advance("verify")
    BY <1>6 DEF EraseSector, CopySector, CopySectorFails
  <2>2. ins'.pc \in {"erase", "copy", "verify"} /\ ins'.img = ins.img
    BY <2>1 DEF Advance, TypeOK
  <2> QED
    BY <1>t, <2>1, <2>2
<1>7. CASE Verify
  <2>0. mode = "install" /\ ins.pc = "verify" /\ UNCHANGED <<ctrl, app, faults>>
        /\ (faults = 0 => Holds(app, ins.img))
    BY <1>7 DEF Verify, flash, InstallInv, CopyInv
  <2>1. CASE mode' = "install"
    <3>1. /\ gctrl' = [gctrl EXCEPT !.pending = FALSE, !.app = ins.img]
          /\ ins' = [ins EXCEPT !.pc = "ctrlErase"]
      BY <1>7, <2>1 DEF Verify, FinishInstall
    <3>2. ~gctrl'.pending /\ ins'.img = ins.img /\ ins'.pc = "ctrlErase"
      BY <3>1 DEF TypeOK, Record
    <3> QED
      BY <2>0, <2>1, <3>2
  <2>2. CASE mode' \in {"decide", "hold"}
    <3>1. faults = 0 => WholeImage
      BY <2>0 DEF InstallInv, SourceInv
    <3> QED
      BY <2>0, <2>2, <3>1
  <2> QED
    BY <1>7, <2>1, <2>2 DEF Verify, FinishInstall
<1>8. CASE PowerCut
  <2>1. /\ mode' = "off" /\ faults' = faults
        /\ \/ UNCHANGED <<ctrl, app>>
           \/ ins.pc = "ctrlErase" /\ ctrl' = NoRecord /\ UNCHANGED app
           \/ ins.pc \in {"erase", "copy"} /\ UNCHANGED ctrl
    BY <1>8 DEF PowerCut
  <2> SUFFICES ASSUME faults = 0 PROVE (WholeImage \/ Pending)'
    BY <2>1
  <2>2. CASE mode # "install"
    <3>1. UNCHANGED <<ctrl, app>>
      BY <2>1, <2>2 DEF InstallInv, RecordInv
    <3>2. WholeImage \/ Pending
      BY <2>2 DEF TypeOK, Modes
    <3> QED
      BY <3>1, <3>2
  <2>3. CASE mode = "install" /\ ins.pc \in {"erase", "copy", "verify"}
    BY <2>1, <2>3, BootAssumption DEF InstallInv, RecordInv, TypeOK, Record
  <2>4. CASE mode = "install" /\ ins.pc \in {"ctrlErase", "ctrlProgram"}
    <3>1. app' = app
      BY <2>1, <2>4
    <3>2. CASE ~gctrl.pending
      BY <2>4, <3>1, <3>2 DEF InstallInv, CopyInv, SourceInv
    <3>3. CASE gctrl.pending /\ ~ins.resume
      BY <2>4, <3>1, <3>3
    <3>4. CASE gctrl.pending /\ ins.resume
      <4>1. ctrl' # NoRecord
        BY <1>8, <2>4, <3>4 DEF LosesRecord
      <4>2. ctrl' = ctrl /\ ins.pc = "ctrlErase"
        BY <2>1, <2>4, <4>1
      <4> QED
        BY <2>4, <3>4, <4>2
    <3> QED
      BY <3>2, <3>3, <3>4
  <2> QED
    BY <2>2, <2>3, <2>4 DEF InstallInv, RecordInv, TypeOK, InsPcs
<1>9. CASE Decide \/ ListenTimeout \/ ListenHold \/ DoExit \/ DoBeginRefused \/ AppHold
           \/ (\E i \in Images : DoBegin(i))
           \/ (\E b \in Blocks, i \in Images : DoData(b, i))
  <2>1. /\ mode \in Held \cup {"run"} /\ mode' \in Held \cup {"run", "off"}
        /\ UNCHANGED <<app, faults>>
    BY <1>9 DEF Decide, ListenTimeout, ListenHold, DoExit, DoBeginRefused, AppHold,
                DoBegin, DoData, flash
  <2> QED
    BY <2>1
<1> QED
  BY <1>1, <1>2, <1>3, <1>4, <1>5, <1>6, <1>7, <1>8, <1>9
     DEF Next, Boot, Install, Command, Trouble

LEMMA InstalledIs == TypeOK /\ InstallInv /\ DecideInv => InstalledInv
<1> SUFFICES ASSUME TypeOK, InstallInv, DecideInv, faults = 0 PROVE InstalledInv
  BY DEF InstalledInv
<1>1. \A i, j \in Images : Holds(app, i) /\ Holds(app, j) => i = j
  BY HoldsOne
<1>2. CASE mode = "install" /\ ~Undecided
  <2>1. ins.img \in Images /\ (Pending => ctrl.staged = ins.img)
    BY <1>2 DEF InstallInv, SourceInv, DecideInv
  <2>2. \A i \in Images : Decided(i) => i = ins.img
    BY <2>1 DEF Decided, Pending
  <2>3. CASE \E i \in Images : Decided(i)
    BY <1>2, <2>1, <2>2, <2>3 DEF Installed, InstalledInv, Undecided
  <2>4. CASE ~\E i \in Images : Decided(i)
    <3>1. ins.pc \in {"ctrlErase", "ctrlProgram"} /\ ~gctrl.pending
      BY <1>2, <2>1, <2>4 DEF Decided, Undecided
    <3>2. Holds(app, ins.img)
      BY <1>2, <3>1 DEF InstallInv, CopyInv
    <3> QED
      BY <1>1, <1>2, <2>1, <2>4, <3>2 DEF Installed, InstalledInv, Undecided, WholeImage
  <2> QED
    BY <2>3, <2>4
<1>3. CASE mode # "install" /\ Pending
  <2>1. ctrl.staged \in Images
    BY <1>3 DEF InstallInv, PendingInv
  <2>2. \A i \in Images : Decided(i) <=> i = ctrl.staged
    BY <1>3 DEF Decided, Pending
  <2> QED
    BY <1>3, <2>1, <2>2 DEF Installed, InstalledInv, Undecided
<1>4. CASE Undecided \/ (mode # "install" /\ ~Pending)
  <2>1. ~Pending /\ WholeImage
    BY <1>4 DEF DecideInv, InstallInv, PendingInv, Held, TypeOK, Modes
  <2>2. ~\E i \in Images : Decided(i)
    BY <1>4, <2>1 DEF Decided, Pending, Undecided
  <2>3. Installed \in Images /\ Holds(app, Installed)
    BY <2>1, <2>2 DEF Installed, WholeImage
  <2> QED
    BY <1>4, <2>1, <2>3 DEF InstalledInv, Undecided
<1> QED
  BY <1>2, <1>3, <1>4

\* Only an install that replaces the record changes what is installed.
LEMMA InstalledMoves ==
  ASSUME TypeOK, InstallInv, DecideInv, InstalledInv, InstallInv', InstalledInv',
         [Next]_vars, ~LosesRecord, faults = 0, faults' = 0
  PROVE  \/ Installed' = Installed
         \/ mode = "install" /\ mode' = "install"
<1> USE DEF InstalledInv
<1>1. \A i, j \in Images : Holds(app, i) /\ Holds(app, j) => i = j
  BY HoldsOne
<1>2. app' = app => \A i : Holds(app, i)' <=> Holds(app, i)
  BY DEF Holds
<1>3. CASE mode # "install" /\ mode' # "install" /\ UNCHANGED <<ctrl, app>>
  <2>1. Pending' = Pending
    BY <1>3 DEF Pending
  <2> QED
    BY <1>1, <1>2, <1>3, <2>1
<1>4. CASE PowerUp
  <2>1. CASE mode' = "install"
    <3>1. /\ mode = "off" /\ Loaded(ctrl).pending /\ ins'.resume
          /\ ins'.img = Loaded(ctrl).staged
      BY <1>4, <2>1 DEF PowerUp, Resumable, BeginInstall, InstallFrom
    <3>2. Pending /\ ins'.img = ctrl.staged
      BY <3>1 DEF Loaded, EmptyRecord, Pending
    <3>3. ~Undecided'
      BY <3>1 DEF Undecided
    <3> QED
      BY <2>1, <3>1, <3>2, <3>3
  <2>2. CASE mode' # "install"
    BY <1>3, <1>4, <2>2 DEF PowerUp, flash
  <2> QED
    BY <2>1, <2>2
<1>5. CASE DoActivate
  <2>1. /\ mode = "hold" /\ mode' = "install" /\ app' = app
        /\ ins'.pc = "ctrlErase" /\ gctrl'.pending /\ ~ins'.resume
    BY <1>5 DEF DoActivate, BeginInstall, InstallFrom, flash, TypeOK, Record
  <2>2. Undecided' /\ ~Pending
    BY <2>1 DEF Undecided, InstallInv, PendingInv
  <2> QED
    BY <1>1, <1>2, <2>1, <2>2
<1>6. CASE CtrlErase \/ EraseSector \/ CopySector \/ CopySectorFails
  BY <1>6 DEF CtrlErase, EraseSector, CopySector, CopySectorFails
<1>7. CASE CtrlProgram
  <2>1. CASE mode' # "install"
    <3>1. /\ mode = "install" /\ ins.pc = "ctrlProgram" /\ ~gctrl.pending
          /\ ctrl' = gctrl /\ app' = app
      BY <1>7, <2>1 DEF CtrlProgram
    <3>2. ~Undecided /\ ~Pending' /\ Holds(app, ins.img)
      BY <3>1 DEF Undecided, Pending, InstallInv, CopyInv
    <3> QED
      BY <1>1, <1>2, <2>1, <3>1, <3>2
  <2> QED
    BY <1>7, <2>1 DEF CtrlProgram
<1>8. CASE Verify
  <2>1. mode = "install" /\ Holds(app, ins.img)
    BY <1>8 DEF Verify, InstallInv, CopyInv
  <2> QED
    BY <1>8, <2>1 DEF Verify
<1>9. CASE PowerCut
  <2>1. /\ mode' = "off"
        /\ \/ UNCHANGED <<ctrl, app>>
           \/ ins.pc = "ctrlErase" /\ ctrl' = NoRecord /\ UNCHANGED app
           \/ ins.pc \in {"erase", "copy"} /\ UNCHANGED ctrl
    BY <1>9 DEF PowerCut, TypeOK
  <2>2. CASE mode # "install"
    <3>1. UNCHANGED <<ctrl, app>>
      BY <2>1, <2>2 DEF InstallInv, RecordInv
    <3> QED
      BY <1>3, <2>1, <2>2, <3>1
  <2>3. CASE mode = "install" /\ ins.pc \in {"erase", "copy", "verify"}
    <3>1. Pending /\ ctrl.staged = ins.img /\ ctrl' = ctrl
      BY <2>1, <2>3, BootAssumption
         DEF InstallInv, RecordInv, SourceInv, Pending, TypeOK, Record
    <3> QED
      BY <2>1, <2>3, <3>1 DEF Pending, Undecided
  <2>4. CASE Undecided
    <3>1. ~Pending /\ ~Pending' /\ app' = app
      BY <2>1, <2>4 DEF DecideInv, Undecided, Pending
    <3> QED
      BY <1>1, <1>2, <2>1, <2>4, <3>1
  <2>5. CASE mode = "install" /\ ~Undecided /\ ins.pc \in {"ctrlErase", "ctrlProgram"}
    <3>1. app' = app
      BY <2>1, <2>5
    <3>4. CASE gctrl.pending
      <4>1. ins.resume /\ ctrl' # NoRecord
        BY <1>9, <2>5, <3>4 DEF Undecided, LosesRecord
      <4>2. ctrl' = ctrl /\ ins.pc = "ctrlErase"
        BY <2>1, <2>5, <4>1 DEF DecideInv
      <4>3. Pending /\ Pending' /\ ctrl'.staged = ins.img
        BY <2>5, <3>4, <4>1, <4>2 DEF DecideInv, Pending
      <4> QED
        BY <2>1, <2>5, <4>3 DEF Undecided
    <3>5. CASE ~gctrl.pending
      <4>2. Holds(app, ins.img) /\ Installed = ins.img
        BY <2>5, <3>5 DEF InstallInv, CopyInv
      <4>3. Pending' => ctrl'.staged = ins.img
        BY <2>1, <2>5 DEF DecideInv, Pending
      <4> QED
        BY <1>1, <1>2, <2>1, <3>1, <4>2, <4>3
    <3> QED
      BY <3>4, <3>5
  <2> QED
    BY <2>2, <2>3, <2>4, <2>5 DEF InstallInv, RecordInv, TypeOK, InsPcs
<1>10. CASE UNCHANGED vars
  BY <1>3, <1>10 DEF vars
<1>11. CASE Decide \/ ListenTimeout \/ ListenHold \/ DoExit \/ DoBeginRefused \/ AppHold
            \/ (\E i \in Images : DoBegin(i))
            \/ (\E b \in Blocks, i \in Images : DoData(b, i))
  <2>1. mode # "install" /\ mode' # "install" /\ UNCHANGED <<ctrl, app>>
    BY <1>11 DEF Decide, ListenTimeout, ListenHold, DoExit, DoBeginRefused, AppHold,
                 DoBegin, DoData, flash
  <2> QED
    BY <1>3, <2>1
<1> QED
  BY <1>4, <1>5, <1>6, <1>7, <1>8, <1>9, <1>10, <1>11
     DEF Next, Boot, Install, Command, Trouble

LEMMA InstallImplements ==
  ASSUME TypeOK, InstallInv, DecideInv, InstalledInv,
         TypeOK', InstallInv', InstalledInv', [Next]_vars, ~LosesRecord
  PROVE  [Abstract!Next]_(Abstract!vars)
<1> USE DEF Abstract!Next, Abstract!Install, Abstract!Start, Abstract!Stop, Abstract!Fail,
            Abstract!vars
<1>1. faults \in Nat /\ faults' \in Nat /\ (faults > 0 => faults' > 0)
  <2>1. faults \in Nat /\ faults' \in Nat
    BY DEF TypeOK
  <2>2. faults' = faults \/ faults' = faults + 1
    BY DEF Next, Boot, Install, Command, Trouble, PowerUp, Decide, ListenTimeout, CtrlErase,
           CtrlProgram, EraseSector, CopySector, Verify, ListenHold, DoBegin,
           DoBeginRefused, DoData, DoActivate, DoExit, AppHold, CopySectorFails, PowerCut,
           vars
  <2> QED
    BY <2>1, <2>2
<1>2. CASE faults > 0
  <2>1. Installed' = Installed /\ Running' = Running /\ faults' > 0
    BY <1>1, <1>2 DEF Installed, Running
  <2> QED
    BY <1>2, <2>1
<1>3. CASE ~(faults > 0) /\ faults' > 0
  <2>1. Installed' = NoImage /\ Running' = NoImage
    BY <1>1, <1>3 DEF Installed, Running
  <2> QED
    BY <1>3, <2>1
<1>4. CASE ~(faults > 0) /\ ~(faults' > 0)
  <2>1. faults = 0 /\ faults' = 0
    BY <1>1, <1>4
  <2>2. \/ Installed' = Installed
        \/ mode = "install" /\ mode' = "install"
    BY <2>1, InstalledMoves
  <2>3. Installed' \in Images
    BY <2>1 DEF InstalledInv
  <2>4. /\ Running = IF mode = "run" THEN Installed ELSE NoImage
        /\ Running' = IF mode' = "run" THEN Installed' ELSE NoImage
    BY <2>1 DEF Running
  <2> HIDE DEF Installed, Running
  <2>5. CASE mode = "install" /\ mode' = "install"
    BY <1>4, <2>3, <2>4, <2>5
  <2>6. CASE Installed' = Installed
    BY <1>4, <2>4, <2>6
  <2> QED
    BY <2>2, <2>5, <2>6
<1> QED
  BY <1>2, <1>3, <1>4

LEMMA InstalledInit == Init => Abstract!Init
<1> SUFFICES ASSUME Init PROVE Abstract!Init
  OBVIOUS
<1>1. faults = 0 /\ mode = "off"
  BY DEF Init
<1>2. Installed \in Images
  BY <1>1, TypeInit, InstallInit, DecideInit, InstalledIs DEF InstalledInv
<1>3. Running = NoImage
  BY <1>1 DEF Running
<1> QED
  BY <1>1, <1>2, <1>3 DEF Abstract!Init

\* No cut takes the record of an install that is being redone.
RecordKept == [][~LosesRecord]_vars

LEMMA KeptStep == [Next]_vars /\ [~LosesRecord]_vars /\ TypeOK => ~LosesRecord
<1> SUFFICES ASSUME TypeOK, UNCHANGED vars PROVE ~LosesRecord
  OBVIOUS
<1>1. cuts' = cuts /\ cuts \in Nat
  BY DEF vars, TypeOK
<1> QED
  BY <1>1 DEF LosesRecord, PowerCut

LEMMA DecideSafe == Spec /\ RecordKept => []DecideInv
<1>1. TypeOK /\ InstallInv /\ DecideInv /\ [Next]_vars /\ [~LosesRecord]_vars => DecideInv'
  BY KeptStep, DecideStep
<1> QED
  BY <1>1, DecideInit, TypeCorrect, InstallSafe, PTL DEF Spec, RecordKept

\* "A power cut anywhere in here redoes the copy" (main.c, above install), for
\* any number of cuts: what is started is a whole image, unless one of the cuts
\* takes the record of an install that is being redone.
THEOREM CutsRedoTheCopy == Spec /\ RecordKept => []CutsNeverRunPartialImage
<1>1. DecideInv => CutsNeverRunPartialImage
  BY DEF DecideInv, CutsNeverRunPartialImage
<1> QED
  BY <1>1, DecideSafe, PTL

\* Any number of power cuts but that one leave an install a single step, and
\* what is started is what is installed: the erase, the copy and its redoing
\* are not seen from outside.
THEOREM InstallsAtomicallyKept == Spec /\ RecordKept => AtomicInstallSpec
<1>1. TypeOK /\ InstallInv /\ DecideInv => InstalledInv
  BY InstalledIs
<1>2. /\ TypeOK /\ InstallInv /\ DecideInv /\ InstalledInv
      /\ TypeOK' /\ InstallInv' /\ InstalledInv'
      /\ [Next]_vars /\ [~LosesRecord]_vars
      => [Abstract!Next]_(Abstract!vars)
  BY KeptStep, InstallImplements
<1> QED
  BY <1>1, <1>2, InstalledInit, TypeCorrect, InstallSafe, DecideSafe, PTL
     DEF Spec, RecordKept, AtomicInstallSpec, Abstract!Spec

\* Only a cut leaves an install to be redone.
RedoneInv ==
  faults = 0 =>
    /\ mode = "off" /\ Pending => cuts > 0
    /\ mode = "install" /\ ins.resume /\ gctrl.pending => cuts > 0

LEMMA RedoneStep ==
  ASSUME TypeOK, InstallInv, RedoneInv, [Next]_vars
  PROVE  RedoneInv'
<1> USE DEF RedoneInv, Pending
<1>c. cuts \in Nat
  BY DEF TypeOK
<1>t. faults' = 0 => faults = 0
  BY FaultsStay
<1>1. CASE UNCHANGED vars
  BY <1>1 DEF vars
<1>2. CASE PowerUp
  <2>1. UNCHANGED <<ctrl, cuts, faults>> /\ mode = "off"
    BY <1>2 DEF PowerUp, flash
  <2>2. CASE mode' = "install"
    <3>1. Resumable(Loaded(ctrl))
      BY <1>2, <2>2 DEF PowerUp
    <3>2. Pending
      BY <3>1 DEF Resumable, Loaded, EmptyRecord
    <3> QED
      BY <2>1, <2>2, <3>2
  <2>3. CASE mode' = "decide"
    BY <2>1, <2>3
  <2> QED
    BY <1>2, <2>2, <2>3 DEF PowerUp, BeginInstall
<1>3. CASE DoActivate
  <2>1. mode' = "install" /\ ~ins'.resume
    BY <1>3 DEF DoActivate, BeginInstall, InstallFrom
  <2> QED
    BY <2>1
<1>4. CASE mode = "install" /\ mode' = "install" /\ UNCHANGED cuts
           /\ ins'.resume = ins.resume /\ (gctrl'.pending => gctrl.pending)
  BY <1>t, <1>4
<1>5. CASE CtrlErase \/ EraseSector \/ CopySector \/ CopySectorFails
  <2>1. ins'.resume = ins.resume /\ UNCHANGED <<gctrl, cuts, mode>> /\ mode = "install"
    BY <1>5 DEF CtrlErase, EraseSector, CopySector, CopySectorFails, Advance, TypeOK
  <2> QED
    BY <1>4, <2>1
<1>6. CASE CtrlProgram \/ Verify
  <2>1. UNCHANGED cuts /\ mode = "install" /\ mode' \in {"install", "decide", "hold"}
    BY <1>6 DEF CtrlProgram, Verify, FinishInstall
  <2>2. CASE mode' = "install"
    <3>1. ins'.resume = ins.resume /\ (gctrl'.pending => gctrl.pending)
      BY <1>6, <2>2 DEF CtrlProgram, Verify, FinishInstall, TypeOK, Record
    <3> QED
      BY <1>4, <2>1, <2>2, <3>1
  <2>3. CASE mode' # "install"
    BY <2>1, <2>3
  <2> QED
    BY <2>2, <2>3
<1>7. CASE PowerCut
  <2>1. cuts' = cuts + 1 /\ mode' = "off"
    BY <1>7 DEF PowerCut
  <2> QED
    BY <1>c, <2>1
<1>8. CASE AppHold
  <2>1. mode = "run" /\ mode' = "off" /\ UNCHANGED <<ctrl, faults>>
    BY <1>8 DEF AppHold, flash
  <2> QED
    BY <2>1 DEF InstallInv, PendingInv
<1>9. CASE Decide \/ ListenTimeout \/ ListenHold \/ DoExit \/ DoBeginRefused
           \/ (\E i \in Images : DoBegin(i))
           \/ (\E b \in Blocks, i \in Images : DoData(b, i))
  <2>1. mode' \notin {"off", "install"}
    BY <1>9 DEF Decide, ListenTimeout, ListenHold, DoExit, DoBeginRefused, DoBegin, DoData
  <2> QED
    BY <2>1
<1> QED
  BY <1>1, <1>2, <1>3, <1>5, <1>6, <1>7, <1>8, <1>9
     DEF Next, Boot, Install, Command, Trouble

LEMMA RedoneSafe == Spec => []RedoneInv
<1>1. Init => RedoneInv
  BY BootAssumption DEF Init, RedoneInv, Pending
<1>2. TypeOK /\ InstallInv /\ RedoneInv /\ [Next]_vars => RedoneInv'
  BY RedoneStep
<1> QED
  BY <1>1, <1>2, TypeCorrect, InstallSafe, PTL DEF Spec

\* It takes two cuts to lose a record.
LEMMA OneCutKeeps ==
  ASSUME MaxCuts <= 1, TypeOK, RedoneInv
  PROVE  ~LosesRecord
<1> SUFFICES ASSUME LosesRecord PROVE FALSE
  OBVIOUS
<1>1. cuts > 0 /\ cuts < MaxCuts
  BY DEF LosesRecord, PowerCut, RedoneInv
<1>2. cuts \in Nat /\ MaxCuts \in Nat
  BY BootAssumption DEF TypeOK
<1> QED
  BY <1>1, <1>2

\* With at most one power cut, wherever it falls, nothing more is assumed.
THEOREM InstallsAtomically == MaxCuts <= 1 => (Spec => AtomicInstallSpec)
<1> SUFFICES ASSUME MaxCuts <= 1 PROVE Spec => AtomicInstallSpec
  OBVIOUS
<1>1. TypeOK /\ RedoneInv => [~LosesRecord]_vars
  BY OneCutKeeps
<1>2. Spec => RecordKept
  BY <1>1, TypeCorrect, RedoneSafe, PTL DEF RecordKept
<1> QED
  BY <1>2, InstallsAtomicallyKept, PTL

-----------------------------------------------------------------------------
(* An install takes a bounded number of flash operations *)

Sectors(i) == LastSector(i) + 1

\* Flash operations the install under way has left, the record's included.
InstallLeft ==
  LET n == Sectors(ins.img) IN
  CASE ins.pc = "ctrlErase"   -> IF gctrl.pending THEN 2 * n + 5 ELSE 2
    [] ins.pc = "ctrlProgram" -> IF gctrl.pending THEN 2 * n + 4 ELSE 1
    [] ins.pc = "erase"       -> 2 * n + 3 - ins.sec
    [] ins.pc = "copy"        -> n + 3 - ins.sec
    [] ins.pc = "verify"      -> 3
    [] OTHER                  -> 0

\* The sector being erased or copied is one the image reaches.
SecInv ==
  mode = "install" =>
    /\ ins.sec <= LastSector(ins.img)
    /\ ins.pc \in {"ctrlErase", "ctrlProgram", "verify"} => ins.sec = 0

\* Where an install goes from each of its operations.
LEMMA InstallSteps ==
  ASSUME TypeOK, SourceInv, RecordInv, SecInv, mode = "install", mode' = "install",
         Next
  PROVE  /\ ins'.img = ins.img
         /\ \/ /\ ins.pc = "ctrlErase" /\ ins'.pc = "ctrlProgram"
               /\ ins'.sec = ins.sec /\ gctrl' = gctrl
            \/ /\ ins.pc = "ctrlProgram" /\ ins'.pc = "erase" /\ gctrl.pending
               /\ ins'.sec = ins.sec
            \/ /\ ins.pc \in {"erase", "copy"} /\ ins'.pc = ins.pc
               /\ ins.sec < LastSector(ins.img) /\ ins'.sec = ins.sec + 1
            \/ /\ ins.pc = "erase" /\ ins'.pc = "copy" /\ ins'.sec = 0
               /\ ~(ins.sec < LastSector(ins.img))
            \/ /\ ins.pc = "copy" /\ ins'.pc = "verify" /\ ins'.sec = 0
            \/ /\ ins.pc = "verify" /\ ins'.pc = "ctrlErase" /\ ~gctrl'.pending
               /\ ins'.sec = ins.sec
<1>1. CASE CtrlErase
  BY <1>1 DEF CtrlErase, TypeOK
<1>2. CASE CtrlProgram
  <2>1. gctrl.pending /\ ins.pc = "ctrlProgram" /\ ins' = [ins EXCEPT !.pc = "erase"]
    BY <1>2 DEF CtrlProgram, FinishInstall
  <2> QED
    BY <2>1 DEF TypeOK
<1>3. CASE EraseSector
  BY <1>3 DEF EraseSector, Advance, TypeOK
<1>4. CASE CopySector \/ CopySectorFails
  BY ZenonT(40), <1>4 DEF CopySector, CopySectorFails, Advance, TypeOK
<1>5. CASE Verify
  <2>1. ins.pc = "verify" /\ ins' = [ins EXCEPT !.pc = "ctrlErase"]
        /\ gctrl' = [gctrl EXCEPT !.pending = FALSE, !.app = ins.img]
    BY <1>5 DEF Verify, FinishInstall
  <2> QED
    BY <2>1 DEF TypeOK, Record
<1> QED
  BY <1>1, <1>2, <1>3, <1>4, <1>5
     DEF Next, Boot, Install, Command, Trouble, PowerUp, Decide, ListenTimeout, ListenHold,
         DoBegin, DoBeginRefused, DoData, DoActivate, DoExit, AppHold, PowerCut

LEMMA SecStep ==
  ASSUME TypeOK, SourceInv, SourceInv', RecordInv, SecInv, [Next]_vars
  PROVE  SecInv'
<1> SUFFICES ASSUME mode' = "install" PROVE SecInv'
  BY DEF SecInv
<1>0. ins'.img \in Images /\ LastSector(ins'.img) \in Nat
  BY LastSectorType DEF SourceInv
<1>1. CASE mode = "install" /\ Next
  <2>1. LastSector(ins.img)' = LastSector(ins'.img)
    BY DEF LastSector, SectorOf
  <2>2. ins.sec \in Nat
    BY DEF TypeOK
  <2> QED
    BY <1>0, <1>1, <2>1, <2>2, InstallSteps DEF SecInv
<1>2. CASE mode # "install" /\ Next
  <2>1. PowerUp \/ DoActivate
    BY <1>2 DEF Next, Boot, Install, Command, Trouble, Decide, ListenTimeout, ListenHold,
         CtrlErase, CtrlProgram, EraseSector, CopySector, Verify, CopySectorFails,
         DoBegin, DoBeginRefused, DoData, DoExit, AppHold, PowerCut
  <2>2. ins'.sec = 0
    BY <2>1 DEF PowerUp, DoActivate, BeginInstall, InstallFrom
  <2> QED
    BY <1>0, <2>2 DEF SecInv, LastSector, SectorOf
<1>3. CASE UNCHANGED vars
  BY <1>3 DEF vars, SecInv, LastSector, SectorOf
<1> QED
  BY <1>1, <1>2, <1>3

\* An install has at most two operations for each sector of its image before it,
\* and five for the record and the check.
InstallProgress ==
  mode = "install" =>
    /\ ins.pc # "none"
    /\ InstallLeft \in 1 .. 2 * Sectors(ins.img) + 5

\* Every operation of an install brings its end nearer, whatever the flash
\* does: from DoActivate or from a resume it is over after at most two
\* operations for each sector of the image and five for the record and the
\* check, or power is cut.  This is why a pending mark cannot stay while power
\* does (install, its two loops over the sectors).
THEOREM InstallEnds ==
  Spec => /\ []InstallProgress
          /\ [][mode = "install" /\ mode' = "install" => InstallLeft' < InstallLeft]_vars
<1>1. Init => SecInv
  BY DEF Init, SecInv
<1>2. /\ TypeOK /\ InstallInv /\ InstallInv' /\ SecInv /\ [Next]_vars => SecInv'
  BY SecStep DEF InstallInv
<1>3. TypeOK /\ InstallInv /\ SecInv => InstallProgress
  <2> SUFFICES ASSUME TypeOK, InstallInv, SecInv, mode = "install"
               PROVE  ins.pc # "none" /\ InstallLeft \in 1 .. 2 * Sectors(ins.img) + 5
    BY DEF InstallProgress
  <2>1. LastSector(ins.img) \in Nat /\ ins.sec \in Nat /\ ins.sec <= LastSector(ins.img)
    BY LastSectorType DEF InstallInv, SourceInv, TypeOK, SecInv
  <2>2. ins.pc \in InsPcs \ {"none"}
    BY DEF InstallInv, RecordInv, TypeOK
  <2> QED
    BY <2>1, <2>2 DEF InstallLeft, Sectors, InsPcs
<1>4. /\ TypeOK /\ TypeOK' /\ InstallInv /\ InstallInv' /\ SecInv /\ SecInv' /\ [Next]_vars
      => [mode = "install" /\ mode' = "install" => InstallLeft' < InstallLeft]_vars
  <2> SUFFICES ASSUME TypeOK, TypeOK', InstallInv, InstallInv', SecInv, SecInv', Next,
                      mode = "install", mode' = "install"
               PROVE  InstallLeft' < InstallLeft
    OBVIOUS
  <2>1. LastSector(ins.img) \in Nat /\ ins.sec \in Nat /\ ins'.sec \in Nat
        /\ ins.sec <= LastSector(ins.img)
    BY LastSectorType DEF InstallInv, SourceInv, TypeOK, SecInv
  <2>2. ins'.img = ins.img => Sectors(ins.img)' = LastSector(ins.img) + 1
    BY DEF Sectors, LastSector, SectorOf
  <2>3. Sectors(ins.img) = LastSector(ins.img) + 1
    BY DEF Sectors
  <2> QED
    BY <2>1, <2>2, <2>3, InstallSteps DEF InstallLeft, InstallInv, SecInv
<1> QED
  BY <1>1, <1>2, <1>3, <1>4, TypeCorrect, InstallSafe, PTL DEF Spec

=============================================================================
