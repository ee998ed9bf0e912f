-------------------------- MODULE BootInstall_proofs --------------------------
(***************************************************************************)
(* Proofs about BootInstall for every set of builds, every page and sector *)
(* count, every number of tries, and any number of power cuts and failed   *)
(* programs.                                                               *)
(***************************************************************************)
EXTENDS BootInstall, TLAPS

UpdType == [pc : Pcs, slot : Slots, seq : Nat, try : 0 .. TRIES - 1, at : Nat,
            pass : Nat, res : Results]

LEMMA NoUpdType == NoUpd \in UpdType
BY BootInstallAssumption DEF NoUpd, UpdType, Pcs, Slots, Results

LEMMA GotoType ==
  ASSUME upd \in UpdType, NEW p \in Pcs, Goto(p)
  PROVE  upd' \in UpdType
BY DEF Goto, UpdType

LEMMA RetryType ==
  ASSUME upd \in UpdType, NEW p \in Pcs, Retry(p)
  PROVE  upd' \in UpdType
<1>1. upd.try + 1 < TRIES => upd.try + 1 \in 0 .. TRIES - 1
  BY BootInstallAssumption DEF UpdType
<1>2. "done" \in Pcs /\ "E_VERIFY" \in Results
  BY DEF Pcs, Results
<1> QED
  BY <1>1, <1>2 DEF Retry, UpdType

LEMMA WriteSlotType ==
  ASSUME NEW s \in Slots, NEW n \in Nat, NEW from \in UpdType, WriteSlot(s, n, from)
  PROVE  upd' \in UpdType
<1>1. "slotErase" \in Pcs /\ 0 \in 0 .. TRIES - 1
  BY BootInstallAssumption DEF Pcs
<1> QED
  BY <1>1 DEF WriteSlot, UpdType

LEMMA NextAtType ==
  ASSUME upd \in UpdType
  PROVE  [upd EXCEPT !.at = @ + 1] \in UpdType
BY DEF UpdType

\* Select names a slot it has found valid, or none.
LEMMA SelectOk ==
  /\ Select \in {-1, 0, 1}
  /\ Select # -1 => SlotOk(Select)
  /\ Select = -1 => ~SlotOk(0) /\ ~SlotOk(1)
BY DEF Select, Other

\* A valid slot next to one that is not valid is the one selected.
LEMMA SelectOnly ==
  ASSUME NEW s \in Slots, SlotOk(s), ~SlotOk(Other(s))
  PROVE  Select = s
BY DEF Select, Other, Slots

LEMMA SectorSetType ==
  ASSUME TypeOK, NEW s \in Slots, NEW n \in Nat, NEW x \in {Blank, Torn},
         SectorSet(s, n, x)
  PROVE  /\ img' \in [Slots -> [Pages -> Contents]]
         /\ hdr' \in [Slots -> Header \cup {NoHdr}]
BY DEF SectorSet, TypeOK, Contents

-----------------------------------------------------------------------------
(* Type correctness *)

LEMMA TypeInit == Init => TypeOK
<1> SUFFICES ASSUME Init PROVE TypeOK
  OBVIOUS
<1>1. CASE /\ sec0 = [p \in Sector0 |-> IF p = 0 THEN Boot2 ELSE Single]
           /\ img = [s \in Slots |-> [p \in Pages |-> IF s = 0 THEN Single ELSE Blank]]
           /\ hdr = [s \in Slots |-> NoHdr]
  BY <1>1, NoUpdType DEF Init, TypeOK, Contents, Modes, UpdType
<1>2. ASSUME NEW x \in {Stage0, Foreign}, NEW b \in Builds, NEW s \in Slots,
             NEW other \in {NoHdr, [seq |-> 1, build |-> b]},
             sec0 = [p \in Sector0 |-> IF p = 0 THEN Boot2 ELSE x],
             img = [t \in Slots |-> [p \in Pages |->
                      IF t # s /\ other = NoHdr THEN Torn ELSE b]],
             hdr = [t \in Slots |-> IF t = s THEN [seq |-> 2, build |-> b] ELSE other]
      PROVE  TypeOK
  <2>1. [seq |-> 2, build |-> b] \in Header /\ other \in Header \cup {NoHdr}
    BY DEF Header
  <2> QED
    BY <1>2, <2>1, NoUpdType DEF Init, TypeOK, Contents, Modes, UpdType
<1> QED
  BY <1>1, <1>2 DEF Init

LEMMA TypeStep == TypeOK /\ [Next]_vars => TypeOK'
<1> SUFFICES ASSUME TypeOK, [Next]_vars PROVE TypeOK'
  OBVIOUS
<1> USE DEF TypeOK
<1>t. upd \in UpdType
  BY DEF UpdType
<1>u. CASE UNCHANGED vars
  BY <1>u DEF vars
<1>1. CASE PowerUp
  BY <1>1 DEF PowerUp, flash, Modes
<1>2. CASE RunUpdater
  <2>1. [NoUpd EXCEPT !.res = "MIGRATED"] \in UpdType
    BY NoUpdType DEF UpdType, Results
  <2>2. /\ [NoUpd EXCEPT !.pc = "done", !.res = "E_STAGE0"] \in UpdType
        /\ [NoUpd EXCEPT !.pc = "pass"] \in UpdType
    BY NoUpdType DEF UpdType, Results, Pcs
  <2>3. upd' \in UpdType
    BY <1>2, <2>1, <2>2, WriteSlotType DEF RunUpdater, Slots
  <2> QED
    BY <1>2, <2>3 DEF RunUpdater, flash, Modes, UpdType
<1>3. CASE SlotErase
  <2>1. upd' \in UpdType
    BY <1>3, <1>t, NextAtType, GotoType DEF SlotErase, Pcs
  <2>2. /\ img' \in [Slots -> [Pages -> Contents]]
        /\ hdr' \in [Slots -> Header \cup {NoHdr}]
    BY <1>3, <1>t, SectorSetType DEF SlotErase, UpdType
  <2> QED
    BY <1>3, <2>1, <2>2 DEF SlotErase, UpdType
<1>4. ASSUME NEW x \in {New, Torn}, SlotPage(x)
      PROVE  /\ img' \in [Slots -> [Pages -> Contents]]
             /\ upd' \in UpdType
             /\ UNCHANGED <<sec0, hdr, hold, mode, cuts>>
  <2>1. upd' \in UpdType
    BY <1>4, <1>t, NextAtType, GotoType DEF SlotPage, Pcs
  <2>2. img' \in [Slots -> [Pages -> Contents]]
    BY <1>4, BootInstallAssumption DEF SlotPage, Program, Contents
  <2> QED
    BY <1>4, <2>1, <2>2 DEF SlotPage
<1>5. CASE SlotCompare
  <2>1. upd' \in UpdType
    BY <1>5, <1>t, GotoType, RetryType DEF SlotCompare, Pcs
  <2> QED
    BY <1>5, <2>1 DEF SlotCompare, flash, UpdType
<1>6. ASSUME NEW h \in {NewHeader, NoHdr}, SlotHeader(h)
      PROVE  /\ hdr' \in [Slots -> Header \cup {NoHdr}]
             /\ upd' \in UpdType
             /\ UNCHANGED <<sec0, img, hold, mode, cuts>>
  <2>1. upd' \in UpdType
    BY <1>6, <1>t, GotoType DEF SlotHeader, Pcs
  <2>2. NewHeader \in Header
    BY BootInstallAssumption DEF NewHeader, Header
  <2>3. hdr' \in [Slots -> Header \cup {NoHdr}]
    BY <1>6, <2>2 DEF SlotHeader
  <2> QED
    BY <1>6, <2>1, <2>3 DEF SlotHeader
<1>7. CASE SlotCheck
  <2>1. CASE Retry("slotErase")
    BY <1>7, <2>1, <1>t, RetryType DEF SlotCheck, flash, UpdType, Pcs
  <2>2. CASE upd' = [upd EXCEPT !.pc = IF Stage0Present THEN "pass" ELSE "s0Erase",
                              !.try = 0, !.at = 0,
                              !.pass = IF Stage0Present THEN @ + 1 ELSE @,
                              !.res = IF @ = "UP_TO_DATE" THEN "INSTALLED" ELSE @]
    <3>1. upd' \in UpdType
      <4>1. /\ "pass" \in Pcs /\ "s0Erase" \in Pcs /\ 0 \in 0 .. TRIES - 1
            /\ "INSTALLED" \in Results
        BY BootInstallAssumption DEF Pcs, Results
      <4>2. upd.pass + 1 \in Nat
        BY <1>t DEF UpdType
      <4> QED
        BY <2>2, <1>t, <4>1, <4>2 DEF UpdType
    <3> QED
      BY <1>7, <3>1 DEF SlotCheck, flash, UpdType
  <2> QED
    BY <1>7, <2>1, <2>2 DEF SlotCheck
<1>8. CASE Sector0Erase
  <2>1. upd' \in UpdType
    BY <1>8, <1>t DEF Sector0Erase, UpdType, Pcs
  <2> QED
    BY <1>8, <2>1 DEF Sector0Erase, UpdType, Contents
<1>9. ASSUME NEW x \in {Stage0, Torn}, Sector0Page(x)
      PROVE  /\ sec0' \in [Sector0 -> Contents]
             /\ upd' \in UpdType
             /\ UNCHANGED <<img, hdr, hold, mode, cuts>>
  <2>1. upd' \in UpdType
    BY <1>9, <1>t, NextAtType, GotoType DEF Sector0Page, Pcs
  <2>2. sec0' \in [Sector0 -> Contents]
    BY <1>9 DEF Sector0Page, Program, Contents
  <2> QED
    BY <1>9, <2>1, <2>2 DEF Sector0Page
<1>10. CASE Sector0Compare
  <2>1. upd' \in UpdType
    BY <1>10, <1>t, GotoType, RetryType DEF Sector0Compare, Pcs
  <2> QED
    BY <1>10, <2>1 DEF Sector0Compare, flash, UpdType
<1>11. ASSUME NEW x \in {Boot2, Torn}, Sector0Boot2(x)
       PROVE  /\ sec0' \in [Sector0 -> Contents]
              /\ upd' \in UpdType
              /\ UNCHANGED <<img, hdr, hold, mode, cuts>>
  <2>1. upd' \in UpdType
    BY <1>11, <1>t, GotoType DEF Sector0Boot2, Pcs
  <2>2. sec0' \in [Sector0 -> Contents]
    BY <1>11 DEF Sector0Boot2, Program, Contents
  <2> QED
    BY <1>11, <2>1, <2>2 DEF Sector0Boot2
<1>12. CASE Sector0Check
  <2>1. upd' \in UpdType
    BY <1>12, <1>t, GotoType, RetryType DEF Sector0Check, Pcs
  <2> QED
    BY <1>12, <2>1 DEF Sector0Check, flash, UpdType
<1>13. CASE Pass
  <2>1. CASE Done("E_VERIFY") \/ Done(upd.res)
    <3>1. upd' \in UpdType
      BY <2>1, <1>t DEF Done, UpdType, Pcs, Results
    <3> QED
      BY <1>13, <3>1 DEF Pass, flash, UpdType
  <2>2. CASE Select # -1 /\ WriteSlot(Other(Select), NextSeq(Select), upd)
    <3>1. Select \in Slots /\ Other(Select) \in Slots
      BY <2>2, SelectOk DEF Slots, Other
    <3>2. NextSeq(Select) \in Nat
      BY <2>2, <3>1, SelectOk DEF SlotOk, NextSeq, Header
    <3>3. upd' \in UpdType
      BY <2>2, <3>1, <3>2, <1>t, WriteSlotType
    <3> QED
      BY <1>13, <3>3 DEF Pass, flash, UpdType
  <2> QED
    BY <1>13, <2>1, <2>2 DEF Pass
<1>14. CASE Reboot
  BY <1>14, NoUpdType DEF Reboot, flash, Modes, UpdType
<1>15. ASSUME NEW b \in Builds, UsbRecover(b) PROVE TypeOK'
  <2>1. [seq |-> 1, build |-> b] \in Header
    BY DEF Header
  <2>2. img' \in [Slots -> [Pages -> Contents]]
    BY <1>15 DEF UsbRecover, Contents
  <2> QED
    BY <1>15, <2>1, <2>2 DEF UsbRecover, Contents, Modes
<1>16. CASE PowerCut
  <2>1. /\ sec0' \in [Sector0 -> Contents]
        /\ img' \in [Slots -> [Pages -> Contents]]
        /\ hdr' \in [Slots -> Header \cup {NoHdr}]
    <3>1. CASE UNCHANGED flash
      BY <3>1 DEF flash
    <3>2. CASE SectorSet(upd.slot, upd.at, Torn) /\ UNCHANGED sec0
      BY <3>2, SectorSetType
    <3>3. CASE img' = [img EXCEPT ![upd.slot][upd.at] = Torn] /\ UNCHANGED <<sec0, hdr>>
      BY <3>3 DEF Contents
    <3>4. CASE sec0' = [p \in Sector0 |-> Torn] /\ UNCHANGED <<img, hdr>>
      BY <3>4 DEF Contents
    <3>5. CASE /\ sec0' = [sec0 EXCEPT ![IF upd.pc = "s0Boot2" THEN 0 ELSE upd.at] = Torn]
               /\ UNCHANGED <<img, hdr>>
      BY <3>5 DEF Contents
    <3> QED
      BY <1>16, <3>1, <3>2, <3>3, <3>4, <3>5 DEF PowerCut, TornOperation
  <2> QED
    <3>1. mode' \in Modes /\ upd' \in UpdType /\ cuts' \in Nat /\ faults' \in Nat
      BY <1>16, NoUpdType DEF PowerCut, Modes
    <3>2. hold' \in BOOLEAN /\ spoilt' \in BOOLEAN
      BY <1>16 DEF PowerCut
    <3> QED
      BY <2>1, <3>1, <3>2 DEF UpdType
<1>17. CASE ProgramFails
  <2>1. faults' \in Nat /\ spoilt' \in BOOLEAN
    BY <1>17 DEF ProgramFails
  <2> QED
    BY <1>17, <2>1, <1>4, <1>6, <1>9, <1>11 DEF ProgramFails, UpdType
<1>18. CASE SlotPage(New) /\ UNCHANGED <<spoilt, faults>>
  BY <1>18, <1>4 DEF UpdType
<1>19. CASE SlotHeader(NewHeader) /\ UNCHANGED <<spoilt, faults>>
  BY <1>19, <1>6 DEF UpdType
<1>20. CASE Sector0Page(Stage0) /\ UNCHANGED <<spoilt, faults>>
  BY <1>20, <1>9 DEF UpdType
<1>21. CASE Sector0Boot2(Boot2) /\ UNCHANGED <<spoilt, faults>>
  BY <1>21, <1>11 DEF UpdType
<1>22. CASE Release
  BY <1>22 DEF Release, flash, Modes
<1> QED
  BY <1>u, <1>1, <1>2, <1>3, <1>5, <1>7, <1>8, <1>10, <1>12, <1>13, <1>14, <1>15,
     <1>16, <1>17, <1>18, <1>19, <1>20, <1>21, <1>22
     DEF Next, Writes

\* Every variable keeps its type.
THEOREM TypeCorrect == Spec => []TypeOK
BY TypeInit, TypeStep, PTL DEF Spec

-----------------------------------------------------------------------------
(* What every step keeps: something whole to boot *)

SlotPcs == {"slotErase", "slotPages", "slotCompare", "slotHeader", "slotCheck"}
S0Pcs   == {"s0Erase", "s0Pages", "s0Compare", "s0Boot2", "s0Check"}

\* Behind a good boot2 there is a whole bootloader.
Sound ==
  \/ sec0[0] # Boot2
  \/ SingleWhole
  \/ Stage0Whole /\ Select # -1

\* A slot is written next to the single bootloader, or next to a valid slot
\* that is the one stage 0 boots.
WritingInv ==
  mode = "update" /\ upd.pc \in SlotPcs =>
    /\ \/ SingleWhole /\ upd.slot = 1
       \/ /\ Sector0Is(Stage0)
          /\ SlotOk(Other(upd.slot))
          /\ hdr[Other(upd.slot)].seq < upd.seq
          /\ upd.pc # "slotCheck" => Select = Other(upd.slot)
    /\ upd.pc = "slotErase" => upd.at <= LastSector
    /\ upd.pc \in {"slotPages", "slotCompare", "slotHeader"} => hdr[upd.slot] = NoHdr
    /\ upd.pc = "slotCheck" => hdr[upd.slot] \in {NoHdr, NewHeader}

\* Sector 0 is written with slot B valid, and without a boot2 until the end.
Sector0Inv ==
  mode = "update" /\ upd.pc \in S0Pcs =>
    /\ SlotHolds(1) /\ ~SlotOk(0)
    /\ upd.pc = "s0Erase" => SingleWhole \/ sec0[0] # Boot2
    /\ upd.pc \in {"s0Pages", "s0Compare", "s0Boot2"} => sec0[0] = Blank
    /\ upd.pc = "s0Pages" => upd.at # 0
    /\ upd.pc = "s0Boot2" => \A p \in Sector0 \ {0} : sec0[p] = Stage0
    /\ upd.pc = "s0Check" => sec0[0] # Boot2 \/ Sector0Is(Stage0)

ModeInv ==
  /\ mode = "update" => upd.pc # "none"
  /\ mode \in {"boot", "held"} => sec0[0] = Boot2
  /\ mode = "bootsel" => sec0[0] # Boot2
  /\ mode = "update" /\ upd.pc = "pass" => Sector0Is(Stage0)

SafeInv ==
  /\ Sound
  /\ WritingInv
  /\ Sector0Inv
  /\ ModeInv
  /\ SlotsRanked

LEMMA PageFacts ==
  /\ 0 \in Sector0 /\ 1 \in Sector0
  /\ 0 \in Pages
  /\ LastSector \in Nat
<1>1. NPages - 1 \in Nat /\ SectorPages \in Nat \ {0}
  BY BootInstallAssumption
<1>2. (NPages - 1) \div SectorPages \in Nat
  BY <1>1
<1> QED
  BY <1>1, <1>2, BootInstallAssumption DEF Sector0, Pages, LastSector

\* Next to the single bootloader there is no stage 0, and slot A is its code.
LEMMA SingleFacts ==
  ASSUME TypeOK, SingleWhole
  PROVE  ~Stage0Present /\ ~Stage0Whole /\ ~SlotOk(0)
<1>1. sec0[1] = Single /\ img[0][0] = Single
  BY PageFacts DEF SingleWhole, Sector0Is
<1>2. Single \notin {Stage0, Foreign} /\ Single \notin Builds
  BY BootInstallAssumption
<1>3. hdr[0] # NoHdr => hdr[0].build \in Builds
  BY DEF TypeOK, Slots, Header
<1> QED
  BY <1>1, <1>2, <1>3, PageFacts DEF Stage0Present, Stage0Whole, Sector0Is, SlotOk

\* A complete stage 0 shows its mark and a good boot2.
LEMMA Stage0Facts ==
  ASSUME Stage0Whole
  PROVE  Stage0Present /\ ~SingleWhole /\ sec0[0] = Boot2
<1>1. sec0[1] \in {Stage0, Foreign} /\ sec0[0] = Boot2
  BY PageFacts DEF Stage0Whole, Sector0Is
<1>2. Single \notin {Stage0, Foreign}
  BY BootInstallAssumption
<1> QED
  BY <1>1, <1>2, PageFacts DEF Stage0Present, SingleWhole, Sector0Is

LEMMA OtherFacts ==
  ASSUME NEW s \in Slots
  PROVE  Other(s) \in Slots /\ Other(s) # s /\ Other(Other(s)) = s /\ s # -1
BY DEF Other, Slots

\* Erasing or spoiling a sector never makes a slot valid: a slot that is still
\* valid had none of its pages in it.
LEMMA SectorSetKeeps ==
  ASSUME TypeOK, NEW s \in Slots, NEW n \in Nat, NEW x \in {Blank, Torn},
         SectorSet(s, n, x)
  PROVE  /\ SlotOk(s)' => SlotOk(s) /\ hdr'[s] = hdr[s]
         /\ img'[Other(s)] = img[Other(s)]
         /\ hdr'[Other(s)] = hdr[Other(s)]
         /\ n = LastSector => hdr'[s] = NoHdr
<1>1. hdr'[Other(s)] = hdr[Other(s)] /\ img'[Other(s)] = img[Other(s)]
  BY OtherFacts DEF SectorSet, TypeOK
<1>2. hdr'[s] = (IF n = LastSector THEN NoHdr ELSE hdr[s])
  BY DEF SectorSet, TypeOK
<1>3. ASSUME SlotOk(s)' PROVE SlotOk(s) /\ hdr'[s] = hdr[s]
  <2>1. hdr'[s] # NoHdr /\ hdr'[s] = hdr[s]
    BY <1>2, <1>3 DEF SlotOk
  <2>2. hdr[s].build \in Builds
    BY <2>1 DEF TypeOK, Header
  <2>3. x \notin Builds
    BY BootInstallAssumption
  <2>4. \A p \in Pages : img'[s][p] = (IF p \div SectorPages = n THEN x ELSE img[s][p])
    BY DEF SectorSet, TypeOK
  <2> QED
    BY <1>3, <2>1, <2>2, <2>3, <2>4 DEF SlotOk
<1> QED
  BY <1>1, <1>2, <1>3

\* The slot that is booted stays booted while the other one is written and
\* does not become valid.
LEMMA SelectKept ==
  ASSUME NEW s \in Slots, SlotOk(Other(s)), Select = Other(s),
         SlotOk(s)' => SlotOk(s) /\ hdr'[s] = hdr[s],
         img'[Other(s)] = img[Other(s)], hdr'[Other(s)] = hdr[Other(s)]
  PROVE  Select' = Other(s) /\ SlotOk(Other(s))'
<1>1. SlotOk(Other(s))'
  BY DEF SlotOk
<1>2. CASE ~SlotOk(s)'
  BY <1>1, <1>2, OtherFacts DEF Select, Other, Slots
<1>3. CASE SlotOk(s)'
  <2>1. SlotOk(s) /\ hdr'[s] = hdr[s]
    BY <1>3
  <2>2. CASE s = 0
    <3>1. /\ Other(s) = 1 /\ SlotOk(0) /\ SlotOk(1) /\ SlotOk(0)' /\ SlotOk(1)'
          /\ hdr'[0] = hdr[0] /\ hdr'[1] = hdr[1] /\ Select = 1
      BY <1>1, <1>3, <2>1, <2>2 DEF Other
    <3> QED
      BY <3>1 DEF Select
  <2>3. CASE s = 1
    <3>1. /\ Other(s) = 0 /\ SlotOk(0) /\ SlotOk(1) /\ SlotOk(0)' /\ SlotOk(1)'
          /\ hdr'[0] = hdr[0] /\ hdr'[1] = hdr[1] /\ Select = 0
      BY <1>1, <1>3, <2>1, <2>3 DEF Other
    <3> QED
      BY <3>1 DEF Select
  <2> QED
    BY <2>2, <2>3 DEF Slots
<1> QED
  BY <1>1, <1>2, <1>3

\* A step that writes only slot upd.slot, and does not make it valid, keeps
\* what WritingInv says of the flash.
LEMMA SlotWriteKeeps ==
  ASSUME TypeOK, SafeInv, mode = "update", upd.pc \in SlotPcs, upd.pc # "slotCheck",
         NEW s \in Slots, s = upd.slot,
         sec0' = sec0,
         SlotOk(s)' => SlotOk(s) /\ hdr'[s] = hdr[s],
         img'[Other(s)] = img[Other(s)],
         hdr'[Other(s)] = hdr[Other(s)]
  PROVE  /\ Sound'
         /\ SlotsRanked'
         /\ \/ SingleWhole' /\ s = 1
            \/ /\ Sector0Is(Stage0)'
               /\ SlotOk(Other(s))'
               /\ hdr'[Other(s)].seq < upd.seq
               /\ Select' = Other(s)
<1>1. SlotOk(Other(s))' => SlotOk(Other(s))
  BY DEF SlotOk
<1>2. SlotsRanked'
  <2>1. ASSUME SlotOk(0)', SlotOk(1)'
        PROVE  hdr[0].seq # hdr[1].seq /\ hdr'[0] = hdr[0] /\ hdr'[1] = hdr[1]
    BY <1>1, <2>1 DEF SlotsRanked, SafeInv, Slots, Other
  <2> QED
    BY <2>1 DEF SlotsRanked
<1>3. CASE SingleWhole /\ s = 1
  <2>1. SingleWhole'
    BY <1>3 DEF SingleWhole, Sector0Is, Other
  <2> QED
    BY <1>2, <1>3, <2>1 DEF Sound
<1>4. CASE /\ Sector0Is(Stage0)
           /\ SlotOk(Other(s))
           /\ hdr[Other(s)].seq < upd.seq
           /\ Select = Other(s)
  <2>1. Select' = Other(s) /\ SlotOk(Other(s))'
    BY <1>4, SelectKept
  <2>2. Sector0Is(Stage0)'
    BY <1>4 DEF Sector0Is
  <2> QED
    BY <1>2, <1>4, <2>1, <2>2, OtherFacts DEF Sound, Stage0Whole
<1> QED
  BY <1>3, <1>4 DEF SafeInv, WritingInv

LEMMA SafeInit == Init => SafeInv
<1> SUFFICES ASSUME Init PROVE SafeInv
  OBVIOUS
<1>m. mode = "off"
  BY DEF Init
<1>1. CASE /\ sec0 = [p \in Sector0 |-> IF p = 0 THEN Boot2 ELSE Single]
           /\ img = [s \in Slots |-> [p \in Pages |-> IF s = 0 THEN Single ELSE Blank]]
           /\ hdr = [s \in Slots |-> NoHdr]
  <2>1. SingleWhole
    BY <1>1 DEF SingleWhole, Sector0Is, Slots
  <2>2. ~SlotOk(0)
    BY <1>1 DEF SlotOk, Slots
  <2> QED
    BY <1>m, <2>1, <2>2 DEF SafeInv, Sound, WritingInv, Sector0Inv, ModeInv, SlotsRanked
<1>2. ASSUME NEW x \in {Stage0, Foreign}, NEW b \in Builds, NEW s \in Slots,
             NEW other \in {NoHdr, [seq |-> 1, build |-> b]},
             sec0 = [p \in Sector0 |-> IF p = 0 THEN Boot2 ELSE x],
             img = [t \in Slots |-> [p \in Pages |->
                      IF t # s /\ other = NoHdr THEN Torn ELSE b]],
             hdr = [t \in Slots |-> IF t = s THEN [seq |-> 2, build |-> b] ELSE other]
      PROVE  SafeInv
  <2>1. Stage0Whole
    BY <1>2 DEF Stage0Whole, Sector0Is
  <2>2. hdr[s] = [seq |-> 2, build |-> b] /\ hdr[Other(s)] = other
    BY <1>2, OtherFacts
  <2>3. [seq |-> 2, build |-> b] \in Header
    BY DEF Header
  <2>4. SlotOk(s)
    BY <1>2, <2>2, <2>3, BootInstallAssumption DEF SlotOk
  <2>5. Select # -1
    BY <2>4, SelectOk DEF Slots
  <2>6. SlotsRanked
    <3>1. SlotOk(Other(s)) => hdr[Other(s)].seq = 1
      BY <2>2 DEF SlotOk
    <3>2. hdr[s].seq = 2
      BY <2>2
    <3> QED
      BY <3>1, <3>2 DEF SlotsRanked, Slots, Other
  <2> QED
    BY <1>m, <2>1, <2>5, <2>6 DEF SafeInv, Sound, WritingInv, Sector0Inv, ModeInv
<1> QED
  BY <1>1, <1>2 DEF Init

\* A step that leaves the flash alone keeps what is said of the flash.
LEMMA FlashKept ==
  ASSUME UNCHANGED flash, SafeInv
  PROVE  /\ Sound' /\ SlotsRanked' /\ Select' = Select
         /\ Stage0Present' = Stage0Present
         /\ SingleWhole' = SingleWhole
         /\ \A s \in Slots : SlotOk(s)' = SlotOk(s)
<1>1. /\ sec0' = sec0 /\ img' = img /\ hdr' = hdr
  BY DEF flash
<1>2. \A s \in Slots : SlotOk(s)' = SlotOk(s)
  BY <1>1 DEF SlotOk
<1>3. Select' = Select
  BY <1>1 DEF Select, SlotOk
<1>4. Sound'
  BY <1>1, <1>3 DEF SafeInv, Sound, SingleWhole, Stage0Whole, Sector0Is
<1> QED
  BY <1>1, <1>2, <1>3, <1>4
     DEF SafeInv, SlotsRanked, SlotOk, Stage0Present, SingleWhole, Sector0Is

\* Not updating, the flash as it was: only ModeInv is left to show.
LEMMA IdleKeeps ==
  ASSUME UNCHANGED flash, SafeInv, mode' # "update",
         mode' \in {"boot", "held"} => sec0[0] = Boot2,
         mode' = "bootsel" => sec0[0] # Boot2
  PROVE  SafeInv'
BY FlashKept DEF SafeInv, WritingInv, Sector0Inv, ModeInv, flash

LEMMA SafeErase ==
  ASSUME TypeOK, SafeInv, SlotErase
  PROVE  SafeInv'
<1>1. PICK s \in Slots : s = upd.slot
  BY DEF TypeOK
<1>2. /\ mode = "update" /\ mode' = "update" /\ sec0' = sec0
      /\ upd.pc = "slotErase" /\ upd.at \in Nat /\ upd.at <= LastSector
      /\ SectorSet(s, upd.at, Blank)
  BY <1>1 DEF SlotErase, At, TypeOK, SafeInv, WritingInv, SlotPcs
<1>3. /\ SlotOk(s)' => SlotOk(s) /\ hdr'[s] = hdr[s]
      /\ img'[Other(s)] = img[Other(s)]
      /\ hdr'[Other(s)] = hdr[Other(s)]
      /\ upd.at = LastSector => hdr'[s] = NoHdr
  BY <1>2, SectorSetKeeps
<1>4. /\ Sound'
      /\ SlotsRanked'
      /\ \/ SingleWhole' /\ s = 1
         \/ /\ Sector0Is(Stage0)'
            /\ SlotOk(Other(s))'
            /\ hdr'[Other(s)].seq < upd.seq
            /\ Select' = Other(s)
  BY <1>1, <1>2, <1>3, SlotWriteKeeps DEF SlotPcs
<1>5. /\ upd'.slot = s /\ upd'.seq = upd.seq
      /\ \/ upd'.pc = "slotErase" /\ upd.at < LastSector /\ upd'.at = upd.at + 1
         \/ upd'.pc = "slotPages" /\ ~(upd.at < LastSector)
  BY <1>1, <1>2 DEF SlotErase, Goto, TypeOK
<1>6. WritingInv'
  BY <1>2, <1>3, <1>4, <1>5, PageFacts DEF WritingInv, SlotPcs
<1> QED
  BY <1>2, <1>4, <1>5, <1>6 DEF SafeInv, Sector0Inv, ModeInv, SlotPcs, S0Pcs

LEMMA SafeSlotPage ==
  ASSUME TypeOK, SafeInv, NEW x \in {New, Torn}, SlotPage(x)
  PROVE  SafeInv'
<1>1. PICK s \in Slots : s = upd.slot
  BY DEF TypeOK
<1>2. /\ mode = "update" /\ mode' = "update" /\ sec0' = sec0 /\ hdr' = hdr
      /\ upd.pc = "slotPages" /\ hdr[s] = NoHdr
  BY <1>1 DEF SlotPage, At, SafeInv, WritingInv, SlotPcs
<1>3. /\ ~SlotOk(s)'
      /\ img'[Other(s)] = img[Other(s)]
      /\ hdr'[Other(s)] = hdr[Other(s)]
  BY <1>1, <1>2, OtherFacts DEF SlotPage, SlotOk, TypeOK
<1>4. /\ Sound'
      /\ SlotsRanked'
      /\ \/ SingleWhole' /\ s = 1
         \/ /\ Sector0Is(Stage0)'
            /\ SlotOk(Other(s))'
            /\ hdr'[Other(s)].seq < upd.seq
            /\ Select' = Other(s)
  BY <1>1, <1>2, <1>3, SlotWriteKeeps DEF SlotPcs
<1>5. upd'.slot = s /\ upd'.seq = upd.seq /\ upd'.pc \in {"slotPages", "slotCompare"}
  BY <1>1, <1>2 DEF SlotPage, Goto, TypeOK
<1>6. WritingInv'
  BY <1>2, <1>4, <1>5 DEF WritingInv, SlotPcs
<1> QED
  BY <1>2, <1>4, <1>5, <1>6 DEF SafeInv, Sector0Inv, ModeInv, SlotPcs, S0Pcs

\* A failed write starts over or ends the update; the flash stays as it was.
LEMMA RetrySlotKeeps ==
  ASSUME TypeOK, SafeInv, UNCHANGED <<flash, mode>>, mode = "update",
         upd.pc \in SlotPcs, ~SlotOk(upd.slot), Retry("slotErase")
  PROVE  SafeInv'
<1>1. PICK s \in Slots : s = upd.slot
  BY DEF TypeOK
<1>2. \/ /\ upd'.pc = "slotErase" /\ upd'.at = 0 /\ upd'.slot = s /\ upd'.seq = upd.seq
      \/ upd'.pc = "done"
  BY <1>1 DEF Retry, TypeOK
<1>3. /\ Sound' /\ SlotsRanked' /\ Select' = Select
      /\ SlotOk(Other(s))' = SlotOk(Other(s))
      /\ SingleWhole' = SingleWhole
      /\ sec0' = sec0 /\ hdr' = hdr
  BY FlashKept, OtherFacts DEF flash
<1>4. \/ SingleWhole /\ s = 1
      \/ /\ Sector0Is(Stage0)
         /\ SlotOk(Other(s))
         /\ hdr[Other(s)].seq < upd.seq
  BY <1>1 DEF SafeInv, WritingInv
<1>5. SlotOk(Other(s)) => Select = Other(s)
  BY <1>1, SelectOnly, OtherFacts
<1>6. Sector0Is(Stage0)' = Sector0Is(Stage0)
  BY <1>3 DEF Sector0Is
<1>7. WritingInv'
  BY <1>2, <1>3, <1>4, <1>5, <1>6, PageFacts DEF WritingInv, SlotPcs
<1> QED
  BY <1>2, <1>3, <1>7 DEF SafeInv, Sector0Inv, ModeInv, SlotPcs, S0Pcs

LEMMA SafeSlotCompare ==
  ASSUME TypeOK, SafeInv, SlotCompare
  PROVE  SafeInv'
<1>1. PICK s \in Slots : s = upd.slot
  BY DEF TypeOK
<1>2. /\ mode = "update" /\ UNCHANGED <<flash, mode>>
      /\ upd.pc = "slotCompare" /\ hdr[s] = NoHdr
  BY <1>1 DEF SlotCompare, At, SafeInv, WritingInv, SlotPcs
<1>3. CASE Retry("slotErase")
  BY <1>1, <1>2, <1>3, RetrySlotKeeps DEF SlotOk, SlotPcs
<1>4. CASE Goto("slotHeader")
  <2>1. upd'.pc = "slotHeader" /\ upd'.slot = s /\ upd'.seq = upd.seq
    BY <1>1, <1>4 DEF Goto, TypeOK
  <2>2. /\ Sound' /\ SlotsRanked' /\ Select' = Select
        /\ SlotOk(Other(s))' = SlotOk(Other(s))
        /\ SingleWhole' = SingleWhole
        /\ sec0' = sec0 /\ hdr' = hdr
    BY <1>2, FlashKept, OtherFacts DEF flash
  <2>3. WritingInv'
    BY <1>1, <1>2, <2>1, <2>2 DEF SafeInv, WritingInv, SlotPcs, Sector0Is
  <2> QED
    BY <1>2, <2>1, <2>2, <2>3 DEF SafeInv, Sector0Inv, ModeInv, S0Pcs
<1> QED
  BY <1>3, <1>4 DEF SlotCompare

LEMMA SafeSlotHeader ==
  ASSUME TypeOK, SafeInv, NEW h \in {NewHeader, NoHdr}, SlotHeader(h)
  PROVE  SafeInv'
<1>1. PICK s \in Slots : s = upd.slot
  BY DEF TypeOK
<1>2. /\ mode = "update" /\ mode' = "update" /\ sec0' = sec0 /\ img' = img
      /\ upd.pc = "slotHeader" /\ hdr[s] = NoHdr
      /\ hdr'[s] = h /\ hdr'[Other(s)] = hdr[Other(s)]
  BY <1>1, OtherFacts DEF SlotHeader, At, SafeInv, WritingInv, SlotPcs, TypeOK
<1>3. upd'.pc = "slotCheck" /\ upd'.slot = s /\ upd'.seq = upd.seq
  BY <1>1 DEF SlotHeader, Goto, TypeOK
<1>4. NewHeader' = NewHeader /\ NewHeader.seq = upd.seq
  BY <1>3 DEF NewHeader
<1>5. SlotOk(s)' => hdr'[s].seq = upd.seq
  BY <1>2, <1>4 DEF SlotOk
<1>6. SlotOk(Other(s))' = SlotOk(Other(s))
  BY <1>2 DEF SlotOk
<1>7. CASE SingleWhole /\ s = 1
  <2>1. SingleWhole' /\ ~SlotOk(0)'
    BY <1>2, <1>6, <1>7, SingleFacts DEF SingleWhole, Sector0Is, Other
  <2> QED
    BY <1>2, <1>3, <1>4, <1>7, <2>1
       DEF SafeInv, Sound, WritingInv, Sector0Inv, ModeInv, SlotsRanked, SlotPcs, S0Pcs
<1>8. CASE /\ Sector0Is(Stage0)
           /\ SlotOk(Other(s))
           /\ hdr[Other(s)].seq < upd.seq
  <2>1. Sector0Is(Stage0)'
    BY <1>2, <1>8 DEF Sector0Is
  <2>2. Select' # -1
    <3>1. SlotOk(Other(s))'
      BY <1>6, <1>8
    <3>2. Select' = -1 => ~SlotOk(0)' /\ ~SlotOk(1)'
      BY DEF Select, Other
    <3> QED
      BY <3>1, <3>2 DEF Other, Slots
  <2>3. SlotsRanked'
    <3>1. hdr[Other(s)].seq \in Nat /\ upd.seq \in Nat
      BY <1>8, OtherFacts DEF TypeOK, SlotOk, Header
    <3> QED
      BY <1>2, <1>5, <1>8, <3>1 DEF SlotsRanked, Other, Slots
  <2>4. WritingInv'
    BY <1>2, <1>3, <1>4, <1>6, <1>8, <2>1 DEF WritingInv
  <2> QED
    BY <1>2, <1>3, <2>1, <2>2, <2>3, <2>4
       DEF SafeInv, Sound, Stage0Whole, Sector0Inv, ModeInv, SlotPcs, S0Pcs
<1> QED
  BY <1>1, <1>2, <1>7, <1>8 DEF SafeInv, WritingInv, SlotPcs

LEMMA SafeSlotCheck ==
  ASSUME TypeOK, SafeInv, SlotCheck
  PROVE  SafeInv'
<1>1. PICK s \in Slots : s = upd.slot
  BY DEF TypeOK
<1>2. /\ mode = "update" /\ UNCHANGED <<flash, mode>>
      /\ upd.pc = "slotCheck" /\ hdr[s] \in {NoHdr, NewHeader}
  BY <1>1 DEF SlotCheck, At, SafeInv, WritingInv, SlotPcs
<1>3. CASE ~SlotOk(upd.slot) /\ Retry("slotErase")
  BY <1>2, <1>3, RetrySlotKeeps DEF SlotPcs
<1>4. CASE SlotOk(s) /\ upd'.pc = IF Stage0Present THEN "pass" ELSE "s0Erase"
  <2>1. Sound' /\ SlotsRanked' /\ SingleWhole' = SingleWhole /\ sec0' = sec0
        /\ \A t \in Slots : SlotOk(t)' = SlotOk(t) /\ hdr'[t] = hdr[t]
    BY <1>2, FlashKept DEF flash
  <2>2. hdr[s].build = New
    BY <1>2, <1>4 DEF SlotOk, NewHeader
  <2>3. CASE SingleWhole /\ s = 1
    <3>1. ~Stage0Present /\ ~SlotOk(0)
      BY <2>3, SingleFacts
    <3>2. SlotHolds(1)' /\ ~SlotOk(0)'
      BY <1>4, <2>1, <2>2, <2>3, <3>1 DEF SlotHolds, Slots
    <3> QED
      BY <1>2, <1>4, <2>1, <2>3, <3>1, <3>2
         DEF SafeInv, WritingInv, Sector0Inv, ModeInv, SlotPcs, S0Pcs
  <2>4. CASE Sector0Is(Stage0)
    <3>1. Stage0Present
      BY <2>4, Stage0Facts DEF Stage0Whole
    <3>2. Sector0Is(Stage0)'
      BY <2>1, <2>4 DEF Sector0Is
    <3> QED
      BY <1>2, <1>4, <2>1, <3>1, <3>2
         DEF SafeInv, WritingInv, Sector0Inv, ModeInv, SlotPcs, S0Pcs
  <2> QED
    BY <1>1, <1>2, <2>3, <2>4 DEF SafeInv, WritingInv, SlotPcs
<1> QED
  BY <1>1, <1>3, <1>4 DEF SlotCheck, TypeOK

LEMMA SafeSector0Erase ==
  ASSUME TypeOK, SafeInv, Sector0Erase
  PROVE  SafeInv'
<1>1. /\ mode = "update" /\ mode' = "update" /\ upd.pc = "s0Erase"
      /\ hdr' = hdr /\ img' = img /\ SlotHolds(1) /\ ~SlotOk(0)
      /\ upd'.pc = "s0Pages" /\ upd'.at = 1
  BY DEF Sector0Erase, At, SafeInv, Sector0Inv, S0Pcs, TypeOK
<1>2. sec0'[0] = Blank /\ Blank # Boot2
  BY PageFacts, BootInstallAssumption DEF Sector0Erase
<1>3. SlotHolds(1)' /\ ~SlotOk(0)'
  BY <1>1 DEF SlotHolds, SlotOk
<1> QED
  BY <1>1, <1>2, <1>3
     DEF SafeInv, Sound, WritingInv, Sector0Inv, ModeInv, SlotsRanked, SlotPcs, S0Pcs

LEMMA SafeSector0Page ==
  ASSUME TypeOK, SafeInv, NEW x \in {Stage0, Torn}, Sector0Page(x)
  PROVE  SafeInv'
<1>1. /\ mode = "update" /\ mode' = "update" /\ upd.pc = "s0Pages"
      /\ hdr' = hdr /\ img' = img /\ SlotHolds(1) /\ ~SlotOk(0)
      /\ upd.at # 0 /\ upd.at \in Nat /\ sec0[0] = Blank
  BY DEF Sector0Page, At, SafeInv, Sector0Inv, S0Pcs, TypeOK
<1>2. \/ upd'.pc = "s0Pages" /\ upd'.at = upd.at + 1
      \/ upd'.pc = "s0Compare"
  BY <1>1 DEF Sector0Page, Goto, TypeOK
<1>3. sec0'[0] = Blank /\ Blank # Boot2
  BY <1>1, PageFacts, BootInstallAssumption DEF Sector0Page, TypeOK
<1>4. SlotHolds(1)' /\ ~SlotOk(0)'
  BY <1>1 DEF SlotHolds, SlotOk
<1> QED
  BY <1>1, <1>2, <1>3, <1>4
     DEF SafeInv, Sound, WritingInv, Sector0Inv, ModeInv, SlotsRanked, SlotPcs, S0Pcs

\* The same for sector 0, which is without a good boot2 by then.
LEMMA RetrySector0Keeps ==
  ASSUME TypeOK, SafeInv, UNCHANGED <<flash, mode>>, mode = "update",
         upd.pc \in S0Pcs, sec0[0] # Boot2, Retry("s0Erase")
  PROVE  SafeInv'
<1>1. upd'.pc \in {"s0Erase", "done"}
  BY DEF Retry, TypeOK
<1>2. /\ Sound' /\ SlotsRanked' /\ sec0' = sec0 /\ hdr' = hdr
      /\ SlotOk(1)' = SlotOk(1) /\ SlotOk(0)' = SlotOk(0)
  BY FlashKept DEF flash, Slots
<1>3. SlotHolds(1)' /\ ~SlotOk(0)'
  BY <1>2 DEF SafeInv, Sector0Inv, SlotHolds
<1> QED
  BY <1>1, <1>2, <1>3
     DEF SafeInv, WritingInv, Sector0Inv, ModeInv, SlotPcs, S0Pcs

LEMMA SafeSector0Compare ==
  ASSUME TypeOK, SafeInv, Sector0Compare
  PROVE  SafeInv'
<1>1. /\ mode = "update" /\ UNCHANGED <<flash, mode>> /\ upd.pc = "s0Compare"
      /\ SlotHolds(1) /\ ~SlotOk(0) /\ sec0[0] = Blank /\ sec0[0] # Boot2
  BY BootInstallAssumption DEF Sector0Compare, At, SafeInv, Sector0Inv, S0Pcs
<1>2. CASE Retry("s0Erase")
  BY <1>1, <1>2, RetrySector0Keeps DEF S0Pcs
<1>3. CASE (\A p \in Sector0 \ {0} : sec0[p] = Stage0) /\ Goto("s0Boot2")
  <2>1. upd'.pc = "s0Boot2"
    BY <1>3 DEF Goto, TypeOK
  <2>2. /\ Sound' /\ SlotsRanked' /\ sec0' = sec0 /\ hdr' = hdr
        /\ SlotOk(1)' = SlotOk(1) /\ SlotOk(0)' = SlotOk(0)
    BY <1>1, FlashKept DEF flash, Slots
  <2>3. SlotHolds(1)' /\ ~SlotOk(0)'
    BY <1>1, <2>2 DEF SlotHolds
  <2> QED
    BY <1>1, <1>3, <2>1, <2>2, <2>3
       DEF SafeInv, WritingInv, Sector0Inv, ModeInv, SlotPcs, S0Pcs
<1> QED
  BY <1>2, <1>3 DEF Sector0Compare

LEMMA SafeSector0Boot2 ==
  ASSUME TypeOK, SafeInv, NEW x \in {Boot2, Torn}, Sector0Boot2(x)
  PROVE  SafeInv'
<1>1. /\ mode = "update" /\ mode' = "update" /\ upd.pc = "s0Boot2"
      /\ hdr' = hdr /\ img' = img /\ SlotHolds(1) /\ ~SlotOk(0)
      /\ sec0[0] = Blank
      /\ \A p \in Sector0 \ {0} : sec0[p] = Stage0
  BY DEF Sector0Boot2, At, SafeInv, Sector0Inv, S0Pcs
<1>2. upd'.pc = "s0Check"
  BY DEF Sector0Boot2, Goto, TypeOK
<1>3. sec0'[0] = x /\ \A p \in Sector0 \ {0} : sec0'[p] = Stage0
  BY <1>1, PageFacts DEF Sector0Boot2, Program, TypeOK
<1>4. SlotHolds(1)' /\ ~SlotOk(0)'
  BY <1>1 DEF SlotHolds, SlotOk
<1>5. x # Boot2 \/ Sector0Is(Stage0)'
  BY <1>3 DEF Sector0Is
<1>6. Select' # -1
  BY <1>4 DEF Select, SlotHolds, Other
<1> QED
  BY <1>1, <1>2, <1>3, <1>4, <1>5, <1>6
     DEF SafeInv, Sound, Stage0Whole, WritingInv, Sector0Inv, ModeInv, SlotsRanked,
         SlotPcs, S0Pcs

LEMMA SafeSector0Check ==
  ASSUME TypeOK, SafeInv, Sector0Check
  PROVE  SafeInv'
<1>1. /\ mode = "update" /\ UNCHANGED <<flash, mode>> /\ upd.pc = "s0Check"
      /\ sec0[0] # Boot2 \/ Sector0Is(Stage0)
  BY DEF Sector0Check, At, SafeInv, Sector0Inv, S0Pcs
<1>2. CASE ~Stage0Mine /\ Retry("s0Erase")
  BY <1>1, <1>2, RetrySector0Keeps DEF S0Pcs, Stage0Mine
<1>3. CASE Stage0Mine /\ Goto("pass")
  <2>1. upd'.pc = "pass"
    BY <1>3 DEF Goto, TypeOK
  <2>2. Sound' /\ SlotsRanked' /\ sec0' = sec0
    BY <1>1, FlashKept DEF flash
  <2> QED
    BY <1>1, <1>3, <2>1, <2>2
       DEF SafeInv, WritingInv, Sector0Inv, ModeInv, SlotPcs, S0Pcs, Stage0Mine,
           Sector0Is
<1> QED
  BY <1>2, <1>3 DEF Sector0Check

LEMMA SafePass ==
  ASSUME TypeOK, SafeInv, Pass
  PROVE  SafeInv'
<1>1. /\ mode = "update" /\ UNCHANGED <<flash, mode>> /\ upd.pc = "pass"
      /\ Sector0Is(Stage0)
  BY DEF Pass, At, SafeInv, ModeInv
<1>2. /\ Sound' /\ SlotsRanked' /\ Select' = Select
      /\ sec0' = sec0 /\ hdr' = hdr
      /\ \A s \in Slots : SlotOk(s)' = SlotOk(s)
  BY <1>1, FlashKept DEF flash
<1>3. CASE upd'.pc = "done"
  BY <1>1, <1>2, <1>3 DEF SafeInv, WritingInv, Sector0Inv, ModeInv, SlotPcs, S0Pcs
<1>4. CASE Select # -1 /\ WriteSlot(Other(Select), NextSeq(Select), upd)
  <2>1. PICK s \in Slots : s = Select
    BY <1>4, SelectOk DEF Slots
  <2>2. /\ upd'.pc = "slotErase" /\ upd'.slot = Other(s) /\ upd'.at = 0
        /\ upd'.seq = hdr[s].seq + 1
    BY <1>4, <2>1 DEF WriteSlot, NextSeq, TypeOK
  <2>3. SlotOk(s) /\ hdr[s].seq \in Nat
    BY <1>4, <2>1, SelectOk DEF SlotOk, TypeOK, Header
  <2>4. Sector0Is(Stage0)'
    BY <1>1, <1>2 DEF Sector0Is
  <2>5. SlotOk(s)'
    BY <1>2, <2>3
  <2>6. WritingInv'
    BY <1>1, <1>2, <2>1, <2>2, <2>3, <2>4, <2>5, OtherFacts, PageFacts
       DEF WritingInv, SlotPcs
  <2> QED
    BY <1>1, <1>2, <2>2, <2>6 DEF SafeInv, Sector0Inv, ModeInv, S0Pcs
<1> QED
  BY <1>3, <1>4 DEF Pass, Done, TypeOK

LEMMA SafeRunUpdater ==
  ASSUME TypeOK, SafeInv, RunUpdater
  PROVE  SafeInv'
<1>1. mode = "boot" /\ mode' = "update" /\ UNCHANGED flash /\ sec0[0] = Boot2
  BY DEF RunUpdater, SafeInv, ModeInv
<1>2. /\ Sound' /\ SlotsRanked' /\ SingleWhole' = SingleWhole /\ sec0' = sec0
  BY <1>1, FlashKept DEF flash
<1>3. CASE ~Stage0Present /\ WriteSlot(1, 1, [NoUpd EXCEPT !.res = "MIGRATED"])
  <2>1. SingleWhole
    BY <1>1, <1>3, Stage0Facts DEF SafeInv, Sound
  <2>2. upd'.pc = "slotErase" /\ upd'.slot = 1 /\ upd'.at = 0
    BY <1>3 DEF WriteSlot, NoUpd
  <2> QED
    BY <1>1, <1>2, <2>1, <2>2, PageFacts
       DEF SafeInv, WritingInv, Sector0Inv, ModeInv, SlotPcs, S0Pcs
<1>4. CASE upd' = [NoUpd EXCEPT !.pc = "done", !.res = "E_STAGE0"]
  <2>1. upd'.pc = "done"
    BY <1>4 DEF NoUpd
  <2> QED
    BY <1>1, <1>2, <2>1
       DEF SafeInv, WritingInv, Sector0Inv, ModeInv, SlotPcs, S0Pcs
<1>5. CASE Stage0Mine /\ upd' = [NoUpd EXCEPT !.pc = "pass"]
  <2>1. upd'.pc = "pass"
    BY <1>5 DEF NoUpd
  <2> QED
    BY <1>1, <1>2, <1>5, <2>1
       DEF SafeInv, WritingInv, Sector0Inv, ModeInv, SlotPcs, S0Pcs, Stage0Mine,
           Sector0Is
<1> QED
  BY <1>3, <1>4, <1>5 DEF RunUpdater

LEMMA SafeUsbRecover ==
  ASSUME TypeOK, SafeInv, NEW b \in Builds, UsbRecover(b)
  PROVE  SafeInv'
<1>1. mode' = "off" /\ hdr'[1] = NoHdr /\ hdr'[0] = [seq |-> 1, build |-> b]
  BY DEF UsbRecover, Slots
<1>2. \A p \in Pages : img'[0][p] = b
  BY DEF UsbRecover, Slots
<1>3. SlotOk(0)' /\ ~SlotOk(1)'
  <2>1. [seq |-> 1, build |-> b] \in Header
    BY DEF Header
  <2> QED
    BY <1>1, <1>2, <2>1, BootInstallAssumption DEF SlotOk
<1>4. Sector0Is(Stage0)'
  BY DEF UsbRecover, Sector0Is
<1>5. Select' # -1
  BY <1>3 DEF Select, Other
<1> QED
  BY <1>1, <1>3, <1>4, <1>5
     DEF SafeInv, Sound, Stage0Whole, WritingInv, Sector0Inv, ModeInv, SlotsRanked

LEMMA SafePowerUp ==
  ASSUME TypeOK, SafeInv, PowerUp
  PROVE  SafeInv'
<1>1. UNCHANGED flash /\ mode' # "update"
  BY DEF PowerUp
<1>2. SingleWhole => Boots = Single
  BY SingleFacts, PageFacts DEF Boots, SingleWhole, Sector0Is
<1>4. sec0[0] # Boot2 => Boots = BootSel
  BY DEF Boots
<1>5. sec0[0] = Boot2 => Boots \notin {BootSel, NoSlot}
  <2> SUFFICES ASSUME sec0[0] = Boot2 PROVE Boots \notin {BootSel, NoSlot}
    OBVIOUS
  <2>1. CASE SingleWhole
    BY <1>2, <2>1, BootInstallAssumption
  <2>2. CASE Stage0Whole /\ Select # -1
    <3>1. PICK s \in Slots : s = Select
      BY <2>2, SelectOk DEF Slots
    <3>2. hdr[s].build \in Builds
      BY <2>2, <3>1, SelectOk DEF SlotOk, TypeOK, Header
    <3> QED
      BY <2>2, <3>1, <3>2, BootInstallAssumption DEF Boots
  <2> QED
    BY <2>1, <2>2 DEF SafeInv, Sound
<1> QED
  BY <1>1, <1>4, <1>5, IdleKeeps DEF PowerUp

LEMMA SafePowerCut ==
  ASSUME TypeOK, SafeInv, PowerCut
  PROVE  SafeInv'
<1>1. mode' = "off"
  BY DEF PowerCut
<1>2. SUFFICES Sound' /\ SlotsRanked'
  BY <1>1 DEF SafeInv, WritingInv, Sector0Inv, ModeInv
<1>3. PICK s \in Slots : s = upd.slot
  BY DEF TypeOK
<1>4. CASE UNCHANGED flash
  BY <1>4, FlashKept
<1>5. CASE At("slotErase") /\ SectorSet(s, upd.at, Torn) /\ UNCHANGED sec0
  <2>1. upd.at \in Nat
    BY DEF TypeOK
  <2>2. /\ SlotOk(s)' => SlotOk(s) /\ hdr'[s] = hdr[s]
        /\ img'[Other(s)] = img[Other(s)]
        /\ hdr'[Other(s)] = hdr[Other(s)]
    BY <1>5, <2>1, SectorSetKeeps
  <2> QED
    BY <1>3, <1>5, <2>2, SlotWriteKeeps DEF At, SlotPcs
<1>6. CASE /\ At("slotPages")
           /\ img' = [img EXCEPT ![s][upd.at] = Torn]
           /\ UNCHANGED <<sec0, hdr>>
  <2>1. hdr[s] = NoHdr
    BY <1>3, <1>6 DEF SafeInv, WritingInv, At, SlotPcs
  <2>2. ~SlotOk(s)' /\ img'[Other(s)] = img[Other(s)] /\ hdr'[Other(s)] = hdr[Other(s)]
    BY <1>6, <2>1, OtherFacts DEF SlotOk, TypeOK
  <2> QED
    BY <1>3, <1>6, <2>2, SlotWriteKeeps DEF At, SlotPcs
<1>7. CASE /\ At("s0Erase")
           /\ sec0' = [p \in Sector0 |-> Torn]
           /\ UNCHANGED <<img, hdr>>
  <2>1. sec0'[0] # Boot2
    BY <1>7, PageFacts, BootInstallAssumption
  <2> QED
    BY <1>7, <2>1 DEF Sound, SafeInv, SlotsRanked, SlotOk
<1>8. CASE /\ At("s0Pages") \/ At("s0Boot2")
           /\ sec0' = [sec0 EXCEPT ![IF upd.pc = "s0Boot2" THEN 0 ELSE upd.at] = Torn]
           /\ UNCHANGED <<img, hdr>>
  <2>1. sec0[0] = Blank
    BY <1>8 DEF SafeInv, Sector0Inv, At, S0Pcs
  <2>2. sec0'[0] \in {Blank, Torn}
    BY <1>8, <2>1, PageFacts DEF TypeOK
  <2>3. sec0'[0] # Boot2
    BY <2>2, BootInstallAssumption
  <2> QED
    BY <1>8, <2>3 DEF Sound, SafeInv, SlotsRanked, SlotOk
<1> QED
  BY <1>3, <1>4, <1>5, <1>6, <1>7, <1>8 DEF PowerCut, TornOperation

LEMMA SafeStep ==
  ASSUME TypeOK, SafeInv, [Next]_vars
  PROVE  SafeInv'
<1>1. CASE UNCHANGED vars
  <2>1. UNCHANGED <<flash, mode, upd>> /\ NewHeader' = NewHeader
    BY <1>1 DEF vars, flash, NewHeader
  <2>2. /\ Sound' /\ SlotsRanked' /\ Select' = Select /\ SingleWhole' = SingleWhole
        /\ \A s \in Slots : SlotOk(s)' = SlotOk(s)
        /\ sec0' = sec0 /\ hdr' = hdr /\ Sector0Is(Stage0)' = Sector0Is(Stage0)
    BY <2>1, FlashKept DEF flash, Sector0Is
  <2>3. WritingInv'
    BY <2>1, <2>2, OtherFacts DEF SafeInv, WritingInv, TypeOK
  <2>4. Sector0Inv'
    BY <2>1, <2>2 DEF SafeInv, Sector0Inv, SlotHolds, Slots
  <2>5. ModeInv'
    BY <2>1, <2>2 DEF SafeInv, ModeInv
  <2> QED
    BY <2>2, <2>3, <2>4, <2>5 DEF SafeInv
<1>2. CASE Reboot
  BY <1>2, IdleKeeps DEF Reboot
<1>5. CASE Release
  BY <1>5, IdleKeeps DEF Release, SafeInv, ModeInv
<1>3. CASE ProgramFails
  BY <1>3, SafeSlotPage, SafeSlotHeader, SafeSector0Page, SafeSector0Boot2
     DEF ProgramFails
<1>4. CASE Writes
  BY <1>4, SafeErase, SafeSlotPage, SafeSlotCompare, SafeSlotHeader, SafeSlotCheck,
     SafeSector0Erase, SafeSector0Page, SafeSector0Compare, SafeSector0Boot2,
     SafeSector0Check DEF Writes
<1> QED
  BY <1>1, <1>2, <1>3, <1>4, <1>5, SafePowerUp, SafeRunUpdater, SafePass, SafeUsbRecover,
     SafePowerCut DEF Next

LEMMA Safe == Spec => []SafeInv
BY SafeInit, SafeStep, TypeCorrect, PTL DEF Spec

\* Wherever power is cut, and whatever page fails to program, the board has a
\* whole bootloader behind its boot2, or no good boot2 at all.
THEOREM AlwaysBootable == Spec => []NeverHung
<1>1. TypeOK /\ SafeInv => NeverHung
  <2> SUFFICES ASSUME TypeOK, SafeInv PROVE NeverHung
    OBVIOUS
  <2>1. CASE sec0[0] # Boot2
    BY <2>1, BootInstallAssumption DEF NeverHung, Boots
  <2>2. CASE SingleWhole
    BY <2>2, SingleFacts, BootInstallAssumption
       DEF NeverHung, Boots, SingleWhole, Sector0Is
  <2>3. CASE sec0[0] = Boot2 /\ Stage0Whole /\ Select # -1
    <3>1. PICK s \in Slots : s = Select
      BY <2>3, SelectOk DEF Slots
    <3>2. hdr[s].build \in Builds
      BY <2>3, <3>1, SelectOk DEF SlotOk, TypeOK, Header
    <3> QED
      BY <2>3, <3>1, <3>2, BootInstallAssumption DEF NeverHung, Boots
  <2> QED
    BY <2>1, <2>2, <2>3 DEF SafeInv, Sound
<1> QED
  BY <1>1, Safe, TypeCorrect, PTL

\* Two valid slots never have the same sequence number.
THEOREM AlwaysRanked == Spec => []SlotsRanked
<1>1. SafeInv => SlotsRanked
  BY DEF SafeInv
<1> QED
  BY <1>1, Safe, PTL

-----------------------------------------------------------------------------
(* Giving up: without a fault every write verifies the first time *)

\* A slot as far as it has been written: the sectors before at erased, then the
\* pages before at programmed.
CleanSlot ==
  mode = "update" /\ upd.pc \in SlotPcs =>
    /\ upd.try = 0
    /\ upd.pass \in {0, 1}
    /\ upd.pass = 1 => SlotHolds(Other(upd.slot))
    /\ upd.pc = "slotErase" =>
         \A p \in Pages : p \div SectorPages < upd.at => img[upd.slot][p] = Blank
    /\ upd.pc = "slotPages" =>
         /\ upd.at \in Pages
         /\ \A p \in Pages : img[upd.slot][p] = IF p < upd.at THEN New ELSE Blank
    /\ upd.pc \in {"slotCompare", "slotHeader", "slotCheck"} =>
         \A p \in Pages : img[upd.slot][p] = New
    /\ upd.pc = "slotCheck" => hdr[upd.slot] = NewHeader

\* Sector 0 as far as it has been written.
CleanSector0 ==
  mode = "update" /\ upd.pc \in S0Pcs =>
    /\ upd.try = 0
    /\ upd.pass = 0
    /\ upd.pc = "s0Pages" =>
         /\ upd.at \in Sector0 \ {0}
         /\ \A p \in Sector0 \ {0} : sec0[p] = IF p < upd.at THEN Stage0 ELSE Blank
    /\ upd.pc = "s0Compare" => \A p \in Sector0 \ {0} : sec0[p] = Stage0
    /\ upd.pc = "s0Check" => Sector0Is(Stage0)

\* Each pass has put this build in one slot more.
CleanPass ==
  mode = "update" /\ upd.pc = "pass" =>
    /\ Select # -1
    /\ upd.pass \in {0, 1, 2}
    /\ upd.pass = 1 => SlotHolds(Select)
    /\ upd.pass = 2 => BothNew(Select)

Clean ==
  /\ upd.res # "E_VERIFY"
  /\ CleanSlot
  /\ CleanSector0
  /\ CleanPass

LEMMA DivMono ==
  ASSUME NEW a \in Nat, NEW b \in Nat, NEW k \in Nat \ {0}, a <= b
  PROVE  a \div k \in Nat /\ b \div k \in Nat /\ a \div k <= b \div k
OBVIOUS

LEMMA PageSector ==
  ASSUME NEW p \in Pages
  PROVE  p \div SectorPages \in Nat /\ p \div SectorPages <= LastSector
<1>1. p \in Nat /\ NPages - 1 \in Nat /\ p <= NPages - 1 /\ SectorPages \in Nat \ {0}
  BY BootInstallAssumption DEF Pages
<1> QED
  BY <1>1, DivMono DEF LastSector

\* Not updating, nothing is half written.
LEMMA CleanIdle ==
  ASSUME mode' # "update", upd'.res # "E_VERIFY"
  PROVE  Clean'
BY DEF Clean, CleanSlot, CleanSector0, CleanPass

\* A slot not begun: nothing of it has to be as it should.
LEMMA CleanStart ==
  ASSUME TypeOK, NEW s \in Slots, NEW n \in Nat, NEW from \in UpdType,
         WriteSlot(s, n, from), UNCHANGED flash, from.res # "E_VERIFY",
         from.pass \in {0, 1}, from.pass = 1 => SlotHolds(Other(s))
  PROVE  Clean'
<1>1. /\ upd'.pc = "slotErase" /\ upd'.slot = s /\ upd'.try = 0 /\ upd'.at = 0
      /\ upd'.pass = from.pass /\ upd'.res = from.res
  BY DEF WriteSlot, UpdType
<1>2. \A p \in Pages : ~(p \div SectorPages < 0)
  BY PageSector
<1>3. SlotHolds(Other(s))' = SlotHolds(Other(s))
  BY DEF flash, SlotHolds, SlotOk
<1>4. CleanSlot'
  BY <1>1, <1>2, <1>3 DEF CleanSlot, SlotPcs
<1> QED
  BY <1>1, <1>4 DEF Clean, CleanSector0, CleanPass, S0Pcs

LEMMA CleanRunUpdater ==
  ASSUME TypeOK, SafeInv, RunUpdater
  PROVE  Clean'
<1>1. UNCHANGED flash
  BY DEF RunUpdater
<1>2. CASE WriteSlot(1, 1, [NoUpd EXCEPT !.res = "MIGRATED"])
  <2>1. PICK from \in UpdType : /\ WriteSlot(1, 1, from)
                                /\ from.res = "MIGRATED" /\ from.pass = 0
    <3>1. [NoUpd EXCEPT !.res = "MIGRATED"] \in UpdType
      BY NoUpdType DEF UpdType, Results
    <3>2. /\ [NoUpd EXCEPT !.res = "MIGRATED"].res = "MIGRATED"
          /\ [NoUpd EXCEPT !.res = "MIGRATED"].pass = 0
      BY DEF NoUpd
    <3> QED
      BY <1>2, <3>1, <3>2
  <2>2. 1 \in Slots /\ 1 \in Nat
    BY DEF Slots
  <2> QED
    BY <1>1, <2>1, <2>2, CleanStart
<1>3. CASE upd' = [NoUpd EXCEPT !.pc = "done", !.res = "E_STAGE0"]
  BY <1>3 DEF Clean, CleanSlot, CleanSector0, CleanPass, NoUpd, SlotPcs, S0Pcs
<1>4. CASE Stage0Present /\ Stage0Mine /\ upd' = [NoUpd EXCEPT !.pc = "pass"]
  <2>1. Stage0Whole /\ sec0[0] = Boot2 /\ ~SingleWhole
    BY <1>4, Stage0Facts DEF Stage0Mine, Stage0Whole
  <2>2. Select # -1
    BY <2>1 DEF SafeInv, Sound
  <2>3. Select' # -1
    BY <1>1, <2>2, FlashKept
  <2> QED
    BY <1>4, <2>3 DEF Clean, CleanSlot, CleanSector0, CleanPass, NoUpd, SlotPcs, S0Pcs
<1> QED
  BY <1>2, <1>3, <1>4 DEF RunUpdater

LEMMA CleanErase ==
  ASSUME TypeOK, SafeInv, Clean, SlotErase
  PROVE  Clean'
<1>1. PICK s \in Slots : s = upd.slot
  BY DEF TypeOK
<1>2. /\ mode = "update" /\ mode' = "update" /\ upd.pc = "slotErase"
      /\ upd.at \in Nat /\ upd.at <= LastSector /\ LastSector \in Nat
      /\ SectorSet(s, upd.at, Blank)
      /\ upd.try = 0 /\ upd.pass \in {0, 1}
      /\ upd.pass = 1 => SlotHolds(Other(s))
      /\ \A p \in Pages : p \div SectorPages < upd.at => img[s][p] = Blank
  BY <1>1, PageFacts
     DEF SlotErase, At, TypeOK, SafeInv, WritingInv, SlotPcs, Clean, CleanSlot
<1>3. \A p \in Pages : p \div SectorPages < upd.at + 1 => img'[s][p] = Blank
  <2>1. \A p \in Pages :
          img'[s][p] = IF p \div SectorPages = upd.at THEN Blank ELSE img[s][p]
    BY <1>2 DEF SectorSet, TypeOK
  <2> QED
    BY <1>2, <2>1, PageSector
<1>4. SlotHolds(Other(s)) => SlotHolds(Other(s))'
  BY <1>2, SectorSetKeeps DEF SlotHolds, SlotOk
<1>5. /\ upd'.slot = s /\ upd'.try = 0 /\ upd'.pass = upd.pass /\ upd'.res = upd.res
      /\ \/ upd'.pc = "slotErase" /\ upd'.at = upd.at + 1
         \/ upd'.pc = "slotPages" /\ upd'.at = 0 /\ ~(upd.at < LastSector)
  BY <1>1, <1>2 DEF SlotErase, Goto, TypeOK
<1>6. CASE upd'.pc = "slotErase"
  BY <1>2, <1>3, <1>4, <1>5, <1>6
     DEF Clean, CleanSlot, CleanSector0, CleanPass, SlotPcs, S0Pcs
<1>7. CASE upd'.pc = "slotPages"
  <2>1. upd'.at = 0 /\ upd.at = LastSector
    BY <1>2, <1>5, <1>7
  <2>2. \A p \in Pages : ~(p < 0) /\ img'[s][p] = Blank
    BY <1>2, <1>3, <2>1, PageSector DEF Pages
  <2>3. CleanSlot'
    BY <1>2, <1>4, <1>5, <1>7, <2>1, <2>2, PageFacts DEF CleanSlot, SlotPcs
  <2> QED
    BY <1>5, <1>7, <2>3 DEF Clean, CleanSector0, CleanPass, S0Pcs
<1> QED
  BY <1>5, <1>6, <1>7

LEMMA CleanSlotPage ==
  ASSUME TypeOK, SafeInv, Clean, SlotPage(New)
  PROVE  Clean'
<1>1. PICK s \in Slots : s = upd.slot
  BY DEF TypeOK
<1>2. /\ mode = "update" /\ mode' = "update" /\ upd.pc = "slotPages" /\ hdr' = hdr
      /\ upd.try = 0 /\ upd.pass \in {0, 1} /\ upd.at \in Pages
      /\ upd.pass = 1 => SlotHolds(Other(s))
      /\ \A p \in Pages : img[s][p] = IF p < upd.at THEN New ELSE Blank
      /\ img' = [img EXCEPT ![s][upd.at] = Program(@, New)]
  BY <1>1 DEF SlotPage, At, SlotPcs, Clean, CleanSlot
<1>3. upd.at \in Nat /\ upd.at <= NPages - 1 /\ NPages \in Nat
  BY <1>2, BootInstallAssumption DEF Pages
<1>4. \A p \in Pages : img'[s][p] = IF p < upd.at + 1 THEN New ELSE Blank
  <2>1. img'[s][upd.at] = New
    BY <1>2, <1>3 DEF TypeOK, Program
  <2>2. \A p \in Pages : p # upd.at => img'[s][p] = img[s][p]
    BY <1>2 DEF TypeOK
  <2> QED
    BY <1>2, <1>3, <2>1, <2>2 DEF Pages
<1>5. SlotHolds(Other(s)) => SlotHolds(Other(s))'
  <2>1. img'[Other(s)] = img[Other(s)]
    BY <1>2, OtherFacts DEF TypeOK
  <2> QED
    BY <1>2, <2>1 DEF SlotHolds, SlotOk
<1>6. /\ upd'.slot = s /\ upd'.try = 0 /\ upd'.pass = upd.pass /\ upd'.res = upd.res
      /\ \/ upd'.pc = "slotPages" /\ upd'.at = upd.at + 1 /\ upd.at < NPages - 1
         \/ upd'.pc = "slotCompare" /\ ~(upd.at < NPages - 1)
  BY ZenonT(40), <1>1, <1>2 DEF SlotPage, Goto, TypeOK
<1>7. CASE upd'.pc = "slotPages"
  <2>1. upd'.at = upd.at + 1 /\ upd.at + 1 \in Pages
    BY <1>3, <1>6, <1>7 DEF Pages
  <2>2. CleanSlot'
    BY <1>2, <1>4, <1>5, <1>6, <1>7, <2>1 DEF CleanSlot, SlotPcs
  <2> QED
    BY <1>6, <1>7, <2>2 DEF Clean, CleanSector0, CleanPass, S0Pcs
<1>8. CASE upd'.pc = "slotCompare"
  <2>1. \A p \in Pages : p < upd.at + 1
    BY <1>3, <1>6, <1>8 DEF Pages
  <2>2. \A p \in Pages : img'[s][p] = New
    BY <1>4, <2>1
  <2>3. CleanSlot'
    BY <1>2, <1>5, <1>6, <1>8, <2>2 DEF CleanSlot, SlotPcs
  <2> QED
    BY <1>6, <1>8, <2>3 DEF Clean, CleanSector0, CleanPass, S0Pcs
<1> QED
  BY <1>6, <1>7, <1>8

LEMMA CleanSlotCompare ==
  ASSUME TypeOK, Clean, SlotCompare
  PROVE  Clean'
<1>1. /\ mode = "update" /\ mode' = mode /\ UNCHANGED flash /\ upd.pc = "slotCompare"
      /\ \A p \in Pages : img[upd.slot][p] = New
  BY DEF SlotCompare, At, SlotPcs, Clean, CleanSlot
<1>2. Goto("slotHeader")
  BY <1>1 DEF SlotCompare
<1>3. /\ upd'.pc = "slotHeader" /\ upd'.slot = upd.slot /\ upd'.try = upd.try
      /\ upd'.pass = upd.pass /\ upd'.res = upd.res
  BY <1>2 DEF Goto, TypeOK
<1>4. CleanSlot'
  BY <1>1, <1>3 DEF Clean, CleanSlot, SlotPcs, flash, SlotHolds, SlotOk
<1> QED
  BY <1>1, <1>3, <1>4 DEF Clean, CleanSector0, CleanPass, S0Pcs

LEMMA CleanSlotHeader ==
  ASSUME TypeOK, Clean, SlotHeader(NewHeader)
  PROVE  Clean'
<1>1. PICK s \in Slots : s = upd.slot
  BY DEF TypeOK
<1>2. /\ mode = "update" /\ mode' = mode /\ img' = img /\ upd.pc = "slotHeader"
      /\ hdr'[s] = NewHeader /\ hdr'[Other(s)] = hdr[Other(s)]
      /\ \A p \in Pages : img[s][p] = New
  BY <1>1, OtherFacts DEF SlotHeader, At, SlotPcs, TypeOK, Clean, CleanSlot
<1>3. /\ upd'.pc = "slotCheck" /\ upd'.slot = s /\ upd'.try = upd.try
      /\ upd'.seq = upd.seq /\ upd'.pass = upd.pass /\ upd'.res = upd.res
  BY <1>1 DEF SlotHeader, Goto, TypeOK
<1>4. NewHeader' = NewHeader
  BY <1>3 DEF NewHeader
<1>5. SlotHolds(Other(s))' = SlotHolds(Other(s))
  BY <1>2 DEF SlotHolds, SlotOk
<1>6. CleanSlot'
  BY <1>1, <1>2, <1>3, <1>4, <1>5 DEF Clean, CleanSlot, SlotPcs
<1> QED
  BY <1>2, <1>3, <1>6 DEF Clean, CleanSector0, CleanPass, S0Pcs

\* The slot just written outranks the other one.
LEMMA NewSelected ==
  ASSUME TypeOK, NEW s \in Slots, SlotOk(s), SlotOk(Other(s)),
         hdr[Other(s)].seq < hdr[s].seq
  PROVE  Select = s
<1>1. hdr[Other(s)].seq \in Nat /\ hdr[s].seq \in Nat
  BY OtherFacts DEF SlotOk, TypeOK, Header
<1>2. CASE s = 0
  BY <1>1, <1>2 DEF Select, SlotOk, Other
<1>3. CASE s = 1
  BY <1>1, <1>3 DEF Select, SlotOk, Other
<1> QED
  BY <1>2, <1>3 DEF Slots

LEMMA CleanSlotCheck ==
  ASSUME TypeOK, SafeInv, Clean, SlotCheck
  PROVE  Clean'
<1>1. PICK s \in Slots : s = upd.slot
  BY DEF TypeOK
<1>2. /\ mode = "update" /\ mode' = mode /\ UNCHANGED flash /\ upd.pc = "slotCheck"
      /\ upd.try = 0 /\ upd.pass \in {0, 1}
      /\ upd.pass = 1 => SlotHolds(Other(s))
      /\ \A p \in Pages : img[s][p] = New
      /\ hdr[s] = NewHeader
  BY <1>1 DEF SlotCheck, At, SlotPcs, Clean, CleanSlot
<1>3. SlotHolds(s) /\ hdr[s].seq = upd.seq
  BY <1>2, BootInstallAssumption DEF SlotHolds, SlotOk, NewHeader, Header, TypeOK
<1>4. /\ upd'.pc = IF Stage0Present THEN "pass" ELSE "s0Erase"
      /\ upd'.try = 0
      /\ upd'.pass = IF Stage0Present THEN upd.pass + 1 ELSE upd.pass
      /\ upd'.res \in {upd.res, "INSTALLED"}
  <2>1. upd' = [upd EXCEPT !.pc = IF Stage0Present THEN "pass" ELSE "s0Erase",
                           !.try = 0, !.at = 0,
                           !.pass = IF Stage0Present THEN @ + 1 ELSE @,
                           !.res = IF @ = "UP_TO_DATE" THEN "INSTALLED" ELSE @]
    BY <1>1, <1>3 DEF SlotCheck, SlotHolds
  <2> QED
    BY <2>1 DEF TypeOK
<1>5. upd'.res # "E_VERIFY"
  BY <1>4 DEF Clean
<1>6. CASE SingleWhole /\ s = 1
  <2>1. ~Stage0Present /\ ~SlotOk(0)
    BY <1>6, SingleFacts
  <2>2. upd'.pc = "s0Erase" /\ upd'.pass = 0
    BY <1>2, <1>4, <1>6, <2>1 DEF SlotHolds, Other
  <2> QED
    BY <1>4, <1>5, <2>2 DEF Clean, CleanSlot, CleanSector0, CleanPass, SlotPcs, S0Pcs
<1>7. CASE /\ Sector0Is(Stage0)
           /\ SlotOk(Other(s))
           /\ hdr[Other(s)].seq < upd.seq
  <2>1. Stage0Present
    BY <1>7, Stage0Facts DEF Stage0Whole
  <2>2. upd'.pc = "pass" /\ upd'.pass = upd.pass + 1
    BY <1>4, <2>1
  <2>3. Select = s
    BY <1>3, <1>7, NewSelected DEF SlotHolds
  <2>4. /\ Select' = s
        /\ SlotHolds(s)' = SlotHolds(s)
        /\ SlotHolds(Other(s))' = SlotHolds(Other(s))
    BY <1>2, <2>3, FlashKept DEF flash, SlotHolds, SlotOk
  <2>5. CleanPass'
    BY <1>2, <1>3, <2>2, <2>4, OtherFacts DEF CleanPass, BothNew
  <2> QED
    BY <1>5, <2>2, <2>5 DEF Clean, CleanSlot, CleanSector0, SlotPcs, S0Pcs
<1> QED
  BY <1>1, <1>2, <1>6, <1>7 DEF SafeInv, WritingInv, SlotPcs

LEMMA CleanSector0Erase ==
  ASSUME TypeOK, Clean, Sector0Erase
  PROVE  Clean'
<1>1. mode = "update" /\ mode' = mode /\ upd.pc = "s0Erase" /\ 1 \in Sector0
      /\ \A p \in Sector0 : sec0'[p] = Blank
  BY PageFacts DEF Sector0Erase, At
<1>2. /\ upd'.pc = "s0Pages" /\ upd'.at = 1 /\ upd'.try = upd.try
      /\ upd'.pass = upd.pass /\ upd'.res = upd.res
  BY DEF Sector0Erase, TypeOK
<1>3. \A p \in Sector0 \ {0} : ~(p < 1)
  BY BootInstallAssumption DEF Sector0
<1>4. CleanSector0'
  BY <1>1, <1>2, <1>3 DEF Clean, CleanSector0, S0Pcs
<1> QED
  BY <1>2, <1>4 DEF Clean, CleanSlot, CleanPass, SlotPcs

LEMMA CleanSector0Page ==
  ASSUME TypeOK, Clean, Sector0Page(Stage0)
  PROVE  Clean'
<1>1. /\ mode = "update" /\ mode' = mode /\ upd.pc = "s0Pages"
      /\ upd.try = 0 /\ upd.pass = 0 /\ upd.at \in Sector0 \ {0}
      /\ \A p \in Sector0 \ {0} : sec0[p] = IF p < upd.at THEN Stage0 ELSE Blank
      /\ sec0' = [sec0 EXCEPT ![upd.at] = Program(@, Stage0)]
  BY DEF Sector0Page, At, S0Pcs, Clean, CleanSector0
<1>2. upd.at \in Nat /\ upd.at <= NSector0 - 1 /\ NSector0 \in Nat
  BY <1>1, BootInstallAssumption DEF Sector0
<1>3. \A p \in Sector0 \ {0} : sec0'[p] = IF p < upd.at + 1 THEN Stage0 ELSE Blank
  <2>1. sec0'[upd.at] = Stage0
    BY <1>1, <1>2 DEF TypeOK, Program
  <2>2. \A p \in Sector0 : p # upd.at => sec0'[p] = sec0[p]
    BY <1>1 DEF TypeOK
  <2> QED
    BY <1>1, <1>2, <2>1, <2>2 DEF Sector0
<1>4. /\ upd'.try = 0 /\ upd'.pass = 0 /\ upd'.res = upd.res
      /\ \/ upd'.pc = "s0Pages" /\ upd'.at = upd.at + 1 /\ upd.at < NSector0 - 1
         \/ upd'.pc = "s0Compare" /\ ~(upd.at < NSector0 - 1)
  BY ZenonT(40), <1>1 DEF Sector0Page, Goto, TypeOK
<1>5. CASE upd'.pc = "s0Pages"
  <2>1. upd'.at = upd.at + 1 /\ upd.at + 1 \in Sector0 \ {0}
    BY <1>2, <1>4, <1>5 DEF Sector0
  <2>2. CleanSector0'
    BY <1>3, <1>4, <1>5, <2>1 DEF CleanSector0, S0Pcs
  <2> QED
    BY <1>4, <1>5, <2>2 DEF Clean, CleanSlot, CleanPass, SlotPcs
<1>6. CASE upd'.pc = "s0Compare"
  <2>1. \A p \in Sector0 : p < upd.at + 1
    BY <1>2, <1>4, <1>6 DEF Sector0
  <2>2. CleanSector0'
    BY <1>3, <1>4, <1>6, <2>1 DEF CleanSector0, S0Pcs
  <2> QED
    BY <1>4, <1>6, <2>2 DEF Clean, CleanSlot, CleanPass, SlotPcs
<1> QED
  BY <1>4, <1>5, <1>6

LEMMA CleanSector0Compare ==
  ASSUME TypeOK, Clean, Sector0Compare
  PROVE  Clean'
<1>1. /\ upd.pc = "s0Compare" /\ upd.try = 0 /\ upd.pass = 0
      /\ \A p \in Sector0 \ {0} : sec0[p] = Stage0
  BY DEF Sector0Compare, At, S0Pcs, Clean, CleanSector0
<1>2. Goto("s0Boot2")
  BY <1>1 DEF Sector0Compare
<1>3. upd'.pc = "s0Boot2" /\ upd'.try = 0 /\ upd'.pass = 0 /\ upd'.res = upd.res
  BY <1>1, <1>2 DEF Goto, TypeOK
<1> QED
  BY <1>3 DEF Clean, CleanSlot, CleanSector0, CleanPass, SlotPcs, S0Pcs

LEMMA CleanSector0Boot2 ==
  ASSUME TypeOK, SafeInv, Clean, Sector0Boot2(Boot2)
  PROVE  Clean'
<1>1. /\ upd.pc = "s0Boot2" /\ upd.try = 0 /\ upd.pass = 0 /\ sec0[0] = Blank
      /\ \A p \in Sector0 \ {0} : sec0[p] = Stage0
      /\ sec0' = [sec0 EXCEPT ![0] = Program(@, Boot2)]
  BY DEF Sector0Boot2, At, S0Pcs, Clean, CleanSector0, SafeInv, Sector0Inv
<1>2. sec0'[0] = Boot2 /\ \A p \in Sector0 \ {0} : sec0'[p] = Stage0
  BY <1>1, PageFacts DEF Program, TypeOK
<1>3. Sector0Is(Stage0)'
  BY <1>2 DEF Sector0Is
<1>4. upd'.pc = "s0Check" /\ upd'.try = 0 /\ upd'.pass = 0 /\ upd'.res = upd.res
  BY <1>1 DEF Sector0Boot2, Goto, TypeOK
<1> QED
  BY <1>3, <1>4 DEF Clean, CleanSlot, CleanSector0, CleanPass, SlotPcs, S0Pcs

LEMMA CleanSector0Check ==
  ASSUME TypeOK, SafeInv, Clean, Sector0Check
  PROVE  Clean'
<1>1. /\ upd.pc = "s0Check" /\ upd.pass = 0 /\ Sector0Is(Stage0) /\ SlotHolds(1)
      /\ UNCHANGED flash
  BY DEF Sector0Check, At, S0Pcs, Clean, CleanSector0, SafeInv, Sector0Inv
<1>2. Goto("pass")
  BY <1>1 DEF Sector0Check, Stage0Mine
<1>3. upd'.pc = "pass" /\ upd'.pass = 0 /\ upd'.res = upd.res
  BY <1>1, <1>2 DEF Goto, TypeOK
<1>4. Select' # -1
  BY <1>1, SelectOk, FlashKept DEF SlotHolds
<1> QED
  BY <1>3, <1>4 DEF Clean, CleanSlot, CleanSector0, CleanPass, SlotPcs, S0Pcs

LEMMA CleanNextPass ==
  ASSUME TypeOK, Clean, Pass
  PROVE  Clean'
<1>1. /\ mode = "update" /\ upd.pc = "pass" /\ UNCHANGED flash
      /\ Select # -1 /\ upd.pass \in {0, 1, 2}
      /\ upd.pass = 1 => SlotHolds(Select)
      /\ upd.pass = 2 => BothNew(Select)
  BY DEF Pass, At, Clean, CleanPass
<1>2. Select \in Slots /\ ~OutOfPasses
  BY <1>1, SelectOk DEF Slots, OutOfPasses
<1>3. CASE Done(upd.res)
  <2>1. upd'.pc = "done" /\ upd'.res = upd.res
    BY <1>3 DEF Done, TypeOK
  <2> QED
    BY <2>1 DEF Clean, CleanSlot, CleanSector0, CleanPass, SlotPcs, S0Pcs
<1>4. CASE ~BothNew(Select) /\ WriteSlot(Other(Select), NextSeq(Select), upd)
  <2>1. NextSeq(Select) \in Nat
    BY <1>1, <1>2, SelectOk DEF SlotOk, NextSeq, Header, TypeOK
  <2>2. upd \in UpdType /\ upd.res # "E_VERIFY"
    BY DEF TypeOK, UpdType, Clean
  <2>3. upd.pass \in {0, 1} /\ (upd.pass = 1 => SlotHolds(Other(Other(Select))))
    BY <1>1, <1>2, <1>4, OtherFacts
  <2> QED
    BY <1>1, <1>2, <1>4, <2>1, <2>2, <2>3, CleanStart, OtherFacts
<1> QED
  BY <1>1, <1>2, <1>3, <1>4 DEF Pass

LEMMA CleanStep ==
  TypeOK /\ SafeInv /\ [Next]_vars /\ (~spoilt => Clean) => (~spoilt => Clean)'
<1> SUFFICES ASSUME TypeOK, SafeInv, [Next]_vars, ~spoilt => Clean, ~spoilt'
             PROVE  Clean'
  OBVIOUS
<1>1. ~ProgramFails
  BY DEF ProgramFails, TypeOK
<1>2. CASE RunUpdater
  BY <1>2, CleanRunUpdater
<1>3. ASSUME ~RunUpdater PROVE Clean
  <2>1. spoilt' = spoilt
    BY <1>1, <1>3 DEF Next, Writes, PowerUp, Release, SlotErase, SlotCompare, SlotCheck,
              Sector0Erase, Sector0Compare, Sector0Check, Pass, Reboot, UsbRecover,
              PowerCut, vars
  <2> QED
    BY <2>1
<1>4. CASE UNCHANGED vars
  <2>1. UNCHANGED <<sec0, img, hdr, mode, upd>> /\ UNCHANGED flash
    BY <1>4 DEF vars, flash
  <2>2. /\ CleanSlot' = CleanSlot
        /\ CleanSector0' = CleanSector0
    BY <2>1 DEF CleanSlot, CleanSector0, NewHeader, SlotHolds, SlotOk, Sector0Is
  <2>3. Select' = Select
    BY <2>1, FlashKept
  <2>4. CleanPass' = CleanPass
    BY <2>1, <2>3 DEF CleanPass, BothNew, SlotHolds, SlotOk
  <2>5. Clean
    BY <1>4 DEF vars
  <2> QED
    BY <2>1, <2>2, <2>4, <2>5 DEF Clean
<1>5. CASE PowerUp \/ Release \/ \E b \in Builds : UsbRecover(b)
  <2>1. mode' # "update" /\ upd' = upd
    BY <1>5 DEF PowerUp, Release, UsbRecover
  <2>2. Clean
    BY <1>5 DEF PowerUp, Release, UsbRecover
  <2> QED
    BY <2>1, <2>2, CleanIdle DEF Clean
<1>6. CASE Reboot \/ PowerCut
  <2>1. mode' # "update" /\ upd'.res = "UP_TO_DATE"
    BY <1>6 DEF Reboot, PowerCut, NoUpd
  <2> QED
    BY <2>1, CleanIdle
<1> QED
  BY <1>1, <1>2, <1>3, <1>4, <1>5, <1>6, CleanErase, CleanSlotPage,
     CleanSlotCompare, CleanSlotHeader, CleanSlotCheck, CleanSector0Erase,
     CleanSector0Page, CleanSector0Compare, CleanSector0Boot2, CleanSector0Check,
     CleanNextPass DEF Next, Writes

\* The updater gives up on a write only when a page has failed to program in that very
\* run: from
\* every start, and after any number of power cuts, three passes are enough and
\* every write finds a slot to boot beside it.
THEOREM GivesUpOnlyByFault == Spec => []FailsOnlyByFault
<1>1. Init => (~spoilt => Clean)
  BY CleanIdle DEF Init, NoUpd, Clean, CleanSlot, CleanSector0, CleanPass
<1>2. TypeOK /\ (~spoilt => Clean) => FailsOnlyByFault
  BY DEF TypeOK, FailsOnlyByFault, Clean
<1> QED
  BY <1>1, <1>2, CleanStep, Safe, TypeCorrect, PTL DEF Spec

-----------------------------------------------------------------------------
(* What boots: never written, and switched at once *)

\* How a step changes the flash while a slot or sector 0 is being written.
LEMMA SlotStep ==
  ASSUME TypeOK, SafeInv, NEW s \in Slots, s = upd.slot, mode = "update",
         \/ SlotErase
         \/ SlotPage(New)
         \/ SlotPage(Torn)
         \/ PowerCut /\ upd.pc \in {"slotErase", "slotPages"} /\ ~UNCHANGED flash
  PROVE  /\ upd.pc \in SlotPcs /\ upd.pc # "slotCheck"
         /\ sec0' = sec0
         /\ SlotOk(s)' => SlotOk(s) /\ hdr'[s] = hdr[s]
         /\ img'[Other(s)] = img[Other(s)]
         /\ hdr'[Other(s)] = hdr[Other(s)]
<1>1. upd.at \in Nat
  BY DEF TypeOK
<1>2. ASSUME At("slotErase"), NEW x \in {Blank, Torn}, SectorSet(s, upd.at, x), sec0' = sec0
      PROVE  /\ upd.pc \in SlotPcs /\ upd.pc # "slotCheck"
             /\ sec0' = sec0
             /\ SlotOk(s)' => SlotOk(s) /\ hdr'[s] = hdr[s]
             /\ img'[Other(s)] = img[Other(s)]
             /\ hdr'[Other(s)] = hdr[Other(s)]
  BY <1>1, <1>2, SectorSetKeeps DEF At, SlotPcs
<1>3. ASSUME At("slotPages"), NEW y, img' = [img EXCEPT ![s][upd.at] = y],
             UNCHANGED <<sec0, hdr>>
      PROVE  /\ upd.pc \in SlotPcs /\ upd.pc # "slotCheck"
             /\ sec0' = sec0
             /\ SlotOk(s)' => SlotOk(s) /\ hdr'[s] = hdr[s]
             /\ img'[Other(s)] = img[Other(s)]
             /\ hdr'[Other(s)] = hdr[Other(s)]
  <2>1. hdr[s] = NoHdr
    BY <1>3 DEF SafeInv, WritingInv, At, SlotPcs
  <2> QED
    BY <1>3, <2>1, OtherFacts DEF At, SlotPcs, SlotOk, TypeOK
<1>4. CASE SlotErase
  BY <1>2, <1>4 DEF SlotErase
<1>5. CASE SlotPage(New) \/ SlotPage(Torn)
  BY <1>3, <1>5 DEF SlotPage
<1>6. CASE PowerCut /\ upd.pc \in {"slotErase", "slotPages"} /\ ~UNCHANGED flash
  BY <1>2, <1>3, <1>6 DEF PowerCut, TornOperation, At
<1> QED
  BY <1>4, <1>5, <1>6

\* The steps that change the flash.
LEMMA FlashSteps ==
  ASSUME TypeOK, SafeInv, [Next]_vars
  PROVE  \/ UNCHANGED flash
         \/ /\ mode = "update"
            /\ \/ SlotErase
               \/ SlotPage(New)
               \/ SlotPage(Torn)
               \/ PowerCut /\ upd.pc \in {"slotErase", "slotPages"} /\ ~UNCHANGED flash
         \/ SlotHeader(NewHeader)
         \/ SlotHeader(NoHdr)
         \/ /\ mode = "update" /\ upd.pc = "s0Erase"
            /\ sec0'[0] # Boot2
            /\ UNCHANGED <<img, hdr>>
         \/ /\ mode = "update" /\ upd.pc \in {"s0Pages", "s0Boot2"}
            /\ sec0'[0] # Boot2
            /\ UNCHANGED <<img, hdr>>
         \/ Sector0Boot2(Boot2)
         \/ \E b \in Builds : UsbRecover(b)
<1>1. 0 \in Sector0 /\ Boot2 \notin {Blank, Torn} /\ upd.slot \in Slots
  BY PageFacts, BootInstallAssumption DEF TypeOK
<1>2. CASE UNCHANGED vars
  BY <1>2 DEF vars, flash
<1>3. CASE PowerUp \/ Release \/ RunUpdater \/ SlotCompare \/ SlotCheck \/ Sector0Compare
           \/ Sector0Check \/ Pass \/ Reboot
  BY <1>3 DEF PowerUp, Release, RunUpdater, SlotCompare, SlotCheck, Sector0Compare,
              Sector0Check, Pass, Reboot, flash
<1>4. CASE Sector0Erase
  BY <1>1, <1>4 DEF Sector0Erase, At
<1>5. mode = "update" /\ upd.pc \in {"s0Pages", "s0Boot2"} =>
        sec0[0] = Blank /\ (upd.pc = "s0Pages" => upd.at # 0)
  BY DEF SafeInv, Sector0Inv, S0Pcs
<1>6. ASSUME NEW x \in {Stage0, Torn}, Sector0Page(x)
      PROVE  /\ mode = "update" /\ upd.pc \in {"s0Pages", "s0Boot2"}
             /\ sec0'[0] # Boot2
             /\ UNCHANGED <<img, hdr>>
  BY <1>1, <1>5, <1>6 DEF Sector0Page, At, TypeOK
<1>7. CASE Sector0Boot2(Torn)
  BY <1>1, <1>5, <1>7 DEF Sector0Boot2, At, TypeOK, Program
<1>8. CASE PowerCut
  <2>1. CASE At("slotErase") \/ At("slotPages")
    BY <1>8, <2>1 DEF At
  <2>2. CASE /\ At("s0Erase")
             /\ sec0' = [p \in Sector0 |-> Torn]
             /\ UNCHANGED <<img, hdr>>
    BY <1>1, <2>2 DEF At
  <2>3. CASE /\ At("s0Pages") \/ At("s0Boot2")
             /\ sec0' = [sec0 EXCEPT ![IF upd.pc = "s0Boot2" THEN 0 ELSE upd.at] = Torn]
             /\ UNCHANGED <<img, hdr>>
    <3>1. sec0'[0] \in {Blank, Torn}
      BY <1>1, <1>5, <2>3 DEF At, TypeOK
    <3> QED
      BY <1>1, <2>3, <3>1 DEF At
  <2> QED
    BY <1>8, <2>1, <2>2, <2>3 DEF PowerCut, TornOperation
<1>9. CASE SlotErase \/ SlotPage(New) \/ SlotPage(Torn)
  BY <1>9 DEF SlotErase, SlotPage, At
<1> QED
  BY <1>2, <1>3, <1>4, <1>6, <1>7, <1>8, <1>9 DEF Next, Writes, ProgramFails

\* No step touches stage 0, once complete, or the slot it boots.
THEOREM BootedCodeAlwaysKept == Spec => BootedCodeKept
<1> DEFINE Kept == Stage0Whole /\ Select # -1 =>
                     /\ sec0' = sec0
                     /\ img'[Select] = img[Select]
                     /\ hdr'[Select] = hdr[Select]
<1>1. TypeOK /\ SafeInv /\ [Next]_vars => Kept
  <2> SUFFICES ASSUME TypeOK, SafeInv, [Next]_vars, Stage0Whole, Select # -1
               PROVE  /\ sec0' = sec0
                      /\ img'[Select] = img[Select]
                      /\ hdr'[Select] = hdr[Select]
    OBVIOUS
  <2>1. sec0[0] = Boot2 /\ ~SingleWhole
    BY Stage0Facts
  <2>2. PICK s \in Slots : s = upd.slot
    BY DEF TypeOK
  <2>3. mode = "update" /\ upd.pc \in SlotPcs \ {"slotCheck"} => Select = Other(s)
    BY <2>1, <2>2 DEF SafeInv, WritingInv
  <2>4. CASE UNCHANGED flash
    BY <2>4 DEF flash
  <2>5. CASE /\ mode = "update"
             /\ \/ SlotErase
                \/ SlotPage(New)
                \/ SlotPage(Torn)
                \/ PowerCut /\ upd.pc \in {"slotErase", "slotPages"} /\ ~UNCHANGED flash
    BY <2>2, <2>3, <2>5, SlotStep
  <2>6. CASE SlotHeader(NewHeader) \/ SlotHeader(NoHdr)
    <3>1. Select = Other(s)
      BY <2>3, <2>6 DEF SlotHeader, At, SlotPcs
    <3> QED
      BY <2>2, <2>6, <3>1, OtherFacts DEF SlotHeader, TypeOK
  <2>7. ~(mode = "update" /\ upd.pc \in {"s0Erase", "s0Pages", "s0Boot2"})
    BY <2>1, BootInstallAssumption DEF SafeInv, Sector0Inv, S0Pcs
  <2>8. ~Sector0Boot2(Boot2) /\ ~\E b \in Builds : UsbRecover(b)
    BY <2>1, <2>7 DEF Sector0Boot2, At, UsbRecover, SafeInv, ModeInv
  <2> QED
    BY <2>4, <2>5, <2>6, <2>7, <2>8, FlashSteps
<1> QED
  BY <1>1, Safe, TypeCorrect, PTL DEF Spec, BootedCodeKept

LEMMA BootsBuild ==
  ASSUME TypeOK, Stage0Whole, NEW s \in Slots, Select = s
  PROVE  Boots = hdr[s].build /\ Boots \in Builds
<1>1. sec0[0] = Boot2 /\ Select # -1 /\ SlotOk(s)
  BY Stage0Facts, SelectOk, OtherFacts
<1> QED
  BY <1>1 DEF Boots, SlotOk, TypeOK, Header

LEMMA BootsSingle ==
  ASSUME TypeOK, SingleWhole
  PROVE  Boots = Single
BY SingleFacts, PageFacts DEF Boots, SingleWhole, Sector0Is

\* Every step changes what boots as BootSwitch does, or not at all.
LEMMA SwitchStep ==
  ASSUME TypeOK, SafeInv, [Next]_vars
  PROVE  [Abstract!Next]_Boots
<1> USE DEF Abstract!Next, Abstract!Update, Abstract!OpenWindow,
            Abstract!CloseWindow, Abstract!UsbLoad
<1>1. PICK s \in Slots : s = upd.slot
  BY DEF TypeOK
<1>2. New \in Builds /\ 0 \in Sector0 /\ Boot2 \notin {Blank, Torn}
  BY PageFacts, BootInstallAssumption
<1>3. CASE UNCHANGED flash
  BY <1>3 DEF flash, Boots, SingleWhole, Stage0Whole, Sector0Is, Select, SlotOk
<1>4. CASE /\ mode = "update"
           /\ \/ SlotErase
              \/ SlotPage(New)
              \/ SlotPage(Torn)
              \/ PowerCut /\ upd.pc \in {"slotErase", "slotPages"} /\ ~UNCHANGED flash
  <2>1. /\ upd.pc \in SlotPcs /\ upd.pc # "slotCheck" /\ sec0' = sec0
        /\ hdr'[Other(s)] = hdr[Other(s)]
        /\ \/ SingleWhole' /\ s = 1
           \/ Sector0Is(Stage0)' /\ Select' = Other(s)
    BY <1>1, <1>4, SlotStep, SlotWriteKeeps
  <2>2. CASE SingleWhole /\ s = 1
    <3>1. Boots = Single /\ ~Stage0Whole /\ sec0[0] = Boot2
      BY <1>2, <2>2, BootsSingle, SingleFacts DEF SingleWhole, Sector0Is
    <3>2. ~Stage0Whole' /\ sec0'[0] = Boot2
      BY <2>1, <3>1 DEF Stage0Whole, Sector0Is
    <3>3. SingleWhole'
      BY <2>1, <2>2, <3>2 DEF Stage0Whole
    <3> QED
      BY <3>1, <3>2, <3>3 DEF Boots
  <2>3. CASE Sector0Is(Stage0) /\ Select = Other(s)
    <3>1. Stage0Whole /\ Boots = hdr[Other(s)].build /\ sec0[0] = Boot2 /\ ~SingleWhole
      BY <2>3, BootsBuild, OtherFacts, Stage0Facts DEF Stage0Whole
    <3>2. Stage0Whole' /\ ~SingleWhole' /\ sec0'[0] = Boot2
      <4>1. Stage0Whole' /\ sec0'[0] = Boot2
        BY <2>1, <3>1 DEF Stage0Whole, Sector0Is
      <4>2. ~Sector0Is(Single)
        BY <3>1, Stage0Facts, PageFacts, BootInstallAssumption
           DEF Stage0Whole, Sector0Is
      <4> QED
        BY <2>1, <4>1, <4>2 DEF SingleWhole, Sector0Is
    <3>3. Select' = Other(s) /\ Other(s) # -1
      BY <2>1, <3>2, OtherFacts
    <3> QED
      BY <2>1, <3>1, <3>2, <3>3 DEF Boots
  <2> QED
    BY <1>1, <1>4, <2>1, <2>2, <2>3 DEF SafeInv, WritingInv
<1>5. ASSUME NEW h \in {NewHeader, NoHdr}, SlotHeader(h) PROVE [Abstract!Next]_Boots
  <2>1. /\ mode = "update" /\ upd.pc = "slotHeader" /\ sec0' = sec0 /\ img' = img
        /\ hdr[s] = NoHdr /\ hdr'[s] = h /\ hdr'[Other(s)] = hdr[Other(s)]
    BY <1>1, <1>5, OtherFacts DEF SlotHeader, At, SafeInv, WritingInv, SlotPcs, TypeOK
  <2>2. CASE SingleWhole /\ s = 1
    <3>1. Boots = Single /\ ~Stage0Whole /\ sec0[0] = Boot2
      BY <1>2, <2>2, BootsSingle, SingleFacts DEF SingleWhole, Sector0Is
    <3>2. ~Stage0Whole' /\ sec0'[0] = Boot2 /\ SingleWhole'
      BY <2>1, <2>2, <3>1 DEF Stage0Whole, Sector0Is, SingleWhole
    <3> QED
      BY <3>1, <3>2 DEF Boots
  <2>3. CASE Sector0Is(Stage0) /\ Select = Other(s)
    <3>1. Stage0Whole /\ sec0[0] = Boot2 /\ Boots = hdr[Other(s)].build /\ Boots \in Builds
      BY <2>3, BootsBuild, OtherFacts, Stage0Facts DEF Stage0Whole
    <3>2. Stage0Whole' /\ sec0'[0] = Boot2
      BY <2>1, <3>1 DEF Stage0Whole, Sector0Is
    <3>3. SlotOk(Other(s))
      BY <2>3, SelectOk, OtherFacts
    <3>4. SlotOk(Other(s))'
      BY <2>1, <3>3 DEF SlotOk
    <3>5. Select' \in {s, Other(s)} /\ Select' # -1 /\ (Select' = s => SlotOk(s)')
      BY <3>4 DEF Select, Other, Slots
    <3>6. CASE Select' = Other(s)
      BY <2>1, <3>1, <3>2, <3>5, <3>6 DEF Boots
    <3>7. CASE Select' = s
      <4>1. hdr'[s] = NewHeader
        BY <2>1, <3>5, <3>7 DEF SlotOk
      <4>2. Boots' = New
        BY <3>2, <3>5, <3>7, <4>1 DEF Boots, NewHeader
      <4> QED
        BY <3>1, <4>2
    <3> QED
      BY <3>5, <3>6, <3>7
  <2> QED
    BY <1>1, <2>1, <2>2, <2>3 DEF SafeInv, WritingInv, SlotPcs
<1>6. CASE /\ mode = "update" /\ upd.pc = "s0Erase"
           /\ sec0'[0] # Boot2
           /\ UNCHANGED <<img, hdr>>
  <2>1. Boots' = BootSel
    BY <1>6 DEF Boots
  <2>2. Boots \in {Single, BootSel}
    BY <1>6, BootsSingle DEF SafeInv, Sector0Inv, S0Pcs, Boots
  <2> QED
    BY <2>1, <2>2
<1>7. CASE /\ mode = "update" /\ upd.pc \in {"s0Pages", "s0Boot2"}
           /\ sec0'[0] # Boot2
           /\ UNCHANGED <<img, hdr>>
  BY <1>2, <1>7 DEF SafeInv, Sector0Inv, S0Pcs, Boots
<1>8. CASE Sector0Boot2(Boot2)
  <2>1. /\ mode = "update" /\ upd.pc = "s0Boot2" /\ hdr' = hdr /\ img' = img
        /\ SlotHolds(1) /\ ~SlotOk(0) /\ sec0[0] = Blank
        /\ \A p \in Sector0 \ {0} : sec0[p] = Stage0
    BY <1>8 DEF Sector0Boot2, At, SafeInv, Sector0Inv, S0Pcs
  <2>2. sec0'[0] = Boot2 /\ \A p \in Sector0 \ {0} : sec0'[p] = Stage0
    BY <1>2, <1>8, <2>1 DEF Sector0Boot2, Program, TypeOK
  <2>3. Sector0Is(Stage0)'
    BY <2>2 DEF Sector0Is
  <2>4. SlotOk(1)' /\ ~SlotOk(0)' /\ hdr'[1].build = New
    BY <2>1 DEF SlotHolds, SlotOk
  <2>5. Select' = 1
    BY <2>4 DEF Select, Other
  <2>6. Boots' = New
    BY <2>2, <2>3, <2>4, <2>5 DEF Boots, Stage0Whole
  <2>7. Boots = BootSel
    BY <1>2, <2>1 DEF Boots
  <2> QED
    BY <2>6, <2>7
<1>9. ASSUME NEW b \in Builds, UsbRecover(b) PROVE [Abstract!Next]_Boots
  <2>1. /\ hdr'[1] = NoHdr /\ hdr'[0] = [seq |-> 1, build |-> b]
        /\ \A p \in Pages : img'[0][p] = b
        /\ Sector0Is(Stage0)' /\ sec0'[0] = Boot2
    BY <1>2, <1>9 DEF UsbRecover, Sector0Is, Slots
  <2>2. [seq |-> 1, build |-> b] \in Header
    BY DEF Header
  <2>3. SlotOk(0)' /\ ~SlotOk(1)'
    BY <2>1, <2>2, BootInstallAssumption DEF SlotOk
  <2>4. Select' = 0
    BY <2>3 DEF Select, Other
  <2>5. Boots' = b
    BY <2>1, <2>4 DEF Boots, Stage0Whole
  <2>6. Boots = BootSel
    BY <1>9 DEF UsbRecover, SafeInv, ModeInv, Boots
  <2> QED
    BY <2>5, <2>6
<1> QED
  BY <1>3, <1>4, <1>5, <1>6, <1>7, <1>8, <1>9, FlashSteps

\* The updater implements BootSwitch: what a power-up enters changes only from
\* a build to the new one in one step, or from the single bootloader through
\* USB BOOTSEL to the new one, whatever is cut off or fails on the way.
THEOREM ImplementsBootSwitch == Spec => BootSwitchSpec
<1>1. Init => Abstract!Init
  <2> SUFFICES ASSUME Init PROVE Boots \in Builds \cup {Single}
    BY DEF Abstract!Init
  <2>1. TypeOK /\ SafeInv
    BY TypeInit, SafeInit
  <2>2. sec0[0] = Boot2
    BY PageFacts DEF Init
  <2>3. CASE SingleWhole
    BY <2>1, <2>3, BootsSingle
  <2>4. CASE Stage0Whole /\ Select # -1
    BY <2>1, <2>4, BootsBuild, SelectOk DEF Slots
  <2> QED
    BY <2>1, <2>2, <2>3, <2>4 DEF SafeInv, Sound
<1>2. TypeOK /\ SafeInv /\ [Next]_vars => [Abstract!Next]_Boots
  BY SwitchStep
<1> QED
  BY <1>1, <1>2, Safe, TypeCorrect, PTL DEF Spec, BootSwitchSpec, Abstract!Spec

-----------------------------------------------------------------------------
(* What a run of the updater returns, and what later runs leave alone *)

BothHold == SlotHolds(0) /\ SlotHolds(1)

\* A run that writes a slot does so because one does not hold this build.
RunInv ==
  /\ upd.pc # "none" => mode = "update"
  /\ upd.res \in {"E_STAGE0", "E_VERIFY"} => upd.pc = "done"
  /\ upd.pc = "slotErase" => ~BothHold
  /\ ResultIsTrue

\* Finished or foreign, sector 0 is a whole stage 0, and not both kinds.
LEMMA SettledFacts ==
  ASSUME TypeOK
  PROVE  /\ Finished \/ Sector0Is(Foreign) => Stage0Whole /\ sec0[0] = Boot2 /\ ~SingleWhole
         /\ Sector0Is(Foreign) => ~Sector0Is(Stage0)
<1>1. Sector0Is(Foreign) => ~Sector0Is(Stage0)
  BY PageFacts, BootInstallAssumption DEF Sector0Is
<1> QED
  BY <1>1, Stage0Facts DEF Finished, Stage0Whole

\* A write that is tried again, or given up.
LEMMA RetryFacts ==
  ASSUME TypeOK, NEW first \in Pcs, Retry(first)
  PROVE  \/ upd'.pc = first /\ upd'.res = upd.res
         \/ upd'.pc = "done" /\ upd'.res = "E_VERIFY"
BY DEF Retry, TypeOK

\* A step of the updater that is not its last.
LEMMA RunsOn ==
  ASSUME mode' = "update", upd'.pc \notin {"slotErase", "done"},
         upd'.res \notin {"E_STAGE0", "E_VERIFY"}
  PROVE  RunInv'
BY DEF RunInv, ResultIsTrue

LEMMA RunsRetry ==
  ASSUME TypeOK, RunInv, mode' = "update", upd.pc # "done",
         NEW first \in Pcs, Retry(first),
         first # "done", first = "slotErase" => ~BothHold'
  PROVE  RunInv'
<1>1. \/ upd'.pc = first /\ upd'.res = upd.res
      \/ upd'.pc = "done" /\ upd'.res = "E_VERIFY"
  BY RetryFacts
<1>2. upd.res \notin {"E_STAGE0", "E_VERIFY"}
  BY DEF RunInv
<1> QED
  BY <1>1, <1>2 DEF RunInv, ResultIsTrue

LEMMA RunSlots ==
  ASSUME TypeOK, SafeInv, RunInv,
         \/ SlotErase \/ SlotPage(New) \/ SlotPage(Torn) \/ SlotCompare
         \/ SlotHeader(NewHeader) \/ SlotHeader(NoHdr) \/ SlotCheck
  PROVE  RunInv'
<1>0. mode = "update" /\ mode' = "update" /\ upd.pc \in SlotPcs
  BY DEF SlotErase, SlotPage, SlotCompare, SlotHeader, SlotCheck, At, SlotPcs
<1>1. upd.res \notin {"E_STAGE0", "E_VERIFY"} /\ upd.pc # "done"
  BY <1>0 DEF RunInv, SlotPcs
<1>2. PICK s \in Slots : s = upd.slot
  BY DEF TypeOK
<1>3. CASE SlotErase
  <2>1. upd'.res = upd.res /\ upd'.pc \in {"slotErase", "slotPages"}
    BY <1>3 DEF SlotErase, At, Goto, TypeOK
  <2>2. /\ SlotOk(s)' => SlotOk(s) /\ hdr'[s] = hdr[s]
        /\ img'[Other(s)] = img[Other(s)] /\ hdr'[Other(s)] = hdr[Other(s)]
    BY <1>0, <1>2, <1>3, SlotStep
  <2>3. SlotHolds(s)' => SlotHolds(s)
    BY <2>2 DEF SlotHolds
  <2>4. SlotHolds(Other(s))' => SlotHolds(Other(s))
    BY <2>2 DEF SlotHolds, SlotOk
  <2>5. BothHold' => BothHold
    BY <2>3, <2>4 DEF BothHold, Slots, Other
  <2>6. upd.pc = "slotErase"
    BY <1>3 DEF SlotErase, At
  <2> QED
    BY <1>0, <1>1, <2>1, <2>5, <2>6 DEF RunInv, ResultIsTrue
<1>4. CASE SlotPage(New) \/ SlotPage(Torn)
  <2>1. upd'.res = upd.res /\ upd'.pc \in {"slotPages", "slotCompare"}
    BY <1>4 DEF SlotPage, At, Goto, TypeOK
  <2> QED
    BY <1>0, <1>1, <2>1, RunsOn
<1>5. CASE SlotCompare
  <2>1. CASE Goto("slotHeader")
    BY <1>0, <1>1, <2>1, RunsOn DEF Goto, TypeOK
  <2>2. CASE (\E p \in Pages : img[upd.slot][p] # New) /\ Retry("slotErase")
    <3>1. ~SlotHolds(s)'
      BY <1>2, <1>5, <2>2 DEF SlotCompare, flash, SlotHolds, SlotOk
    <3>2. ~BothHold'
      BY <3>1 DEF BothHold, Slots
    <3> QED
      BY <1>0, <1>1, <2>2, <3>2, RunsRetry DEF Pcs
  <2> QED
    BY <1>5, <2>1, <2>2 DEF SlotCompare
<1>6. CASE SlotHeader(NewHeader) \/ SlotHeader(NoHdr)
  <2>1. upd'.res = upd.res /\ upd'.pc = "slotCheck"
    BY <1>6 DEF SlotHeader, Goto, TypeOK
  <2> QED
    BY <1>0, <1>1, <2>1, RunsOn
<1>7. CASE SlotCheck
  <2>1. CASE SlotOk(upd.slot)
    <3>1. upd'.pc \in {"pass", "s0Erase"} /\ upd'.res \in {"INSTALLED", upd.res}
      BY <1>7, <2>1 DEF SlotCheck, TypeOK
    <3> QED
      BY <1>0, <1>1, <3>1, RunsOn
  <2>2. CASE ~SlotOk(upd.slot)
    <3>1. UNCHANGED flash /\ Retry("slotErase")
      BY <1>7, <2>2 DEF SlotCheck
    <3>2. ~SlotHolds(s)'
      BY <1>2, <2>2, <3>1 DEF flash, SlotHolds, SlotOk
    <3>3. ~BothHold'
      BY <3>2 DEF BothHold, Slots
    <3> QED
      BY <1>0, <1>1, <3>1, <3>3, RunsRetry DEF Pcs
  <2> QED
    BY <2>1, <2>2
<1> QED
  BY <1>3, <1>4, <1>5, <1>6, <1>7

LEMMA RunSector0 ==
  ASSUME TypeOK, SafeInv, RunInv,
         \/ Sector0Erase \/ Sector0Page(Stage0) \/ Sector0Page(Torn) \/ Sector0Compare
         \/ Sector0Boot2(Boot2) \/ Sector0Boot2(Torn) \/ Sector0Check
  PROVE  RunInv'
<1>0. mode = "update" /\ mode' = "update" /\ upd.pc \in S0Pcs
  BY DEF Sector0Erase, Sector0Page, Sector0Compare, Sector0Boot2, Sector0Check, At, S0Pcs
<1>1. upd.res \notin {"E_STAGE0", "E_VERIFY"} /\ upd.pc # "done"
  BY <1>0 DEF RunInv, S0Pcs
<1>2. CASE Retry("s0Erase")
  BY <1>0, <1>1, <1>2, RunsRetry DEF Pcs
<1>3. CASE ~Retry("s0Erase")
  <2>1. upd'.res = upd.res
        /\ upd'.pc \in {"s0Pages", "s0Compare", "s0Boot2", "s0Check", "pass"}
    <3>1. CASE Sector0Erase
      BY <3>1 DEF Sector0Erase, TypeOK
    <3>2. CASE Sector0Page(Stage0) \/ Sector0Page(Torn)
      BY <3>2 DEF Sector0Page, At, Goto, TypeOK
    <3>3. CASE Sector0Compare \/ Sector0Check
      BY <1>3, <3>3 DEF Sector0Compare, Sector0Check, Goto, TypeOK
    <3>4. CASE Sector0Boot2(Boot2) \/ Sector0Boot2(Torn)
      BY <3>4 DEF Sector0Boot2, Goto, TypeOK
    <3> QED
      BY <3>1, <3>2, <3>3, <3>4
  <2> QED
    BY <1>0, <1>1, <2>1, RunsOn
<1> QED
  BY <1>2, <1>3

LEMMA RunPass ==
  ASSUME TypeOK, SafeInv, RunInv, Pass
  PROVE  RunInv'
<1>0. /\ mode = "update" /\ mode' = "update" /\ upd.pc = "pass" /\ UNCHANGED flash
      /\ Sector0Is(Stage0)
  BY DEF Pass, At, SafeInv, ModeInv
<1>1. upd.res \notin {"E_STAGE0", "E_VERIFY"}
  BY <1>0 DEF RunInv
<1>2. BothHold' = BothHold /\ Sector0Is(Stage0)'
  BY <1>0 DEF flash, BothHold, SlotHolds, SlotOk, Sector0Is
<1>3. Select \in {-1, 0, 1}
  BY SelectOk
<1>4. CASE Done("E_VERIFY")
  BY <1>0, <1>4 DEF Done, TypeOK, RunInv, ResultIsTrue
<1>5. CASE Select # -1 /\ BothNew(Select) /\ Done(upd.res)
  <2>1. BothHold
    BY <1>3, <1>5 DEF BothNew, BothHold, Other
  <2>2. Finished'
    BY <1>2, <2>1 DEF Finished, BothHold
  <2>3. upd'.pc = "done" /\ upd'.res = upd.res
    BY <1>5 DEF Done, TypeOK
  <2> QED
    BY <1>0, <1>1, <2>2, <2>3 DEF RunInv, ResultIsTrue
<1>6. CASE /\ Select # -1 /\ ~BothNew(Select)
           /\ WriteSlot(Other(Select), NextSeq(Select), upd)
  <2>1. ~BothHold
    BY <1>3, <1>6 DEF BothNew, BothHold, Other
  <2>2. upd'.pc = "slotErase" /\ upd'.res = upd.res
    BY <1>6 DEF WriteSlot, TypeOK
  <2> QED
    BY <1>0, <1>1, <1>2, <2>1, <2>2 DEF RunInv, ResultIsTrue
<1> QED
  BY <1>4, <1>5, <1>6 DEF Pass

LEMMA RunStarts ==
  ASSUME TypeOK, SafeInv, RunInv, RunUpdater
  PROVE  RunInv'
<1>0. mode = "boot" /\ mode' = "update" /\ UNCHANGED flash /\ sec0[0] = Boot2
  BY DEF RunUpdater, SafeInv, ModeInv
<1>1. SingleWhole \/ Stage0Whole
  BY <1>0 DEF SafeInv, Sound
<1>2. CASE ~Stage0Present /\ WriteSlot(1, 1, [NoUpd EXCEPT !.res = "MIGRATED"])
  <2>1. upd'.pc = "slotErase" /\ upd'.res = "MIGRATED"
    BY <1>2 DEF WriteSlot, NoUpd
  <2>2. ~SlotOk(0)
    BY <1>1, <1>2, SingleFacts, Stage0Facts
  <2>3. ~BothHold'
    BY <1>0, <2>2, FlashKept DEF BothHold, SlotHolds, Slots
  <2> QED
    BY <1>0, <2>1, <2>3 DEF RunInv, ResultIsTrue
<1>3. CASE /\ Stage0Present /\ ~Stage0Mine
           /\ upd' = [NoUpd EXCEPT !.pc = "done", !.res = "E_STAGE0"]
  <2>1. Sector0Is(Foreign)
    BY <1>1, <1>3, SingleFacts DEF Stage0Whole, Stage0Mine
  <2>2. Sector0Is(Foreign)'
    BY <1>0, <2>1 DEF flash, Sector0Is
  <2>3. upd'.pc = "done" /\ upd'.res = "E_STAGE0"
    BY <1>3 DEF NoUpd
  <2> QED
    BY <1>0, <2>2, <2>3 DEF RunInv, ResultIsTrue
<1>4. CASE upd' = [NoUpd EXCEPT !.pc = "pass"]
  BY <1>0, <1>4 DEF NoUpd, RunInv, ResultIsTrue
<1> QED
  BY <1>2, <1>3, <1>4 DEF RunUpdater

LEMMA RunStep ==
  ASSUME TypeOK, SafeInv, RunInv, [Next]_vars
  PROVE  RunInv'
<1>1. CASE UNCHANGED vars
  BY <1>1 DEF vars, RunInv, ResultIsTrue, Finished, BothHold, SlotHolds, SlotOk, Sector0Is
<1>2. CASE PowerUp \/ Release \/ \E b \in Builds : UsbRecover(b)
  <2>1. mode # "update" /\ upd' = upd
    BY <1>2 DEF PowerUp, Release, UsbRecover
  <2>2. upd.pc = "none"
    BY <2>1 DEF RunInv
  <2> QED
    BY <2>1, <2>2 DEF RunInv, ResultIsTrue
<1>3. CASE Reboot \/ PowerCut
  <2>1. upd' = NoUpd
    BY <1>3 DEF Reboot, PowerCut
  <2> QED
    BY <2>1 DEF NoUpd, RunInv, ResultIsTrue
<1> QED
  BY <1>1, <1>2, <1>3, RunSlots, RunSector0, RunPass, RunStarts
     DEF Next, Writes, ProgramFails

LEMMA Run == Spec => []RunInv
<1>1. Init => RunInv
  BY DEF Init, NoUpd, RunInv, ResultIsTrue
<1> QED
  BY <1>1, RunStep, Safe, TypeCorrect, PTL DEF Spec

\* What fw_boot_install returns is so, after any cuts and failed pages of this
\* run and of earlier ones.
THEOREM ResultAlwaysTrue == Spec => []ResultIsTrue
<1>1. RunInv => ResultIsTrue
  BY DEF RunInv
<1> QED
  BY <1>1, Run, PTL

\* Both slots with this build, or another stage 0: no run writes any more.
THEOREM AlwaysSettledStays == Spec => SettledStays
<1> DEFINE Stays == Finished \/ Sector0Is(Foreign) => UNCHANGED flash
<1>1. TypeOK /\ SafeInv /\ RunInv /\ [Next]_vars => Stays
  <2> SUFFICES ASSUME TypeOK, SafeInv, RunInv, [Next]_vars, Finished \/ Sector0Is(Foreign)
               PROVE  UNCHANGED flash
    OBVIOUS
  <2>0. Stage0Whole /\ sec0[0] = Boot2 /\ ~SingleWhole
    BY SettledFacts
  <2>1. mode = "update" /\ upd.pc \in SlotPcs => Finished
    BY <2>0, SettledFacts DEF SafeInv, WritingInv
  <2>2. mode = "update" /\ upd.pc \in {"slotErase", "slotPages", "slotHeader"} => FALSE
    <3> SUFFICES ASSUME mode = "update", upd.pc \in {"slotErase", "slotPages", "slotHeader"}
                 PROVE  FALSE
      OBVIOUS
    <3>1. Finished
      BY <2>1 DEF SlotPcs
    <3>2. hdr[0] # NoHdr /\ hdr[1] # NoHdr /\ BothHold
      BY <3>1 DEF Finished, BothHold, SlotHolds, SlotOk
    <3>3. upd.slot \in {0, 1}
      BY DEF TypeOK, Slots
    <3> QED
      BY <3>2, <3>3 DEF RunInv, SafeInv, WritingInv, SlotPcs
  <2>3. ~(mode = "update" /\ upd.pc \in {"s0Erase", "s0Pages", "s0Boot2"})
    BY <2>0, BootInstallAssumption DEF SafeInv, Sector0Inv, S0Pcs
  <2>4. ~\E b \in Builds : UsbRecover(b)
    BY <2>0 DEF UsbRecover, SafeInv, ModeInv
  <2> QED
    BY <2>2, <2>3, <2>4, FlashSteps DEF SlotErase, SlotPage, SlotHeader, Sector0Boot2, At
<1> QED
  BY <1>1, Safe, Run, TypeCorrect, PTL DEF Spec, SettledStays

-----------------------------------------------------------------------------
(* A run ends *)

\* What is left of a run, the coarsest first: the passes of its loop; its stages, a
\* migration's slot, its sector 0, the loop's head and the loop's slot; the tries of the
\* write under way; and the operations of this try.
PassesLeft == 3 - upd.pass

StagesLeft ==
  IF upd.pc \in SlotPcs THEN (IF Stage0Present THEN 1 ELSE 4)
  ELSE IF upd.pc \in S0Pcs THEN 3
  ELSE IF upd.pc = "pass" THEN 2
  ELSE 0

TriesLeft == TRIES - upd.try

OpsLeft ==
  CASE upd.pc = "slotErase" -> LastSector - upd.at + NPages + 4
    [] upd.pc = "slotPages" -> NPages - upd.at + 3
    [] upd.pc = "s0Erase" -> NSector0 + 4
    [] upd.pc = "s0Pages" -> NSector0 - upd.at + 3
    [] upd.pc \in {"slotCompare", "s0Compare"} -> 3
    [] upd.pc \in {"slotHeader", "s0Boot2"} -> 2
    [] upd.pc \in {"slotCheck", "s0Check"} -> 1
    [] OTHER -> 0

\* The measures are what they say: natural numbers.
MeasureInv ==
  mode = "update" =>
    /\ upd.pass \in 0 .. 3
    /\ upd.pc \in SlotPcs => upd.pass <= 2
    /\ upd.pc = "slotErase" => upd.at <= LastSector
    /\ upd.pc = "slotPages" => upd.at < NPages
    /\ upd.pc = "s0Pages" => upd.at < NSector0

RunMeasured ==
  mode = "update" =>
    PassesLeft \in Nat /\ StagesLeft \in Nat /\ TriesLeft \in Nat /\ OpsLeft \in Nat

Advances ==
  \/ PassesLeft' < PassesLeft
  \/ /\ PassesLeft' = PassesLeft
     /\ \/ StagesLeft' < StagesLeft
        \/ /\ StagesLeft' = StagesLeft
           /\ \/ TriesLeft' < TriesLeft
              \/ TriesLeft' = TriesLeft /\ OpsLeft' < OpsLeft

\* Every step of a run that does not end it leaves less of it: no fault and no flash
\* content keeps fw_boot_install in its loops.
RunAdvances == [][mode = "update" /\ mode' = "update" => Advances]_vars

LEMMA MeasureTypes == TypeOK /\ MeasureInv => RunMeasured
<1> SUFFICES ASSUME TypeOK, MeasureInv, mode = "update" PROVE RunMeasured
  BY DEF RunMeasured
<1>0. /\ NPages \in Nat /\ NSector0 \in Nat /\ TRIES \in Nat /\ LastSector \in Nat
      /\ upd.at \in Nat /\ upd.try \in 0 .. TRIES - 1
  BY BootInstallAssumption, PageFacts DEF TypeOK
<1>1. PassesLeft \in Nat /\ TriesLeft \in Nat
  BY <1>0 DEF MeasureInv, PassesLeft, TriesLeft
<1>2. StagesLeft \in Nat
  BY DEF StagesLeft
<1>3. OpsLeft \in Nat
  <2>1. upd.pc = "slotErase" => LastSector - upd.at + NPages + 4 \in Nat
    BY <1>0 DEF MeasureInv
  <2>2. upd.pc = "slotPages" => NPages - upd.at + 3 \in Nat
    BY <1>0 DEF MeasureInv
  <2>3. upd.pc = "s0Pages" => NSector0 - upd.at + 3 \in Nat
    BY <1>0 DEF MeasureInv
  <2> QED
    BY <1>0, <2>1, <2>2, <2>3 DEF OpsLeft
<1> QED
  BY <1>1, <1>2, <1>3 DEF RunMeasured

\* The next operation of the same try.
LEMMA AdvanceOp ==
  ASSUME UNCHANGED <<upd.pass, upd.try>>, StagesLeft' = StagesLeft, OpsLeft' < OpsLeft
  PROVE  Advances
BY DEF Advances, PassesLeft, TriesLeft

\* The next stage of the same pass.
LEMMA AdvanceStage ==
  ASSUME UNCHANGED upd.pass, StagesLeft' < StagesLeft
  PROVE  Advances
BY DEF Advances, PassesLeft

\* The next try, or none.
LEMMA AdvanceTry ==
  ASSUME TypeOK, mode' = "update", NEW first \in {"slotErase", "s0Erase"}, Retry(first),
         MeasureInv, mode = "update",
         first = "slotErase" => upd.pc \in SlotPcs /\ sec0' = sec0,
         first = "s0Erase" => upd.pc \in S0Pcs
  PROVE  MeasureInv' /\ Advances
<1>0. upd.try \in 0 .. TRIES - 1 /\ TRIES \in Nat /\ LastSector \in Nat
  BY BootInstallAssumption, PageFacts DEF TypeOK
<1>1. CASE upd' = [upd EXCEPT !.pc = first, !.try = @ + 1, !.at = 0]
  <2>1. /\ upd'.pc = first /\ upd'.try = upd.try + 1 /\ upd'.at = 0 /\ upd'.pass = upd.pass
    BY <1>1 DEF TypeOK
  <2>2. StagesLeft' = StagesLeft
    BY <2>1 DEF StagesLeft, SlotPcs, S0Pcs, Stage0Present
  <2>3. TriesLeft' < TriesLeft
    BY <1>0, <2>1 DEF TriesLeft
  <2>4. Advances
    BY <2>1, <2>2, <2>3 DEF Advances, PassesLeft
  <2>5. MeasureInv'
    BY <1>0, <2>1 DEF MeasureInv, SlotPcs, S0Pcs
  <2> QED
    BY <2>4, <2>5
<1>2. CASE upd' = [upd EXCEPT !.pc = "done", !.res = "E_VERIFY"]
  <2>1. upd'.pc = "done" /\ upd'.pass = upd.pass
    BY <1>2 DEF TypeOK
  <2>2. StagesLeft' = 0 /\ StagesLeft > 0
    BY <2>1 DEF StagesLeft, SlotPcs, S0Pcs
  <2> QED
    BY <2>1, <2>2, AdvanceStage DEF MeasureInv, SlotPcs
<1> QED
  BY <1>1, <1>2 DEF Retry

LEMMA EraseAdvances ==
  ASSUME TypeOK, SafeInv, MeasureInv, SlotErase
  PROVE  MeasureInv' /\ Advances
<1>0. /\ mode = "update" /\ mode' = "update" /\ upd.pc = "slotErase" /\ sec0' = sec0
      /\ upd.at \in Nat /\ LastSector \in Nat /\ NPages \in Nat \ {0} /\ upd.at <= LastSector
  BY BootInstallAssumption, PageFacts DEF SlotErase, At, TypeOK, MeasureInv
<1>1. upd'.pass = upd.pass /\ upd'.try = upd.try
      /\ \/ upd'.pc = "slotErase" /\ upd'.at = upd.at + 1 /\ upd.at < LastSector
         \/ upd'.pc = "slotPages" /\ upd'.at = 0
  BY DEF SlotErase, At, Goto, TypeOK
<1>2. StagesLeft' = StagesLeft
  BY <1>0, <1>1 DEF StagesLeft, SlotPcs, Stage0Present
<1>3. OpsLeft = LastSector - upd.at + NPages + 4
  BY <1>0 DEF OpsLeft
<1>4. /\ upd'.pc = "slotErase" => OpsLeft' = LastSector - upd'.at + NPages + 4
      /\ upd'.pc = "slotPages" => OpsLeft' = NPages - upd'.at + 3
  BY DEF OpsLeft, LastSector
<1>5. OpsLeft' < OpsLeft
  BY <1>0, <1>1, <1>3, <1>4
<1>6. MeasureInv'
  BY <1>0, <1>1 DEF MeasureInv, SlotPcs, LastSector
<1> QED
  BY <1>1, <1>2, <1>5, <1>6, AdvanceOp

LEMMA PageAdvances ==
  ASSUME TypeOK, SafeInv, MeasureInv, SlotPage(New) \/ SlotPage(Torn)
  PROVE  MeasureInv' /\ Advances
<1>0. /\ mode = "update" /\ mode' = "update" /\ upd.pc = "slotPages" /\ sec0' = sec0
      /\ upd.at \in Nat /\ NPages \in Nat \ {0} /\ upd.at < NPages
  BY BootInstallAssumption DEF SlotPage, At, TypeOK, MeasureInv
<1>1. upd'.pass = upd.pass /\ upd'.try = upd.try
      /\ \/ upd'.pc = "slotPages" /\ upd'.at = upd.at + 1 /\ upd.at < NPages - 1
         \/ upd'.pc = "slotCompare"
  BY DEF SlotPage, At, Goto, TypeOK
<1>2. StagesLeft' = StagesLeft
  BY <1>0, <1>1 DEF StagesLeft, SlotPcs, Stage0Present
<1>3. OpsLeft = NPages - upd.at + 3
  BY <1>0 DEF OpsLeft
<1>4. /\ upd'.pc = "slotPages" => OpsLeft' = NPages - upd'.at + 3
      /\ upd'.pc = "slotCompare" => OpsLeft' = 3
  BY DEF OpsLeft
<1>5. OpsLeft' < OpsLeft
  BY <1>0, <1>1, <1>3, <1>4
<1>6. MeasureInv'
  BY <1>0, <1>1 DEF MeasureInv, SlotPcs
<1> QED
  BY <1>1, <1>2, <1>5, <1>6, AdvanceOp

LEMMA CheckAdvances ==
  ASSUME TypeOK, SafeInv, MeasureInv,
         SlotCompare \/ SlotHeader(NewHeader) \/ SlotHeader(NoHdr) \/ SlotCheck
  PROVE  MeasureInv' /\ Advances
<1>0. mode = "update" /\ mode' = "update" /\ sec0' = sec0 /\ upd.pc \in SlotPcs
      /\ upd.pass \in 0 .. 3 /\ upd.pass <= 2
  BY DEF SlotCompare, SlotHeader, SlotCheck, At, flash, MeasureInv, SlotPcs
<1>1. CASE Retry("slotErase")
  BY <1>0, <1>1, AdvanceTry
<1>2. CASE \/ Goto("slotHeader") /\ upd.pc = "slotCompare"
           \/ Goto("slotCheck") /\ upd.pc = "slotHeader"
  <2>1. /\ upd'.pass = upd.pass /\ upd'.try = upd.try
        /\ \/ upd.pc = "slotCompare" /\ upd'.pc = "slotHeader"
           \/ upd.pc = "slotHeader" /\ upd'.pc = "slotCheck"
    BY <1>2 DEF Goto, TypeOK
  <2>2. StagesLeft' = StagesLeft
    BY <1>0, <2>1 DEF StagesLeft, SlotPcs, Stage0Present
  <2>3. OpsLeft' < OpsLeft
    BY <2>1 DEF OpsLeft
  <2>4. MeasureInv'
    BY <1>0, <2>1 DEF MeasureInv
  <2> QED
    BY <2>1, <2>2, <2>3, <2>4, AdvanceOp
<1>3. CASE SlotCheck /\ ~Retry("slotErase")
  <2>1. CASE Stage0Present
    <3>1. upd'.pc = "pass" /\ upd'.pass = upd.pass + 1
      BY <1>3, <2>1 DEF SlotCheck, TypeOK
    <3> QED
      BY <1>0, <3>1 DEF MeasureInv, SlotPcs, Advances, PassesLeft
  <2>2. CASE ~Stage0Present
    <3>1. upd'.pc = "s0Erase" /\ upd'.pass = upd.pass
      BY <1>3, <2>2 DEF SlotCheck, TypeOK
    <3>2. StagesLeft = 4 /\ StagesLeft' = 3
      BY <1>0, <2>2, <3>1 DEF StagesLeft, SlotPcs, S0Pcs
    <3> QED
      BY <1>0, <3>1, <3>2, AdvanceStage DEF MeasureInv, SlotPcs
  <2> QED
    BY <2>1, <2>2
<1>4. CASE SlotCompare
  <2>1. upd.pc = "slotCompare" /\ (Goto("slotHeader") \/ Retry("slotErase"))
    BY <1>4 DEF SlotCompare, At
  <2> QED
    BY <1>1, <1>2, <2>1
<1>5. CASE SlotHeader(NewHeader) \/ SlotHeader(NoHdr)
  BY <1>2, <1>5 DEF SlotHeader, At
<1> QED
  BY <1>1, <1>3, <1>4, <1>5

LEMMA Sector0Advances ==
  ASSUME TypeOK, SafeInv, MeasureInv,
         \/ Sector0Erase \/ Sector0Page(Stage0) \/ Sector0Page(Torn) \/ Sector0Compare
         \/ Sector0Boot2(Boot2) \/ Sector0Boot2(Torn) \/ Sector0Check
  PROVE  MeasureInv' /\ Advances
<1>0. /\ mode = "update" /\ mode' = "update" /\ upd.pc \in S0Pcs /\ upd.pass \in 0 .. 3
      /\ upd.at \in Nat /\ NSector0 \in Nat /\ NSector0 >= 2
  BY BootInstallAssumption
     DEF Sector0Erase, Sector0Page, Sector0Compare, Sector0Boot2, Sector0Check, At, S0Pcs,
         MeasureInv, TypeOK
<1>1. CASE Retry("s0Erase")
  BY <1>0, <1>1, AdvanceTry
<1>2. ASSUME upd'.pass = upd.pass, upd'.try = upd.try, upd'.pc \in S0Pcs,
             OpsLeft' < OpsLeft, upd'.pc = "s0Pages" => upd'.at < NSector0
      PROVE  MeasureInv' /\ Advances
  <2>1. StagesLeft' = StagesLeft
    BY <1>0, <1>2 DEF StagesLeft, S0Pcs, SlotPcs
  <2> QED
    BY <1>0, <1>2, <2>1, AdvanceOp DEF MeasureInv, S0Pcs, SlotPcs
<1>3. CASE Sector0Erase
  <2>1. /\ upd'.pass = upd.pass /\ upd'.try = upd.try /\ upd.pc = "s0Erase"
        /\ upd'.pc = "s0Pages" /\ upd'.at = 1
    BY <1>3 DEF Sector0Erase, At, TypeOK
  <2>2. OpsLeft = NSector0 + 4 /\ OpsLeft' = NSector0 - 1 + 3
    BY <2>1 DEF OpsLeft
  <2> QED
    BY <1>0, <1>2, <2>1, <2>2 DEF S0Pcs
<1>4. CASE Sector0Page(Stage0) \/ Sector0Page(Torn)
  <2>1. /\ upd'.pass = upd.pass /\ upd'.try = upd.try /\ upd.pc = "s0Pages"
        /\ \/ upd'.pc = "s0Pages" /\ upd'.at = upd.at + 1 /\ upd.at < NSector0 - 1
           \/ upd'.pc = "s0Compare"
    BY <1>4 DEF Sector0Page, At, Goto, TypeOK
  <2>2. /\ OpsLeft = NSector0 - upd.at + 3
        /\ upd'.pc = "s0Pages" => OpsLeft' = NSector0 - upd'.at + 3
        /\ upd'.pc = "s0Compare" => OpsLeft' = 3
    BY <2>1 DEF OpsLeft
  <2>3. upd.at < NSector0
    BY <1>0, <2>1 DEF MeasureInv
  <2>4. OpsLeft' < OpsLeft
    BY <1>0, <2>1, <2>2, <2>3
  <2> QED
    BY <1>0, <1>2, <2>1, <2>4 DEF S0Pcs
<1>5. CASE Sector0Compare /\ ~Retry("s0Erase")
  <2>1. /\ upd'.pass = upd.pass /\ upd'.try = upd.try /\ upd.pc = "s0Compare"
        /\ upd'.pc = "s0Boot2"
    BY <1>5 DEF Sector0Compare, At, Goto, TypeOK
  <2> QED
    BY <1>2, <2>1 DEF OpsLeft, S0Pcs
<1>6. CASE Sector0Boot2(Boot2) \/ Sector0Boot2(Torn)
  <2>1. /\ upd'.pass = upd.pass /\ upd'.try = upd.try /\ upd.pc = "s0Boot2"
        /\ upd'.pc = "s0Check"
    BY <1>6 DEF Sector0Boot2, At, Goto, TypeOK
  <2> QED
    BY <1>2, <2>1 DEF OpsLeft, S0Pcs
<1>7. CASE Sector0Check /\ ~Retry("s0Erase")
  <2>1. upd'.pass = upd.pass /\ upd'.pc = "pass"
    BY <1>7 DEF Sector0Check, Goto, TypeOK
  <2>2. StagesLeft = 3 /\ StagesLeft' = 2
    BY <1>0, <2>1 DEF StagesLeft, S0Pcs, SlotPcs
  <2> QED
    BY <1>0, <2>1, <2>2, AdvanceStage DEF MeasureInv, SlotPcs
<1> QED
  BY <1>1, <1>3, <1>4, <1>5, <1>6, <1>7

LEMMA PassAdvances ==
  ASSUME TypeOK, SafeInv, MeasureInv, Pass
  PROVE  MeasureInv' /\ Advances
<1>0. /\ mode = "update" /\ mode' = "update" /\ upd.pc = "pass" /\ upd.pass \in 0 .. 3
      /\ UNCHANGED flash /\ Stage0Present'
  <2>1. mode = "update" /\ mode' = "update" /\ upd.pc = "pass" /\ UNCHANGED flash
    BY DEF Pass, At
  <2>2. Sector0Is(Stage0)
    BY <2>1 DEF SafeInv, ModeInv
  <2>3. Stage0Present
    BY <2>2, Stage0Facts DEF Stage0Whole
  <2> QED
    BY <2>1, <2>3 DEF MeasureInv, flash, Stage0Present
<1>1. StagesLeft = 2
  BY <1>0 DEF StagesLeft, SlotPcs, S0Pcs
<1>2. CASE Done("E_VERIFY") \/ Done(upd.res)
  <2>1. upd'.pc = "done" /\ upd'.pass = upd.pass
    BY <1>2 DEF Done, TypeOK
  <2>2. StagesLeft' = 0
    BY <2>1 DEF StagesLeft, SlotPcs, S0Pcs
  <2> QED
    BY <1>0, <1>1, <2>1, <2>2, AdvanceStage DEF MeasureInv, SlotPcs
<1>3. CASE ~OutOfPasses /\ WriteSlot(Other(Select), NextSeq(Select), upd)
  <2>1. upd'.pc = "slotErase" /\ upd'.at = 0 /\ upd'.pass = upd.pass /\ upd.pass # 3
    BY <1>3 DEF WriteSlot, TypeOK, OutOfPasses
  <2>2. StagesLeft' = 1
    BY <1>0, <2>1 DEF StagesLeft, SlotPcs
  <2>3. LastSector \in Nat
    BY PageFacts
  <2> QED
    BY <1>0, <1>1, <2>1, <2>2, <2>3, AdvanceStage DEF MeasureInv, SlotPcs, LastSector
<1> QED
  BY <1>2, <1>3 DEF Pass

LEMMA StartMeasured ==
  ASSUME TypeOK, RunUpdater
  PROVE  MeasureInv' /\ mode # "update"
<1>1. mode # "update" /\ LastSector \in Nat
  BY PageFacts DEF RunUpdater
<1>2. upd'.pass = 0 /\ upd'.pc \in {"slotErase", "done", "pass"} /\ upd'.at = 0
  BY DEF RunUpdater, WriteSlot, NoUpd
<1> QED
  BY <1>1, <1>2 DEF MeasureInv, SlotPcs, LastSector

LEMMA MeasureStep ==
  ASSUME TypeOK, SafeInv, MeasureInv, [Next]_vars
  PROVE  MeasureInv' /\ (mode = "update" /\ mode' = "update" => Advances \/ UNCHANGED vars)
<1>1. CASE UNCHANGED vars
  BY <1>1 DEF vars, MeasureInv, LastSector
<1>2. CASE PowerUp \/ Release \/ Reboot \/ PowerCut \/ \E b \in Builds : UsbRecover(b)
  <2>1. mode' # "update"
    BY <1>2 DEF PowerUp, Release, Reboot, PowerCut, UsbRecover
  <2> QED
    BY <2>1 DEF MeasureInv
<1> QED
  BY <1>1, <1>2, EraseAdvances, PageAdvances, CheckAdvances, Sector0Advances,
     PassAdvances, StartMeasured DEF Next, Writes, ProgramFails

\* A run of the updater that power does not interrupt ends, with whatever flash it finds
\* and however many pages fail: three passes, TRIES tries and one operation per sector
\* and page are all there is.
THEOREM RunEnds == Spec => []RunMeasured /\ RunAdvances
<1>1. Init => MeasureInv
  BY DEF Init, MeasureInv
<1>2. TypeOK /\ SafeInv /\ MeasureInv /\ [Next]_vars =>
        MeasureInv' /\ [mode = "update" /\ mode' = "update" => Advances]_vars
  BY MeasureStep
<1>3. TypeOK /\ MeasureInv => RunMeasured
  BY MeasureTypes
<1> QED
  BY <1>1, <1>2, <1>3, Safe, TypeCorrect, PTL DEF Spec, RunAdvances
=============================================================================
