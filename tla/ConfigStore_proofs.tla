-------------------------- MODULE ConfigStore_proofs --------------------------
(***************************************************************************)
(* ConfigStore for any configurations, any range of sequence numbers and   *)
(* any number of faults: the two slots are one register, and what the      *)
(* master tells of it is true.                                             *)
(***************************************************************************)
EXTENDS ConfigStore, TLAPS

-----------------------------------------------------------------------------
(* Sequence numbers *)

Succ(a) == (a + 1) % SeqMod

LEMMA SuccIs ==
  ASSUME StoreAssumption, NEW a \in Seqs
  PROVE  Succ(a) = IF a = SeqMod - 1 THEN 0 ELSE a + 1
BY DEF StoreAssumption, Seqs, Succ

\* A remainder where the quotient is 0 or -1.
LEMMA Remainder ==
  ASSUME StoreAssumption, NEW x \in Int, -SeqMod <= x, x < SeqMod
  PROVE  x % SeqMod = IF x >= 0 THEN x ELSE x + SeqMod
BY DEF StoreAssumption

\* The number a save takes is newer than the one before it and never the other way
\* round, also where it wraps.
LEMMA SuccNewer ==
  ASSUME StoreAssumption, NEW a \in Seqs
  PROVE  Succ(a) \in Seqs /\ Newer(Succ(a), a) /\ ~Newer(a, Succ(a))
<1>1. SeqMod \in Nat /\ SeqMod >= 4 /\ a \in 0 .. SeqMod - 1
  BY DEF StoreAssumption, Seqs
<1>2. Succ(a) \in Seqs
  BY <1>1, SuccIs DEF Seqs
<1>3. (Succ(a) - a) % SeqMod = 1
  <2>1. Succ(a) - a \in {1, 1 - SeqMod}
    BY <1>1, SuccIs
  <2> QED
    BY <1>1, <2>1, Remainder
<1>4. (a - Succ(a)) % SeqMod = SeqMod - 1
  <2>1. a - Succ(a) \in {-1, SeqMod - 1}
    BY <1>1, SuccIs
  <2> QED
    BY <1>1, <2>1, Remainder
<1>5. 1 \in 1 .. SeqMod \div 2 - 1 /\ SeqMod - 1 \notin 1 .. SeqMod \div 2 - 1
  BY <1>1
<1> QED
  BY <1>2, <1>3, <1>4, <1>5 DEF Newer

-----------------------------------------------------------------------------
(* Types *)

LEMMA PickType == TypeOK => Pick \in {-1, 0, 1} /\ (Pick # -1 => eeprom[Pick] \in Record)
BY DEF TypeOK, Pick, Slots

LEMMA TargetType == ASSUME StoreAssumption, TypeOK PROVE Target \in Slots /\ NewRecord \in Record
<1>1. (cfg_seq + 1) % SeqMod \in Seqs
  BY SuccNewer DEF TypeOK, Succ
<1> QED
  BY <1>1 DEF Target, NewRecord, Slots, Record, TypeOK

LEMMA StepType == ASSUME StoreAssumption, TypeOK, [Next]_vars PROVE TypeOK'
<1>1. CASE CfgLoad
  BY <1>1, PickType DEF CfgLoad, TypeOK, StoreAssumption, Record, Slots
<1>2. ASSUME NEW c \in Configs, Edit(c) \/ CfgCommit(c) PROVE TypeOK'
  BY <1>2 DEF Edit, CfgCommit, TypeOK
<1>3. CASE Save
  BY <1>3 DEF Save, TypeOK, ram
<1>4. CASE SaveBegins \/ SaveEnds
  BY <1>4, TargetType DEF SaveBegins, SaveEnds, TypeOK, ram
<1>5. CASE SaveFails
  BY <1>5 DEF SaveFails, TypeOK, ram
<1>6. CASE ReadBack
  BY <1>6, TargetType DEF ReadBack, TypeOK, Record
<1>7. CASE PowerCut \/ CompactionCut
  <2>1. eeprom' \in [Slots -> Record \cup {Bad}]
    <3>1. CASE PowerCut
      BY <3>1 DEF PowerCut, TypeOK
    <3>2. CASE CompactionCut
      BY <3>2 DEF CompactionCut, TypeOK
    <3> QED
      BY <1>7, <3>1, <3>2
  <2>2. Restart
    BY <1>7 DEF PowerCut, CompactionCut
  <2>3. 0 \in Seqs
    BY DEF StoreAssumption, Seqs
  <2> QED
    BY <2>1, <2>2, <2>3 DEF Restart, TypeOK, StoreAssumption
<1>8. CASE UNCHANGED vars
  BY <1>8 DEF vars, TypeOK
<1> QED
  BY <1>1, <1>2, <1>3, <1>4, <1>5, <1>6, <1>7, <1>8 DEF Next

LEMMA InitType == ASSUME StoreAssumption, Init PROVE TypeOK
<1>1. ASSUME NEW c \in Configs, NEW n \in Seqs
      PROVE  /\ [s \in Slots |-> Bad] \in [Slots -> Record \cup {Bad}]
             /\ [s \in Slots |-> IF s = 0 THEN [seq |-> n, block |-> c] ELSE Bad]
                  \in [Slots -> Record \cup {Bad}]
  BY DEF Record
<1>2. eeprom \in [Slots -> Record \cup {Bad}]
  BY <1>1 DEF Init
<1>3. 0 \in Seqs
  BY DEF StoreAssumption, Seqs
<1> QED
  BY <1>2, <1>3 DEF Init, TypeOK, StoreAssumption

\* TypeOK: the saved configuration and what is told of it keep their types.
THEOREM TypeCorrect == ASSUME StoreAssumption PROVE Spec => []TypeOK
<1>1. Init => TypeOK
  BY InitType
<1>2. TypeOK /\ [Next]_vars => TypeOK'
  BY StepType
<1> QED
  BY <1>1, <1>2, PTL DEF Spec

-----------------------------------------------------------------------------
(* The slots *)

\* Of two records one was saved right after the other.
Ranked(e) ==
  e[0] # Bad /\ e[1] # Bad => e[0].seq = Succ(e[1].seq) \/ e[1].seq = Succ(e[0].seq)

\* The slot cfg_slot names holds the record the master has loaded or saved last.
Held(e) ==
  IF cfg_slot = -1 THEN e[1] = Bad ELSE e[cfg_slot] # Bad /\ e[cfg_slot].seq = cfg_seq

SlotInv ==
  /\ Ranked(eeprom)
  /\ IF pc = "off" THEN cfg_slot = -1 ELSE Held(eeprom)
  /\ pc \in {"run", "start"} => cfg_slot = Pick
  /\ pc = "write" => eeprom[Target] = Bad
  /\ pc = "check" => eeprom[Target] \in {Bad, NewRecord}

\* What a boot takes of the slots e.
PickIn(e) ==
  CASE e[0] # Bad /\ e[1] # Bad -> IF Newer(e[1].seq, e[0].seq) THEN 1 ELSE 0
    [] e[0] # Bad /\ e[1] = Bad -> 0
    [] e[0] = Bad /\ e[1] # Bad -> 1
    [] OTHER -> -1

LEMMA PickIs == Pick = PickIn(eeprom) /\ Pick' = PickIn(eeprom')
BY DEF Pick, PickIn

\* Without the slot being written a boot takes the old record, ...
LEMMA PickOld ==
  ASSUME TypeOK, NEW e \in [Slots -> Record \cup {Bad}], Held(e), e[Target] = Bad
  PROVE  PickIn(e) = cfg_slot
BY DEF TypeOK, Slots, Held, Target, PickIn

\* ... and with it the new one.
LEMMA PickNew ==
  ASSUME StoreAssumption, TypeOK, NEW e \in [Slots -> Record \cup {Bad}], Held(e),
         e[Target] = NewRecord
  PROVE  PickIn(e) = Target /\ Ranked(e)
<1>1. NewRecord # Bad /\ NewRecord.seq = Succ(cfg_seq) /\ NewRecord \in Record
  BY TargetType DEF StoreAssumption, NewRecord, Succ
<1>2. Newer(Succ(cfg_seq), cfg_seq) /\ ~Newer(cfg_seq, Succ(cfg_seq))
  BY SuccNewer DEF TypeOK
<1>3. CASE cfg_slot = -1
  BY <1>1, <1>3 DEF Held, Target, PickIn, Ranked
<1>4. CASE cfg_slot = 0
  BY <1>1, <1>2, <1>4 DEF Held, Target, PickIn, Ranked
<1>5. CASE cfg_slot = 1
  BY <1>1, <1>2, <1>5 DEF Held, Target, PickIn, Ranked
<1> QED
  BY <1>3, <1>4, <1>5 DEF TypeOK, Slots

LEMMA SlotInit == ASSUME StoreAssumption, Init PROVE SlotInv
<1>1. eeprom[1] = Bad
  BY DEF Init, Slots
<1> QED
  BY <1>1 DEF Init, SlotInv, Ranked

LEMMA SlotStep == ASSUME StoreAssumption, TypeOK, SlotInv, [Next]_vars PROVE SlotInv'
<1>1. CASE CfgLoad
  <2>1. UNCHANGED eeprom /\ pc = "off" /\ pc' = "run"
    BY <1>1 DEF CfgLoad
  <2>2. cfg_slot' = Pick
    <3>1. pc = "off" => cfg_slot = -1
      BY DEF SlotInv
    <3> QED
      BY <1>1, <3>1 DEF CfgLoad
  <2> QED
    BY <1>1, <2>1, <2>2 DEF CfgLoad, SlotInv, Held, Pick
<1>2. ASSUME NEW c \in Configs, Edit(c) \/ CfgCommit(c) PROVE SlotInv'
  BY <1>2 DEF Edit, CfgCommit, SlotInv, Held, Pick
<1>3. CASE Save
  BY <1>3 DEF Save, ram, SlotInv, Held, Pick
<1>4. CASE SaveBegins
  <2>1. Target \in Slots /\ eeprom' = [eeprom EXCEPT ![Target] = Bad]
        /\ eeprom \in [Slots -> Record \cup {Bad}]
    BY <1>4, TargetType DEF SaveBegins, TypeOK
  <2>2. eeprom'[Target] = Bad
    BY <2>1
  <2>3. Ranked(eeprom)'
    BY <2>1 DEF Ranked, Slots, SlotInv
  <2>4. Held(eeprom')
    BY <1>4, <2>1 DEF SlotInv, SaveBegins, Held, Target, Slots, TypeOK
  <2> QED
    BY <1>4, <2>2, <2>3, <2>4 DEF SaveBegins, ram, SlotInv, Target, Held
<1>5. CASE SaveEnds
  <2>1. Target \in Slots /\ eeprom' = [eeprom EXCEPT ![Target] = NewRecord]
        /\ eeprom \in [Slots -> Record \cup {Bad}] /\ NewRecord \in Record
    BY <1>5, TargetType DEF SaveEnds, TypeOK
  <2>2. eeprom'[Target] = NewRecord /\ eeprom' \in [Slots -> Record \cup {Bad}]
    BY <2>1
  <2>3. Held(eeprom')
    BY <1>5, <2>1 DEF SlotInv, SaveEnds, Held, Target, Slots, TypeOK
  <2>4. Ranked(eeprom')
    BY <2>2, <2>3, PickNew
  <2> QED
    BY <1>5, <2>2, <2>3, <2>4 DEF SaveEnds, ram, SlotInv, Target, Held, NewRecord, Ranked
<1>6. CASE SaveFails
  BY <1>6 DEF SaveFails, ram, SlotInv, Held, Target
<1>7. CASE ReadBack
  <2>1. Held(eeprom) /\ eeprom[Target] \in {Bad, NewRecord} /\ Ranked(eeprom)
        /\ eeprom \in [Slots -> Record \cup {Bad}] /\ Target \in Slots
    BY <1>7, TargetType DEF ReadBack, SlotInv, TypeOK
  <2>2. UNCHANGED <<eeprom, cfg_block>> /\ pc' = "run"
    BY <1>7 DEF ReadBack
  <2>3. CASE eeprom[Target] = NewRecord
    <3>1. cfg_slot' = Target /\ cfg_seq' = NewRecord.seq
      BY <1>7, <2>3 DEF ReadBack
    <3>2. Pick' = Target
      BY <2>1, <2>2, <2>3, PickNew, PickIs
    <3>3. NewRecord # Bad /\ Target # -1
      BY <2>1, TargetType DEF StoreAssumption, Slots
    <3> QED
      BY <2>1, <2>2, <2>3, <3>1, <3>2, <3>3 DEF SlotInv, Held, Ranked
  <2>4. CASE eeprom[Target] = Bad
    <3>1. UNCHANGED <<cfg_slot, cfg_seq>>
      BY <1>7, <2>4, TargetType DEF ReadBack, StoreAssumption
    <3>2. Pick' = cfg_slot
      BY <2>1, <2>2, <2>4, PickOld, PickIs
    <3> QED
      BY <2>1, <2>2, <3>1, <3>2 DEF SlotInv, Held, Ranked
  <2> QED
    BY <2>1, <2>3, <2>4
<1>8. CASE PowerCut
  BY <1>8 DEF PowerCut, Restart, SlotInv, Ranked
<1>9. CASE CompactionCut
  <2>1. \A s \in Slots : eeprom'[s] \in {Bad, eeprom[s]}
    BY <1>9 DEF CompactionCut
  <2>2. Ranked(eeprom')
    BY <2>1 DEF Ranked, SlotInv, Slots
  <2> QED
    BY <1>9, <2>2 DEF CompactionCut, Restart, SlotInv, Ranked
<1>10. CASE UNCHANGED vars
  BY <1>10 DEF vars, SlotInv, Held, Pick, Target, NewRecord, Ranked
<1> QED
  BY <1>1, <1>2, <1>3, <1>4, <1>5, <1>6, <1>7, <1>8, <1>9, <1>10 DEF Next
-----------------------------------------------------------------------------
(* What is told of them *)

FlagInv ==
  /\ pc # "off" => (cfg_was_reset <=> cfg_slot = -1)
  /\ pc = "off" => ~cfg_was_reset
  /\ pc # "off" /\ ~cfg_unsaved => Stored = cfg_block

StoreInv == TypeOK /\ SlotInv /\ FlagInv

StoredIn(e) == IF PickIn(e) = -1 THEN Defaults ELSE e[PickIn(e)].block

LEMMA StoredIs == Stored = StoredIn(eeprom) /\ Stored' = StoredIn(eeprom')
BY PickIs DEF Stored, StoredIn

LEMMA StoredType == ASSUME StoreAssumption, TypeOK PROVE Stored \in Configs
BY PickType DEF Stored, Record, StoreAssumption

\* A save changes what a boot would find at its last byte, and only to the copy.
LEMMA BeginsStored ==
  ASSUME StoreAssumption, TypeOK, SlotInv, SaveBegins
  PROVE  Stored' = Stored
<1>1. Target \in Slots /\ eeprom \in [Slots -> Record \cup {Bad}]
      /\ eeprom' = [eeprom EXCEPT ![Target] = Bad]
  BY TargetType DEF SaveBegins, TypeOK
<1>2. Held(eeprom) /\ PickIn(eeprom) = cfg_slot
  BY PickIs DEF SaveBegins, SlotInv
<1>3. Held(eeprom') /\ eeprom'[Target] = Bad
      /\ (cfg_slot # -1 => eeprom'[cfg_slot] = eeprom[cfg_slot])
  BY <1>1, <1>2 DEF Held, Target, Slots, TypeOK
<1>4. eeprom' \in [Slots -> Record \cup {Bad}]
  BY <1>1
<1>5. PickIn(eeprom') = cfg_slot
  BY <1>3, <1>4, PickOld
<1> QED
  BY <1>2, <1>3, <1>5, StoredIs DEF StoredIn

LEMMA EndsStored ==
  ASSUME StoreAssumption, TypeOK, SlotInv, SaveEnds
  PROVE  Stored' = cfg_block
<1>1. Target \in Slots /\ eeprom \in [Slots -> Record \cup {Bad}] /\ NewRecord \in Record
      /\ eeprom' = [eeprom EXCEPT ![Target] = NewRecord]
  BY TargetType DEF SaveEnds, TypeOK
<1>2. Held(eeprom')
  BY <1>1 DEF SlotInv, SaveEnds, Held, Target, Slots, TypeOK
<1>3. eeprom'[Target] = NewRecord /\ eeprom' \in [Slots -> Record \cup {Bad}]
  BY <1>1
<1>4. PickIn(eeprom') = Target
  BY <1>2, <1>3, PickNew
<1>5. Target # -1
  BY <1>1 DEF Slots
<1> QED
  BY <1>3, <1>4, <1>5, StoredIs DEF StoredIn, NewRecord

LEMMA FlagStep == ASSUME StoreAssumption, StoreInv, [Next]_vars PROVE FlagInv'
<1>0. TypeOK /\ SlotInv /\ FlagInv
  BY DEF StoreInv
<1>a. eeprom' = eeprom => Stored' = Stored
  BY StoredIs
<1>1. CASE CfgLoad
  <2>1. Stored' = cfg_block' /\ pc' = "run"
    BY <1>1, <1>a DEF CfgLoad, Stored
  <2>2. cfg_was_reset' <=> cfg_slot' = -1
    BY <1>0, <1>1 DEF CfgLoad, SlotInv, FlagInv
  <2> QED
    BY <2>1, <2>2 DEF FlagInv
<1>2. ASSUME NEW c \in Configs, Edit(c) \/ CfgCommit(c) PROVE FlagInv'
  BY <1>0, <1>2 DEF Edit, CfgCommit, FlagInv
<1>3. CASE Save \/ SaveFails
  BY <1>0, <1>3, <1>a DEF Save, SaveFails, ram, FlagInv
<1>4. CASE SaveBegins
  BY <1>0, <1>4, BeginsStored DEF SaveBegins, ram, FlagInv
<1>5. CASE SaveEnds
  BY <1>0, <1>5, EndsStored DEF SaveEnds, ram, FlagInv
<1>6. CASE ReadBack
  <2>1. UNCHANGED <<eeprom, cfg_block>> /\ pc = "check" /\ pc' = "run" /\ Stored' = Stored
    BY <1>6, <1>a DEF ReadBack
  <2>2. CASE eeprom[Target] = NewRecord
    <3>1. PickIn(eeprom) = Target /\ Target \in Slots
      BY <1>0, <2>1, <2>2, PickNew, TargetType DEF SlotInv, TypeOK
    <3>2. Stored = cfg_block
      BY <2>2, <3>1, StoredIs DEF StoredIn, NewRecord, Slots
    <3>3. cfg_slot' # -1 /\ ~cfg_was_reset'
      BY <1>6, <2>2, <3>1 DEF ReadBack, Slots
    <3> QED
      BY <2>1, <3>2, <3>3 DEF FlagInv
  <2>3. CASE eeprom[Target] # NewRecord
    BY <1>0, <1>6, <2>1, <2>3 DEF ReadBack, FlagInv
  <2> QED
    BY <2>2, <2>3
<1>7. CASE PowerCut \/ CompactionCut
  BY <1>7 DEF PowerCut, CompactionCut, Restart, FlagInv
<1>8. CASE UNCHANGED vars
  BY <1>0, <1>8, <1>a DEF vars, FlagInv
<1> QED
  BY <1>1, <1>2, <1>3, <1>4, <1>5, <1>6, <1>7, <1>8 DEF Next

LEMMA InvKept == ASSUME StoreAssumption PROVE Spec => []StoreInv
<1>1. Init => StoreInv
  BY InitType, SlotInit DEF StoreInv, Init, FlagInv
<1>2. StoreInv /\ [Next]_vars => StoreInv'
  BY StepType, SlotStep, FlagStep DEF StoreInv
<1> QED
  BY <1>1, <1>2, PTL DEF Spec

\* UnsavedIsTold: a master that does not report unsaved edits comes back from a power
\* cut with the configuration it is using (cfg_unsaved).
THEOREM UnsavedAlwaysTold == ASSUME StoreAssumption PROVE Spec => []UnsavedIsTold
<1>1. StoreInv => UnsavedIsTold
  BY DEF StoreInv, FlagInv, UnsavedIsTold
<1> QED
  BY <1>1, InvKept, PTL

\* ResetIsTold: the reset flag stands exactly as long as a boot would find no valid
\* record (cfg_was_reset).
THEOREM ResetAlwaysTold == ASSUME StoreAssumption PROVE Spec => []ResetIsTold
<1>1. StoreInv => ResetIsTold
  BY DEF StoreInv, FlagInv, SlotInv, ResetIsTold
<1> QED
  BY <1>1, InvKept, PTL

-----------------------------------------------------------------------------
(* One register *)

LEMMA RegisterStep ==
  ASSUME StoreAssumption, StoreInv, StoreInv', [Next]_vars
  PROVE  [Abstract!Next]_(Abstract!vars)
<1> DEFINE on == pc # "off"
<1>0. TypeOK /\ SlotInv /\ Stored \in Configs /\ Stored' \in Configs
  <2>1. TypeOK /\ TypeOK' /\ SlotInv
    BY DEF StoreInv
  <2>2. Pick' \in {-1, 0, 1} /\ (Pick' # -1 => eeprom'[Pick'] \in Record)
    BY <2>1 DEF TypeOK, Pick, Slots
  <2>3. Stored' \in Configs
    BY <2>2 DEF Stored, Record, StoreAssumption
  <2> QED
    BY <2>1, <2>3, StoredType
<1>a. eeprom' = eeprom => Stored' = Stored
  BY StoredIs
<1>1. CASE CfgLoad
  <2>1. cfg_block' = Stored
    BY <1>1 DEF CfgLoad, Stored
  <2>2. Abstract!Boot
    BY <1>1, <1>a, <2>1 DEF CfgLoad, Abstract!Boot
  <2> QED
    BY <2>2 DEF Abstract!Next
<1>2. ASSUME NEW c \in Configs, Edit(c) \/ CfgCommit(c) PROVE Abstract!Next
  <2>1. Abstract!Edit(c)
    BY <1>2, <1>a DEF Edit, CfgCommit, Abstract!Edit
  <2> QED
    BY <2>1 DEF Abstract!Next
<1>3. CASE Save \/ SaveFails
  BY <1>3, <1>a DEF Save, SaveFails, ram, Abstract!vars
<1>4. CASE SaveBegins
  BY <1>0, <1>4, BeginsStored DEF SaveBegins, ram, Abstract!vars
\* The register is set where the slot's last byte is.
<1>5. CASE SaveEnds
  <2>1. Abstract!Save
    BY <1>0, <1>5, EndsStored DEF SaveEnds, ram, Abstract!Save
  <2> QED
    BY <2>1 DEF Abstract!Next
<1>6. CASE ReadBack
  BY <1>6, <1>a DEF ReadBack, Abstract!vars
<1>7. CASE PowerCut
  <2>1. Abstract!Off
    BY <1>7, <1>a DEF PowerCut, Restart, Abstract!Off
  <2> QED
    BY <2>1 DEF Abstract!Next
<1>8. CASE CompactionCut
  <2>1. Abstract!Lose(Stored')
    BY <1>8 DEF CompactionCut, Saving, Restart, Abstract!Lose
  <2> QED
    BY <1>0, <2>1 DEF Abstract!Next
<1>9. CASE UNCHANGED vars
  BY <1>9, <1>a DEF vars, Abstract!vars
<1> QED
  BY <1>1, <1>2, <1>3, <1>4, <1>5, <1>6, <1>7, <1>8, <1>9 DEF Next

\* RegisterSpec: the two slots are one register, a power cut anywhere in a save
\* included (cfgLoad, cfgSave).
THEOREM ImplementsRegister == ASSUME StoreAssumption PROVE Spec => RegisterSpec
<1>1. Init => Abstract!Init
  <2>1. ASSUME Init PROVE Stored \in Configs
    BY <2>1, InitType, StoredType
  <2> QED
    BY <2>1 DEF Init, Abstract!Init
<1>2. StoreInv /\ StoreInv' /\ [Next]_vars => [Abstract!Next]_(Abstract!vars)
  BY RegisterStep
<1> QED
  BY <1>1, <1>2, InvKept, PTL DEF Spec, RegisterSpec, Abstract!Spec
=============================================================================
