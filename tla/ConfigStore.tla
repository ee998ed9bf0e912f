----------------------------- MODULE ConfigStore -----------------------------
(***************************************************************************)
(* The master's saved configuration (firmware/master/master.ino): the copy *)
(* in RAM, its record in two EEPROM slots, and power cut anywhere in a     *)
(* save.                                                                   *)
(*                                                                         *)
(* A record is its sequence number and its block; a slot whose magic,      *)
(* version, CRC or values do not check is Bad.  The CRC is taken to be     *)
(* exact: a record of which only some bytes are written is Bad.  Sequence  *)
(* numbers wrap, and are compared by their signed difference.              *)
(***************************************************************************)
EXTENDS Integers

CONSTANTS
  Configs,    \* values of cfg_block
  Defaults,   \* cfgDefaults
  Bad,        \* a slot without a valid record
  SeqMod,     \* 2^16 in the code
  MaxFaults   \* bound: writes that the read-back finds wrong

Slots == {0, 1}
Seqs  == 0 .. SeqMod - 1
Record == [seq : Seqs, block : Configs]

ASSUME StoreAssumption ==
  /\ Defaults \in Configs
  /\ Bad \notin Record
  /\ SeqMod \in Nat /\ SeqMod >= 4
  /\ MaxFaults \in Nat

VARIABLES
  eeprom,     \* the two slots
  pc,         \* off, run, or where cfgSave is: start, write, check
  cfg_block,
  cfg_seq,
  cfg_slot,
  cfg_unsaved,
  cfg_was_reset,
  faults      \* failed writes so far

ram  == <<cfg_block, cfg_seq, cfg_slot, cfg_unsaved, cfg_was_reset>>
vars == <<eeprom, pc, cfg_block, cfg_seq, cfg_slot, cfg_unsaved, cfg_was_reset,
          faults>>

Init ==
  /\ \E c \in Configs, n \in Seqs :
       eeprom \in {[s \in Slots |-> Bad],
                   [s \in Slots |-> IF s = 0 THEN [seq |-> n, block |-> c] ELSE Bad]}
  /\ pc = "off"
  /\ cfg_block = Defaults
  /\ cfg_seq = 0
  /\ cfg_slot = -1
  /\ cfg_unsaved = FALSE
  /\ cfg_was_reset = FALSE
  /\ faults = 0

-----------------------------------------------------------------------------
(* cfgLoad *)

\* Mutant: sequence numbers are compared as they are.
NewerUnsigned(b, a) == b > a

\* (int16_t)(b - a) > 0
Newer(b, a) == (b - a) % SeqMod \in 1 .. SeqMod \div 2 - 1

\* The slot cfgLoad takes, or -1.
Pick ==
  CASE eeprom[0] # Bad /\ eeprom[1] # Bad ->
         IF Newer(eeprom[1].seq, eeprom[0].seq) THEN 1 ELSE 0
    [] eeprom[0] # Bad /\ eeprom[1] = Bad -> 0
    [] eeprom[0] = Bad /\ eeprom[1] # Bad -> 1
    [] OTHER -> -1

CfgLoad ==
  /\ pc = "off"
  /\ pc' = "run"
  /\ \/ /\ Pick = -1
        /\ cfg_block' = Defaults
        /\ cfg_was_reset' = TRUE
        /\ UNCHANGED <<cfg_seq, cfg_slot>>
     \/ /\ Pick # -1
        /\ cfg_block' = eeprom[Pick].block
        /\ cfg_seq' = eeprom[Pick].seq
        /\ cfg_slot' = Pick
        /\ UNCHANGED cfg_was_reset
  /\ UNCHANGED <<eeprom, cfg_unsaved, faults>>

-----------------------------------------------------------------------------
(* The copy and its save *)

\* The console's `S` and `F`.
Edit(c) ==
  /\ pc = "run"
  /\ cfg_block' = c
  /\ cfg_unsaved' = TRUE
  /\ UNCHANGED <<eeprom, pc, cfg_seq, cfg_slot, cfg_was_reset, faults>>

\* The console's `save`.
Save ==
  /\ pc = "run"
  /\ pc' = "start"
  /\ UNCHANGED <<eeprom, ram, faults>>

\* Mutant: the copy is not marked before the save.
CfgCommitUnmarked(c) ==
  /\ pc = "run"
  /\ cfg_block' = c
  /\ pc' = "start"
  /\ UNCHANGED <<eeprom, cfg_unsaved, cfg_seq, cfg_slot, cfg_was_reset, faults>>

\* USB Set config and both resets, up to the save.
CfgCommit(c) ==
  /\ pc = "run"
  /\ cfg_block' = c
  /\ cfg_unsaved' = TRUE
  /\ pc' = "start"
  /\ UNCHANGED <<eeprom, cfg_seq, cfg_slot, cfg_was_reset, faults>>

\* The slot that does not hold the newest record.
Target == IF cfg_slot = 0 THEN 1 ELSE 0

NewRecord == [seq |-> (cfg_seq + 1) % SeqMod, block |-> cfg_block]

\* EEPROM.update, byte by byte: from the first changed byte to the last one
\* the slot has no valid record.
SaveBegins ==
  /\ pc = "start"
  /\ pc' = "write"
  /\ eeprom' = [eeprom EXCEPT ![Target] = Bad]
  /\ UNCHANGED <<ram, faults>>

SaveEnds ==
  /\ pc = "write"
  /\ pc' = "check"
  /\ eeprom' = [eeprom EXCEPT ![Target] = NewRecord]
  /\ UNCHANGED <<ram, faults>>

SaveFails ==
  /\ pc = "write"
  /\ pc' = "check"
  /\ faults < MaxFaults
  /\ faults' = faults + 1
  /\ UNCHANGED <<eeprom, ram>>

\* Mutant: the flag is left standing by a save.
ReadBackFlagged ==
  /\ pc = "check"
  /\ pc' = "run"
  /\ \/ /\ eeprom[Target] = NewRecord
        /\ cfg_slot' = Target
        /\ cfg_seq' = NewRecord.seq
        /\ cfg_unsaved' = FALSE
        /\ UNCHANGED cfg_was_reset
     \/ /\ eeprom[Target] # NewRecord
        /\ UNCHANGED <<cfg_slot, cfg_seq, cfg_unsaved, cfg_was_reset>>
  /\ UNCHANGED <<eeprom, cfg_block, faults>>

\* The read-back: only a record that is there counts as saved.
ReadBack ==
  /\ pc = "check"
  /\ pc' = "run"
  /\ \/ /\ eeprom[Target] = NewRecord
        /\ cfg_slot' = Target
        /\ cfg_seq' = NewRecord.seq
        /\ cfg_unsaved' = FALSE
        /\ cfg_was_reset' = FALSE
     \/ /\ eeprom[Target] # NewRecord
        /\ UNCHANGED <<cfg_slot, cfg_seq, cfg_unsaved, cfg_was_reset>>
  /\ UNCHANGED <<eeprom, cfg_block, faults>>

-----------------------------------------------------------------------------
(* Power *)

Saving == pc \in {"start", "write"}

Restart ==
  /\ pc' = "off"
  /\ cfg_block' = Defaults
  /\ cfg_seq' = 0
  /\ cfg_slot' = -1
  /\ cfg_unsaved' = FALSE
  /\ cfg_was_reset' = FALSE
  /\ UNCHANGED faults

PowerCut ==
  /\ pc # "off"
  /\ Restart
  /\ UNCHANGED eeprom

\* The emulation is compacting a sector, in which both slots have bytes.
CompactionCut ==
  /\ Saving
  /\ Restart
  /\ \E lost \in SUBSET Slots :
       eeprom' = [s \in Slots |-> IF s \in lost THEN Bad ELSE eeprom[s]]

-----------------------------------------------------------------------------
Next ==
  \/ CfgLoad
  \/ \E c \in Configs : Edit(c) \/ CfgCommit(c)
  \/ Save
  \/ SaveBegins \/ SaveEnds \/ SaveFails
  \/ ReadBack
  \/ PowerCut
  \/ CompactionCut

Spec == Init /\ [][Next]_vars

-----------------------------------------------------------------------------
(* Properties *)

\* Every variable keeps its type.
TypeOK ==
  /\ eeprom \in [Slots -> Record \cup {Bad}]
  /\ pc \in {"off", "run", "start", "write", "check"}
  /\ cfg_block \in Configs
  /\ cfg_seq \in Seqs
  /\ cfg_slot \in Slots \cup {-1}
  /\ cfg_unsaved \in BOOLEAN
  /\ cfg_was_reset \in BOOLEAN
  /\ faults \in Nat

\* What a boot would load.
Stored == IF Pick = -1 THEN Defaults ELSE eeprom[Pick].block

\* A master that does not report unsaved edits comes back from a power cut
\* with the configuration it is using (cfg_unsaved, device info bit 3).
UnsavedIsTold == pc = "run" /\ ~cfg_unsaved => Stored = cfg_block

\* "Defaults, plus a 'config was reset' flag": it stands exactly as long as a
\* boot would find no valid record, whatever saves have failed meanwhile.
ResetIsTold == pc = "run" => (cfg_was_reset <=> Pick = -1)

\* "A power cut mid-save leaves the previous config intact" (master.ino), and a
\* finished save leaves the new one, also where the sequence number wraps: the
\* two slots are one register.
Abstract == INSTANCE ConfigRegister
  WITH on <- pc # "off", copy <- cfg_block, stored <- Stored
RegisterSpec == Abstract!Spec
=============================================================================
