----------------------------- MODULE PressDetect ------------------------------
(***************************************************************************)
(* Press detection in a panel (firmware/panel/c/main.c): core 0 samples    *)
(* the sensors and drives INT; core 1 tracks the tares, takes 'W', 'I' and *)
(* 'B' from the bus, and rebuilds the thresholds core 0 compares with.     *)
(*                                                                         *)
(* The cores interleave at the accesses to what they share: the pointer    *)
(* to the thresholds, each channel's, the pressed mask, the identify       *)
(* request and the hold flag.  Nothing is assumed of how their speeds      *)
(* compare but what the wait before a reboot takes for granted.  Time is   *)
(* counted in passes of core 0's loop.                                     *)
(***************************************************************************)
EXTENDS Calibration, FiniteSets

CONSTANTS
  N,               \* sensors are 1 .. N
  Raws,            \* raw counts a sample may be
  Steady,          \* bound: sensors that are ever steady for a tare window
  Means,           \* means such a window may have
  Configs,         \* panel configs 'W' may bring, valid or not
  Default,         \* the boot defaults
  TareDefault, TareEmptyMax, TareMax, TareMaxRise,
  Holdoff,         \* TARE_HOLDOFF_MS, in windows
  Persistence,     \* FSR_PERSISTENCE
  Debounce,        \* PRESS_DEBOUNCE_US = RELEASE_DEBOUNCE_US, in passes
  Pulse,           \* an identify pulse, in passes
  MaxMoves,        \* bound: windows that move a tare
  MaxOrders        \* bound: 'W' packets

Channels == 1 .. N
ChannelConfig == [press : Nat, rel : Nat, active : BOOLEAN]
Thresholds    == [press : Int, rel : Int, active : BOOLEAN]

ASSUME PressAssumption ==
  /\ N \in Nat \ {0}
  /\ Configs \subseteq [Channels -> ChannelConfig]
  /\ Default \in Configs /\ \A i \in Channels : ChannelValid(Default[i])
  /\ Raws \subseteq 0 .. AdcMax /\ Means \subseteq 0 .. AdcMax
  /\ Steady \subseteq Channels
  /\ TareDefault \in 0 .. TareMax /\ TareMax + CalMax <= AdcMax
  /\ TareEmptyMax \in Nat /\ TareMaxRise \in Nat /\ TareMax \in Nat
  /\ Persistence \in Nat \ {0} /\ Debounce \in Nat \ {0}
  /\ Pulse \in Nat \ {0} /\ Holdoff \in Nat
  /\ MaxMoves \in Nat /\ MaxOrders \in Nat

VARIABLES
  \* core 0
  at0,             \* AtStart, the sensor it samples next, AtPanel, AtClear or AtInt
  copy,            \* the copy of the thresholds this pass compares with
  pressed, streak,
  g_pressed_mask,
  panel_on,
  pending,         \* passes since the channels began to disagree with it, or NotPending
  ident_left,      \* passes of identify pulse to come
  g_int_asserted,
  \* core 1
  at1,             \* AtLoop, the field it fills next, AtSwap, AtWait or AtReboot
  g_cfg, g_tare, g_tare_set,
  quiet,           \* windows since a press was last seen
  g_int_enable, g_int_hold,
  \* both
  g_thr, g_thr_copy, g_ident_req,
  \* observers
  opposed,         \* passes in a row whose channels disagreed with panel_on
  held,            \* passes begun since g_int_hold was set
  asked,           \* an 'I' has come that INT has not shown yet
  moves, orders

core0  == <<at0, copy, pressed, streak, g_pressed_mask, panel_on, pending,
            ident_left, g_int_asserted, opposed>>
core1  == <<at1, g_cfg, g_tare, g_tare_set, quiet, g_int_enable, g_int_hold, moves,
            orders>>
shared == <<g_thr, g_thr_copy>>
vars   == <<core0, core1, shared, g_ident_req, held, asked>>

NotPending == -1
Fields     == 1 .. 3 * N

AtStart == 0
AtPanel == N + 1
AtClear == N + 2
AtInt   == N + 3

AtLoop   == 0
AtSwap   == 3 * N + 1
AtWait   == 3 * N + 2
AtReboot == 3 * N + 3

\* The raw counts of config cfg at the tares.
Raw(cfg, tare) ==
  [i \in Channels |-> [press  |-> CalToRaw(cfg[i].press, tare[i]),
                       rel    |-> CalToRaw(cfg[i].rel, tare[i]),
                       active |-> cfg[i].active]]

\* config_init_defaults
BootTare       == [i \in Channels |-> TareDefault]
BootThresholds == [c \in {1, 2} |-> Raw(Default, BootTare)]

\* main(): the cores start with INT released and the bus not yet begun.
Init ==
  /\ at0 = AtStart /\ copy = 1
  /\ pressed = [i \in Channels |-> FALSE] /\ streak = [i \in Channels |-> 0]
  /\ g_pressed_mask = {} /\ panel_on = FALSE /\ pending = NotPending
  /\ ident_left = 0 /\ g_int_asserted = FALSE
  /\ at1 = AtLoop /\ g_cfg = Default
  /\ g_tare = BootTare /\ g_tare_set = [i \in Channels |-> FALSE]
  /\ quiet = 0 /\ g_int_enable = FALSE /\ g_int_hold = FALSE
  /\ g_thr = 1 /\ g_thr_copy = BootThresholds
  /\ g_ident_req = FALSE /\ asked = FALSE
  /\ opposed = 0 /\ held = 0
  /\ moves = 0 /\ orders = 0

Smaller(a, b) == IF a < b THEN a ELSE b

-----------------------------------------------------------------------------
(* Core 0: fsr_loop *)

\* A pass reads the pointer once.
StartPass ==
  /\ at0 = AtStart /\ at0' = 1
  /\ copy' = g_thr
  /\ held' = IF g_int_hold THEN Smaller(held + 1, 2) ELSE 0
  /\ UNCHANGED <<pressed, streak, g_pressed_mask, panel_on, pending, ident_left,
                 g_int_asserted, opposed, core1, shared, g_ident_req, asked>>

\* Mutant: a sensor that is no longer used stays as it is.
WantsKept(i, v, th) ==
  IF ~th.active THEN pressed[i]
  ELSE IF pressed[i] THEN v > th.rel ELSE v >= th.press

\* What reading v of sensor i says of it, by thresholds th.
Wants(i, v, th) ==
  th.active /\ IF pressed[i] THEN v > th.rel ELSE v >= th.press

\* Sensor i reads v.  It changes when it has wanted to for Persistence samples; one
\* that is not in use is released at once.
Sample(i) ==
  \E v \in Raws :
    LET th    == g_thr_copy[copy][i]
        want  == Wants(i, v, th)
        holds == ~th.active \/ streak[i] + 1 >= Persistence
    IN
    /\ at0 = i /\ at0' = i + 1
    /\ pressed' = [pressed EXCEPT ![i] = IF holds THEN want ELSE @]
    /\ streak' = [streak EXCEPT ![i] = IF want # pressed[i] /\ ~holds THEN @ + 1 ELSE 0]
    /\ UNCHANGED <<copy, g_pressed_mask, panel_on, pending, ident_left,
                   g_int_asserted, opposed, core1, shared, g_ident_req, held, asked>>

\* Mutant: a wait that was broken off goes on where it stopped.
PendingKept(on) == IF on = panel_on THEN pending ELSE Smaller(pending + 1, Debounce)

\* How long the channels disagree with the panel once this pass, in which they say
\* on, is over: at Debounce the panel follows them.
Pending(on) == IF on = panel_on THEN NotPending ELSE pending + 1

\* Mutant: a request that comes while INT is asserted is taken for done.
PulseReleased ==
  IF g_ident_req /\ ~g_int_asserted THEN Pulse
  ELSE IF ident_left > 0 THEN ident_left - 1 ELSE 0

\* What is left of an identify pulse: a request starts it anew.
PulseLeft ==
  IF g_ident_req THEN Pulse ELSE IF ident_left > 0 THEN ident_left - 1 ELSE 0

\* Follows the sampling: the mask, the debounce, and an identify request.
Panel ==
  LET on   == \E i \in Channels : pressed[i]
      wait == Pending(on)
      goes == wait = Debounce
  IN
  /\ at0 = AtPanel /\ at0' = IF g_ident_req THEN AtClear ELSE AtInt
  /\ g_pressed_mask' = {i \in Channels : pressed[i]}
  /\ panel_on' = IF goes THEN on ELSE panel_on
  /\ pending' = IF goes THEN NotPending ELSE wait
  /\ ident_left' = PulseLeft
  /\ opposed' = IF on = panel_on' THEN 0 ELSE Smaller(opposed + 1, Debounce)
  /\ UNCHANGED <<copy, pressed, streak, g_int_asserted, core1, shared, g_ident_req,
                 held, asked>>

\* The request is cleared, also one that has come since it was read.
Clear ==
  /\ at0 = AtClear /\ at0' = AtInt
  /\ g_ident_req' = FALSE
  /\ UNCHANGED <<copy, pressed, streak, g_pressed_mask, panel_on, pending, ident_left,
                 g_int_asserted, opposed, core1, shared, held, asked>>

\* Mutant: INT follows the panel whatever core 1 asks.
AssertUnheld == g_int_enable /\ (panel_on \/ ident_left > 0)

Assert == g_int_enable /\ ~g_int_hold /\ (panel_on \/ ident_left > 0)

\* The pass ends: INT.
Drive ==
  /\ at0 = AtInt /\ at0' = AtStart
  /\ g_int_asserted' = Assert
  /\ asked' = (asked /\ ~Assert)
  /\ UNCHANGED <<copy, pressed, streak, g_pressed_mask, panel_on, pending, ident_left,
                 opposed, core1, shared, g_ident_req, held>>

-----------------------------------------------------------------------------
(* Core 1: the thresholds *)

Spare == 3 - g_thr

FieldOf(k)   == <<"press", "rel", "active">>[((k - 1) % 3) + 1]
ChannelOf(k) == ((k - 1) \div 3) + 1

\* thresholds_rebuild: one field of the spare copy at a time, then the pointer.
Fill(k) ==
  /\ at1 = k /\ at1' = k + 1
  /\ g_thr_copy' = [g_thr_copy EXCEPT ![Spare][ChannelOf(k)][FieldOf(k)] =
                      Raw(g_cfg, g_tare)[ChannelOf(k)][FieldOf(k)]]
  /\ UNCHANGED <<core0, g_cfg, g_tare, g_tare_set, quiet, g_int_enable, g_int_hold,
                 moves, orders, g_thr, g_ident_req, held, asked>>

Swap ==
  /\ at1 = AtSwap /\ at1' = AtLoop
  /\ g_thr' = Spare
  /\ UNCHANGED <<core0, g_cfg, g_tare, g_tare_set, quiet, g_int_enable, g_int_hold,
                 moves, orders, g_thr_copy, g_ident_req, held, asked>>

\* Mutant: a tare that moves leaves the thresholds where they were.
AfterTareLeft(changed) == AtLoop

AfterTare(changed) == IF changed THEN 1 ELSE AtLoop

\* The tare of sensor i after a steady window of mean m: down at once, up by a
\* sixteenth at least of a count and less than one, and not towards a foot.
Tares(i, m) ==
  IF m > TareMax THEN {g_tare[i]}
  ELSE IF ~g_tare_set[i] \/ m <= g_tare[i] \/ g_tare[i] <= TareEmptyMax THEN {m}
  ELSE IF m - g_tare[i] <= TareMaxRise THEN {g_tare[i], g_tare[i] + 1}
  ELSE {g_tare[i]}

\* tare_tick closes a window.  S: the sensors that were steady in it, mean: theirs.
TareTick ==
  \E S \in SUBSET Steady : \E mean \in [S -> Means] :
    LET q      == IF g_pressed_mask # {} THEN 0 ELSE Smaller(quiet + 1, Holdoff)
        judged == IF g_pressed_mask = {} /\ q >= Holdoff THEN S ELSE {}
    IN
    /\ at1 = AtLoop
    /\ quiet' = q
    /\ g_tare' \in {t \in [Channels -> {g_tare[i] : i \in Channels}
                                        \cup UNION {Tares(i, mean[i]) : i \in S}] :
                     \A i \in Channels : t[i] \in IF i \in judged THEN Tares(i, mean[i])
                                                                  ELSE {g_tare[i]}}
    /\ g_tare_set' = [i \in Channels |->
                        g_tare_set[i] \/ (i \in judged /\ mean[i] <= TareMax)]
    /\ IF g_tare' = g_tare THEN UNCHANGED moves
                           ELSE moves < MaxMoves /\ moves' = moves + 1
    /\ at1' = AfterTare(g_tare' # g_tare)
    /\ UNCHANGED <<core0, g_cfg, g_int_enable, g_int_hold, orders, shared,
                   g_ident_req, held, asked>>

-----------------------------------------------------------------------------
(* Core 1: the bus *)

\* 12 V is there and the DIP is a panel's: bus mode starts.
BusStart ==
  /\ at1 = AtLoop /\ ~g_int_enable
  /\ g_int_enable' = TRUE
  /\ UNCHANGED <<core0, at1, g_cfg, g_tare, g_tare_set, quiet, g_int_hold, moves,
                 orders, shared, g_ident_req, held, asked>>

\* Mutant: the channels are not looked at.
AcceptsAny(cfg) == TRUE

\* kp_panel_cfg_bad_channel finds none.
Accepts(cfg) == \A i \in Channels : ChannelValid(cfg[i])

\* 'W': a valid config is applied.
HandleW ==
  \E cfg \in Configs :
    /\ at1 = AtLoop /\ g_int_enable
    /\ orders < MaxOrders /\ orders' = orders + 1
    /\ IF Accepts(cfg) THEN g_cfg' = cfg /\ at1' = 1 ELSE UNCHANGED <<g_cfg, at1>>
    /\ UNCHANGED <<core0, g_tare, g_tare_set, quiet, g_int_enable, g_int_hold, moves,
                   shared, g_ident_req, held, asked>>

\* 'I', as often as the host likes: the pulse is core 0's to make.
HandleI ==
  /\ at1 = AtLoop /\ g_int_enable
  /\ g_ident_req' = TRUE /\ asked' = TRUE
  /\ UNCHANGED <<core0, core1, shared, held>>

\* reboot_into_bootloader: hold INT released, wait 100 us, reset.
Hold ==
  /\ at1 = AtLoop /\ g_int_enable
  /\ at1' = AtWait /\ g_int_hold' = TRUE
  /\ UNCHANGED <<core0, g_cfg, g_tare, g_tare_set, quiet, g_int_enable, moves, orders,
                 shared, g_ident_req, held, asked>>

\* A pass takes about 10 us, so two have begun in the wait: one is over.
Reboot ==
  /\ at1 = AtWait /\ held = 2
  /\ at1' = AtReboot
  /\ UNCHANGED <<core0, g_cfg, g_tare, g_tare_set, quiet, g_int_enable, g_int_hold,
                 moves, orders, shared, g_ident_req, held, asked>>

-----------------------------------------------------------------------------
Core0 ==
  /\ at1 # AtReboot
  /\ StartPass \/ (\E i \in Channels : Sample(i)) \/ Panel \/ Clear \/ Drive

Rebuild == (\E k \in Fields : Fill(k)) \/ Swap

Core1 ==
  \/ Rebuild \/ TareTick \/ BusStart \/ HandleW \/ HandleI \/ Hold \/ Reboot

Next == Core0 \/ Core1

Spec == Init /\ [][Next]_vars

\* Neither core waits: core 0 goes on with its passes, and core 1 with a rebuild it has
\* begun.
FairSpec == Spec /\ WF_vars(Core0) /\ WF_vars(Rebuild)

-----------------------------------------------------------------------------
(* Properties *)

TypeOK ==
  /\ at0 \in AtStart .. AtInt
  /\ copy \in {1, 2} /\ g_thr \in {1, 2}
  /\ pressed \in [Channels -> BOOLEAN] /\ streak \in [Channels -> 0 .. Persistence - 1]
  /\ g_pressed_mask \subseteq Channels
  /\ panel_on \in BOOLEAN /\ g_int_asserted \in BOOLEAN
  /\ pending \in {NotPending} \cup 0 .. Debounce - 1 /\ ident_left \in 0 .. Pulse
  /\ at1 \in AtLoop .. AtReboot
  /\ g_cfg \in Configs
  /\ g_tare \in [Channels -> 0 .. TareMax] /\ g_tare_set \in [Channels -> BOOLEAN]
  /\ quiet \in 0 .. Holdoff
  /\ g_int_enable \in BOOLEAN /\ g_int_hold \in BOOLEAN /\ g_ident_req \in BOOLEAN
  /\ g_thr_copy \in [{1, 2} -> [Channels -> Thresholds]]
  /\ asked \in BOOLEAN /\ opposed \in 0 .. Debounce /\ held \in 0 .. 2

\* Whatever core 1 is in the middle of, the copy core 0 is pointed to is whole, and
\* in it release is below press for every sensor, at every tare (thresholds_rebuild,
\* kp_cal_to_raw).
ReleaseBelowPress ==
  \A i \in Channels : g_thr_copy[g_thr][i].rel < g_thr_copy[g_thr][i].press

\* raw is the lowest count whose calibrated value reaches cal.
Lowest(raw, cal, tare) == RawToCal(raw, tare) >= cal /\ RawToCal(raw - 1, tare) < cal

\* No rebuild is forgotten or done from half of what changed: when core 1 is back in
\* its loop, core 0 compares with the config in use as a host does that reads
\* calibrated values at the tares of now (config_apply, tare_tick, kp_cal_to_raw).
HostAgrees ==
  at1 = AtLoop =>
    \A i \in Channels :
      LET th == g_thr_copy[g_thr][i]
          ch == g_cfg[i]
      IN
      /\ th.active = ch.active
      /\ Lowest(th.press, ch.press, g_tare[i])
      /\ ch.rel > 0 => Lowest(th.rel, ch.rel, g_tare[i])

\* A panel whose sensors are all taken out of use lets its INT line go for good,
\* whatever was pressed or on its way to be: every pass ends with it released, but
\* those of an identify pulse (fsr_loop).
DisabledReleases ==
  <>[](~g_int_hold /\ \A i \in Channels : ~g_cfg[i].active) =>
    <>[](~panel_on /\ (at0 = AtStart /\ g_int_asserted => ident_left > 0))

\* The panel changes only when its channels have said so in every pass for the
\* debounce time: neither a press nor a gap is shorter, through rebuilds and
\* sensors taken out of use (fsr_loop, PRESS_DEBOUNCE_US).
Debounced ==
  [][panel_on' # panel_on => opposed >= Debounce]_vars

\* A panel that reboots into its bootloader has let its INT line go
\* (reboot_into_bootloader).
RebootReleased == at1 = AtReboot => ~g_int_asserted

\* No identify order is lost: INT shows a pulse after it, also when another has just
\* been read and core 0 clears both requests (fsr_loop), unless the panel reboots.
IdentifyAnswered == asked ~> (~asked \/ g_int_hold)
=============================================================================
