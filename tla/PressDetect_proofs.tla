-------------------------- MODULE PressDetect_proofs --------------------------
(***************************************************************************)
(* PressDetect for any number of sensors, any configs, tares and debounce  *)
(* times, and any number of packets: the thresholds core 0 compares with   *)
(* are whole and mean what a host takes them to mean, and INT changes only *)
(* when it should.                                                         *)
(***************************************************************************)
EXTENDS PressDetect, TLAPS

-----------------------------------------------------------------------------
(* Calibration *)

LEMMA Division ==
  ASSUME NEW x \in Int, NEW d \in Nat \ {0}
  PROVE  /\ x \div d \in Int
         /\ d * (x \div d) <= x
         /\ x < d * (x \div d) + d
OBVIOUS

\* Rounded up: no less than the exact value, and less than one more.
LEMMA RoundedUp ==
  ASSUME CalAssumption, PressAssumption, NEW cal \in Nat, NEW tare \in 0 .. TareMax
  PROVE  /\ CalToRaw(cal, tare) \in Int
         /\ CalMax * (CalToRaw(cal, tare) - tare) >= cal * Span(tare)
         /\ CalMax * (CalToRaw(cal, tare) - tare) < cal * Span(tare) + CalMax
<1> DEFINE x == cal * Span(tare) + CalMax - 1
           q == x \div CalMax
<1>1. Span(tare) \in Int /\ CalMax \in Nat \ {0}
  BY DEF CalAssumption, PressAssumption, Span
<1>2. cal * Span(tare) \in Int
  BY <1>1
<1>3. q \in Int /\ CalMax * q <= x /\ x < CalMax * q + CalMax
  <2>1. x \in Int
    BY <1>1, <1>2
  <2> HIDE DEF x
  <2> QED
    BY <1>1, <2>1, Division
<1>4. CalToRaw(cal, tare) - tare = q /\ CalToRaw(cal, tare) \in Int
  BY <1>3 DEF CalToRaw
<1> QED
  BY <1>1, <1>2, <1>3, <1>4

LEMMA SpanIsWide ==
  ASSUME CalAssumption, PressAssumption, NEW tare \in 0 .. TareMax
  PROVE  Span(tare) \in Nat /\ Span(tare) >= CalMax /\ CalMax \in Nat \ {0}
BY DEF CalAssumption, PressAssumption, Span

\* A calibrated unit is a count at least, so what is apart stays apart.
LEMMA StaysBelow ==
  ASSUME CalAssumption, PressAssumption, NEW a \in Nat, NEW b \in Nat, a < b,
         NEW tare \in 0 .. TareMax
  PROVE  CalToRaw(a, tare) < CalToRaw(b, tare)
<1> DEFINE S == Span(tare)
           j == CalToRaw(a, tare) - tare
           k == CalToRaw(b, tare) - tare
<1>1. S \in Nat /\ S >= CalMax /\ CalMax \in Nat \ {0}
  BY SpanIsWide
<1>2. j \in Int /\ k \in Int /\ CalMax * j < a * S + CalMax /\ b * S <= CalMax * k
  BY RoundedUp
<1>3. (a + 1) * S <= b * S
  BY <1>1
<1>4. (a + 1) * S = a * S + S
  BY <1>1
<1> HIDE DEF S, j, k
<1>5. a * S \in Int /\ b * S \in Int /\ CalMax * j \in Int /\ CalMax * k \in Int
  BY <1>1, <1>2
<1>6. CalMax * j < CalMax * k
  BY <1>1, <1>2, <1>3, <1>4, <1>5
<1>7. j < k
  BY <1>1, <1>2, <1>6
<1> QED
  BY <1>7, RoundedUp DEF j, k

\* The quotient tells on which side of a multiple a number is.
LEMMA QuotientReaches ==
  ASSUME NEW x \in Int, NEW d \in Nat \ {0}, NEW q \in Int
  PROVE  q * d <= x <=> x \div d >= q
<1> DEFINE p == x \div d
<1>1. p \in Int /\ d * p <= x /\ x < d * p + d
  BY Division
<1> HIDE DEF p
<1>2. ASSUME p >= q PROVE q * d <= x
  <2>1. q * d <= d * p
    BY <1>1, <1>2
  <2> QED
    BY <1>1, <2>1
<1>3. ASSUME q * d <= x, ~(p >= q) PROVE FALSE
  <2>1. p + 1 <= q
    BY <1>1, <1>3
  <2>2. (p + 1) * d <= q * d
    BY <1>1, <2>1
  <2>3. (p + 1) * d = d * p + d
    BY <1>1
  <2> QED
    BY <1>1, <1>3, <2>2, <2>3
<1> QED
  BY <1>2, <1>3 DEF p

\* What rounding up gives is the lowest count that, rounded down, reaches the value.
LEMMA RoundingsAgree ==
  ASSUME CalAssumption, PressAssumption, NEW cal \in Nat, cal > 0,
         NEW tare \in 0 .. TareMax
  PROVE  Lowest(CalToRaw(cal, tare), cal, tare)
<1> DEFINE S == Span(tare)
           raw == CalToRaw(cal, tare)
           k == raw - tare
<1>1. S \in Nat \ {0} /\ CalMax \in Nat \ {0} /\ tare \in Nat
  BY SpanIsWide DEF PressAssumption
<1>2. raw \in Int /\ k \in Int /\ cal * S <= CalMax * k /\ CalMax * k < cal * S + CalMax
  BY <1>1, RoundedUp
<1> HIDE DEF S, raw
<1>3. cal * S > 0 /\ cal * S \in Int
  BY <1>1
<1>4. k >= 1
  BY <1>1, <1>2, <1>3
<1>5. raw >= tare /\ raw - 1 >= tare
  BY <1>1, <1>2, <1>4
<1>6. RawToCal(raw, tare) = ((raw - tare) * CalMax) \div S
  BY <1>5 DEF RawToCal, S
<1>7. RawToCal(raw - 1, tare) = ((raw - 1 - tare) * CalMax) \div S
  BY <1>5 DEF RawToCal, S
<1>8. (raw - tare) * CalMax \in Int /\ cal * S <= (raw - tare) * CalMax
  BY <1>1, <1>2
<1>9. (raw - 1 - tare) * CalMax \in Int /\ ~(cal * S <= (raw - 1 - tare) * CalMax)
  <2>1. (raw - 1 - tare) * CalMax = CalMax * k - CalMax
    BY <1>1, <1>2
  <2> QED
    BY <1>1, <1>2, <1>3, <2>1
<1>10. RawToCal(raw, tare) >= cal
  BY <1>1, <1>6, <1>8, QuotientReaches
<1>11. ~(RawToCal(raw - 1, tare) >= cal)
  BY <1>1, <1>7, <1>9, QuotientReaches
<1>12. RawToCal(raw - 1, tare) \in Int
  BY <1>1, <1>7, <1>9, Division
<1> QED
  BY <1>10, <1>11, <1>12 DEF Lowest, raw

-----------------------------------------------------------------------------
(* Types *)

LEMMA RawType ==
  ASSUME CalAssumption, PressAssumption, NEW cfg \in Configs,
         NEW tare \in [Channels -> 0 .. TareMax]
  PROVE  Raw(cfg, tare) \in [Channels -> Thresholds]
<1>1. cfg \in [Channels -> ChannelConfig]
  BY DEF PressAssumption
<1>2. ASSUME NEW i \in Channels
      PROVE  /\ CalToRaw(cfg[i].press, tare[i]) \in Int
             /\ CalToRaw(cfg[i].rel, tare[i]) \in Int
             /\ cfg[i].active \in BOOLEAN
  BY <1>1, RoundedUp DEF ChannelConfig
<1> QED
  BY <1>2 DEF Raw, Thresholds

LEMMA InitType == ASSUME CalAssumption, PressAssumption, Init PROVE TypeOK
<1>1. BootTare \in [Channels -> 0 .. TareMax] /\ Default \in Configs
  BY DEF PressAssumption, BootTare
<1>2. Raw(Default, BootTare) \in [Channels -> Thresholds]
  BY <1>1, RawType
<1>3. g_thr_copy \in [{1, 2} -> [Channels -> Thresholds]]
  BY <1>2 DEF Init, BootThresholds
<1>4. /\ at0 \in AtStart .. AtInt /\ at1 \in AtLoop .. AtReboot
      /\ pending \in {NotPending} \cup 0 .. Debounce - 1
      /\ streak \in [Channels -> 0 .. Persistence - 1]
  BY DEF Init, PressAssumption, AtStart, AtInt, AtLoop, AtReboot, NotPending
<1>5. ident_left \in 0 .. Pulse /\ quiet \in 0 .. Holdoff /\ opposed \in 0 .. Debounce
  BY DEF Init, PressAssumption
<1>6. /\ g_tare \in [Channels -> 0 .. TareMax] /\ g_cfg \in Configs
      /\ copy \in {1, 2} /\ g_thr \in {1, 2} /\ held \in 0 .. 2
  BY <1>1 DEF Init
<1>7. /\ pressed \in [Channels -> BOOLEAN] /\ g_tare_set \in [Channels -> BOOLEAN]
      /\ g_pressed_mask \subseteq Channels
      /\ panel_on \in BOOLEAN /\ g_int_asserted \in BOOLEAN
      /\ g_int_enable \in BOOLEAN /\ g_int_hold \in BOOLEAN /\ g_ident_req \in BOOLEAN
      /\ asked \in BOOLEAN
  BY DEF Init
<1> QED
  BY <1>3, <1>4, <1>5, <1>6, <1>7 DEF TypeOK

\* A tare window moves a tare within its range.
LEMMA TaresType ==
  ASSUME CalAssumption, PressAssumption, NEW i \in Channels, NEW m \in Means,
         g_tare \in [Channels -> 0 .. TareMax]
  PROVE  Tares(i, m) \subseteq 0 .. TareMax
BY DEF PressAssumption, Tares

LEMMA Core0Type ==
  ASSUME CalAssumption, PressAssumption, TypeOK, Core0
  PROVE  TypeOK'
<1> USE DEF TypeOK
<1>a. N \in Nat \ {0} /\ Persistence \in Nat \ {0} /\ Debounce \in Nat \ {0} /\ Pulse \in Nat \ {0}
  BY DEF PressAssumption
<1>1. CASE StartPass
  <2>1. held' \in 0 .. 2
    BY <1>1 DEF StartPass, Smaller
  <2>2. at0' \in AtStart .. AtInt /\ copy' \in {1, 2}
    BY <1>1, <1>a DEF StartPass, AtStart, AtInt
  <2> QED
    BY <1>1, <2>1, <2>2 DEF StartPass, core1, shared
<1>2. ASSUME NEW i \in Channels, Sample(i) PROVE TypeOK'
  <2>1. PICK v \in Raws :
          LET th    == g_thr_copy[copy][i]
              want  == Wants(i, v, th)
              holds == ~th.active \/ streak[i] + 1 >= Persistence
          IN /\ at0 = i /\ at0' = i + 1
             /\ pressed' = [pressed EXCEPT ![i] = IF holds THEN want ELSE @]
             /\ streak' = [streak EXCEPT ![i] = IF want # pressed[i] /\ ~holds THEN @ + 1 ELSE 0]
    BY <1>2 DEF Sample
  <2>2. at0' \in AtStart .. AtInt
    BY <2>1, <1>a DEF AtStart, AtInt, Channels
  <2>3. \A w \in Raws : Wants(i, w, g_thr_copy[copy][i]) \in BOOLEAN
    <3>1. g_thr_copy[copy][i].active \in BOOLEAN
      BY DEF Thresholds
    <3> QED
      BY <3>1 DEF Wants
  <2>4. pressed' \in [Channels -> BOOLEAN]
    BY <2>1, <2>3
  <2>5. streak' \in [Channels -> 0 .. Persistence - 1]
    <3>1. streak[i] + 1 >= Persistence \/ streak[i] + 1 \in 0 .. Persistence - 1
      BY <1>a
    <3>2. 0 \in 0 .. Persistence - 1
      BY <1>a
    <3> QED
      BY <2>1, <3>1, <3>2
  <2> QED
    BY <1>2, <2>2, <2>4, <2>5 DEF Sample, core1, shared
<1>3. CASE Panel
  <2>1. at0' \in AtStart .. AtInt
    BY <1>3, <1>a DEF Panel, AtStart, AtInt, AtClear
  <2>2. g_pressed_mask' \subseteq Channels /\ panel_on' \in BOOLEAN
    BY <1>3 DEF Panel
  <2>3. pending' \in {NotPending} \cup 0 .. Debounce - 1
    <3>1. PICK on \in BOOLEAN :
            pending' = IF Pending(on) = Debounce THEN NotPending ELSE Pending(on)
      BY <1>3 DEF Panel
    <3>2. pending \in Int /\ -1 <= pending /\ pending <= Debounce - 1
      BY <1>a DEF NotPending
    <3>3. Pending(on) \in Int /\ -1 <= Pending(on) /\ Pending(on) <= Debounce
      BY <1>a, <3>2 DEF Pending, NotPending
    <3> QED
      BY <1>a, <3>1, <3>3 DEF NotPending
  <2>4. ident_left' \in 0 .. Pulse
    BY <1>3, <1>a DEF Panel, PulseLeft
  <2>5. opposed' \in 0 .. Debounce
    <3>1. PICK on \in BOOLEAN :
            opposed' = IF on = panel_on' THEN 0 ELSE Smaller(opposed + 1, Debounce)
      BY <1>3 DEF Panel
    <3> QED
      BY <1>a, <3>1 DEF Smaller
  <2> QED
    BY <1>3, <2>1, <2>2, <2>3, <2>4, <2>5 DEF Panel, core1, shared
<1>4. CASE Clear
  <2>1. at0' \in AtStart .. AtInt
    BY <1>4, <1>a DEF Clear, AtStart, AtInt
  <2> QED
    BY <1>4, <2>1 DEF Clear, core1, shared
<1>5. CASE Drive
  <2>1. at0' \in AtStart .. AtInt
    BY <1>5, <1>a DEF Drive, AtStart, AtInt
  <2>2. g_int_asserted' \in BOOLEAN /\ asked' \in BOOLEAN
    BY <1>5 DEF Drive, Assert
  <2> QED
    BY <1>5, <2>1, <2>2 DEF Drive, core1, shared
<1> QED
  BY <1>1, <1>2, <1>3, <1>4, <1>5 DEF Core0

LEMMA Core1Type ==
  ASSUME CalAssumption, PressAssumption, TypeOK, Core1
  PROVE  TypeOK'
<1> USE DEF TypeOK
<1>a. N \in Nat \ {0} /\ Holdoff \in Nat
  BY DEF PressAssumption
<1>b. Raw(g_cfg, g_tare) \in [Channels -> Thresholds]
  BY RawType
<1>1. ASSUME NEW k \in Fields, Fill(k) PROVE TypeOK'
  <2>1. at1' \in AtLoop .. AtReboot
    BY <1>1, <1>a DEF Fill, AtLoop, AtReboot, Fields
  <2>2. ChannelOf(k) \in Channels /\ Spare \in {1, 2}
    BY <1>a DEF ChannelOf, Channels, Fields, Spare
  <2>3. FieldOf(k) \in {"press", "rel", "active"}
    <3>1. (k - 1) % 3 \in 0 .. 2
      BY DEF Fields
    <3> QED
      BY <3>1 DEF FieldOf
  <2>4. g_thr_copy' \in [{1, 2} -> [Channels -> Thresholds]]
    <3>1. Raw(g_cfg, g_tare)[ChannelOf(k)] \in Thresholds
      BY <1>b, <2>2
    <3>2. g_thr_copy[Spare][ChannelOf(k)] \in Thresholds
      BY <2>2
    <3>3. [g_thr_copy[Spare][ChannelOf(k)] EXCEPT
             ![FieldOf(k)] = Raw(g_cfg, g_tare)[ChannelOf(k)][FieldOf(k)]] \in Thresholds
      BY <2>3, <3>1, <3>2 DEF Thresholds
    <3> QED
      BY <1>1, <2>2, <3>3 DEF Fill
  <2> QED
    BY <1>1, <2>1, <2>4 DEF Fill, core0
<1>2. CASE Swap
  <2>1. at1' \in AtLoop .. AtReboot /\ g_thr' \in {1, 2}
    BY <1>2, <1>a DEF Swap, AtLoop, AtReboot, Spare
  <2> QED
    BY <1>2, <2>1 DEF Swap, core0
<1>3. CASE TareTick
  <2>1. at1' \in AtLoop .. AtReboot
    BY <1>3, <1>a DEF TareTick, AfterTare, AtLoop, AtReboot
  <2>2. quiet' \in 0 .. Holdoff
    BY <1>3, <1>a DEF TareTick, Smaller
  <2>3. g_tare' \in [Channels -> 0 .. TareMax]
    BY <1>3, TaresType DEF TareTick
  <2>4. g_tare_set' \in [Channels -> BOOLEAN]
    BY <1>3 DEF TareTick
  <2> QED
    BY <1>3, <2>1, <2>2, <2>3, <2>4 DEF TareTick, core0, shared
<1>4. CASE BusStart
  BY <1>4 DEF BusStart, core0, shared
<1>5. CASE HandleW
  <2>1. at1' \in AtLoop .. AtReboot /\ g_cfg' \in Configs
    BY <1>5, <1>a DEF HandleW, AtLoop, AtReboot
  <2> QED
    BY <1>5, <2>1 DEF HandleW, core0, shared
<1>6. CASE HandleI
  BY <1>6 DEF HandleI, core0, core1, shared
<1>7. CASE Hold
  <2>1. at1' \in AtLoop .. AtReboot
    BY <1>7, <1>a DEF Hold, AtWait, AtLoop, AtReboot
  <2> QED
    BY <1>7, <2>1 DEF Hold, core0, shared
<1>8. CASE Reboot
  <2>1. at1' \in AtLoop .. AtReboot
    BY <1>8, <1>a DEF Reboot, AtLoop, AtReboot
  <2> QED
    BY <1>8, <2>1 DEF Reboot, core0, shared
<1> QED
  BY <1>1, <1>2, <1>3, <1>4, <1>5, <1>6, <1>7, <1>8 DEF Core1, Rebuild

LEMMA StepType ==
  ASSUME CalAssumption, PressAssumption, TypeOK, [Next]_vars
  PROVE  TypeOK'
<1>1. CASE UNCHANGED vars
  BY <1>1 DEF TypeOK, vars, core0, core1, shared
<1> QED
  BY <1>1, Core0Type, Core1Type DEF Next

\* The variables keep their types, so passes, rebuilds, windows and the debounce stay in
\* their ranges for every number of sensors (fsr_loop, core1_main).
THEOREM TypeCorrect == ASSUME CalAssumption, PressAssumption PROVE Spec => []TypeOK
<1>1. Init => TypeOK
  BY InitType
<1>2. TypeOK /\ [Next]_vars => TypeOK'
  BY StepType
<1> QED
  BY <1>1, <1>2, PTL DEF Spec

-----------------------------------------------------------------------------
(* The debounce *)

\* The debounce counts what opposed observes.
DebounceInv == opposed = pending + 1

LEMMA DebounceStep ==
  ASSUME CalAssumption, PressAssumption, TypeOK, DebounceInv, [Next]_vars
  PROVE  DebounceInv' /\ (panel_on' # panel_on => opposed >= Debounce)
<1> USE DEF DebounceInv
<1>1. CASE Panel
  <2>1. PICK on \in BOOLEAN :
          /\ pending' = IF Pending(on) = Debounce THEN NotPending ELSE Pending(on)
          /\ panel_on' = IF Pending(on) = Debounce THEN on ELSE panel_on
          /\ opposed' = IF on = panel_on' THEN 0 ELSE Smaller(opposed + 1, Debounce)
    BY <1>1 DEF Panel
  <2>2. Debounce \in Nat \ {0} /\ pending \in Int /\ pending <= Debounce - 1
    BY DEF TypeOK, PressAssumption, NotPending
  <2>3. CASE on = panel_on
    BY <2>1, <2>2, <2>3 DEF Pending, NotPending
  <2>4. CASE on # panel_on /\ pending + 1 = Debounce
    BY <2>1, <2>2, <2>4 DEF Pending, NotPending
  <2>5. CASE on # panel_on /\ pending + 1 # Debounce
    BY <2>1, <2>2, <2>5 DEF Pending, NotPending, Smaller
  <2> QED
    BY <2>3, <2>4, <2>5
<1>2. CASE ~Panel
  <2>1. UNCHANGED <<pending, opposed, panel_on>>
    BY <1>2 DEF Next, Core0, StartPass, Sample, Clear, Drive, Core1, Rebuild, Fill, Swap,
                TareTick, BusStart, HandleW, HandleI, Hold, Reboot, core0, vars
  <2> QED
    BY <2>1
<1> QED
  BY <1>1, <1>2

\* Debounced: the panel changes only when its channels have said so in every pass for
\* the debounce time, however torn the thresholds a pass reads (fsr_loop).
THEOREM AlwaysDebounced == ASSUME CalAssumption, PressAssumption PROVE Spec => Debounced
<1>1. Init => DebounceInv
  BY DEF Init, DebounceInv, NotPending
<1>2. TypeOK /\ DebounceInv /\ [Next]_vars =>
        DebounceInv' /\ [panel_on' # panel_on => opposed >= Debounce]_vars
  BY DebounceStep
<1>3. Spec => []TypeOK
  BY TypeCorrect
<1> QED
  BY <1>1, <1>2, <1>3, PTL DEF Spec, Debounced

-----------------------------------------------------------------------------
(* INT before a reboot *)

\* A pass begun under g_int_hold ends with INT released, and so does every later one.
HoldInv ==
  /\ held > 0 => g_int_hold
  /\ held > 0 /\ at0 = AtStart => ~g_int_asserted
  /\ held = 2 => ~g_int_asserted
  /\ at1 = AtReboot => held = 2

LEMMA HoldStep ==
  ASSUME CalAssumption, PressAssumption, TypeOK, HoldInv, [Next]_vars
  PROVE  HoldInv'
<1> USE DEF HoldInv
<1>a. held \in 0 .. 2 /\ N \in Nat \ {0}
  BY DEF TypeOK, PressAssumption
<1>b. AtWait # AtReboot /\ AtLoop # AtReboot
  BY <1>a DEF AtWait, AtReboot, AtLoop
<1>1. CASE StartPass /\ at1 # AtReboot
  BY <1>1, <1>a DEF StartPass, Smaller, AtStart, core1
<1>2. ASSUME NEW i \in Channels, Sample(i) PROVE HoldInv'
  <2>1. at0' # AtStart
    BY <1>2 DEF Sample, Channels, AtStart
  <2> QED
    BY <1>2, <2>1 DEF Sample, core1
<1>3. CASE Panel
  <2>1. at0' # AtStart
    BY <1>3, <1>a DEF Panel, AtClear, AtInt, AtStart
  <2> QED
    BY <1>3, <2>1 DEF Panel, core1
<1>4. CASE Clear
  <2>1. at0' # AtStart
    BY <1>4, <1>a DEF Clear, AtInt, AtStart
  <2> QED
    BY <1>4, <2>1 DEF Clear, core1
<1>5. CASE Drive
  <2>1. held > 0 => ~Assert
    BY DEF Assert
  <2>2. g_int_asserted' = Assert /\ UNCHANGED <<held, at1, g_int_hold>>
    BY <1>5 DEF Drive, core1
  <2> QED
    BY <1>a, <2>1, <2>2
<1>6. ASSUME NEW k \in Fields, Fill(k) PROVE HoldInv'
  <2>1. at1' # AtReboot
    BY <1>6, <1>a DEF Fill, Fields, AtReboot
  <2> QED
    BY <1>6, <2>1 DEF Fill, core0
<1>7. CASE Swap
  BY <1>7, <1>b DEF Swap, core0
<1>8. CASE TareTick
  <2>1. at1' # AtReboot
    BY <1>8, <1>a DEF TareTick, AfterTare, AtLoop, AtReboot
  <2> QED
    BY <1>8, <2>1 DEF TareTick, core0
<1>9. CASE BusStart
  BY <1>9, <1>b DEF BusStart, core0
<1>10. CASE HandleW
  <2>1. at1' # AtReboot
    BY <1>10, <1>a DEF HandleW, AtLoop, AtReboot
  <2> QED
    BY <1>10, <2>1 DEF HandleW, core0
<1>11. CASE HandleI
  BY <1>11, <1>b DEF HandleI, core0, core1
<1>12. CASE Hold
  BY <1>12, <1>b DEF Hold, core0
<1>13. CASE Reboot
  BY <1>13 DEF Reboot, core0
<1>14. CASE UNCHANGED vars
  BY <1>14 DEF vars, core0, core1
<1> QED
  BY <1>1, <1>2, <1>3, <1>4, <1>5, <1>6, <1>7, <1>8, <1>9, <1>10, <1>11, <1>12, <1>13,
     <1>14 DEF Next, Core0, Core1, Rebuild

\* RebootReleased: a panel that reboots has let its INT line go
\* (reboot_into_bootloader).
THEOREM AlwaysRebootReleased ==
  ASSUME CalAssumption, PressAssumption PROVE Spec => []RebootReleased
<1>1. Init => HoldInv
  <2>1. AtLoop # AtReboot
    BY DEF PressAssumption, AtLoop, AtReboot
  <2> QED
    BY <2>1 DEF Init, HoldInv
<1>2. TypeOK /\ HoldInv /\ [Next]_vars => HoldInv'
  BY HoldStep
<1>3. HoldInv => RebootReleased
  BY DEF HoldInv, RebootReleased
<1>4. Spec => []TypeOK
  BY TypeCorrect
<1> QED
  BY <1>1, <1>2, <1>3, <1>4, PTL DEF Spec

-----------------------------------------------------------------------------
(* Identify orders *)

\* An order INT has not shown is still requested, or is shown when this pass ends.
OrderKept == asked /\ ~g_int_hold => g_ident_req \/ (at0 = AtInt /\ ident_left > 0)

\* Core 0 clears a request only when it has begun the pulse.
OrderInv ==
  /\ OrderKept
  /\ asked => g_int_enable
  /\ at0 = AtClear => ident_left > 0

\* Steps core 0 has to make before INT shows the order: those left of this pass, or,
\* when the order came too late for it, the whole of the next.
ToGo == IF at0 = AtInt /\ ident_left = 0 THEN AtInt + 1 ELSE AtInt - at0

AnswerNears ==
  asked /\ asked' /\ ~g_int_hold =>
    IF at0' = at0 THEN ToGo' = ToGo ELSE ToGo' < ToGo

LEMMA OrderStep ==
  ASSUME CalAssumption, PressAssumption, TypeOK, OrderInv, [Next]_vars
  PROVE  OrderInv' /\ AnswerNears
<1> DEFINE Goal == OrderInv' /\ AnswerNears
<1>0. /\ N \in Nat \ {0} /\ Pulse \in Nat \ {0} /\ at0 \in AtStart .. AtInt
      /\ ident_left \in 0 .. Pulse
  BY DEF TypeOK, PressAssumption
<1> USE DEF AtStart, AtPanel, AtClear, AtInt
<1>1. CASE StartPass
  <2>1. at0 = 0 /\ at0' = 1 /\ UNCHANGED <<asked, ident_left, g_ident_req, core1>>
    BY <1>1 DEF StartPass
  <2> QED
    BY <1>0, <2>1 DEF OrderInv, OrderKept, AnswerNears, ToGo, core1
<1>2. ASSUME NEW i \in Channels, Sample(i) PROVE Goal
  <2>1. /\ at0 = i /\ at0' = i + 1 /\ i \in 1 .. N
        /\ UNCHANGED <<asked, ident_left, g_ident_req, core1>>
    BY <1>2 DEF Sample, Channels
  <2> QED
    BY <1>0, <2>1 DEF OrderInv, OrderKept, AnswerNears, ToGo, core1
<1>3. CASE Panel
  <2>1. /\ at0 = N + 1 /\ at0' = IF g_ident_req THEN N + 2 ELSE N + 3
        /\ ident_left' = PulseLeft /\ UNCHANGED <<asked, g_ident_req, core1>>
    BY <1>3 DEF Panel
  <2>2. g_ident_req => ident_left' = Pulse
    BY <2>1 DEF PulseLeft
  <2>3. OrderInv'
    BY <1>0, <2>1, <2>2 DEF OrderInv, OrderKept, core1
  <2>4. AnswerNears
    BY <1>0, <2>1, <2>2 DEF OrderInv, OrderKept, AnswerNears, ToGo, core1
  <2> QED
    BY <2>3, <2>4
<1>4. CASE Clear
  <2>1. /\ at0 = N + 2 /\ at0' = N + 3 /\ ident_left > 0
        /\ UNCHANGED <<asked, ident_left, core1>>
    BY <1>4 DEF Clear, OrderInv
  <2> QED
    BY <1>0, <2>1 DEF OrderInv, OrderKept, AnswerNears, ToGo, core1
<1>5. CASE Drive
  <2>1. /\ at0 = N + 3 /\ at0' = 0 /\ (asked' <=> asked /\ ~Assert)
        /\ UNCHANGED <<ident_left, g_ident_req, core1>>
    BY <1>5 DEF Drive
  <2>2. asked' /\ ~g_int_hold => ident_left = 0 /\ g_ident_req
    BY <1>0, <2>1 DEF Assert, OrderInv, OrderKept
  <2>3. OrderInv'
    BY <1>0, <2>1, <2>2 DEF OrderInv, OrderKept, core1
  <2>4. AnswerNears
    BY <1>0, <2>1, <2>2 DEF AnswerNears, ToGo
  <2> QED
    BY <2>3, <2>4
<1>6. CASE HandleI
  BY <1>6 DEF HandleI, core0, core1, OrderInv, OrderKept, AnswerNears, ToGo
<1>7. CASE Hold \/ BusStart
  BY <1>7 DEF Hold, BusStart, core0, OrderInv, OrderKept, AnswerNears, ToGo
<1>8. CASE Rebuild \/ TareTick \/ HandleW \/ Reboot
  <2>1. UNCHANGED <<at0, ident_left, asked, g_ident_req, g_int_hold, g_int_enable>>
    BY <1>8 DEF Rebuild, Fill, Swap, TareTick, HandleW, Reboot, core0
  <2> QED
    BY <2>1 DEF OrderInv, OrderKept, AnswerNears, ToGo
<1>9. CASE UNCHANGED vars
  BY <1>9 DEF vars, core0, core1, OrderInv, OrderKept, AnswerNears, ToGo
<1> QED
  BY <1>1, <1>2, <1>3, <1>4, <1>5, <1>6, <1>7, <1>8, <1>9 DEF Next, Core0, Core1

\* No identify order is lost, also when core 0 clears a request that core 1 is setting
\* again, and every step of core 0 brings its pulse nearer: INT shows it at the end of
\* the pass under way or of the next, unless the panel reboots (fsr_loop).
THEOREM NoOrderLost ==
  ASSUME CalAssumption, PressAssumption PROVE Spec => []OrderKept /\ [][AnswerNears]_vars
<1>1. Init => OrderInv
  <2>1. AtStart # AtClear
    BY DEF PressAssumption, AtStart, AtClear
  <2> QED
    BY <2>1 DEF Init, OrderInv, OrderKept
<1>2. TypeOK /\ OrderInv /\ [Next]_vars => OrderInv' /\ [AnswerNears]_vars
  BY OrderStep
<1>3. OrderInv => OrderKept
  BY DEF OrderInv
<1> QED
  BY <1>1, <1>2, <1>3, TypeCorrect, PTL DEF Spec

-----------------------------------------------------------------------------
(* The thresholds *)

Rebuilding == at1 \in 1 .. AtSwap

\* What has been filled of the spare copy; outside a rebuild the pointed copy is the
\* config's at the tares of now.
ThresholdInv ==
  /\ \A i \in Channels : ChannelValid(g_cfg[i])
  /\ ReleaseBelowPress
  /\ Rebuilding =>
       \A j \in Fields : j < at1 =>
         g_thr_copy[Spare][ChannelOf(j)][FieldOf(j)] =
           Raw(g_cfg, g_tare)[ChannelOf(j)][FieldOf(j)]
  /\ ~Rebuilding => g_thr_copy[g_thr] = Raw(g_cfg, g_tare)

LEMMA RawOrdered ==
  ASSUME CalAssumption, PressAssumption, NEW cfg \in Configs,
         \A i \in Channels : ChannelValid(cfg[i]),
         NEW tare \in [Channels -> 0 .. TareMax], NEW i \in Channels
  PROVE  Raw(cfg, tare)[i].rel < Raw(cfg, tare)[i].press
<1>1. cfg[i].press \in Nat /\ cfg[i].rel \in Nat /\ cfg[i].rel < cfg[i].press
  BY DEF PressAssumption, ChannelConfig, ChannelValid
<1>2. CalToRaw(cfg[i].rel, tare[i]) < CalToRaw(cfg[i].press, tare[i])
  BY <1>1, StaysBelow
<1> QED
  BY <1>2 DEF Raw

\* The fields are all there is of a copy.
LEMMA FieldsCover ==
  ASSUME PressAssumption, NEW a \in [Channels -> Thresholds], NEW b \in [Channels -> Thresholds],
         \A j \in Fields : a[ChannelOf(j)][FieldOf(j)] = b[ChannelOf(j)][FieldOf(j)]
  PROVE  a = b
<1>1. ASSUME NEW i \in Channels PROVE a[i] = b[i]
  <2>0. i \in Nat \ {0} /\ i <= N /\ N \in Nat
    BY DEF Channels, PressAssumption
  <2>1. 3 * i - 2 \in Fields /\ ChannelOf(3 * i - 2) = i /\ FieldOf(3 * i - 2) = "press"
    <3>1. (3 * i - 3) % 3 = 0 /\ (3 * i - 3) \div 3 = i - 1
      BY <2>0
    <3> QED
      BY <2>0, <3>1 DEF Fields, ChannelOf, FieldOf
  <2>2. 3 * i - 1 \in Fields /\ ChannelOf(3 * i - 1) = i /\ FieldOf(3 * i - 1) = "rel"
    <3>1. (3 * i - 2) % 3 = 1 /\ (3 * i - 2) \div 3 = i - 1
      BY <2>0
    <3> QED
      BY <2>0, <3>1 DEF Fields, ChannelOf, FieldOf
  <2>3. 3 * i \in Fields /\ ChannelOf(3 * i) = i /\ FieldOf(3 * i) = "active"
    <3>1. (3 * i - 1) % 3 = 2 /\ (3 * i - 1) \div 3 = i - 1
      BY <2>0
    <3> QED
      BY <2>0, <3>1 DEF Fields, ChannelOf, FieldOf
  <2>4. /\ a[i]["press"] = b[i]["press"] /\ a[i]["rel"] = b[i]["rel"]
        /\ a[i]["active"] = b[i]["active"]
    BY <2>1, <2>2, <2>3
  <2> QED
    BY <2>4 DEF Thresholds
<1> QED
  BY <1>1

LEMMA FillStep ==
  ASSUME CalAssumption, PressAssumption, TypeOK, ThresholdInv, NEW k \in Fields, Fill(k)
  PROVE  ThresholdInv'
<1> DEFINE raw == Raw(g_cfg, g_tare)
<1>1. /\ at1 = k /\ at1' = k + 1 /\ UNCHANGED <<g_thr, g_cfg, g_tare>>
      /\ g_thr_copy' = [g_thr_copy EXCEPT ![Spare][ChannelOf(k)][FieldOf(k)] =
                          raw[ChannelOf(k)][FieldOf(k)]]
  BY DEF Fill
<1>2. Spare \in {1, 2} /\ Spare # g_thr /\ Spare' = Spare /\ raw' = raw
  BY <1>1 DEF TypeOK, Spare, Raw
<1>3. g_thr_copy'[g_thr] = g_thr_copy[g_thr]
  BY <1>1, <1>2 DEF TypeOK
<1>4. ReleaseBelowPress'
  BY <1>1, <1>3 DEF ThresholdInv, ReleaseBelowPress
<1>5. Rebuilding' /\ Rebuilding
  BY <1>1 DEF Rebuilding, AtSwap, Fields, PressAssumption
<1>6. ASSUME NEW j \in Fields, j < at1'
      PROVE  g_thr_copy'[Spare][ChannelOf(j)][FieldOf(j)] = raw[ChannelOf(j)][FieldOf(j)]
  <2>1. ChannelOf(j) \in Channels /\ ChannelOf(k) \in Channels
    BY DEF ChannelOf, Channels, Fields, PressAssumption
  <2>2. FieldOf(j) \in {"press", "rel", "active"} /\ FieldOf(k) \in {"press", "rel", "active"}
    <3>1. (j - 1) % 3 \in 0 .. 2 /\ (k - 1) % 3 \in 0 .. 2
      BY DEF Fields
    <3> QED
      BY <3>1 DEF FieldOf
  <2>3. g_thr_copy \in [{1, 2} -> [Channels -> Thresholds]]
    BY DEF TypeOK
  <2>4. j = k \/ g_thr_copy[Spare][ChannelOf(j)][FieldOf(j)] = raw[ChannelOf(j)][FieldOf(j)]
    BY <1>1, <1>5, <1>6 DEF ThresholdInv, Fields
  <2> HIDE DEF raw
  <2>5. CASE ChannelOf(j) = ChannelOf(k) /\ FieldOf(j) = FieldOf(k)
    BY <1>1, <1>2, <2>1, <2>2, <2>3, <2>5 DEF Thresholds
  <2>6. CASE ChannelOf(j) = ChannelOf(k) /\ FieldOf(j) # FieldOf(k)
    BY <1>1, <1>2, <2>1, <2>2, <2>3, <2>4, <2>6 DEF Thresholds
  <2>7. CASE ChannelOf(j) # ChannelOf(k)
    BY <1>1, <1>2, <2>1, <2>3, <2>4, <2>7
  <2> QED
    BY <2>5, <2>6, <2>7
<1> QED
  BY <1>1, <1>2, <1>4, <1>5, <1>6 DEF ThresholdInv

LEMMA SwapStep ==
  ASSUME CalAssumption, PressAssumption, TypeOK, ThresholdInv, Swap
  PROVE  ThresholdInv'
<1>1. /\ at1 = AtSwap /\ at1' = AtLoop /\ g_thr' = Spare
      /\ UNCHANGED <<g_thr_copy, g_cfg, g_tare>>
  BY DEF Swap
<1>2. Raw(g_cfg, g_tare) \in [Channels -> Thresholds]
  BY RawType DEF TypeOK
<1>3. Spare \in {1, 2} /\ g_thr_copy[Spare] \in [Channels -> Thresholds]
  BY DEF TypeOK, Spare
<1>4. Rebuilding /\ \A j \in Fields : j < at1
  BY <1>1 DEF Rebuilding, AtSwap, Fields, PressAssumption
<1>5. g_thr_copy[Spare] = Raw(g_cfg, g_tare)
  BY <1>2, <1>3, <1>4, FieldsCover DEF ThresholdInv
<1>6. g_thr_copy'[g_thr'] = Raw(g_cfg, g_tare)'
  BY <1>1, <1>5 DEF Raw
<1>7. \A i \in Channels : Raw(g_cfg, g_tare)[i].rel < Raw(g_cfg, g_tare)[i].press
  BY RawOrdered DEF TypeOK, ThresholdInv
<1>8. ReleaseBelowPress'
  BY <1>1, <1>5, <1>7 DEF ReleaseBelowPress
<1>9. ~Rebuilding'
  BY <1>1 DEF Rebuilding, AtLoop
<1> QED
  BY <1>1, <1>6, <1>8, <1>9 DEF ThresholdInv

LEMMA ThresholdStep ==
  ASSUME CalAssumption, PressAssumption, TypeOK, ThresholdInv, [Next]_vars
  PROVE  ThresholdInv'
<1>a. N \in Nat \ {0}
  BY DEF PressAssumption
<1>1. ASSUME UNCHANGED <<at1, g_cfg, g_tare, g_thr, g_thr_copy>> PROVE ThresholdInv'
  BY <1>1 DEF ThresholdInv, ReleaseBelowPress, Rebuilding, Spare, Raw
\* A rebuild begins, with nothing filled yet.
<1>2. ASSUME at1' = 1, UNCHANGED <<g_thr, g_thr_copy>>,
             \A i \in Channels : ChannelValid(g_cfg'[i])
      PROVE  ThresholdInv'
  <2>1. Rebuilding' /\ ReleaseBelowPress'
    BY <1>2, <1>a DEF Rebuilding, AtSwap, ThresholdInv, ReleaseBelowPress
  <2>2. \A j \in Fields : ~(j < at1')
    BY <1>2 DEF Fields
  <2> QED
    BY <1>2, <2>1, <2>2 DEF ThresholdInv
\* Core 1 goes from one place outside a rebuild to another.
<1>3. ASSUME ~Rebuilding, ~Rebuilding', UNCHANGED <<g_cfg, g_tare, g_thr, g_thr_copy>>
      PROVE  ThresholdInv'
  BY <1>3 DEF ThresholdInv, ReleaseBelowPress, Raw
<1>4. CASE Core0
  <2>1. UNCHANGED <<at1, g_cfg, g_tare, g_thr, g_thr_copy>>
    BY <1>4 DEF Core0, StartPass, Sample, Panel, Clear, Drive, core1, shared
  <2> QED
    BY <1>1, <2>1
<1>5. CASE TareTick
  <2>1. CASE g_tare' = g_tare
    BY <1>1, <1>5, <2>1 DEF TareTick, AfterTare, shared
  <2>2. CASE g_tare' # g_tare
    BY <1>2, <1>5, <2>2 DEF TareTick, AfterTare, shared, ThresholdInv
  <2> QED
    BY <2>1, <2>2
<1>6. CASE HandleW
  <2>1. PICK cfg \in Configs :
          IF Accepts(cfg) THEN g_cfg' = cfg /\ at1' = 1 ELSE UNCHANGED <<g_cfg, at1>>
    BY <1>6 DEF HandleW
  <2>2. UNCHANGED <<g_tare, g_thr, g_thr_copy>>
    BY <1>6 DEF HandleW, shared
  <2>3. CASE Accepts(cfg)
    BY <1>2, <2>1, <2>2, <2>3 DEF Accepts
  <2>4. CASE ~Accepts(cfg)
    BY <1>1, <2>1, <2>2, <2>4
  <2> QED
    BY <2>3, <2>4
<1>7. CASE Hold
  <2>1. ~Rebuilding /\ ~Rebuilding'
    BY <1>7, <1>a DEF Hold, Rebuilding, AtLoop, AtWait, AtSwap
  <2> QED
    BY <1>3, <1>7, <2>1 DEF Hold, shared
<1>8. CASE Reboot
  <2>1. ~Rebuilding /\ ~Rebuilding'
    BY <1>8, <1>a DEF Reboot, Rebuilding, AtReboot, AtWait, AtSwap
  <2> QED
    BY <1>3, <1>8, <2>1 DEF Reboot, shared
<1>9. CASE BusStart \/ HandleI \/ UNCHANGED vars
  BY <1>1, <1>9 DEF BusStart, HandleI, vars, core1, shared
<1> QED
  BY <1>4, <1>5, <1>6, <1>7, <1>8, <1>9, FillStep, SwapStep DEF Next, Core1, Rebuild

LEMMA InitThreshold ==
  ASSUME CalAssumption, PressAssumption, Init
  PROVE  ThresholdInv
<1>1. BootTare \in [Channels -> 0 .. TareMax] /\ Default \in Configs
  BY DEF PressAssumption, BootTare
<1>2. ~Rebuilding
  BY DEF Init, Rebuilding, AtLoop
<1>3. g_thr_copy[g_thr] = Raw(Default, BootTare) /\ g_cfg = Default /\ g_tare = BootTare
  BY DEF Init, BootThresholds
<1>4. \A i \in Channels : ChannelValid(Default[i])
  BY DEF PressAssumption
<1>5. ReleaseBelowPress
  BY <1>1, <1>3, <1>4, RawOrdered DEF ReleaseBelowPress
<1> QED
  BY <1>2, <1>3, <1>4, <1>5 DEF ThresholdInv

LEMMA ThresholdsKept == ASSUME CalAssumption, PressAssumption PROVE Spec => []ThresholdInv
<1>1. Init => ThresholdInv
  BY InitThreshold
<1>2. TypeOK /\ ThresholdInv /\ [Next]_vars => ThresholdInv'
  BY ThresholdStep
<1>3. Spec => []TypeOK
  BY TypeCorrect
<1> QED
  BY <1>1, <1>2, <1>3, PTL DEF Spec

\* ReleaseBelowPress: whatever core 1 is in the middle of, the copy core 0 is pointed to
\* has release below press, at every tare (thresholds_rebuild, kp_cal_to_raw).
THEOREM ReleaseAlwaysBelowPress ==
  ASSUME CalAssumption, PressAssumption PROVE Spec => []ReleaseBelowPress
<1>1. ThresholdInv => ReleaseBelowPress
  BY DEF ThresholdInv
<1> QED
  BY <1>1, ThresholdsKept, PTL

\* HostAgrees: between rebuilds core 0 compares with the config in use as a host does that
\* reads calibrated values, for every config and tare (config_apply, kp_cal_to_raw).
THEOREM HostAlwaysAgrees ==
  ASSUME CalAssumption, PressAssumption PROVE Spec => []HostAgrees
<1>1. ASSUME TypeOK, ThresholdInv, at1 = AtLoop, NEW i \in Channels
      PROVE  LET th == g_thr_copy[g_thr][i]
                 ch == g_cfg[i]
             IN  /\ th.active = ch.active
                 /\ Lowest(th.press, ch.press, g_tare[i])
                 /\ ch.rel > 0 => Lowest(th.rel, ch.rel, g_tare[i])
  <2>1. g_thr_copy[g_thr] = Raw(g_cfg, g_tare)
    BY <1>1 DEF ThresholdInv, Rebuilding, AtLoop
  <2>2. g_cfg[i].press \in Nat /\ g_cfg[i].rel \in Nat /\ g_cfg[i].press > 0
    BY <1>1 DEF TypeOK, PressAssumption, ChannelConfig, ThresholdInv, ChannelValid
  <2>3. g_tare[i] \in 0 .. TareMax
    BY <1>1 DEF TypeOK
  <2>4. Lowest(CalToRaw(g_cfg[i].press, g_tare[i]), g_cfg[i].press, g_tare[i])
    BY <2>2, <2>3, RoundingsAgree
  <2>5. g_cfg[i].rel > 0 =>
          Lowest(CalToRaw(g_cfg[i].rel, g_tare[i]), g_cfg[i].rel, g_tare[i])
    BY <2>2, <2>3, RoundingsAgree
  <2> QED
    BY <1>1, <2>1, <2>4, <2>5 DEF Raw
<1>2. TypeOK /\ ThresholdInv => HostAgrees
  BY <1>1 DEF HostAgrees
<1>3. Spec => []TypeOK
  BY TypeCorrect
<1> QED
  BY <1>2, <1>3, ThresholdsKept, PTL
=============================================================================
