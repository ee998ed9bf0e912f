----------------------------- MODULE Calibration ------------------------------
(***************************************************************************)
(* Calibrated units (firmware/shared/panel_config.h): 0 at a sensor's rest *)
(* value, its tare, CalMax at full scale, linear in raw counts between.    *)
(***************************************************************************)
EXTENDS Integers

CONSTANTS
  AdcMax,  \* KP_ADC_MAX: the highest raw count
  CalMax   \* KP_CAL_MAX: the highest calibrated value

ASSUME CalAssumption ==
  /\ AdcMax \in Nat
  /\ CalMax \in Nat \ {0}

Span(tare) == AdcMax - tare

\* Mutant: rounded down.
CalToRawDown(cal, tare) == tare + (cal * Span(tare)) \div CalMax

\* kp_cal_to_raw: the lowest raw count that reaches cal, rounded up.
CalToRaw(cal, tare) == tare + (cal * Span(tare) + CalMax - 1) \div CalMax

\* kp_raw_to_cal: rounded toward zero.
RawToCal(raw, tare) ==
  IF raw >= tare THEN ((raw - tare) * CalMax) \div Span(tare)
                 ELSE -(((tare - raw) * CalMax) \div Span(tare))

\* kp_channel_valid: release < press <= CalMax.
ChannelValid(ch) == ch.rel < ch.press /\ ch.press <= CalMax
=============================================================================
