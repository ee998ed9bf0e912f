----------------------------- MODULE MCPressDetect ----------------------------
(***************************************************************************)
(* PressDetect with two sensors and the code's calibration, the defaults,  *)
(* a config whose thresholds are one unit apart, one that takes every      *)
(* sensor out of use and one that is not valid.                            *)
(***************************************************************************)
EXTENDS PressDetect

Sensor(p, r, a) == [press |-> p, rel |-> r, active |-> a]

MCDefault == [i \in Channels |-> Sensor(930, 905, TRUE)]
MCConfigs ==
  {MCDefault,
   [i \in Channels |-> Sensor(1, 0, TRUE)],
   [i \in Channels |-> Sensor(930, 905, FALSE)],
   [i \in Channels |-> Sensor(500, 500, TRUE)]}

\* No weight, between the default thresholds, a foot.
MCRaws == {60, 3760, 4095}

MCSteady == {1}

\* An empty socket, the rest value as at boot, or a little above it.
MCMeans == {20, 100, 108}
=============================================================================
