----------------------- MODULE MCMavlinkSettingsModel -----------------------
(* Instances of MavlinkSettingsModel for TLC.                              *)
EXTENDS MavlinkSettingsModel, TLC

CONSTANTS mcs, key,       \* parameters
          low, mid, high, \* values
          s1, s2, o1

StartLow == [p \in Params |-> low]
\* Two sets of one parameter to one value (a retry), and one of the same parameter to
\* another value by another part of the program.
SetParam == [r \in Requests |-> mcs]
SetValue == [r \in Requests |-> IF r = o1 THEN mid ELSE high]
=============================================================================
