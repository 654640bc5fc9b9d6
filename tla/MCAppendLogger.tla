--------------------------- MODULE MCAppendLogger ---------------------------
(* Values of the constants of AppendLogger for TLC.                        *)
EXTENDS TripScan, TLC

CONSTANTS d1         \* a day folder

MCOneDay   == {d1}
MCDayOfOne == [t \in Time |-> d1]

CrashBusy  == {"crash", "busy"}
AllButBusy == {"crash", "diskfull", "stepback"}

=============================================================================
