---------------------------- MODULE MCRetrieveAPI ----------------------------
(* Values of the constants of RetrieveAPI for TLC.                         *)
EXTENDS RetrieveAPI

MCDayOf == [t \in Time |-> IF t <= 2 THEN 1 ELSE 2]
Both    == {"crash", "busy"}

=============================================================================
