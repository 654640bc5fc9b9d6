------------------------------ MODULE MCOffload ------------------------------
(* Values of the constants of Offload for TLC.                             *)
EXTENDS Offload, TLC

AllFaults == FaultKinds
=============================================================================
