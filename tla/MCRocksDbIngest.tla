--------------------------- MODULE MCRocksDbIngest ---------------------------
(* Values of the constants of RocksDbIngest for TLC.                       *)
EXTENDS RocksDbIngest, TLC

CONSTANTS p1, p2     \* two processes of one node

MCProcs    == {p1, p2}
AllSensors == {"image", "gps", "lidar"}
AllFaults  == FaultKinds
=============================================================================
