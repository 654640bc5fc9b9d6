---------------------------- MODULE MCArchiveTier ----------------------------
(* Values of the constants of ArchiveTier for TLC.                         *)
EXTENDS ArchiveTier

NoFaults     == {}
AllFaults    == FaultKinds
ArchiveDies  == {"archiveCrash"}
IngestDies   == {"ingestCrash"}

=============================================================================
