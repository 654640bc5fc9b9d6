----------------------------- MODULE ArchiveTier -----------------------------
(***************************************************************************)
(* The archive program next to the ingest node of one topic. A run takes   *)
(* the days before a cutoff one after the other: the files of the day are  *)
(* copied into a tar, tar and index get their names, the rows move from    *)
(* the SSD catalog to the HDD catalog, and the day folder is removed.      *)
(*                                                                         *)
(* The ingest node is AppendLogger, reduced to what the archiver can       *)
(* notice: it never learns of the archiver, and writes on into files that  *)
(* may have been unlinked. Of a file only the number of chunks (log) or    *)
(* entries (index) matters. One archiver runs at a time.                   *)
(***************************************************************************)
EXTENDS Integers, FiniteSets

CONSTANTS
    LastDay,     \* bound: the calendar has the days 1..LastDay
    MaxTrips,    \* bound: trips of one day
    MaxChunks,   \* bound: chunks of one trip
    Strict,      \* AVS_ARCHIVE_STRICT=1
    Careful,     \* the program is only run when no trip of the days it takes is open
    Faults       \* the faults this instance considers

\* "archiveCrash", "ingestCrash": the process is killed. "archiveBusy": SQLite
\* answers SQLITE_BUSY. "archiveIO": a system call of a run fails, and the run
\* with it. "opendir": the directory of a month cannot be opened.
FaultKinds == {"archiveCrash", "archiveBusy", "archiveIO", "opendir", "ingestCrash"}

ASSUME ArchiveAssumption ==
    /\ LastDay \in Nat \ {0}
    /\ MaxTrips \in Nat \ {0}
    /\ MaxChunks \in Nat
    /\ Strict \in BOOLEAN
    /\ Careful \in BOOLEAN
    /\ Faults \subseteq FaultKinds

Days   == 1..LastDay
Trips  == Days \X (0..(MaxTrips - 1))
NoTrip == <<0, 0>>
Files  == Trips \X {"idx", "log"}
States == {"none", "open", "closed"}     \* of a catalog row; "open" is end_ts_ns = '0'

VARIABLES
    today,          \* day folder a node started now would use
    npc, day,       \* where the thread of the ingest node is, and its day_
    active,         \* the trip whose files it has open, or NoTrip
    linked,         \* trips whose two files are in their SSD day folder
    logN, idxN,     \* chunks and index entries in the files of a trip, linked or not
    rows,           \* SSD catalog
    apc,            \* where the archiver is; "idle": it does not run
    todo, cur,      \* candidates left, and the day being archived
    left,           \* files of the day still to be copied
    members,        \* what the tar in the making holds: <<file, size>>
    tar,            \* members of YYYY-MM-DD.tar; empty: it does not exist
    tarIdx,         \* days that have a YYYY-MM-DD.tar.idx
    cold,           \* HDD catalog
    synced,         \* artifacts of a day that were forced to the disk; tar and index
                    \* with their names in the directory of the month
    unopened        \* history: days whose directory strict mode could not open to sync

node    == <<npc, day, active>>
ingest  == <<today, npc, day, active, logN, idxN>>
archive == <<apc, todo, cur, left, members>>
hdd     == <<tar, tarIdx, cold, synced, unopened>>
vars    == <<today, npc, day, active, linked, logN, idxN, rows, apc, todo, cur, left,
             members, tar, tarIdx, cold, synced, unopened>>

NPCs == {"down", "start", "insert", "run"}
APCs == {"idle", "next", "copy", "renameTar", "renameIdx", "fsync",
         "copyRows", "deleteRows", "remove"}

TripsOf(d)   == {k \in Trips : k[1] = d}
FilesOf(S)   == S \X {"idx", "log"}
Size(f)      == IF f[2] = "idx" THEN idxN[f[1]] ELSE logN[f[1]]
HasRows(d)   == \E k \in TripsOf(d) : rows[k] # "none"

-----------------------------------------------------------------------------
(* Pure parts.                                                             *)

\* The days of QueryCandidates. (Mutation: the cutoff day is included.)
CandidatesIncludingCutoff(cutoff) == {d \in Days : d <= cutoff /\ HasRows(d)}
Candidates(cutoff) == {d \in Days : d < cutoff /\ HasRows(d)}

\* ListTripFiles sorts by name: trip by trip, the index before the log.
\* (Mutation: the log first.)
SortsBeforeLogFirst(f, g) ==
    \/ f[1][2] < g[1][2]
    \/ f[1] = g[1] /\ f[2] = "log" /\ g[2] = "idx"
SortsBefore(f, g) ==
    \/ f[1][2] < g[1][2]
    \/ f[1] = g[1] /\ f[2] = "idx" /\ g[2] = "log"

\* The test before a day is archived.
TarExists(d) == tar[d] # {}

\* What FsyncParentDirIfStrict makes durable: the two names renamed before.
\* (Mutation: done before the index is renamed.)
FsyncOfTarOnly == IF Strict THEN {"tar"} ELSE {}
FsyncedNames   == IF Strict THEN {"tar", "idx"} ELSE {}

\* The row INSERT OR REPLACE leaves in the HDD catalog for the trip k.
\* (Mutation: rows without an end are left out.)
CopiedClosedRow(k) == IF rows[k] = "closed" THEN rows[k] ELSE cold[k]
CopiedRow(k)       == IF rows[k] # "none" THEN rows[k] ELSE cold[k]

\* Where the loop over the files goes after the file f.
AfterFile(f) == IF left = {f} THEN "renameTar" ELSE "copy"

-----------------------------------------------------------------------------
Init ==
    /\ today = 1
    /\ npc = "down" /\ day = 0 /\ active = NoTrip
    /\ linked = {}
    /\ logN = [k \in Trips |-> 0]
    /\ idxN = [k \in Trips |-> 0]
    /\ rows = [k \in Trips |-> "none"]
    /\ apc = "idle" /\ todo = {} /\ cur = 0 /\ left = {} /\ members = {}
    /\ tar = [d \in Days |-> {}]
    /\ tarIdx = {}
    /\ cold = [k \in Trips |-> "none"]
    /\ synced = [d \in Days |-> {}]
    /\ unopened = {}

-----------------------------------------------------------------------------
(* The ingest node.                                                        *)

\* Nothing of the memory of a node survives it.
NodeEnds == npc' = "down" /\ day' = 0 /\ active' = NoTrip

\* current_day is fixed here, for the life of the process.
StartNode ==
    /\ npc = "down"
    /\ Cardinality(linked \cap TripsOf(today)) < MaxTrips           \* bound
    /\ npc' = "start" /\ day' = today
    /\ UNCHANGED <<today, active, linked, logN, idxN, rows, archive, hdd>>

\* The constructor closes the row of an earlier trip whose index it can read.
RecoverRow(k) ==
    /\ npc = "start"
    /\ rows[k] = "open"
    /\ k \in linked
    /\ idxN[k] > 0
    /\ rows' = [rows EXCEPT ![k] = "closed"]
    /\ UNCHANGED <<ingest, linked, archive, hdd>>

\* The trip id is the number of logs in the day folder.
OpenTripFiles ==
    LET k == <<day, Cardinality(linked \cap TripsOf(day))>>
    IN  /\ npc = "start"
        /\ npc' = "insert" /\ active' = k
        /\ linked' = linked \cup {k}
        /\ UNCHANGED <<today, day, logN, idxN, rows, archive, hdd>>

InsertGlobalRow ==
    /\ npc = "insert"
    /\ npc' = "run"
    /\ rows' = [rows EXCEPT ![active] = "open"]
    /\ UNCHANGED <<today, day, active, linked, logN, idxN, archive, hdd>>

FlushLog ==
    /\ npc = "run"
    /\ logN[active] = idxN[active]
    /\ logN[active] < MaxChunks                                     \* bound
    /\ logN' = [logN EXCEPT ![active] = @ + 1]
    /\ UNCHANGED <<today, node, linked, idxN, rows, archive, hdd>>

FlushIdx ==
    /\ npc = "run"
    /\ idxN[active] < logN[active]
    /\ idxN' = [idxN EXCEPT ![active] = logN[active]]
    /\ UNCHANGED <<today, node, linked, logN, rows, archive, hdd>>

\* The UPDATE of a row the archiver has deleted changes nothing.
EndTrip ==
    /\ npc = "run"
    /\ idxN[active] = logN[active]
    /\ NodeEnds
    /\ rows' = [rows EXCEPT ![active] = IF @ = "none" THEN @ ELSE "closed"]
    /\ UNCHANGED <<today, linked, logN, idxN, archive, hdd>>

\* The node is killed, or ended by the exception of a failing INSERT or UPDATE.
IngestCrash ==
    /\ "ingestCrash" \in Faults
    /\ npc # "down"
    /\ NodeEnds
    /\ UNCHANGED <<today, linked, logN, idxN, rows, archive, hdd>>

Midnight ==
    /\ today < LastDay
    /\ today' = today + 1
    /\ UNCHANGED <<node, linked, logN, idxN, rows, archive, hdd>>

-----------------------------------------------------------------------------
(* The archiver.                                                           *)

\* The end of the process; what a run has in memory is gone.
Exit == apc' = "idle" /\ todo' = {} /\ cur' = 0 /\ left' = {} /\ members' = {}

\* Closing the HDD catalog checkpoints it, which syncs the copied rows.
SyncRows ==
    synced' = [d \in Days |-> IF \E k \in TripsOf(d) : cold[k] # "none"
                              THEN synced[d] \cup {"rows"} ELSE synced[d]]

\* main up to the loop: the candidates are selected once. With none, the
\* program ends without a change. A constructor takes milliseconds: no node
\* that began on a day to be archived is still in it.
StartArchive(cutoff) ==
    /\ apc = "idle"
    /\ cutoff <= today
    /\ (npc \in {"start", "insert"} \/ Careful) => day = 0 \/ day >= cutoff
    /\ Candidates(cutoff) # {}
    /\ todo' = Candidates(cutoff)
    /\ apc' = "next"
    /\ UNCHANGED <<ingest, linked, rows, cur, left, members, hdd>>

\* ORDER BY day: the first of the days left. Its files are listed once.
PickDay ==
    /\ apc = "next"
    /\ \E d \in todo :
          /\ \A e \in todo : d <= e
          /\ ~TarExists(d)
          /\ linked \cap TripsOf(d) # {}
          /\ cur' = d
          /\ todo' = todo \ {d}
          /\ left' = FilesOf(linked \cap TripsOf(d))
    /\ members' = {}
    /\ apc' = "copy"
    /\ UNCHANGED <<ingest, linked, rows, hdd>>

\* "tar already exists" or "no trip files found": the exception ends the run,
\* with whatever days are left.
RefuseDay ==
    /\ apc = "next"
    /\ \E d \in todo :
          /\ \A e \in todo : d <= e
          /\ TarExists(d) \/ linked \cap TripsOf(d) = {}
    /\ Exit
    /\ SyncRows
    /\ UNCHANGED <<ingest, linked, rows, tar, tarIdx, cold, unopened>>

FinishRun ==
    /\ apc = "next"
    /\ todo = {}
    /\ Exit
    /\ SyncRows
    /\ UNCHANGED <<ingest, linked, rows, tar, tarIdx, cold, unopened>>

\* WriteFileIntoTar copies the size the file has now. After the last file tar
\* and index are synced, still under their .tmp names.
CopyFile ==
    /\ apc = "copy"
    /\ \E f \in left :
          /\ \A g \in left : ~SortsBefore(g, f)
          /\ members' = members \cup {<<f, Size(f)>>}
          /\ left' = left \ {f}
          /\ apc' = AfterFile(f)
    /\ UNCHANGED <<ingest, linked, rows, todo, cur, hdd>>

RenameTar ==
    /\ apc = "renameTar"
    /\ tar' = [tar EXCEPT ![cur] = members]
    /\ apc' = "renameIdx"
    /\ UNCHANGED <<ingest, linked, rows, todo, cur, left, members, tarIdx, cold, synced, unopened>>

RenameIdx ==
    /\ apc = "renameIdx"
    /\ tarIdx' = tarIdx \cup {cur}
    /\ apc' = "fsync"
    /\ UNCHANGED <<ingest, linked, rows, todo, cur, left, members, tar, cold, synced, unopened>>

\* FsyncParentDirIfStrict: when it cannot open the directory it returns as if
\* it had nothing to do, and the run goes on.
FsyncParentDir ==
    /\ apc = "fsync"
    /\ \/ /\ synced' = [synced EXCEPT ![cur] = @ \cup FsyncedNames]
          /\ UNCHANGED unopened
       \/ /\ Strict /\ "opendir" \in Faults
          /\ unopened' = unopened \cup {cur}
          /\ UNCHANGED synced
    /\ apc' = "copyRows"
    /\ UNCHANGED <<ingest, linked, rows, todo, cur, left, members, tar, tarIdx, cold>>

\* One transaction, which synchronous=NORMAL does not sync.
CopyRows ==
    /\ apc = "copyRows"
    /\ cold' = [k \in Trips |-> IF k[1] = cur THEN CopiedRow(k) ELSE cold[k]]
    /\ apc' = "deleteRows"
    /\ UNCHANGED <<ingest, linked, rows, todo, cur, left, members, tar, tarIdx, synced, unopened>>

DeleteRows ==
    /\ apc = "deleteRows"
    /\ rows' = [k \in Trips |-> IF k[1] = cur THEN "none" ELSE rows[k]]
    /\ apc' = "remove"
    /\ UNCHANGED <<ingest, linked, todo, cur, left, members, hdd>>

\* An exception ends the run: BEGIN IMMEDIATE or the DELETE finds the catalog
\* locked, or a call of the copy, a rename, the sync or the removal fails.
RunFails ==
    /\ \/ "archiveBusy" \in Faults /\ apc \in {"copyRows", "deleteRows"}
       \/ "archiveIO" \in Faults
          /\ apc \in {"copy", "renameTar", "renameIdx", "fsync", "remove"}
    /\ Exit
    /\ SyncRows
    /\ UNCHANGED <<ingest, linked, rows, tar, tarIdx, cold, unopened>>

\* RemoveAll: the files of the day folder one by one, then the folder.
RemoveTrip(k) ==
    /\ apc = "remove"
    /\ k \in linked \cap TripsOf(cur)
    /\ linked' = linked \ {k}
    /\ UNCHANGED <<ingest, rows, archive, hdd>>

RemoveFolder ==
    /\ apc = "remove"
    /\ linked \cap TripsOf(cur) = {}
    /\ apc' = "next"
    /\ UNCHANGED <<ingest, linked, rows, todo, cur, left, members, hdd>>

ArchiveCrash ==
    /\ "archiveCrash" \in Faults
    /\ apc # "idle"
    /\ Exit
    /\ UNCHANGED <<ingest, linked, rows, hdd>>

ArchiveStep ==
    \/ PickDay \/ RefuseDay \/ FinishRun
    \/ CopyFile \/ RenameTar \/ RenameIdx \/ FsyncParentDir
    \/ CopyRows \/ DeleteRows \/ RunFails
    \/ \E k \in Trips : RemoveTrip(k)
    \/ RemoveFolder

IngestStep ==
    \/ StartNode \/ OpenTripFiles \/ InsertGlobalRow
    \/ \E k \in Trips : RecoverRow(k)
    \/ FlushLog \/ FlushIdx \/ EndTrip \/ IngestCrash

Next ==
    \/ IngestStep
    \/ Midnight
    \/ \E cutoff \in Days : StartArchive(cutoff)
    \/ ArchiveStep
    \/ ArchiveCrash

Spec == Init /\ [][Next]_vars

\* A run goes on until it ends, and the program is run again while there is
\* something for it to archive. A node gets through its constructor.
FairSpec ==
    /\ Spec
    /\ WF_vars(OpenTripFiles \/ InsertGlobalRow)
    /\ WF_vars(ArchiveStep)
    /\ WF_vars(\E cutoff \in Days : StartArchive(cutoff))

-----------------------------------------------------------------------------
(* Properties.                                                             *)

\* Every variable has its type, and the trip a node has open is one of the
\* day its process started on.
TypeOK ==
    /\ today \in Days
    /\ npc \in NPCs
    /\ day \in 0..today
    /\ (day = 0) <=> (npc = "down")
    /\ active \in Trips \cup {NoTrip}
    /\ (active # NoTrip) <=> (npc \in {"insert", "run"})
    /\ (active # NoTrip) => active[1] = day
    /\ linked \subseteq Trips
    /\ logN \in [Trips -> Nat]
    /\ idxN \in [Trips -> Nat]
    /\ rows \in [Trips -> States]
    /\ apc \in APCs
    /\ todo \subseteq Days
    /\ cur \in Days \cup {0}
    /\ (apc \notin {"idle", "next"}) => cur \in Days
    /\ left \subseteq Files
    /\ (apc = "copy") => left # {}
    /\ members \subseteq Files \X Nat
    /\ (apc = "renameTar") => members # {}
    /\ tar \in [Days -> SUBSET (Files \X Nat)]
    /\ tarIdx \subseteq Days
    /\ cold \in [Trips -> States]
    /\ synced \in [Days -> SUBSET {"tar", "idx", "rows"}]
    /\ unopened \subseteq Days

\* The tar of its day holds the whole trip: all entries of its index, and a
\* log that has at least their chunks.
InTar(k) ==
    /\ <<<<k, "idx">>, idxN[k]>> \in tar[k[1]]
    /\ \E m \in tar[k[1]] : m[1] = <<k, "log">> /\ m[2] >= idxN[k]

\* README, "removes the archived SSD copy only after ...": whatever stops the
\* archiver or the node, the stored records of every trip are in its files on
\* the SSD or in the tar of its day.
NothingLost ==
    \A k \in Trips : idxN[k] > 0 => k \in linked \/ InTar(k)

\* What retrieve_view finds, and what cold_retrieve_report.py finds.
HotFinds(k)  == rows[k] # "none" /\ k \in linked
ColdFinds(k) == cold[k] = "closed" /\ k[1] \in tarIdx /\ InTar(k)

\* A stored trip is found in one of the tiers at every moment of a run, also
\* between the steps that move its rows and after the archiver is killed,
\* unless its row had no end when it was archived.
FoundInATier ==
    \A k \in Trips : (idxN[k] > 0 /\ cold[k] # "open") => HotFinds(k) \/ ColdFinds(k)

\* README, "older topic-days are archived to HDD as directly queryable indexed
\* tar files": what the archiver removed from the SSD is found on the HDD.
ArchivedIsQueryable ==
    \A k \in Trips : (idxN[k] > 0 /\ k \notin linked) => ColdFinds(k)

\* An index inside a tar never leads past the log next to it, also when the
\* trip was being written while its two files were copied.
TarIndexWithinLog ==
    \A d \in Days : \A m, n \in tar[d] :
        (m[1][1] = n[1][1] /\ m[1][2] = "idx" /\ n[1][2] = "log") => m[2] <= n[2]

\* A tar that has its name is never changed, by no later run.
TarNeverRewritten ==
    [][\A d \in Days : tar[d] # {} => tar'[d] = tar[d]]_vars

\* In strict mode tar and index are on the disk, with their names in the
\* directory of the month, before the first file of the day is removed from the
\* SSD, unless that directory could not be opened. (That the directory itself
\* is on the disk, when EnsureDir made it in the same run, nothing provides.)
Secured(d) == {"tar", "idx"} \subseteq synced[d] \/ d \in unopened

StrictRemovesAfterSync ==
    \A k \in Trips : (idxN[k] > 0 /\ k \notin linked) => Secured(k[1])

\* README, "removes the archived SSD copy only after the cold-tier artifacts
\* are durable": tar, index and catalog rows.
RemovedOnlyWhenDurable ==
    \A k \in Trips :
        (idxN[k] > 0 /\ k \notin linked) => {"tar", "idx", "rows"} \subseteq synced[k[1]]

\* README, "Archive every completed topic-day older than a cutoff date": with
\* the program run again and again, every day that is over and that no running
\* node started on is archived.
ArchivesEveryCompletedDay ==
    \A d \in Days :
        (d < today /\ day # d /\ HasRows(d)) ~> (tar[d] # {} /\ ~HasRows(d))

-----------------------------------------------------------------------------
(* The refinement of TierStore.                                            *)

\* Where a reader finds a trip, with or without an end.
Tier(k) ==
    CASE HotFinds(k)                                           -> "ssd"
      [] ~HotFinds(k) /\ cold[k] # "none" /\ k[1] \in tarIdx /\ InTar(k) -> "hdd"
      [] OTHER                                                 -> "none"

Tiers == INSTANCE TierStore WITH
    tier   <- [k \in Trips |-> Tier(k)],
    stored <- idxN,
    row    <- rows,
    copy   <- cold

\* Run when no trip of the days it takes is open, the archiver with all its
\* steps moves a day at once, wherever it or the node is stopped.
ImplementsTierStore == Tiers!Spec

=============================================================================
