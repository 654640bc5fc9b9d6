# Verification of the AVS storage pipeline

AVS stores the sensor streams of a vehicle: three ingest nodes (camera, LiDAR, GPS) reduce
what they receive and append it to per-trip logs on an SSD, an archiver moves old days to tar
files on an HDD, and readers query both tiers by topic and time. This directory holds TLA+
models of the parts of that pipeline that keep state, the TLC runs that check them and the
TLAPS proofs about them. Paths below are relative to `src/src/avs/src/` unless they start with
`src/`.

## 1. The system

| Component | Source | State | Operations |
|---|---|---|---|
| Append logger | `logger/append_logger.cpp` | `trip_NN.log`, `trip_NN.idx`, chunk buffer, catalog rows of its topic | constructor (recovery), `startTrip`, `appendRecord`, `flushChunkLocked`, `endTrip`, destructor |
| RocksDB logger | `logger/rocksdb_logger.cpp` | one database and one row for each topic and day | `startTrip`, `appendRecord`, `endTrip`, destructor |
| Trip manager | `logger/trip_manager.cpp` | day folder, cache of next ids | `GetTripId` |
| Ingest nodes | `subscriber/*.cpp`, `process/img_dedup.cpp` | day fixed at start, one trip per process; hash of the last kept image, count of GPS fixes | constructor, callback, destructor |
| Archiver | `archive/archive.cpp` | tar, tar index, HDD catalog; deletes the SSD copy | one run over all topic-days before a cutoff |
| Retrieve API | `retrieve/retrieve_api.cpp` | none | `QueryRefs`, `LoadPayload` |
| Cold retrieval | `prototype_benchmark/cold_retrieve_report.py` | none | catalog, tar index and record scan |
| Retrieve viewer | `retrieve/retrieve_view.cpp` | cursor, noted key, trajectory, hover | image, LiDAR and GPS loops with their event callbacks |
| Offload client | `offload/offload.cpp` | batch, counters, connection | several runs that stream the records of one query to a server |

Launch files, configuration, benchmarks, report scripts, the power-loss experiment and the debug
tool keep no state of the system; section 6 and PROJECT.json give the reason each is left out.

**How they interact.** There is no protocol between the processes of the vehicle. A node calls the
logger in its own thread; the logger writes two files per trip and one row in `global.sqlite3`; the
archiver and the readers find trips through that row and open the files by name. Nobody holds
a lock longer than one SQLite statement or transaction, no busy timeout is set, and nobody
checks whether a trip is still being written. What each process sees is therefore any
interleaving of the others' single writes. The RocksDB back end has a catalog of its own, which
neither the archiver nor the readers know. The viewer and the offload client keep the references of
one query and load through them for as long as they run. Only the offload client has a protocol,
with a server that is not in the repository.

**What is hard.**

- A process can be killed between any two writes: chunk and index entry, files and row, tar
  and rows. The next process of the topic, or the next run of the archiver, must cope.
- The catalog can be busy at every statement; each caller reacts in a different way (abort the
  constructor, warn and go on, swallow, try once more, end the run).
- Trip ids are derived from the files in a folder, which the archiver removes and the RocksDB back
  end never makes.
- Times come from the system clock, which can be set back.
- Stream writes are never checked.
- The archiver reads files that may still grow, and removes a folder by name later.
- References outlive the files they name.
- A send can fail with a part of a frame gone, in the middle of a batch that is already counted.

**What makes each component correct.**

| Component | Properties |
|---|---|
| Append logger | the index never leads past the log; what a reader reaches is a prefix of what was accepted; at most one chunk is in memory only; closed rows agree with the index; ids are never given twice; a shutdown seals its trip |
| RocksDB logger | a record that was accepted stays, through all processes that reopen the database; a closed row counts its own run; a shutdown closes the row unless its second try fails too |
| Ingest nodes | every image a node was given is near one it stored, or near one an error lost |
| Archiver | no crash loses a record; a trip is always found in one tier; tars are never rewritten and their indexes never dangle; removal only after the cold copy is durable; every completed day is archived in the end |
| Retrieve API | every stored record of the queried time is returned once; a reference reads its own record or fails |
| Cold retrieval | the scan that stops early finds what a full scan finds, while the clock is not set back; else what it misses is known |
| Retrieve viewer | the screen shows what the cursor or the pointer is at, or says nothing new |
| Offload client | records go out once and in order; the counts in Start and End are true of the frames between them; a run that counts is complete; the program ends |

The hazards at their source lines are listed in PROJECT.json, with the properties that cover
them or the reason none does.

## 2. Modules

| Module | Role |
|---|---|
| `TripStore` | abstract: what the `StorageLogger` interface promises with the append back end (begin, accept, store a prefix, end, abandon, recover), without files or buffers |
| `AppendLogger` | one topic's node with its logger: every file or catalog write is a step |
| `TripScan` | extends `AppendLogger`: the hot and the cold scan over the files and rows it leaves |
| `AppendLoggerProofs` | type, count, storage, loss, recovery and damage invariants of `AppendLogger`, proved |
| `TripScanProofs` | the times in the files, and what both scans find by them, proved |
| `AppendLoggerRefinement` | `AppendLogger` implements `TripStore`, and the node that `ArchiveTier` puts next to the archiver, proved |
| `TierStore` | abstract: what a topic keeps on two tiers (begin, store, close, copy and move a day), without files or a running archiver |
| `ArchiveTier` | the archive program next to the ingest node |
| `ArchiveTierProofs` | type, copy-order, sync, no-loss, always-found and new-id invariants of `ArchiveTier`, and that it implements `TierStore`, proved |
| `RecordStore` | abstract: what a query of the SSD promises while trips grow and are archived, in one step |
| `RetrieveAPI` | a query of the SSD and its references, next to the ingest node and the archiver |
| `RetrieveAPIProofs` | every property of `RetrieveAPI` the runs check, and that it implements `RecordStore`, proved |
| `Offload` | the offload client, next to the archiver, the kernel's connection and the server |
| `OffloadProofs` | every safety property of `Offload` the runs check, proved |
| `RocksDbIngest` | the filters of the nodes and the RocksDB back end, two processes |
| `RocksDbIngestProofs` | every safety property of `RocksDbIngest` the runs check, proved |
| `RetrieveView` | the three loops of the viewer, its user and the archiver |
| `RetrieveViewProofs` | every safety property of `RetrieveView` the runs check, proved |
| `MCAppendLogger`, `MCArchiveTier`, `MCRetrieveAPI`, `MCOffload`, `MCRocksDbIngest` | constants for TLC (`RetrieveView` needs none) |

### AppendLogger

One topic, one process at a time. `pc` is the place of the node's only thread; the steps follow
the code: `StartNode` (day folder, `recoverGlobalRows`' SELECT), `RecoverGlobalRow` (one turn of
its loop), `GetTripId`, `OpenTripFiles`, `WriteTripHeader`, `InsertGlobalRow` (together
`startTrip`), `AppendRecord`, `FlushLog` and `FlushIdx` (the two writes of `flushChunkLocked`),
`EndTrip`, `UpdateGlobalRowEnd`. `Crash` can come between any two of them and inside the write of
a chunk, which leaves a torn one. `Tick` moves the clock, also back if the instance says so.

Abstractions: a log is a sequence of items (header, chunk, torn chunk) and an offset counts items;
a payload is its number in the trip and its time; `Sizes` are the bytes a record adds. The cast of
the elapsed time to `uint64_t` is modelled by what it does: a difference below zero exceeds every
target. `accepted` is a history variable. A killed process keeps what it wrote to the kernel; the
loss of unsynced pages in a power cut is not part of this module.

`CountTripLogs` counts the files of the folder. The per-process cache of `TripManager` is not
modelled, because a process asks once.

### ArchiveTier

The ingest node is reduced to what the archiver can notice. `StartNode` fixes its day for the life of
the process, `RecoverRow` closes a row while the constructor runs, `OpenTripFiles` makes the two
files under the id it counts, `InsertGlobalRow` the row; `FlushLog` and `FlushIdx` stay apart, and
`EndTrip` and `IngestCrash` decide what the row says. Files are counted in chunks (log) and entries
(index). That nothing `AppendLogger` does is forbidden here is a theorem (`ImplementsArchivedNode`).

The archiver takes one step per call in the order of `ArchiveOneTopicDay`: `PickDay` (tar and
folder tests, listing), `CopyFile`, `RenameTar`, `RenameIdx`, `FsyncParentDir`, `CopyRows`,
`DeleteRows`, `RemoveTrip` for each trip, `RemoveFolder`. `RefuseDay` is its exception for an
existing tar or an empty folder, which ends the whole run as in `main`. `ArchiveCrash` can come
anywhere; `RunFails` ends the run with an exception wherever a call may fail: a locked catalog, a copy, a
rename, a sync, a removal. `synced` collects what was forced to the disk: the directory sync of strict
mode, and the checkpoint when the HDD catalog is closed. `FsyncParentDir` also does what the code does
when the month's directory cannot be opened: it returns without a word and the run goes on, in
strict mode too. `unopened` remembers the days this happened to. The sync covers the names in the month's
directory; that directory and the year's may be new, and nobody syncs their names in turn.

Abstractions: one topic; a tar is its set of members with the size each was copied with; the
`.tmp` files are `members`, which the next run overwrites; the two spellings of a day are one. The cutoff is
never after today, and the program is not started while a node that began on a day it takes is still
in its constructor, which takes milliseconds. `Careful` restricts more: no trip of a day it takes is
being written. The code does not ask for this, and the runs without it show what then happens.
The node's own files are always linked in a day before the archiver removes them, so the exception
for an empty folder is not reached in this model.

`TierStore` knows a trip as read from the SSD or the HDD, with a size and what either catalog says of
it. `Tier` maps a state of `ArchiveTier` to it: a trip is on the SSD while it has its row and its
files there, and on the HDD when its rows, the index of the tar and its members are. Everything the
archiver does for a day is then one step, `Move`, at the removal of the rows; the copies, renames and
syncs before it and the removals after it stutter. `Copy` stays a step of its own, because of a flaw
the abstract store has to admit: a node may end or recover a trip after its row was copied, and the
trip then arrives on the HDD with the end `'0'` it had.

### RetrieveAPI

One query at a time. `Query` is `QueryRefs` up to the end of `FindMatchingTrips` (the catalog is
read in one statement), `QueryBusy` the same when the catalog is locked, which the code does not tell
from an empty answer. Then, per trip, `OpenTrip` or `SkipTrip`, `ReadEntry` for one index entry with
the records of its chunk, `EndOfIndex`, and `Finish`. `LoadPayload` is an operator on the state, so
that a property can ask what a reference would read at any later moment, until the next query.

The environment is what the reader can notice: the node begins trips, appends, writes chunk and
index entry, ends, crashes and recovers rows; the archiver deletes the rows of a past day, then the
trips' files one by one, then the folder. A file is an *inode*, and `path` says which inode a trip's
names lead to now. A file that is open stays readable after its name is gone, and a name that is used
again leads to another inode; this is what `LoadsItsRecord` is about.

Abstractions: a record is its time; log and index of a trip are created, opened and removed together;
an offset is the number of a chunk and of a record in it; which records share a chunk is left open,
which includes every choice of the chunk target; the final sort is not visible in a set. `due` is a
history variable. The clock does not go back here: an entry holds the times of its first and last
record, and with a clock set back within a chunk these are not its least and greatest (a hazard in
PROJECT.json). `DeleteRows` takes no trip that is being written, the assumption `Careful` of
`ArchiveTier`.

`RecordStore` has the same query in two steps, `Ask` and `Answer`: the answer has the records that could
be reached when it was asked, no record without the earlier ones of its trip, and of a trip that has
left the SSD meanwhile either that or nothing. A file is opened, so it stays readable, or it is
skipped: a trip is never answered in part because it was archived.

### TripScan

Two readers look for the records of a time range in the same two files. `HotScan` is the loop of
`QueryRefs`: each entry that overlaps the range. `ColdScan` is the reader of a tar: it starts at the
first entry that reaches the range and returns at the first that begins after it, and it needs a row
with an end. Both are operators on the state of `AppendLogger`, so that a property can compare them
with `StoredIn`, all that the index reaches, in every state a crash, a recovery or a flush of any size
can leave. `ScansFindAll` says that both find everything while the clock is not set back;
`MissedAreOutOfOrder` says, of the whole scans with the selection of the row and the early return, what
they may miss when it was. An entry that leads to no whole chunk, after a failed write, is passed over by
both readers as theirs do; what a torn chunk may still give to them is left out.

### Offload

The client's steps follow `main`: `QueryRefs`, then per run `Connect`, `SendStart`, the loop over the
references (`SkipRecord` or `LoadRecord`, `FlushBefore`, `PushRecord`, `FlushFull`), `FlushFinal`,
`SendEnd`, `RecvAck`. Each send has a failing twin, because the code reacts to a failure in a
different way at each place: it ends the program (Start, final flush), leaves the loop (both flushes
inside it), or looks away (End). `wire` is what the kernel took, frame by frame; a failed send leaves
nothing or a torn frame. `Archived` removes the file of a reference at any moment.

Abstractions: a record is its number in the result and its size; the running average of the sizes,
which only chooses the target of a batch, is any member of `Targets`; checksums and timing are left
out. The server is external: it takes whole frames in order, answers once, after End, gives up after a
torn frame, and may be gone at any moment.

### RocksDbIngest

One topic and one day. Up to two processes take the steps of a node: `StartNode`, `OpenDb` (one process
at a time has RocksDB's lock), `InsertMetadataRow`, then a callback for each reading (`Drop`,
`ConversionThrows`, `AppendRecord` or `AppendRecordFails`), `EndTrip`, `FlushDb`, `UpdateMetadataRow`. `Filter` is what the
callback does first: the image node compares the hash with that of the last image kept, the GPS node
counts. When the conversion throws, the callback drops the reading before the filter remembers anything of
it; when `imencode` returns false, which nobody looks at, the filter remembers the image and an empty
payload is stored (`Payloads`). `lost` has the images the filter kept in vain: appended with an exception, or
stored empty. An exception of `startTrip` leaves the constructor of the node and ends the process; one of
`endTrip` is swallowed by the destructor of the node, and the destructor of the logger calls it a second
time (`tries`). No `main` catches the exception of `startTrip`. Whether the stack is then unwound is left
to the implementation by the C++ standard; the compiler of the launch setup (GCC) terminates without
unwinding, and `OpenDbFails` and `InsertMetadataRowFails` say so: no destructor runs.

Abstractions: images are points of a line and the distance of two hashes is that of the points; a
failed put may be found in the database later; the write-ahead log survives a killed process; opening a
database takes longer than one tick of the nanosecond clock, which is why two processes do not make
the same key at the same time with the same number. The system clock is not set back in this module: that
a run's keys are new although its numbers begin at 0 rests on its being later than the runs before it.
With a clock set back between two runs a record could replace an earlier one, which is not modelled.

### RetrieveView

`mode` is the viewer that was asked for. The loops of images and LiDAR frames share the cursor: `Show` is
the load and the drawing, `ImageKey` ends the wait, `LidarKey` notes a key during the spin and
`LidarTurn` acts on it afterwards. The GPS viewer loads all records (`LoadGpsRecord`), keeps the valid
ones as points (`BuildGpsTrajectory`), then turns between `Draw` and its wait, in which `MouseMove` sets
the hover. The program has one thread: events arrive only in a wait, so callbacks do not interleave with
the loop. `Archived` does, at any moment.

Abstractions: decoding succeeds or does not; the projection and the search for the nearest point are
left open, any point may be the nearest.

## 3. Runs

| Run | Bounds | Question | Result |
|---|---|---|---|
| `append_faults` | 1 day, 3 trips, 3 records, 3 clock values; crashes and busy catalog | the index leads to whole chunks, rows and ids after recovery, both scans, refinement of `TripStore` | holds |
| `append_disk` | 1 day, 2 trips, 3 records, 2 clock values; crashes, failing writes, clock set back | an index reaches a prefix of what was accepted, damage to it is a suffix, one-chunk loss, what a scan may miss, recovery before running; a shutdown seals | holds |
| `archive_faults` | 2 days, 2 trips, 2 chunks, strict, careful; all faults | nothing lost, always found, removal after sync (or after a directory that cannot be opened), refinement of `TierStore` | holds |
| `archive_rerun` | 3 days, 1 trip, 1 chunk; node crashes | tar index within tar log; every completed day is archived | holds |
| `archive_wedge` | the same; archiver crashes | the same liveness | violated |
| `archive_durable` | default mode, no faults | removed only when durable | violated |
| `archive_lost` | no faults, a trip open at midnight | nothing lost | violated |
| `archive_queryable` | node crashes | what was archived is found | violated |
| `retrieve_query` | 2 days, 3 clock values, 2 trips a day, 2 files, 2 records; crashes and busy catalog | a query is complete and gapless; references read their own record; refinement of `RecordStore` | holds |
| `offload_stream` | 3 references of 3 sizes, limit 0 or 2, 2 runs; all faults | order, counts, sizes; a counted run is complete; the program ends | holds |
| `rocksdb_ingest` | 2 processes, 2 starts, 2 puts and 1 conversion that throws each, 3 images, 3 clock values; all faults | accepted records stay, the row counts its run, deduplication; a shutdown closes its row | holds |
| `view_screen` | 3 references, 4 keys | screen, cursor and hover while files go away | holds |

**Why the bounds are enough to be interesting.** Three trips of a day are the least for a recovery that
meets two open rows while a third id is chosen, three records (two chunks, one of them with two
records) for an index with more than one entry and a chunk whose first and last record differ, two
clock values for a clock that goes back (each exception of `MissedAreOutOfOrder` then occurs: without any
one of them the property is violated), three for chunks of different age. A node that runs past
midnight needs two days: `archive_lost` and `retrieve_query` have them, and the theorems about
`AppendLogger` are for every number of days. In `retrieve_query` three clock values make a past day with
two times and a present one, so that a query can overlap a trip in part, and two files let a trip begin
after one was archived; two chunks are the least for an index that grows under the scan. In
`archive_rerun` the third day is what a wedged first day would hold up. In `offload_stream` the sizes
are an empty payload, one that fits and one that is too large; of the batch limits the two records and
the three or four bytes are each the first to be reached in some run of it (the five vectors never are:
two records make five), two runs show that the
counters start again, and three references are two frames and one more record. In `rocksdb_ingest` the
second process reopens the first one's database or meets its lock; three images are the least for
a drift (each near its neighbour, the ends apart), and two puts for a failed one before another. In
`view_screen` three references have both ends and a middle, and four keys pass an end in both
directions. `append_disk` has no busy catalog, so the case of a full disk that makes SQLite's own UPDATE fail is
covered only by `append_faults`, where the UPDATE fails for any reason but the files do not. All actions
fire within these bounds. `MaxRecords`, `MaxTrips`, `MaxFiles`, `MaxChunks`,
`MaxTime`, `LastDay`, `MaxRefs`, `MaxKeys`, `MaxRuns`, `MaxPuts` and `MaxThrows` bound the guards marked
`\* bound` or the sets inputs are taken from. Deadlock is not checked: with the bounds used up, or with
the program ended, everything may stop.

Every property of a passing run has a mutant of the code in PROJECT.json that breaks it; the
mutated operators stand next to the ones they replace.

**Fairness.** It is always weak, and only of steps that a thread takes by itself.

- `AppendLogger` and `RocksDbIngest`: `ThreadStep`, a thread that is not blocked goes on with the call
  it is in. Nothing is assumed of starting a node, of records arriving or of a shutdown being asked
  for. `ShutdownSeals` and `ShutdownClosesRow` begin where the destructor has begun; both name what may
  prevent them (a killed process, a failed write, `endTrip` throwing twice).
- `ArchiveTier`: the steps of a run, and starting one: an operator runs the program as long as there is
  something to archive. Of the ingest node only that a constructor comes to its end or is killed.
- `Offload`: `ClientStep` and `ServerStep`. A server that stops answering for good is one that the kernel
  tells the client of (`ConnectionLost`); without this the client waits for ever, as no timeout is set.
- `RetrieveView`: `ViewStep`, the loop between its waits. Nothing of the user.
- `RetrieveAPI` has no liveness property and no fairness.

## 4. Proofs

All theorems hold for every value of the constants that satisfies the named assumption of the
module (`ConstantsAssumption`, `ArchiveAssumption`, `RetrieveAssumption`, `OffloadAssumption`,
`RocksDbAssumption`, `ViewAssumption`).

| Theorem | Extra assumption | States |
|---|---|---|
| `TypeCorrect` (three modules), `ArchiveTypeCorrect`, `RetrieveTypeCorrect`, `ViewTypeCorrect` | | types |
| `IndexPointsAtChunkHolds` | no failing stream writes | every index entry locates a whole chunk it describes |
| `StoredIsPrefixHolds` | | what an index reaches is a prefix of what was accepted, in order |
| `RowCountsBetween` | | a row with an end counts no less than its index reaches and no more than was accepted |
| `RowMatchesIndexHolds` | no failing stream writes | a row with an end counts what its index reaches |
| `TripNeverReusedHolds` | | an id is new when `startTrip` gets it |
| `LossIsOneChunkHolds` | | at most one chunk is in memory only |
| `RunningMeansRecoveredHolds` | catalog never busy | a running node has closed the rows of earlier trips |
| `DamageIsASuffixHolds` | | the entries that locate no chunk are the last ones of an index |
| `MissedAreOutOfOrderHolds` | | the hot scan misses only records outside their row's interval or out of order in their chunk; the cold scan also those stored after a chunk that begins later |
| `RowCoversRecordsHolds` | no failing stream writes, clock not set back | a row's interval contains its records |
| `ScansFindAllHolds` | no failing stream writes, clock not set back | both scans find every stored record of a range |
| `ImplementsTripStore` | no failing stream writes | `AppendLogger` implements `TripStore` |
| `ImplementsArchivedNode` | `Calendar`, no failing stream writes, clock not set back | `AppendLogger` implements the node of `ArchiveTier` |
| `TarNeverRewrittenHolds` | | a tar with its final name never changes |
| `TarIndexWithinLogHolds` | | an index in a tar never leads past the log in it |
| `StrictRemovesAfterSyncHolds` | `Strict` | the names of tar and index are synced in their directory before a file of the day is removed, unless it could not be opened |
| `NothingLostHolds` | `Careful` | no fault loses a stored record |
| `FoundInATierHolds` | `Careful` | a stored trip with an end is found in a tier at every step |
| `ArchivedIdNotReused` | `Careful` | no catalog and no file knows the id a trip is given |
| `ImplementsTierStoreHolds` | `Careful` | `ArchiveTier` implements `TierStore` |
| `LoadsItsRecordHolds` | | a reference reads its own record or fails, at any later time |
| `NoRecordTwiceHolds` | | a result has no record twice |
| `ReadFromTheStartHolds` | | a result has all that matches in a prefix of each trip |
| `QueryImplementsRecordStore` | | `RetrieveAPI` implements `RecordStore` |
| `QueryIsCompleteHolds` | | a result has all that could be reached when the query began and is still on the SSD |
| `StreamInOrderHolds` | | the server is sent each record at most once, in order |
| `EndTellsTheStreamHolds` | | End counts the records before it, and at most those planned |
| `FrameFitsHolds` | | a frame fits one `sendmsg` and its length field |
| `CountedRunIsCompleteHolds` | | a run that counts as ok sent or passed over everything, unless a send failed |
| `AcceptedIsStoredHolds` | | an accepted record stays, through all later processes |
| `ClosedRowCountsItsRunHolds` | | a row with an end counts the run that wrote it |
| `EveryImageIsRepresentedHolds` | | each image given to a run is near one it stored or one an error lost, or its own conversion threw |
| `ScreenFollowsCursorHolds` | | the screen shows the record at the cursor, or that one cannot be loaded |
| `OneMovePerKeyHolds` | | a key moves the cursor at most once |
| `HoverNamesItsRecordHolds` | | the record named is the one whose point is marked |

*Counts under every fault.* None of the storage properties is inductive. `CountInv` joins, per trip,
`TripInv` (a trip without a log file has no index, row or records; an entry that locates a chunk
describes the records that follow those of the entries before it; what the index reaches is at most
what was accepted, and the row's count lies between) and `MemoryInv`, which ties the memory of the
running process to its files: `total` and the buffer together are what was accepted, `total` is the
count the index reaches as long as its stream is good and no less afterwards, and between the two
writes of a flush `tie`, if it locates a chunk, locates the buffer. It needs two facts that no failure disturbs. `NewTripInv`: for each day the
log files have the ids 0..c-1, so counting them gives a new id, and a trip has its files before
anything else and its row before its first entry. `DamageInv`: an index has a chunk for every entry as
long as the log's stream is good; the write that sets badbit makes the first entry that leads
nowhere, and since nothing clears badbit, no later one leads anywhere (the mutant clears it). The sum
over an index is the cardinality of a union of slots, so that appending an entry adds its count by the
library's theorems on finite sets, without induction. `StoredIsPrefix`, `RowCountsBetween` and
`TripNeverReused` follow without any assumption on faults. `RecoveredInv` says of every trip with an
index that its row has an end or is still to be visited.

*The storage invariant.* Without failing writes `StorageInv` follows from the three above
(`StorageFromCounts`): every entry locates its chunk, and a closed row counts exactly what its index
reaches. The assumption is needed, see section 5.

*Times.* `ChunkInv`, that no record but the last of a chunk is older than the first, needs no
assumption: a clock that goes back before the first record makes the elapsed time huge, so the chunk is
complete at once. From it and `NewTripInv` (a trip with an index has a row with a start) follows what a scan
may miss: a record whose row does not overlap the range is outside the row's interval, one whose entry does
not overlap it is out of order in its chunk, and an entry at which the cold scan has returned begins later
than the record. `TimeInv` is for a clock that
is not set back: along an index times go forward from the start the row announces to the end it has,
the buffer goes on from there, and `endTs`, taken before the last flush, is after both. The cold scan
may stop early because every entry before one that reaches the range begins no later than that one.

*The refinement* maps `stored` to what the index reaches and `row` to the row's state. `FlushIdx`
maps to `Store`, `InsertGlobalRow` to `Begin`, `UpdateGlobalRowEnd` to `End` or, when the catalog
is busy, to `Abandon`. A crash maps to `Abandon` once the row exists, and the other steps stutter.

*The node of `ArchiveTier`* counts the chunks in a log and the entries in an index and keeps the state
of a row. `NodeInv` says what of this a process can rely on: a chunk without entry exists only
between the two writes of a flush, and no entry is empty, so that `MaxChunks` is the bound on records.
`Calendar` names the days of the calendar 1..`LastDay`, beginning with the first, and has the clock
pass them one by one. `Midnight` is a `Tick` that changes the day; every other step of the logger is the
step of the same name or stutters. The clock may not be set back, because the days of `ArchiveTier` only go
forward. With this the theorems about the archiver speak of the logger as it is, not of a sketch of it.

*The archiver's invariant.* `SafeInv` joins `ClosedDays` (no day a run has to do with is being
written, which `Careful` starts and midnight keeps), `HotInv` (a row has files), `CopyInv` (a file
still on the SSD is either left to copy or in the tar with its present size) and `MoveInv` (how far
catalogs and index are). `NothingLost` and `FoundInATier` then follow step by step: the removal of a
trip needs the row gone and the copy complete, the removal of rows needs them in the HDD catalog.
`SyncInv`, for the strict mode, needs no `Careful`: it speaks of every trip without files that has
entries or is being written, and of the day at hand once `FsyncParentDir` is behind the run: its names
are synced, or it is in `unopened`.

*Ids and tiers.* `TierInv` says that the next id of a day is new, for every day a node can count in:
the present one and the one it started on. The archiver frees ids by removing logs, but `Careful` and
the brief constructor keep it away from those days; hence a trip begins blank in both catalogs and a
row on the HDD is never overwritten by that of another trip. The other parts (a running node
has an open row and at most one chunk more than entries; cold rows come only after the tar has its
index) are what the refinement of `TierStore` needs: `TiersStutter` shows once that a step which
changes neither what a trip's tier depends on nor its size is a stutter, and each other action is
matched with its own.

*The reader's invariants.* Each property needs a part of its own. `NameInv`: a name that leads nowhere
any more is of a past day, and trips begin in the present one, so a name is never used for a second
file (this is why archiving days before today is safe for references). `ScanInv`: references of the
trip being read are of entries already read. `TimeInv`: an entry covers its chunk and ends do not
decrease along an index, which holds because the clock does not go back; with it, an entry whose
interval is outside has no record of the range. `PlaceInv` and `RowInv`: ids of a day are dense, hence a
trip begins with new files and its row covers its index, whether open, ended or recovered. `DueInv`
then says of every record due where it is: returned, in a trip to be read, ahead in the index being
read, or in a file that is gone from the SSD and of which nothing was returned, because a file that was
opened in time is read to its end. `OwnerInv` adds that the references of a file are of one trip, and
that no trip gets a row or a file back. The refinement of `RecordStore` follows from these.

*The client's invariant.* `IInv` of `OffloadProofs` is a conjunction of one part for each question.
`OrderInv` lays out, in the order of the query, the records in whole frames, those in the batch, the one
just loaded and those to come: a batch that is sent a second time is still behind every whole frame,
because its first frame was torn or never left. `CountInv` says that `sent` counts frames and batch
together, which is why End is right although records are counted when packed; `EndInv` that the batch is
empty at End and End is last. `SeqInv` counts whole frames, `PackInv` holds the sizes under the limits,
`CompleteInv` accounts for every reference the loop has passed while no send failed, and `ServerInv`
that only a whole End is answered. Counts are cardinalities of sets, which grow by
the library's theorems.

*The RocksDB back end.* `AcceptedIsStored` rests on `KeyInv`: with one process at a time in the database
(`LockInv`), its own records have lower numbers than the next one, and all others are older than the
moment it opened, so that no put replaces a record although each run numbers from 0. `RunsInv` gives
every process a run of its own, `FreshInv` lets it begin with nothing counted, and `CountInv` ties
`total` to the records of the run and the open row to the process that wrote it. `SceneInv` adds to
`EveryImageIsRepresented` that the image the filter compares with is stored or lost, and that a filter
without an image has seen only images whose conversion threw.

*The viewer.* `ModeInv` says which viewer can be where, `CursorInv` keeps the cursor in the result,
`KeyInv` says that a noted key has not moved the cursor yet, and `HoverInv` that a hover leads from its
point to the record of that point.

*Only model-checked* is liveness: `ShutdownSeals`, `ArchivesEveryCompletedDay`, `EndsOrWaitsForLostEnd`,
`ShutdownClosesRow`, `HoverIsDrawn` (liveness under fairness and `ENABLED` are out of the prover's
reach). *Only proved* are `TypeOK` of `ArchiveTier`, `TarNeverRewritten`, `NoRecordTwice`,
`RowCountsBetween`, `ArchivedIdNotReused` and `ImplementsArchivedNode`, which no run lists. No module declares a recursive operator, which the prover could not use: what the code
counts in a loop is the cardinality of a set.

## 5. What the checks found

- **A killed archiver wedges** (`archive_wedge`, `archive/archive.cpp:621`): between the rename of the
  tar and the deletion of the rows the day stays a candidate with an existing tar; every later run
  throws on it and never reaches the days after it.
- **Removal before durability** (`archive_durable`, `:391`): the default mode does not sync the
  directory, and no mode syncs the copied rows before the SSD files go.
- **An open trip is archived** (`archive_lost`, `:459`): candidates are selected by day only; what is
  stored after the copy is removed with the folder.
- **A trip without an end is not found on the HDD** (`archive_queryable`, `:534`): its row is copied
  with the end `'0'`, which nothing repairs there and the cold reader never matches.

Seen while modelling; no text of the repository promises otherwise, so these are written into the
properties as their exceptions:

- A failed write derails the index (`logger/append_logger.cpp:310`): stream states are never looked at,
  and an entry can have the offset of a torn chunk or `(uint64_t)-1`. `DamageIsASuffix` is what is left.
- When the clock is set back, a query can miss records of its range: a trip whose row starts or ends on
  the wrong side of the step is skipped whole (`retrieve/retrieve_api.cpp:42`), a chunk whose first or last
  record is not its oldest or newest is skipped by its entry (`:186`), and the cold scan returns at a chunk
  that begins later, although older ones follow (`prototype_benchmark/cold_retrieve_report.py:229`).
  `MissedAreOutOfOrder` says that nothing else is missed.
- The age of a chunk is compared only when the next record arrives (`logger/append_logger.cpp:298`), so
  the time a record stays in memory has no bound when a sensor falls silent. The "bounded `0.24 s` loss
  window" of `src/README.md:262` is a measurement of the paper, of sensors that do not fall silent; what
  the code bounds is the amount, one chunk (`LossIsOneChunk`).
- In strict mode too, a directory that cannot be opened is not synced and nobody is told
  (`archive/archive.cpp:395`): the rows move and the SSD files go (`StrictRemovesAfterSync`, `unopened`).
  A month's or year's directory made by the run (`:614`) is never synced in its parent.
- A flush that fails inside the loop of the offload client leaves the loop; if the final flush succeeds,
  the run can be reported as ok without the remaining records (`CountedRunIsComplete`, `broken`).
- A failure to send End is ignored, and client and server then wait for each other
  (`WaitsForLostEnd`).
- With the RocksDB back end all processes of a day share trip 0; each one replaces the row of the one
  before, whose count and times are gone while its records stay.
- `RocksDbLogger::startTrip` throws with the trip set and the database open when the catalog is busy
  (`logger/rocksdb_logger.cpp:193`). A `main` that caught the exception would make the destructor of the
  logger end a trip that has no row: the row of the process before would get a new end and 0 records
  (`ClosedRowCountsItsRun`). The code is safe only because nothing catches it.
- After a failed append, or when `imencode` returns false and an empty payload is stored
  (`process/img_dedup.cpp:123`), the near duplicates of the lost image are dropped as well
  (`EveryImageIsRepresented`, `lost`). A conversion that throws costs only its own image.
- The archiver's `CREATE TABLE` (`archive/archive.cpp:429`) lacks two columns the nodes insert: run
  on an empty SSD it makes a catalog they cannot use.

## 6. Not modelled

- *A second process of the same topic* with the append logger, and *a second archiver*: neither is
  excluded by the code, neither is started by the launch files. Their interleavings exceed what a run
  can finish next to the faults above.
- *Unsynced pages after a power cut.* A killed process keeps what it gave to the kernel; which pages
  survive a power cut is the file system's choice. Only `ArchiveTier` looks at it, through `synced`.
- *The power-loss experiment* (`prototype_benchmark/power_loss/`): a script that cuts log and index of the
  torn trip back to the last whole chunk after a reboot and compares. It is not part of the
  pipeline, and what it starts from is the point above.
- *Catalog statements that fail in `QueryRefs`* are modelled (`QueryBusy`), but no property is about them:
  the interface gives an empty answer.
- *Compressors and downsampling* are functions of one payload. *Benchmarks, reports and the debug tool*
  measure or print. *Configuration and launch* are read once; their values are constants.
- Byte layouts, tar headers, checksums and message framing are modelled only where a property
  depends on them.

What could come next: that the files and rows `RetrieveAPI` reads next to are those `AppendLogger` and
`ArchiveTier` leave, as theorems; an abstract store for the RocksDB back end.
