---------------------------- MODULE AppendLogger ----------------------------
(***************************************************************************)
(* One ingest node of AVS (image, LiDAR or GPS process) and the append     *)
(* storage backend it drives: the per-trip pair trip_NN.log/trip_NN.idx,   *)
(* the chunk buffer in memory, and this topic's rows of global.sqlite3.    *)
(*                                                                         *)
(* The process runs one ROS callback at a time, so its steps are           *)
(* sequential; what interleaves with them is a crash between any two file  *)
(* or catalog writes, the clock, and other processes, whose readers see    *)
(* every intermediate state and whose writers make the catalog busy.       *)
(*                                                                         *)
(* A process crash keeps what was written (flush() hands it to the kernel).*)
(* File offsets are counted in items (trip header or chunk), not bytes.    *)
(***************************************************************************)
EXTENDS Integers, Sequences, FiniteSets

CONSTANTS
    MaxTime,     \* bound: the system clock stays in 1..MaxTime
    Days,        \* day folders ("YYYY-MM-DD")
    NoDay,       \* day_ when no trip is active
    DayOf,       \* the day folder getCurrentDayFolder() returns at each time
    MaxTrips,    \* bound: trips of one topic-day
    MaxRecords,  \* bound: records accepted by one trip
    Sizes,       \* bytes a record may add to the chunk buffer
    ChunkBytes,  \* chunk_target_bytes_
    ChunkNs,     \* chunk_target_ns_
    Faults       \* the faults this instance considers, see below

Time    == 1..MaxTime
TripIds == 0..(MaxTrips - 1)
Trips   == Days \X TripIds

\* "crash": the process is killed.          "busy": SQLITE_BUSY, no timeout is set.
\* "diskfull": a stream write fails.        "stepback": the clock is set back.
FaultKinds == {"crash", "busy", "diskfull", "stepback"}

ASSUME ConstantsAssumption ==
    /\ MaxTime \in Nat \ {0}
    /\ MaxTrips \in Nat \ {0}
    /\ MaxRecords \in Nat
    /\ NoDay \notin Days
    /\ DayOf \in [Time -> Days]
    /\ Sizes \subseteq Nat \ {0}
    /\ ChunkBytes \in Nat \ {0}
    /\ ChunkNs \in Nat \ {0}
    /\ Faults \subseteq FaultKinds

Record == [n : Nat \ {0}, ts : Time]     \* n: how many the trip had accepted, for the properties
Item   == [kind : {"header", "chunk", "torn"}, recs : Seq(Record)]
Entry  == [start : Time, end : Time, offset : Int, count : Nat]
Row    == [start : 0..MaxTime, end : 0..MaxTime, records : Nat]

NoRow      == [start |-> 0, end |-> 0, records |-> 0]
NoEntry    == [start |-> 1, end |-> 1, offset |-> -1, count |-> 0]
TripHeader == [kind |-> "header", recs |-> <<>>]
Torn       == [kind |-> "torn", recs |-> <<>>]

PCs == {"down", "recover", "open", "header", "insert",
        "run", "flushLog", "flushIdx", "update"}

VARIABLES
    now,        \* system_clock
    files,      \* trips whose trip_NN.log exists
    log, idx,   \* what trip_NN.log and trip_NN.idx hold
    rows,       \* this topic's rows of the table "global"
    pc,         \* where the node's thread is; "down": no process
    day, id,    \* day_ and trip_id_
    startTs,    \* trip_start_ns of the constructor
    endTs,      \* trip_end_ns of the destructor, 0 before it runs
    todo,       \* rows recoverGlobalRows() has still to visit
    buf,        \* chunk_buf_, as the sequence of its records
    bufBytes,   \* chunk_buf_.size()
    tie,        \* the index entry of the flush in progress
    total,      \* trip_total_record_count_
    logBad, idxBad,  \* badbit of trip_log_ and trip_idx_
    accepted    \* history: records appendRecord() took, per trip

disk   == <<files, log, idx>>
memory == <<day, id, startTs, endTs, todo, buf, bufBytes, tie, total, logBad, idxBad>>
vars   == <<now, files, log, idx, rows, pc, day, id, startTs, endTs, todo,
            buf, bufBytes, tie, total, logBad, idxBad, accepted>>

Current   == <<day, id>>
HasRow(k) == rows[k].start # 0
Chunk(b)  == [kind |-> "chunk", recs |-> b]

-----------------------------------------------------------------------------
(* Pure parts.                                                             *)

\* The sum of the record_count fields of an index, as the size of a disjoint
\* union of one slot per counted record.
Slots(x)          == UNION {{i} \X (1..x[i].count) : i \in 1..Len(x)}
IndexedRecords(x) == Cardinality(Slots(x))

\* The end ReadTripIndexSummary() reports: that of the last entry.
\* (Mutation: that of the first one.)
SummaryEndFirst(x) == x[1].end
SummaryEnd(x)      == x[Len(x)].end

\* Rows the SELECT of recoverGlobalRows() returns.
\* (Mutation: rows without records are taken for trips that stored nothing.)
NeedsRecoveryIfRecords(row) == row.start # 0 /\ row.end = 0 /\ row.records # 0
NeedsRecovery(row) == row.start # 0 /\ (row.end = 0 \/ row.records = 0)

\* Number of trip_*.log files in the day folder: the next trip id.
\* (Mutation: the rows of the catalog are counted.)
CountTripRows(d) == Cardinality({i \in TripIds : HasRow(<<d, i>>)})
CountTripLogs(d) == Cardinality({i \in TripIds : <<d, i>> \in files})

\* size_exceeded || time_exceeded. The elapsed time is cast to uint64_t, so a
\* clock that went back since the first record of the chunk counts as exceeded.
\* (Mutation: the difference stays signed.)
ExceededSigned(b, bytes) ==
    \/ bytes >= ChunkBytes
    \/ b[Len(b)].ts - b[1].ts >= ChunkNs
Exceeded(b, bytes) ==
    \/ bytes >= ChunkBytes
    \/ b[Len(b)].ts < b[1].ts
    \/ b[Len(b)].ts - b[1].ts >= ChunkNs

\* The UPDATE of updateGlobalRowEnd(): no row, no effect.
WithEnd(k, end, n) ==
    IF HasRow(k) THEN [rows EXCEPT ![k] = [start |-> @.start, end |-> end, records |-> n]]
                 ELSE rows

\* tellp() at the end of the log; -1 on a bad stream.
\* (Mutation: taken after the chunk is written.)
TellAfterWrite == IF logBad THEN -1 ELSE Len(log[Current]) + 1
Tell           == IF logBad THEN -1 ELSE Len(log[Current])

\* A write and a flush of the log, whose result nobody looks at. On a bad
\* stream they do nothing; the one that makes it bad may write a part.
\* (Mutation: the error is cleared and the stream used again.)
WriteLogClearing(item) ==
    /\ \/ log' = [log EXCEPT ![Current] = Append(@, item)]
       \/ "diskfull" \in Faults /\ log' \in {log, [log EXCEPT ![Current] = Append(@, Torn)]}
    /\ UNCHANGED logBad
WriteLog(item) ==
    \/ /\ ~logBad
       /\ log' = [log EXCEPT ![Current] = Append(@, item)]
       /\ UNCHANGED logBad
    \/ /\ ~logBad
       /\ "diskfull" \in Faults
       /\ log' \in {log, [log EXCEPT ![Current] = Append(@, Torn)]}
       /\ logBad' = TRUE
    \/ /\ logBad
       /\ UNCHANGED <<log, logBad>>

\* The end of flushChunkLocked(): the chunk's records are counted and the
\* buffer is emptied. (Mutations: chunks are counted; the buffer is kept.)
CountChunks  == total' = total + 1
CountRecords == total' = total + tie.count
KeepBuffer   == UNCHANGED buf /\ bufBytes' = 0
ClearBuffer  == buf' = <<>> /\ bufBytes' = 0

-----------------------------------------------------------------------------
\* The destructors, or the end of the process: nothing of the memory survives.
ToDown ==
    /\ pc' = "down"
    /\ day' = NoDay /\ id' = -1 /\ startTs' = 0 /\ endTs' = 0 /\ todo' = {}
    /\ buf' = <<>> /\ bufBytes' = 0 /\ tie' = NoEntry /\ total' = 0
    /\ logBad' = FALSE /\ idxBad' = FALSE

Init ==
    /\ now = 1
    /\ files = {}
    /\ log = [k \in Trips |-> <<>>]
    /\ idx = [k \in Trips |-> <<>>]
    /\ rows = [k \in Trips |-> NoRow]
    /\ pc = "down"
    /\ day = NoDay /\ id = -1 /\ startTs = 0 /\ endTs = 0 /\ todo = {}
    /\ buf = <<>> /\ bufBytes = 0 /\ tie = NoEntry /\ total = 0
    /\ logBad = FALSE /\ idxBad = FALSE
    /\ accepted = [k \in Trips |-> 0]

-----------------------------------------------------------------------------
(* Constructor of the node: recovery of earlier rows, trip id, startTrip.  *)

\* current_day is fixed here, for the life of the process. The logger's
\* constructor then selects the rows to recover.
StartNode ==
    /\ pc = "down"
    /\ CountTripLogs(DayOf[now]) < MaxTrips                         \* bound
    /\ day' = DayOf[now]
    /\ todo' = {k \in Trips : NeedsRecovery(rows[k])}
    /\ pc' = "recover"
    /\ UNCHANGED <<now, files, log, idx, rows, id, startTs, endTs, buf, bufBytes,
                   tie, total, logBad, idxBad, accepted>>

\* One turn of the loop: an index that is missing or empty leaves the row as
\* it is; a failed update is only warned about.
RecoverGlobalRow(k) ==
    /\ pc = "recover"
    /\ k \in todo
    /\ todo' = todo \ {k}
    /\ \/ /\ idx[k] = <<>>
          /\ rows' = rows
       \/ /\ idx[k] # <<>>
          /\ rows' = WithEnd(k, SummaryEnd(idx[k]), IndexedRecords(idx[k]))
       \/ /\ "busy" \in Faults
          /\ rows' = rows
    /\ UNCHANGED <<now, files, log, idx, pc, day, id, startTs, endTs, buf, bufBytes,
                   tie, total, logBad, idxBad, accepted>>

\* GetTripId, trip_start_ns, and startTrip up to openTripFiles.
GetTripId ==
    /\ pc = "recover"
    /\ todo = {}
    /\ id' = CountTripLogs(day)
    /\ startTs' = now
    /\ pc' = "open"
    /\ UNCHANGED <<now, files, log, idx, rows, day, endTs, todo, buf, bufBytes,
                   tie, total, logBad, idxBad, accepted>>

\* The log is opened before the index; if the index fails, the exception ends
\* the process and leaves the log behind.
OpenTripFiles ==
    /\ pc = "open"
    /\ files' = files \cup {Current}
    /\ pc' = "header"
    /\ UNCHANGED <<now, log, idx, rows, memory, accepted>>

OpenTripFilesFails ==
    /\ pc = "open"
    /\ "diskfull" \in Faults
    /\ files' \in {files, files \cup {Current}}
    /\ ToDown
    /\ UNCHANGED <<now, log, idx, rows, accepted>>

WriteTripHeader ==
    /\ pc = "header"
    /\ pc' = "insert"
    /\ WriteLog(TripHeader)
    /\ UNCHANGED <<now, files, idx, rows, day, id, startTs, endTs, todo, buf, bufBytes,
                   tie, total, idxBad, accepted>>

\* INSERT OR REPLACE with no end and no records.
InsertGlobalRow ==
    /\ pc = "insert"
    /\ rows' = [rows EXCEPT ![Current] = [start |-> startTs, end |-> 0, records |-> 0]]
    /\ pc' = "run"
    /\ UNCHANGED <<now, disk, memory, accepted>>

\* The exception leaves the node's constructor: the process ends.
InsertGlobalRowFails ==
    /\ pc = "insert"
    /\ "busy" \in Faults
    /\ ToDown
    /\ UNCHANGED <<now, disk, rows, accepted>>

-----------------------------------------------------------------------------
(* The callback: appendRecord and flushChunkLocked.                        *)

AppendRecord(size) ==
    /\ pc = "run"
    /\ accepted[Current] < MaxRecords                               \* bound
    /\ accepted' = [accepted EXCEPT ![Current] = @ + 1]
    /\ buf' = Append(buf, [n |-> accepted[Current] + 1, ts |-> now])
    /\ bufBytes' = bufBytes + size
    /\ pc' = IF Exceeded(buf', bufBytes') THEN "flushLog" ELSE "run"
    /\ UNCHANGED <<now, disk, rows, day, id, startTs, endTs, todo,
                   tie, total, logBad, idxBad>>

FlushLog ==
    /\ pc = "flushLog"
    /\ tie' = [start |-> buf[1].ts, end |-> buf[Len(buf)].ts,
               offset |-> Tell, count |-> Len(buf)]
    /\ WriteLog(Chunk(buf))
    /\ pc' = "flushIdx"
    /\ UNCHANGED <<now, files, idx, rows, day, id, startTs, endTs, todo, buf, bufBytes,
                   total, idxBad, accepted>>

FlushIdx ==
    /\ pc = "flushIdx"
    /\ \/ /\ ~idxBad
          /\ idx' = [idx EXCEPT ![Current] = Append(@, tie)]
          /\ idxBad' = FALSE
       \/ /\ idxBad \/ "diskfull" \in Faults
          /\ idx' = idx
          /\ idxBad' = TRUE
    /\ CountRecords
    /\ ClearBuffer
    /\ tie' = NoEntry
    /\ pc' = IF endTs = 0 THEN "run" ELSE "update"
    /\ UNCHANGED <<now, files, log, rows, day, id, startTs, endTs, todo, logBad, accepted>>

-----------------------------------------------------------------------------
(* The destructor: endTrip.                                                *)

\* An orderly shutdown: trip_end_ns is taken before the last flush, which an
\* empty buffer skips. (Mutations: the buffer is not flushed; it is always.)
EndTripWithoutFlush ==
    /\ pc = "run"
    /\ endTs' = now
    /\ pc' = "update"
    /\ UNCHANGED <<now, disk, rows, day, id, startTs, todo, buf, bufBytes,
                   tie, total, logBad, idxBad, accepted>>
EndTripAlwaysFlushes ==
    /\ pc = "run"
    /\ endTs' = now
    /\ pc' = "flushLog"
    /\ UNCHANGED <<now, disk, rows, day, id, startTs, todo, buf, bufBytes,
                   tie, total, logBad, idxBad, accepted>>
EndTrip ==
    /\ pc = "run"
    /\ endTs' = now
    /\ pc' = IF buf = <<>> THEN "update" ELSE "flushLog"
    /\ UNCHANGED <<now, disk, rows, day, id, startTs, todo, buf, bufBytes,
                   tie, total, logBad, idxBad, accepted>>

\* The destructor of the node swallows the exception of a failed update, and
\* the one of the logger finds an empty buffer.
UpdateGlobalRowEnd ==
    /\ pc = "update"
    /\ \/ rows' = WithEnd(Current, endTs, total)
       \/ "busy" \in Faults /\ rows' = rows
    /\ ToDown
    /\ UNCHANGED <<now, disk, accepted>>

-----------------------------------------------------------------------------
(* The environment.                                                        *)

\* Killed inside the write of a chunk, the process may leave a part of it.
Crash ==
    /\ "crash" \in Faults
    /\ pc # "down"
    /\ \/ log' = log
       \/ pc = "flushLog" /\ ~logBad /\ log' = [log EXCEPT ![Current] = Append(@, Torn)]
    /\ ToDown
    /\ UNCHANGED <<now, files, idx, rows, accepted>>

Tick ==
    /\ \/ now < MaxTime /\ now' = now + 1
       \/ "stepback" \in Faults /\ now' \in 1..(now - 1)
    /\ UNCHANGED <<disk, rows, pc, memory, accepted>>

\* Steps the running thread takes by itself, once started.
ThreadStep ==
    \/ \E k \in Trips : RecoverGlobalRow(k)
    \/ GetTripId
    \/ OpenTripFiles
    \/ OpenTripFilesFails
    \/ WriteTripHeader
    \/ InsertGlobalRow
    \/ InsertGlobalRowFails
    \/ FlushLog
    \/ FlushIdx
    \/ UpdateGlobalRowEnd

Next ==
    \/ StartNode
    \/ ThreadStep
    \/ \E size \in Sizes : AppendRecord(size)
    \/ EndTrip
    \/ Crash
    \/ Tick

Spec     == Init /\ [][Next]_vars
FairSpec == Spec /\ WF_vars(ThreadStep)

-----------------------------------------------------------------------------
(* Properties.                                                             *)

\* Every variable has its type, and the trip a thread works on is a trip of
\* the day its process started on.
TypeOK ==
    /\ now \in Time
    /\ files \subseteq Trips
    /\ log \in [Trips -> Seq(Item)]
    /\ idx \in [Trips -> Seq(Entry)]
    /\ rows \in [Trips -> Row]
    /\ pc \in PCs
    /\ day \in Days \cup {NoDay}
    /\ (pc # "down") => day \in Days
    /\ id \in TripIds \cup {-1}
    /\ (pc \notin {"down", "recover"}) => id \in TripIds
    /\ startTs \in 0..MaxTime
    /\ (pc \notin {"down", "recover"}) => startTs # 0
    /\ endTs \in 0..MaxTime
    /\ (pc = "update") => endTs # 0
    /\ todo \subseteq Trips
    /\ buf \in Seq(Record)
    /\ (pc \in {"flushLog", "flushIdx"}) => buf # <<>>
    /\ bufBytes \in Nat
    /\ tie \in Entry
    /\ total \in Nat
    /\ logBad \in BOOLEAN /\ idxBad \in BOOLEAN
    /\ accepted \in [Trips -> Nat]

\* The entry e locates a whole chunk of the log l and describes it.
Locates(e, l) ==
    /\ e.offset + 1 \in 1..Len(l)
    /\ LET c == l[e.offset + 1]
       IN  /\ c.kind = "chunk"
           /\ c.recs # <<>>
           /\ e.count = Len(c.recs)
           /\ e.start = c.recs[1].ts
           /\ e.end = c.recs[Len(c.recs)].ts

\* A reader that opens trip_NN.idx at any moment, also between the two writes
\* of flushChunkLocked and after a crash, finds a whole chunk of the log
\* behind every entry, with the count and the times the entry announces.
IndexPointsAtChunk ==
    \A k \in Trips : \A i \in 1..Len(idx[k]) : Locates(idx[k][i], log[k])

\* "prefix-durable append": the records reached through the index are the
\* first ones the trip accepted, each once and in order, also behind the
\* entries that follow a damaged one; and until a write of the index fails, the
\* live trip has every other accepted record still in its buffer.
StoredIsPrefix ==
    /\ \A k \in Trips : \A i \in 1..Len(idx[k]) :
          LET recs == log[k][idx[k][i].offset + 1].recs
              before == IndexedRecords(SubSeq(idx[k], 1, i - 1))
          IN  Locates(idx[k][i], log[k]) => \A j \in 1..Len(recs) : recs[j].n = before + j
    /\ \A k \in Trips : IndexedRecords(idx[k]) <= accepted[k]
    /\ (pc \in {"run", "flushLog", "flushIdx", "update"} /\ ~idxBad) =>
          IndexedRecords(idx[Current]) + Len(buf) = accepted[Current]

\* A row with an end, written by endTrip or by a later recovery, counts
\* exactly the records its index reaches.
RowMatchesIndex ==
    \A k \in Trips : rows[k].end # 0 => rows[k].records = IndexedRecords(idx[k])

\* While the clock is not set back, the interval a row announces (open-ended
\* until it has an end) contains every stored record, so FindMatchingTrips
\* misses none, whether endTrip or recovery wrote the end.
RowCoversRecords ==
    \A k \in Trips : \A i \in 1..Len(idx[k]) :
        LET recs == log[k][idx[k][i].offset + 1].recs
        IN  /\ HasRow(k)
            /\ \A j \in 1..Len(recs) :
                  /\ rows[k].start <= recs[j].ts
                  /\ rows[k].end # 0 => recs[j].ts <= rows[k].end

\* Unless the catalog was busy, a node that ingests has closed the row of
\* every earlier trip of its topic that stored anything.
RunningMeansRecovered ==
    (pc \notin {"down", "recover"}) =>
        \A k \in Trips \ {Current} : idx[k] # <<>> => rows[k].end # 0

\* What a crash can lose is one chunk: all buffered records but the newest
\* are within the byte and time targets. (The age of that chunk is not bounded:
\* it is compared only when a record arrives.)
LossIsOneChunk ==
    LET older == SubSeq(buf, 1, Len(buf) - 1)
    IN  /\ \A i, j \in 1..Len(older) : older[j].ts - older[i].ts < ChunkNs
        /\ \E size \in Sizes \cup {0} : bufBytes - size < ChunkBytes

\* When a write has failed, the entries that locate no chunk are the last
\* ones of their index: what precedes the failure stays readable.
DamageIsASuffix ==
    \A k \in Trips : \A i, j \in 1..Len(idx[k]) :
        (i < j /\ Locates(idx[k][j], log[k])) => Locates(idx[k][i], log[k])

\* No trip id is given twice, whatever stopped the earlier processes: the
\* files startTrip opens in append mode do not exist yet, and INSERT OR
\* REPLACE replaces no row.
TripNeverReused ==
    (pc = "open") => Current \notin files /\ ~HasRow(Current)

\* An orderly shutdown seals the trip: once the destructor has begun, the row
\* gets an end and counts every record the trip accepted, and the index
\* reaches all of them; unless a write of the trip failed, or the process was
\* killed before the row had its end.
ShutdownSeals ==
    \A k \in Trips :
        (endTs # 0 /\ Current = k)
            ~> \/ /\ rows[k].end # 0
                  /\ rows[k].records = accepted[k]
                  /\ IndexedRecords(idx[k]) = accepted[k]
               \/ logBad \/ idxBad
               \/ pc = "down" /\ rows[k].end = 0

-----------------------------------------------------------------------------
(* The refinement of TripStore.                                            *)

HasTrip == pc \in {"run", "flushLog", "flushIdx", "update"}

RowState(r) ==
    CASE r.start = 0             -> "none"
      [] r.start # 0 /\ r.end = 0 -> "open"
      [] OTHER                   -> "closed"

Store == INSTANCE TripStore WITH
    NoTrip <- <<NoDay, -1>>,
    active <- IF HasTrip THEN Current ELSE <<NoDay, -1>>,
    stored <- [k \in Trips |-> IndexedRecords(idx[k])],
    row    <- [k \in Trips |-> [state |-> RowState(rows[k]), records |-> rows[k].records]]

\* The logger, with its two writes per chunk and the catalog update apart and
\* crashes between any of them, keeps the promise of TripStore.
StoreSpec == Store!Spec

=============================================================================
