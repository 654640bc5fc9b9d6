---------------------------- MODULE RocksDbIngest ----------------------------
(***************************************************************************)
(* An ingest node with the RocksDB back end: the filter of its callback    *)
(* (near-duplicate images, one GPS fix in several, every LiDAR cloud), the *)
(* logger that puts each kept reading into the database of the day, and    *)
(* the row of that database in rocksdb_global.sqlite3.                     *)
(*                                                                         *)
(* The trip id is the number of trip_*.log files of the day folder, of     *)
(* which this back end makes none: it is 0 for every process, so that all  *)
(* processes of a day share one database and one row. RocksDB lets one     *)
(* process at a time have the database open. One topic and one day. The    *)
(* system clock is not set back: keys would be given twice if it were.     *)
(***************************************************************************)
EXTENDS Integers, FiniteSets

CONSTANTS
    Procs,       \* processes of the node that may be alive together
    MaxTime,     \* bound: the clock
    MaxRuns,     \* bound: starts of the node
    MaxPuts,     \* bound: records tried by one run
    MaxThrows,   \* bound: readings of one run whose conversion throws
    Sensors,     \* which nodes: of {"image", "gps", "lidar"}
    Views,       \* images as points of a line: the hashes' distances
    Threshold,   \* hamming_threshold
    Frequency,   \* downscale_frequency
    Faults       \* the faults this instance considers

\* "crash": a process is killed.    "busy": SQLite answers SQLITE_BUSY.
\* "put", "flush", "open": RocksDB returns a status that is not ok.
\* "convert": the conversion of a reading throws. "encode": imencode returns
\* false, which nobody looks at.
FaultKinds == {"crash", "busy", "put", "flush", "open", "convert", "encode"}

ASSUME RocksDbAssumption ==
    /\ IsFiniteSet(Procs)
    /\ MaxTime \in Nat /\ MaxRuns \in Nat
    /\ MaxPuts \in Nat /\ MaxThrows \in Nat
    /\ Sensors \subseteq {"image", "gps", "lidar"} /\ Sensors # {}
    /\ Views \subseteq Nat /\ Views # {}
    /\ Threshold \in Nat
    /\ Frequency \in Nat \ {0}
    /\ Faults \subseteq FaultKinds

None == -1                     \* no image: first_image_, or an empty payload

RunIds == 1..MaxRuns

\* The key is the time and the number within the trip; `run' is history.
Record == [ts : Nat, seq : Nat, view : Views \cup {None}, run : RunIds]
Row    == [start : Nat, end : Nat, records : Nat, run : 0..MaxRuns]
NoRow  == [start |-> 0, end |-> 0, records |-> 0, run |-> 0]

PCs == {"down", "open", "insert", "run", "flush", "update"}

VARIABLES
    sensor,    \* which node this is
    now,       \* std::chrono::system_clock
    db,        \* records of the database of the day
    row,       \* its row of the catalog
    pc,        \* where each process is
    startTs,   \* trip_start_ns
    endTs,     \* the argument of endTrip
    seq,       \* next_seq_
    total,     \* trip_total_record_count_
    last,      \* last_hash_, None while first_image_
    fixes,     \* records_count_
    tries,     \* calls of endTrip that threw
    runs,      \* history: starts so far
    run,       \* history: which start each process is
    accepted,  \* history: the records appendRecord returned for
    seen,      \* history: images a run received
    threw,     \* history: images of the run whose conversion threw
    lost,      \* history: images of the run that were kept and not stored
    stopped    \* history: runs killed or whose endTrip threw twice

filter  == <<last, fixes, seen, threw, lost>>
trip    == <<startTs, endTs, seq, total, tries>>
history == <<runs, run, accepted, stopped>>
vars    == <<sensor, now, db, row, pc, trip, filter, history>>

Dist(v, w) == IF v < w THEN w - v ELSE v - w

\* The processes that hold the LOCK of the database.
\* (Mutation: it is closed before the row is updated.)
HasDbUntilFlush == {p \in Procs : pc[p] \in {"insert", "run", "flush"}}
HasDb           == {p \in Procs : pc[p] \in {"insert", "run", "flush", "update"}}

\* The end of a process: nothing of its memory survives.
ToDown(p) ==
    /\ pc' = [pc EXCEPT ![p] = "down"]
    /\ startTs' = [startTs EXCEPT ![p] = 0] /\ endTs' = [endTs EXCEPT ![p] = 0]
    /\ seq' = [seq EXCEPT ![p] = 0] /\ total' = [total EXCEPT ![p] = 0]
    /\ tries' = [tries EXCEPT ![p] = 0]
    /\ last' = [last EXCEPT ![p] = None] /\ fixes' = [fixes EXCEPT ![p] = 0]
    /\ run' = [run EXCEPT ![p] = 0]
    /\ seen' = [seen EXCEPT ![p] = {}] /\ threw' = [threw EXCEPT ![p] = {}]
    /\ lost' = [lost EXCEPT ![p] = {}]

Init ==
    /\ sensor \in Sensors
    /\ now = 1
    /\ db = {} /\ row = NoRow
    /\ pc = [p \in Procs |-> "down"]
    /\ startTs = [p \in Procs |-> 0] /\ endTs = [p \in Procs |-> 0]
    /\ seq = [p \in Procs |-> 0] /\ total = [p \in Procs |-> 0]
    /\ last = [p \in Procs |-> None] /\ fixes = [p \in Procs |-> 0]
    /\ tries = [p \in Procs |-> 0]
    /\ runs = 0 /\ run = [p \in Procs |-> 0]
    /\ accepted = {}
    /\ seen = [p \in Procs |-> {}] /\ threw = [p \in Procs |-> {}]
    /\ lost = [p \in Procs |-> {}] /\ stopped = {}

-----------------------------------------------------------------------------
(* The constructor of the node: startTrip.                                 *)

\* The filter and the logger are made, trip_start_ns is taken.
StartNode(p) ==
    /\ pc[p] = "down"
    /\ runs < MaxRuns                                                \* bound
    /\ runs' = runs + 1
    /\ run' = [run EXCEPT ![p] = runs + 1]
    /\ startTs' = [startTs EXCEPT ![p] = now]
    /\ pc' = [pc EXCEPT ![p] = "open"]
    /\ UNCHANGED <<sensor, now, db, row, endTs, seq, total, tries, filter, accepted, stopped>>

\* To open the database takes longer than a tick of the clock.
OpenDb(p) ==
    /\ pc[p] = "open"
    /\ HasDb = {}
    /\ now < MaxTime                                                 \* bound
    /\ now' = now + 1
    /\ pc' = [pc EXCEPT ![p] = "insert"]
    /\ UNCHANGED <<sensor, db, row, trip, filter, history>>

\* The exception leaves the node's constructor. No main catches it: the build
\* terminates without unwinding, so the logger's destructor ends no trip.
OpenDbFails(p) ==
    /\ pc[p] = "open"
    /\ HasDb # {} \/ "open" \in Faults
    /\ ToDown(p)
    /\ UNCHANGED <<sensor, now, db, row, runs, accepted, stopped>>

\* INSERT OR REPLACE: the row of the earlier processes of the day goes.
InsertMetadataRow(p) ==
    /\ pc[p] = "insert"
    /\ row' = [start |-> startTs[p], end |-> 0, records |-> 0, run |-> run[p]]
    /\ pc' = [pc EXCEPT ![p] = "run"]
    /\ UNCHANGED <<sensor, now, db, trip, filter, history>>

InsertMetadataRowFails(p) ==
    /\ pc[p] = "insert"
    /\ "busy" \in Faults
    /\ ToDown(p)
    /\ UNCHANGED <<sensor, now, db, row, runs, accepted, stopped>>

-----------------------------------------------------------------------------
(* The callback: the filter, then appendRecord.                            *)

\* isUniqueAndGetBytes (mutation: the hash is that of the last image, not of
\* the last one kept), and the count of the GPS node (mutation: not set back
\* to 0 by a fix that is kept).
Unique(p, v) == last[p] = None \/ Dist(last[p], v) > Threshold

Kept(p, v) ==
    \/ sensor = "image" /\ Unique(p, v)
    \/ sensor = "gps" /\ (fixes[p] + 1) % Frequency = 0
    \/ sensor = "lidar"

FilterCountingOn(p, v) ==
    /\ last' = [last EXCEPT ![p] = IF sensor = "image" /\ Kept(p, v) THEN v ELSE @]
    /\ fixes' = [fixes EXCEPT ![p] = IF sensor = "gps" THEN @ + 1 ELSE 0]
    /\ seen' = [seen EXCEPT ![p] = @ \cup {v}]
FilterDrifting(p, v) ==
    /\ last' = [last EXCEPT ![p] = v]
    /\ fixes' = [fixes EXCEPT ![p] = IF sensor = "gps" /\ ~Kept(p, v) THEN @ + 1 ELSE 0]
    /\ seen' = [seen EXCEPT ![p] = @ \cup {v}]
Filter(p, v) ==
    /\ last' = [last EXCEPT ![p] = IF sensor = "image" /\ Kept(p, v) THEN v ELSE @]
    /\ fixes' = [fixes EXCEPT ![p] = IF sensor = "gps" /\ ~Kept(p, v) THEN @ + 1 ELSE 0]
    /\ seen' = [seen EXCEPT ![p] = @ \cup {v}]

Drop(p, v) ==
    /\ pc[p] = "run"
    /\ ~Kept(p, v)
    /\ Filter(p, v)
    /\ UNCHANGED <<sensor, now, db, row, pc, trip, threw, lost, history>>

\* isUniqueAndGetBytes or getLAZ throws: the callback logs it and returns. The
\* hash of the image is not yet taken.
ConversionThrows(p, v) ==
    /\ pc[p] = "run"
    /\ "convert" \in Faults /\ sensor \in {"image", "lidar"}
    /\ Cardinality(threw[p]) < MaxThrows                             \* bound
    /\ seen' = [seen EXCEPT ![p] = @ \cup {v}]
    /\ threw' = [threw EXCEPT ![p] = @ \cup {v}]
    /\ UNCHANGED <<sensor, now, db, row, pc, trip, last, fixes, lost, history>>

\* What the image v may be stored as.
Payloads(v) == {v} \cup (IF sensor = "image" /\ "encode" \in Faults THEN {None} ELSE {})

\* The number of the record is used up whether or not the put succeeds.
\* (Mutation: it is not.)
KeySame(p)    == UNCHANGED seq
KeyAdvance(p) == seq' = [seq EXCEPT ![p] = @ + 1]

TheRecord(p, v) == [ts |-> now, seq |-> seq[p], view |-> v, run |-> run[p]]

\* A record with the same key is replaced.
Put(r) == {q \in db : q.ts # r.ts \/ q.seq # r.seq} \cup {r}

AppendRecord(p, v) == \E w \in Payloads(v) :
    /\ pc[p] = "run"
    /\ seq[p] < MaxPuts /\ total[p] < MaxPuts                        \* bound
    /\ Kept(p, v)
    /\ Filter(p, v)
    /\ KeyAdvance(p)
    /\ db' = Put(TheRecord(p, w))
    /\ total' = [total EXCEPT ![p] = @ + 1]
    /\ accepted' = accepted \cup {TheRecord(p, w)}
    /\ lost' = [lost EXCEPT ![p] = IF w = None THEN @ \cup {v} ELSE @]
    /\ UNCHANGED <<sensor, now, row, pc, startTs, endTs, tries, runs, run, threw, stopped>>

\* A put that returned an error may be found in the database all the same. The
\* callback logs the exception; what the filter remembers stays.
AppendRecordFails(p, v) == \E w \in Payloads(v) :
    /\ pc[p] = "run"
    /\ "put" \in Faults
    /\ seq[p] < MaxPuts                                              \* bound
    /\ Kept(p, v)
    /\ Filter(p, v)
    /\ KeyAdvance(p)
    /\ db' \in {db, Put(TheRecord(p, w))}
    /\ lost' = [lost EXCEPT ![p] = @ \cup {v}]
    /\ UNCHANGED <<sensor, now, row, pc, startTs, endTs, total, tries, runs, run, accepted, threw, stopped>>

-----------------------------------------------------------------------------
(* The destructors: endTrip.                                               *)

EndTrip(p) ==
    /\ pc[p] = "run"
    /\ endTs' = [endTs EXCEPT ![p] = now]
    /\ pc' = [pc EXCEPT ![p] = "flush"]
    /\ UNCHANGED <<sensor, now, db, row, startTs, seq, total, tries, filter, history>>

FlushDb(p) ==
    /\ pc[p] = "flush"
    /\ pc' = [pc EXCEPT ![p] = "update"]
    /\ UNCHANGED <<sensor, now, db, row, trip, filter, history>>

\* With the row updated the database is closed and the trip is over; the
\* destructor of the logger has nothing left to do.
UpdateMetadataRow(p) ==
    /\ pc[p] = "update"
    /\ row' = [row EXCEPT !.end = endTs[p], !.records = total[p]]
    /\ ToDown(p)
    /\ UNCHANGED <<sensor, now, db, runs, accepted, stopped>>

\* endTrip throws with the trip still set. The destructor of the node swallows
\* that and the one of the logger calls it again, with a later time. When that
\* throws too, the database is closed and the row stays open.
\* (Mutation: after the first exception.)
EndTripCanFail(p) ==
    \/ pc[p] = "flush" /\ "flush" \in Faults
    \/ pc[p] = "update" /\ "busy" \in Faults

EndTripFailsAtOnce(p) ==
    /\ EndTripCanFail(p)
    /\ ToDown(p)
    /\ stopped' = IF tries[p] = 0 THEN stopped ELSE stopped \cup {run[p]}
    /\ UNCHANGED <<sensor, now, db, row, runs, accepted>>
EndTripFails(p) ==
    /\ EndTripCanFail(p)
    /\ \/ /\ tries[p] = 0
          /\ tries' = [tries EXCEPT ![p] = 1]
          /\ endTs' = [endTs EXCEPT ![p] = now]
          /\ pc' = [pc EXCEPT ![p] = "flush"]
          /\ UNCHANGED <<startTs, seq, total, filter, run, stopped>>
       \/ /\ tries[p] = 1
          /\ ToDown(p)
          /\ stopped' = stopped \cup {run[p]}
    /\ UNCHANGED <<sensor, now, db, row, runs, accepted>>

-----------------------------------------------------------------------------
(* The environment.                                                        *)

\* A killed process: what was put is in the write-ahead log.
Crash(p) ==
    /\ "crash" \in Faults
    /\ pc[p] # "down"
    /\ ToDown(p)
    /\ stopped' = stopped \cup {run[p]}
    /\ UNCHANGED <<sensor, now, db, row, runs, accepted>>

Tick ==
    /\ now < MaxTime
    /\ now' = now + 1
    /\ UNCHANGED <<sensor, db, row, pc, trip, filter, history>>

\* Steps a process takes by itself, once started.
ThreadStep(p) ==
    \/ OpenDb(p) \/ OpenDbFails(p)
    \/ InsertMetadataRow(p) \/ InsertMetadataRowFails(p)
    \/ FlushDb(p) \/ UpdateMetadataRow(p) \/ EndTripFails(p)

\* Only images are told apart.
Readings == IF sensor = "image" THEN Views ELSE {CHOOSE v \in Views : TRUE}

Callback(p, v) ==
    \/ Drop(p, v) \/ ConversionThrows(p, v)
    \/ AppendRecord(p, v) \/ AppendRecordFails(p, v)

Next ==
    \/ \E p \in Procs :
          \/ StartNode(p) \/ ThreadStep(p) \/ EndTrip(p) \/ Crash(p)
          \/ \E v \in Readings : Callback(p, v)
    \/ Tick

Spec     == Init /\ [][Next]_vars
FairSpec == Spec /\ \A p \in Procs : WF_vars(ThreadStep(p))

-----------------------------------------------------------------------------
(* Properties.                                                             *)

\* Every variable has its type.
TypeOK ==
    /\ sensor \in Sensors
    /\ now \in Nat
    /\ db \subseteq Record
    /\ row \in Row
    /\ pc \in [Procs -> PCs]
    /\ startTs \in [Procs -> Nat] /\ endTs \in [Procs -> Nat]
    /\ seq \in [Procs -> Nat] /\ total \in [Procs -> Nat]
    /\ last \in [Procs -> Views \cup {None}]
    /\ fixes \in [Procs -> 0..(Frequency - 1)]
    /\ tries \in [Procs -> 0..1]
    /\ runs \in 0..MaxRuns /\ run \in [Procs -> 0..MaxRuns]
    /\ accepted \subseteq Record
    /\ seen \in [Procs -> SUBSET Views] /\ threw \in [Procs -> SUBSET Views]
    /\ lost \in [Procs -> SUBSET Views] /\ stopped \subseteq 0..MaxRuns

\* Whatever appendRecord returned for is in the database and stays there,
\* although processes are killed, reopen the same database and number their
\* records from 0 again.
AcceptedIsStored == accepted \subseteq db

\* A row with an end counts the records its own run put, although all runs of
\* a day write the same row: no other run comes between the insert and the
\* update, and a failed put is not counted.
ClosedRowCountsItsRun ==
    row.end # 0 => row.records = Cardinality({r \in accepted : r.run = row.run})

\* The run of p stored the image w, or the filter kept it in vain: its
\* appendRecord threw, or it was stored empty.
StoredOrLost(p, w) ==
    (\E r \in accepted : r.run = run[p] /\ r.view = w) \/ w \in lost[p]

\* Deduplication loses no scene: each image a running node was given is near
\* one that its run stored, or near one that is lost for an error of its own.
\* An error costs the scene of its image and no other; an image whose
\* conversion threw costs only itself, since the filter forgets it.
EveryImageIsRepresented ==
    \A p \in Procs : (pc[p] = "run" /\ sensor = "image") =>
        \A v \in seen[p] \ threw[p] :
            \E w \in Views : StoredOrLost(p, w) /\ Dist(w, v) <= Threshold

\* A shutdown closes the row of its run, or was killed, or endTrip threw twice:
\* one transient error is made up for by the destructor of the logger.
ShutdownClosesRow ==
    \A n \in RunIds :
        (\E p \in Procs : pc[p] = "flush" /\ run[p] = n)
            ~> (row.run = n /\ row.end # 0) \/ n \in stopped

=============================================================================
