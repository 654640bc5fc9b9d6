------------------------- MODULE RocksDbIngestProofs -------------------------
(* Theorems about RocksDbIngest, for every value of its constants.         *)
EXTENDS RocksDbIngest, FiniteSetTheorems, TLAPS

-----------------------------------------------------------------------------
(* The inductive invariant.                                                *)

RunOf(n) == {r \in accepted : r.run = n}

\* A live process has a run of its own, begun before now; the database has
\* records of begun runs only.
RunsInv ==
    /\ \A p \in Procs : pc[p] # "down" => run[p] \in 1..runs
    /\ \A p, q \in Procs : pc[p] # "down" /\ pc[q] # "down" /\ run[p] = run[q] => p = q
    /\ \A r \in db : r.run <= runs
    /\ row.run <= runs

\* RocksDB's lock.
LockInv == \A p, q \in HasDb : p = q

\* Before the first callback a process has counted and seen nothing.
FreshInv ==
    \A p \in Procs : pc[p] \in {"down", "open", "insert"} =>
        seq[p] = 0 /\ total[p] = 0 /\ last[p] = None /\ seen[p] = {}

\* No record in the database has the key of a record to come: records of the
\* run have lower numbers, all others are older than the database is open.
KeyInv ==
    /\ AcceptedIsStored
    /\ \A r \in db : r.ts <= now
    /\ \A p \in Procs : pc[p] = "open" => \A r \in db : r.run # run[p]
    /\ \A p \in HasDb : \A r \in db : IF r.run = run[p] THEN r.seq < seq[p] ELSE r.ts < now

\* The counter of a process is the number of its records; the row belongs to
\* the process that has the database, or to one that is no more.
CountInv ==
    /\ IsFiniteSet(accepted)
    /\ \A p \in HasDb : total[p] = Cardinality(RunOf(run[p]))
    /\ \A p \in Procs : pc[p] \in {"run", "flush", "update"} => row.run = run[p] /\ row.end = 0
    /\ ClosedRowCountsItsRun
    /\ row.end # 0 => \A p \in Procs : pc[p] # "down" => run[p] # row.run

\* The filter compares with an image that is stored or lost.
SceneInv ==
    /\ EveryImageIsRepresented
    /\ \A p \in Procs : (pc[p] = "run" /\ sensor = "image") =>
          IF last[p] = None THEN seen[p] \subseteq threw[p] ELSE StoredOrLost(p, last[p])

IInv == TypeOK /\ RunsInv /\ LockInv /\ FreshInv /\ KeyInv /\ CountInv /\ SceneInv

-----------------------------------------------------------------------------
(* The steps, by what they do.                                             *)

\* A process ends, in whatever way.
Stops(p) ==
    /\ pc[p] # "down"
    /\ ToDown(p)
    /\ UNCHANGED <<sensor, now, db, row, runs, accepted>>
    /\ stopped' \in {stopped, stopped \cup {run[p]}}

\* A step of endTrip that leaves database and row alone.
Ends(p) ==
    /\ pc[p] \in {"run", "flush", "update"}
    /\ \E l \in {"flush", "update"} : pc' = [pc EXCEPT ![p] = l]
    /\ endTs' \in {endTs, [endTs EXCEPT ![p] = now]}
    /\ tries' \in {tries, [tries EXCEPT ![p] = 1]}
    /\ UNCHANGED <<sensor, now, db, row, startTs, seq, total, filter, history>>

\* appendRecord with the payload w for the reading v.
AppendsAs(p, v, w) ==
    /\ pc[p] = "run" /\ Kept(p, v) /\ Filter(p, v) /\ KeyAdvance(p)
    /\ db' = Put(TheRecord(p, w))
    /\ total' = [total EXCEPT ![p] = @ + 1]
    /\ accepted' = accepted \cup {TheRecord(p, w)}
    /\ lost' = [lost EXCEPT ![p] = IF w = None THEN @ \cup {v} ELSE @]
    /\ w = v \/ w = None
    /\ UNCHANGED <<sensor, now, row, pc, startTs, endTs, tries, runs, run, threw, stopped>>

FailsAs(p, v, w) ==
    /\ pc[p] = "run" /\ Kept(p, v) /\ Filter(p, v) /\ KeyAdvance(p)
    /\ db' \in {db, Put(TheRecord(p, w))}
    /\ lost' = [lost EXCEPT ![p] = @ \cup {v}]
    /\ UNCHANGED <<sensor, now, row, pc, startTs, endTs, total, tries, runs, run, accepted, threw, stopped>>

LEMMA AppendKinds ==
    ASSUME NEW p \in Procs, NEW v \in Views
    PROVE  /\ AppendRecord(p, v) => \E w \in Views \cup {None} : AppendsAs(p, v, w)
           /\ AppendRecordFails(p, v) => \E w \in Views \cup {None} : FailsAs(p, v, w)
<1>1. Payloads(v) \subseteq Views \cup {None} /\ \A w \in Payloads(v) : w = v \/ w = None
  BY DEF Payloads
<1>2. ASSUME AppendRecord(p, v)
      PROVE  \E w \in Views \cup {None} : AppendsAs(p, v, w)
  <2>1. PICK w \in Payloads(v) : AppendsAs(p, v, w)
    BY <1>1, <1>2 DEF AppendRecord, AppendsAs
  <2> QED
    BY <1>1, <2>1
<1>3. ASSUME AppendRecordFails(p, v)
      PROVE  \E w \in Views \cup {None} : FailsAs(p, v, w)
  <2>1. PICK w \in Payloads(v) : FailsAs(p, v, w)
    BY <1>3 DEF AppendRecordFails, FailsAs
  <2> QED
    BY <1>1, <2>1
<1> QED
  BY <1>2, <1>3

\* The bounds and the readings as sets.
LEMMA Basics ==
    /\ MaxTime \in Nat /\ MaxRuns \in Nat /\ MaxPuts \in Nat
    /\ Frequency \in Nat /\ Frequency > 0 /\ Threshold \in Nat
    /\ \A v \in Views : v \in Nat
    /\ Readings \subseteq Views
<1>1. Views # {} => (CHOOSE v \in Views : TRUE) \in Views
  OBVIOUS
<1> QED
  BY <1>1, RocksDbAssumption DEF Readings

\* Every step is one of these.
LEMMA StepKinds ==
    ASSUME [Next]_vars
    PROVE  \/ UNCHANGED vars \/ Tick
           \/ \E p \in Procs :
                 \/ StartNode(p) \/ OpenDb(p) \/ InsertMetadataRow(p) \/ UpdateMetadataRow(p)
                 \/ Stops(p) \/ Ends(p)
                 \/ \E v \in Views : \/ Drop(p, v) \/ ConversionThrows(p, v)
                                      \/ AppendRecord(p, v) \/ AppendRecordFails(p, v)
<1>1. ASSUME NEW p \in Procs, ThreadStep(p)
      PROVE  OpenDb(p) \/ InsertMetadataRow(p) \/ UpdateMetadataRow(p) \/ Stops(p) \/ Ends(p)
  <2>1. CASE OpenDbFails(p) \/ InsertMetadataRowFails(p)
    BY <2>1 DEF OpenDbFails, InsertMetadataRowFails, Stops
  <2>2. CASE FlushDb(p)
    BY <2>2 DEF FlushDb, Ends, trip, filter, history
  <2>3. CASE EndTripFails(p)
    BY <2>3 DEF EndTripFails, EndTripCanFail, Ends, Stops, filter, history
  <2> QED
    BY <1>1, <2>1, <2>2, <2>3 DEF ThreadStep
<1>2. ASSUME NEW p \in Procs, EndTrip(p) PROVE Ends(p)
  BY <1>2 DEF EndTrip, Ends
<1>3. ASSUME NEW p \in Procs, Crash(p) PROVE Stops(p)
  BY <1>3 DEF Crash, Stops
<1> QED
  BY <1>1, <1>2, <1>3, Basics DEF Next, Callback

-----------------------------------------------------------------------------
(* Types.                                                                  *)

\* A record that is put has its type.
LEMMA RecordType ==
    ASSUME TypeOK, RunsInv, NEW p \in Procs, NEW v \in Views \cup {None}, pc[p] = "run"
    PROVE  /\ TheRecord(p, v) \in Record
           /\ TheRecord(p, v).ts = now /\ TheRecord(p, v).seq = seq[p]
           /\ TheRecord(p, v).view = v /\ TheRecord(p, v).run = run[p]
<1>1. run[p] \in 1..runs /\ runs \in 0..MaxRuns
  BY DEF TypeOK, RunsInv
<1>2. run[p] \in RunIds
  BY <1>1, Basics DEF RunIds
<1> QED
  BY <1>2 DEF TypeOK, TheRecord, Record

\* What is known of the database after a put.
LEMMA PutFacts ==
    ASSUME TypeOK, RunsInv, NEW p \in Procs, NEW v \in Views \cup {None}, pc[p] = "run"
    PROVE  /\ Put(TheRecord(p, v)) \subseteq Record
           /\ TheRecord(p, v) \in Put(TheRecord(p, v))
           /\ \A r \in Put(TheRecord(p, v)) : r = TheRecord(p, v) \/ r \in db
           /\ \A r \in db : (r.ts # now \/ r.seq # seq[p]) => r \in Put(TheRecord(p, v))
  BY RecordType DEF Put, TypeOK

\* A reading that the filter sees leaves its memory well typed.
LEMMA FilterType ==
    ASSUME TypeOK, NEW p \in Procs, NEW v \in Views, Filter(p, v)
    PROVE  /\ last' \in [Procs -> Views \cup {None}]
           /\ fixes' \in [Procs -> 0..(Frequency - 1)]
           /\ seen' \in [Procs -> SUBSET Views]
<1>1. /\ last \in [Procs -> Views \cup {None}]
      /\ fixes \in [Procs -> 0..(Frequency - 1)]
      /\ seen \in [Procs -> SUBSET Views]
  BY DEF TypeOK
<1>2. last' \in [Procs -> Views \cup {None}]
  BY <1>1 DEF Filter
<1>3. seen' \in [Procs -> SUBSET Views]
  BY <1>1 DEF Filter
<1>4. fixes' \in [Procs -> 0..(Frequency - 1)]
  <2>1. Frequency % Frequency = 0 /\ 0 \in 0..(Frequency - 1)
    BY Basics
  <2>2. fixes[p] \in 0..(Frequency - 1)
    BY <1>1
  <2>3. CASE sensor = "gps" /\ ~Kept(p, v)
    <3>1. (fixes[p] + 1) % Frequency # 0
      BY <2>3 DEF Kept
    <3>2. fixes[p] + 1 # Frequency
      BY <2>1, <3>1
    <3>3. fixes[p] + 1 \in 0..(Frequency - 1)
      BY <2>2, <3>2, Basics
    <3>4. fixes' = [fixes EXCEPT ![p] = fixes[p] + 1]
      BY <2>3 DEF Filter
    <3> QED
      BY <1>1, <3>3, <3>4
  <2>4. CASE ~(sensor = "gps" /\ ~Kept(p, v))
    <3>1. fixes' = [fixes EXCEPT ![p] = 0]
      BY <2>4 DEF Filter
    <3> QED
      BY <1>1, <2>1, <3>1
  <2> QED
    BY <2>3, <2>4
<1> QED
  BY <1>2, <1>3, <1>4

\* The initial states.
LEMMA InvInit == Init => IInv
<1> SUFFICES ASSUME Init PROVE IInv
  OBVIOUS
<1>1. TypeOK
  BY Basics DEF Init, TypeOK, NoRow, Row, PCs, RocksDbAssumption
<1>2. RunsInv /\ LockInv /\ FreshInv /\ KeyInv
  BY DEF Init, RunsInv, LockInv, HasDb, FreshInv, KeyInv, AcceptedIsStored, NoRow
<1>3. CountInv
  <2>1. IsFiniteSet(accepted)
    BY FS_EmptySet DEF Init
  <2> QED
    BY <2>1 DEF Init, CountInv, HasDb, ClosedRowCountsItsRun, NoRow
<1>4. SceneInv
  BY DEF Init, SceneInv, EveryImageIsRepresented
<1> QED
  BY <1>1, <1>2, <1>3, <1>4 DEF IInv

\* A process that ends leaves its memory empty.
LEMMA DownType ==
    ASSUME TypeOK, NEW p \in Procs, ToDown(p)
    PROVE  /\ pc' \in [Procs -> PCs]
           /\ startTs' \in [Procs -> Nat] /\ endTs' \in [Procs -> Nat]
           /\ seq' \in [Procs -> Nat] /\ total' \in [Procs -> Nat]
           /\ last' \in [Procs -> Views \cup {None}]
           /\ fixes' \in [Procs -> 0..(Frequency - 1)]
           /\ tries' \in [Procs -> 0..1]
           /\ run' \in [Procs -> 0..MaxRuns]
           /\ seen' \in [Procs -> SUBSET Views] /\ threw' \in [Procs -> SUBSET Views]
           /\ lost' \in [Procs -> SUBSET Views]
<1>1. 0 \in 0..(Frequency - 1) /\ 0 \in 0..MaxRuns /\ 0 \in 0..1
  BY Basics
<1>2. "down" \in PCs /\ {} \in SUBSET Views
  BY DEF PCs
<1> QED
  BY <1>1, <1>2 DEF TypeOK, ToDown

\* Each step keeps the types.
LEMMA TypeStep ==
    ASSUME TypeOK, RunsInv, [Next]_vars
    PROVE  TypeOK'
<1>1. CASE UNCHANGED vars
  BY <1>1 DEF TypeOK, vars, trip, filter, history
<1>2. CASE Tick
  BY <1>2 DEF TypeOK, Tick, trip, filter, history
<1>3. ASSUME NEW p \in Procs, StartNode(p) PROVE TypeOK'
  <2>1. runs + 1 \in 0..MaxRuns
    BY <1>3, Basics DEF TypeOK, StartNode
  <2> QED
    BY <1>3, <2>1 DEF TypeOK, StartNode, filter, PCs
<1>4. ASSUME NEW p \in Procs, OpenDb(p) PROVE TypeOK'
  BY <1>4 DEF TypeOK, OpenDb, trip, filter, history, PCs
<1>5. ASSUME NEW p \in Procs, InsertMetadataRow(p) PROVE TypeOK'
  <2>1. row' \in Row
    BY <1>5 DEF TypeOK, InsertMetadataRow, Row
  <2> QED
    BY <1>5, <2>1 DEF TypeOK, InsertMetadataRow, trip, filter, history, PCs
<1>6. ASSUME NEW p \in Procs, UpdateMetadataRow(p) PROVE TypeOK'
  <2>1. row' \in Row
    BY <1>6 DEF TypeOK, UpdateMetadataRow, Row
  <2> QED
    BY <1>6, <2>1, DownType DEF TypeOK, UpdateMetadataRow
<1>7. ASSUME NEW p \in Procs, Stops(p) PROVE TypeOK'
  <2>1. stopped' \subseteq 0..MaxRuns
    BY <1>7 DEF TypeOK, Stops
  <2> QED
    BY <1>7, <2>1, DownType DEF TypeOK, Stops
<1>8. ASSUME NEW p \in Procs, Ends(p) PROVE TypeOK'
  <2>1. pc' \in [Procs -> PCs] /\ endTs' \in [Procs -> Nat] /\ tries' \in [Procs -> 0..1]
    BY <1>8 DEF TypeOK, Ends, PCs
  <2> QED
    BY <1>8, <2>1 DEF TypeOK, Ends, filter, history
<1>9. ASSUME NEW p \in Procs, NEW v \in Views, Drop(p, v) \/ ConversionThrows(p, v) PROVE TypeOK'
  <2>1. CASE Drop(p, v)
    BY <2>1, FilterType DEF TypeOK, Drop, trip, history
  <2>2. CASE ConversionThrows(p, v)
    BY <2>2 DEF TypeOK, ConversionThrows, trip, history
  <2> QED
    BY <1>9, <2>1, <2>2
<1>10. ASSUME NEW p \in Procs, NEW v \in Views, AppendRecord(p, v) PROVE TypeOK'
  <2>0. PICK w \in Views \cup {None} : AppendsAs(p, v, w)
    BY <1>10, AppendKinds
  <2>1. pc[p] = "run" /\ Filter(p, v)
    BY <2>0 DEF AppendsAs
  <2>2. db' \subseteq Record /\ accepted' \subseteq Record
    BY <2>0, <2>1, PutFacts, RecordType DEF AppendsAs, TypeOK
  <2>3. seq' \in [Procs -> Nat] /\ total' \in [Procs -> Nat] /\ lost' \in [Procs -> SUBSET Views]
    BY <2>0 DEF AppendsAs, KeyAdvance, TypeOK
  <2> QED
    BY <2>0, <2>1, <2>2, <2>3, FilterType DEF TypeOK, AppendsAs
<1>11. ASSUME NEW p \in Procs, NEW v \in Views, AppendRecordFails(p, v) PROVE TypeOK'
  <2>0. PICK w \in Views \cup {None} : FailsAs(p, v, w)
    BY <1>11, AppendKinds
  <2>1. pc[p] = "run" /\ Filter(p, v)
    BY <2>0 DEF FailsAs
  <2>2. db' \subseteq Record
    BY <2>0, <2>1, PutFacts DEF FailsAs, TypeOK
  <2>3. seq' \in [Procs -> Nat] /\ lost' \in [Procs -> SUBSET Views]
    BY <2>0 DEF FailsAs, KeyAdvance, TypeOK
  <2> QED
    BY <2>0, <2>1, <2>2, <2>3, FilterType DEF TypeOK, FailsAs
<1> QED
  BY <1>1, <1>2, <1>3, <1>4, <1>5, <1>6, <1>7, <1>8, <1>9, <1>10, <1>11, StepKinds

-----------------------------------------------------------------------------
(* Runs, the lock and the memory of a process.                             *)

\* Where a process stands after it ended.
LEMMA DownFacts ==
    ASSUME TypeOK, NEW p \in Procs, ToDown(p)
    PROVE  \A q \in Procs :
             /\ q = p => pc'[q] = "down" /\ seq'[q] = 0 /\ total'[q] = 0 /\ last'[q] = None /\ seen'[q] = {}
             /\ q # p => pc'[q] = pc[q] /\ seq'[q] = seq[q] /\ total'[q] = total[q] /\ run'[q] = run[q]
                         /\ last'[q] = last[q] /\ seen'[q] = seen[q]
                         /\ threw'[q] = threw[q] /\ lost'[q] = lost[q]
  BY DEF TypeOK, ToDown

\* Runs are not given twice.
LEMMA RunsStep ==
    ASSUME TypeOK, RunsInv, [Next]_vars
    PROVE  RunsInv'
<1>1. CASE UNCHANGED vars
  BY <1>1 DEF RunsInv, vars, history
<1>2. CASE Tick
  BY <1>2 DEF RunsInv, Tick, history
<1>3. ASSUME NEW p \in Procs, StartNode(p) PROVE RunsInv'
  <2>1. runs \in Nat /\ runs' = runs + 1 /\ db' = db /\ row' = row
    BY <1>3 DEF StartNode, TypeOK
  <2>2. \A q \in Procs : /\ q = p => run'[q] = runs + 1
                         /\ q # p => run'[q] = run[q] /\ pc'[q] = pc[q]
    BY <1>3 DEF StartNode, TypeOK
  <2>3. \A r \in db : r.run \in Nat
    BY DEF TypeOK, Record, RunIds
  <2>4. row.run \in Nat
    BY DEF TypeOK, Row
  <2> QED
    BY <2>1, <2>2, <2>3, <2>4 DEF RunsInv
<1>4. ASSUME NEW p \in Procs, OpenDb(p) PROVE RunsInv'
  BY <1>4 DEF RunsInv, OpenDb, TypeOK, history
<1>5. ASSUME NEW p \in Procs, InsertMetadataRow(p) PROVE RunsInv'
  <2>1. run[p] \in 1..runs /\ runs \in Nat
    BY <1>5 DEF RunsInv, InsertMetadataRow, TypeOK
  <2>2. row'.run <= runs
    BY <1>5, <2>1 DEF InsertMetadataRow
  <2> QED
    BY <1>5, <2>2 DEF RunsInv, InsertMetadataRow, TypeOK, history
<1>6. ASSUME NEW p \in Procs, UpdateMetadataRow(p) PROVE RunsInv'
  <2>1. row'.run = row.run
    BY <1>6 DEF UpdateMetadataRow, TypeOK, Row
  <2> QED
    BY <1>6, <2>1, DownFacts DEF RunsInv, UpdateMetadataRow
<1>7. ASSUME NEW p \in Procs, Stops(p) PROVE RunsInv'
  BY <1>7, DownFacts DEF RunsInv, Stops
<1>8. ASSUME NEW p \in Procs, Ends(p) PROVE RunsInv'
  BY <1>8 DEF RunsInv, Ends, TypeOK, history
<1>9. ASSUME NEW p \in Procs, NEW v \in Views, Drop(p, v) \/ ConversionThrows(p, v) PROVE RunsInv'
  BY <1>9 DEF RunsInv, Drop, ConversionThrows, history
<1>10. ASSUME NEW p \in Procs, NEW v \in Views, AppendRecord(p, v) \/ AppendRecordFails(p, v)
       PROVE  RunsInv'
  <2>0. PICK w \in Views \cup {None} : AppendsAs(p, v, w) \/ FailsAs(p, v, w)
    BY <1>10, AppendKinds
  <2>1. pc[p] = "run" /\ db' \in {db, Put(TheRecord(p, w))}
    BY <2>0 DEF AppendsAs, FailsAs
  <2>2. UNCHANGED <<pc, run, runs, row>>
    BY <2>0 DEF AppendsAs, FailsAs
  <2>3. run[p] <= runs
    BY <2>1 DEF RunsInv, TypeOK
  <2>4. \A r \in db' : r.run <= runs
    BY <2>1, <2>3, RecordType, PutFacts DEF RunsInv
  <2> QED
    BY <2>2, <2>4 DEF RunsInv
<1> QED
  BY <1>1, <1>2, <1>3, <1>4, <1>5, <1>6, <1>7, <1>8, <1>9, <1>10, StepKinds

\* One process at a time has the database.
LEMMA LockStep ==
    ASSUME TypeOK, LockInv, [Next]_vars
    PROVE  LockInv'
<1>1. CASE UNCHANGED pc
  BY <1>1 DEF LockInv, HasDb
<1>2. ASSUME NEW p \in Procs, StartNode(p) PROVE LockInv'
  BY <1>2 DEF LockInv, HasDb, StartNode, TypeOK
<1>3. ASSUME NEW p \in Procs, OpenDb(p) PROVE LockInv'
  BY <1>3 DEF LockInv, HasDb, OpenDb, TypeOK
<1>4. ASSUME NEW p \in Procs, InsertMetadataRow(p) \/ Ends(p) PROVE LockInv'
  <2>1. p \in HasDb
    BY <1>4 DEF HasDb, InsertMetadataRow, Ends
  <2>2. \A q \in Procs : q # p => pc'[q] = pc[q]
    BY <1>4 DEF InsertMetadataRow, Ends, TypeOK
  <2> QED
    BY <2>1, <2>2 DEF LockInv, HasDb
<1>5. ASSUME NEW p \in Procs, UpdateMetadataRow(p) \/ Stops(p) PROVE LockInv'
  BY <1>5, DownFacts DEF LockInv, HasDb, UpdateMetadataRow, Stops
<1>6. UNCHANGED vars \/ Tick => UNCHANGED pc
  BY DEF vars, Tick
<1>7. ASSUME NEW p \in Procs, NEW v \in Views,
             \/ Drop(p, v) \/ ConversionThrows(p, v)
             \/ AppendRecord(p, v) \/ AppendRecordFails(p, v)
      PROVE  UNCHANGED pc
  BY <1>7 DEF Drop, ConversionThrows, AppendRecord, AppendRecordFails
<1> QED
  BY <1>1, <1>2, <1>3, <1>4, <1>5, <1>6, <1>7, StepKinds

\* A process that did not start, or does so, has nothing in its memory.
LEMMA FreshStep ==
    ASSUME TypeOK, FreshInv, [Next]_vars
    PROVE  FreshInv'
<1>1. CASE UNCHANGED vars \/ Tick
  BY <1>1 DEF FreshInv, vars, Tick, trip, filter
<1>2. ASSUME NEW p \in Procs, StartNode(p) \/ OpenDb(p) PROVE FreshInv'
  BY <1>2 DEF FreshInv, StartNode, OpenDb, trip, filter, TypeOK
<1>3. ASSUME NEW p \in Procs, InsertMetadataRow(p) \/ Ends(p) PROVE FreshInv'
  BY <1>3 DEF FreshInv, InsertMetadataRow, Ends, trip, filter, TypeOK
<1>4. ASSUME NEW p \in Procs, UpdateMetadataRow(p) \/ Stops(p) PROVE FreshInv'
  BY <1>4, DownFacts DEF FreshInv, UpdateMetadataRow, Stops
<1>5. ASSUME NEW p \in Procs, NEW v \in Views,
             \/ Drop(p, v) \/ ConversionThrows(p, v)
             \/ AppendRecord(p, v) \/ AppendRecordFails(p, v)
      PROVE  FreshInv'
  <2>1. pc[p] = "run" /\ pc' = pc /\ (Filter(p, v) \/ ConversionThrows(p, v))
    BY <1>5 DEF Drop, ConversionThrows, AppendRecord, AppendRecordFails
  <2>2. \A q \in Procs : q # p => last'[q] = last[q] /\ seen'[q] = seen[q]
    BY <2>1 DEF Filter, ConversionThrows, TypeOK
  <2>3. \A q \in Procs : q # p => seq'[q] = seq[q] /\ total'[q] = total[q]
    BY <1>5 DEF Drop, ConversionThrows, AppendRecord, AppendRecordFails, KeyAdvance, trip, TypeOK
  <2> QED
    BY <2>1, <2>2, <2>3 DEF FreshInv
<1> QED
  BY <1>1, <1>2, <1>3, <1>4, <1>5, StepKinds

-----------------------------------------------------------------------------
(* Keys.                                                                   *)

\* A put replaces nothing: its key is new.
LEMMA PutKeepsAll ==
    ASSUME TypeOK, RunsInv, KeyInv, NEW p \in Procs, NEW v \in Views \cup {None}, pc[p] = "run"
    PROVE  db \subseteq Put(TheRecord(p, v)) /\ TheRecord(p, v) \notin db
<1>1. p \in HasDb /\ now \in Nat /\ seq[p] \in Nat
  BY DEF HasDb, TypeOK
<1>2. \A r \in db : r.ts \in Nat /\ r.seq \in Nat
  BY DEF TypeOK, Record
<1>3. \A r \in db : r.ts # now \/ r.seq # seq[p]
  BY <1>1, <1>2 DEF KeyInv
<1> QED
  BY <1>3, PutFacts, RecordType

\* The key of every record to come is new, and what was accepted is stored.
LEMMA KeyStep ==
    ASSUME TypeOK, RunsInv, LockInv, FreshInv, KeyInv, [Next]_vars
    PROVE  KeyInv'
<1> USE DEF AcceptedIsStored
<1>0. /\ now \in Nat /\ \A q \in Procs : seq[q] \in Nat
      /\ \A r \in db : r.ts \in Nat /\ r.seq \in Nat /\ r.run \in Nat
      /\ \A q \in Procs : run[q] \in Nat
  BY DEF TypeOK, Record, RunIds
<1>1. CASE UNCHANGED vars
  BY <1>1 DEF KeyInv, HasDb, vars, trip, history
<1>2. CASE Tick
  <2>1. \A r \in db : r.ts <= now' /\ (r.ts < now => r.ts < now')
    BY <1>0, <1>2 DEF KeyInv, Tick
  <2>2. UNCHANGED <<db, accepted, pc, seq, run>>
    BY <1>2 DEF Tick, trip, history
  <2> QED
    BY <2>1, <2>2 DEF KeyInv, HasDb
<1>3. ASSUME NEW p \in Procs, StartNode(p) PROVE KeyInv'
  <2>1. \A q \in Procs : /\ q = p => run'[q] = runs + 1 /\ pc'[q] = "open"
                         /\ q # p => run'[q] = run[q] /\ pc'[q] = pc[q]
    BY <1>3 DEF StartNode, TypeOK
  <2>2. UNCHANGED <<db, accepted, now, seq>>
    BY <1>3 DEF StartNode
  <2>3. \A r \in db : r.run # runs + 1
    BY <1>0 DEF RunsInv, TypeOK
  <2>4. HasDb' \subseteq HasDb \ {p}
    BY <1>3, <2>1 DEF HasDb, StartNode
  <2> QED
    BY <2>1, <2>2, <2>3, <2>4 DEF KeyInv, HasDb
<1>4. ASSUME NEW p \in Procs, OpenDb(p) PROVE KeyInv'
  <2>1. pc[p] = "open" /\ HasDb = {} /\ now' = now + 1 /\ UNCHANGED <<db, accepted, seq, run>>
    BY <1>4 DEF OpenDb, trip, history
  <2>2. \A q \in Procs : (q = p => pc'[q] = "insert") /\ (q # p => pc'[q] = pc[q])
    BY <1>4 DEF OpenDb, TypeOK
  <2>3. HasDb' = {p}
    BY <2>1, <2>2 DEF HasDb
  <2>4. \A r \in db : r.run # run[p] /\ r.ts < now' /\ r.ts <= now'
    BY <1>0, <2>1 DEF KeyInv
  <2> QED
    BY <2>1, <2>2, <2>3, <2>4 DEF KeyInv
<1>5. ASSUME NEW p \in Procs, InsertMetadataRow(p) \/ Ends(p) PROVE KeyInv'
  <2>1. p \in HasDb /\ UNCHANGED <<db, accepted, now, seq, run>>
    BY <1>5 DEF HasDb, InsertMetadataRow, Ends, trip, history
  <2>2. \A q \in Procs : (q = p => pc'[q] # "open") /\ (q # p => pc'[q] = pc[q])
    BY <1>5 DEF InsertMetadataRow, Ends, TypeOK
  <2>3. HasDb' \subseteq HasDb
    BY <2>1, <2>2 DEF HasDb
  <2> QED
    BY <2>1, <2>2, <2>3 DEF KeyInv
<1>6. ASSUME NEW p \in Procs, UpdateMetadataRow(p) \/ Stops(p) PROVE KeyInv'
  <2>1. UNCHANGED <<db, accepted, now>> /\ ToDown(p)
    BY <1>6 DEF UpdateMetadataRow, Stops
  <2>2. HasDb' = HasDb \ {p} /\ p \notin HasDb'
    BY <2>1, DownFacts DEF HasDb
  <2> QED
    BY <2>1, <2>2, DownFacts DEF KeyInv, HasDb
<1>7. ASSUME NEW p \in Procs, NEW v \in Views, Drop(p, v) \/ ConversionThrows(p, v) PROVE KeyInv'
  BY <1>7 DEF KeyInv, HasDb, Drop, ConversionThrows, trip, history
<1>8. ASSUME NEW p \in Procs, NEW v \in Views, AppendRecord(p, v) \/ AppendRecordFails(p, v)
      PROVE  KeyInv'
  <2>0. PICK w \in Views \cup {None} : AppendsAs(p, v, w) \/ FailsAs(p, v, w)
    BY <1>8, AppendKinds
  <2> DEFINE x == TheRecord(p, w)
  <2>1. /\ pc[p] = "run" /\ UNCHANGED <<pc, run, now>>
        /\ db' \in {db, Put(x)}
        /\ \/ accepted' = accepted
           \/ accepted' = accepted \cup {x} /\ db' = Put(x)
        /\ KeyAdvance(p)
    BY <2>0 DEF AppendsAs, FailsAs
  <2>2. x.ts = now /\ x.seq = seq[p] /\ x.run = run[p]
    BY <2>1, RecordType
  <2>3. db \subseteq db' /\ \A r \in db' : r \in db \/ r = x
    BY <2>1, PutKeepsAll, PutFacts
  <2>4. accepted' \subseteq db'
    BY <2>1, <2>3, PutFacts DEF KeyInv
  <2>5. HasDb' = HasDb /\ HasDb = {p}
    BY <2>1 DEF HasDb, LockInv
  <2>6. seq'[p] = seq[p] + 1
    BY <2>1 DEF KeyAdvance, TypeOK
  <2>7. \A r \in db' : r.ts <= now
    BY <1>0, <2>2, <2>3 DEF KeyInv
  <2>8. \A r \in db' : IF r.run = run[p] THEN r.seq < seq[p] + 1 ELSE r.ts < now
    <3> SUFFICES ASSUME NEW r \in db' PROVE IF r.run = run[p] THEN r.seq < seq[p] + 1 ELSE r.ts < now
      OBVIOUS
    <3>1. CASE r = x
      BY <1>0, <2>2, <3>1
    <3>2. CASE r \in db
      BY <1>0, <2>5, <3>2 DEF KeyInv
    <3> QED
      BY <2>3, <3>1, <3>2
  <2>9. \A q \in Procs : pc[q] = "open" => \A r \in db' : r.run # run[q]
    BY <2>1, <2>2, <2>3 DEF KeyInv, RunsInv
  <2> QED
    BY <2>1, <2>4, <2>5, <2>6, <2>7, <2>8, <2>9 DEF KeyInv
<1> QED
  BY <1>1, <1>2, <1>3, <1>4, <1>5, <1>6, <1>7, <1>8, StepKinds

-----------------------------------------------------------------------------
(* Counts.                                                                 *)

\* The records of a run are finitely many.
LEMMA RunOfFinite ==
    ASSUME IsFiniteSet(accepted), NEW n
    PROVE  IsFiniteSet(RunOf(n)) /\ Cardinality(RunOf(n)) \in Nat
<1>1. RunOf(n) \subseteq accepted
  BY DEF RunOf
<1> QED
  BY <1>1, FS_Subset, FS_CardinalityType

\* The counter of a process and the row agree with what was accepted.
LEMMA CountStep ==
    ASSUME TypeOK, RunsInv, LockInv, FreshInv, KeyInv, CountInv, [Next]_vars
    PROVE  CountInv'
<1> USE DEF ClosedRowCountsItsRun
<1>0. row \in Row /\ runs \in Nat /\ \A q \in Procs : run[q] \in Nat
  BY DEF TypeOK
<1>1. CASE UNCHANGED vars \/ Tick
  <2>1. UNCHANGED <<accepted, total, row, pc, run>>
    BY <1>1 DEF vars, Tick, trip, history
  <2>2. HasDb' = HasDb /\ \A n : RunOf(n)' = RunOf(n)
    BY <2>1 DEF HasDb, RunOf
  <2>3. IsFiniteSet(accepted') /\ \A p \in HasDb' : total'[p] = Cardinality(RunOf(run[p]))
    BY <2>1, <2>2 DEF CountInv
  <2>4. ClosedRowCountsItsRun'
    BY <2>1 DEF CountInv
  <2> QED
    BY <2>1, <2>2, <2>3, <2>4 DEF CountInv
<1>2. ASSUME NEW p \in Procs, StartNode(p) PROVE CountInv'
  <2>1. \A q \in Procs : /\ q = p => run'[q] = runs + 1 /\ pc'[q] = "open"
                         /\ q # p => run'[q] = run[q] /\ pc'[q] = pc[q]
    BY <1>2 DEF StartNode, TypeOK
  <2>2. UNCHANGED <<accepted, total, row>>
    BY <1>2 DEF StartNode
  <2>3. HasDb' \subseteq HasDb \ {p}
    BY <2>1 DEF HasDb
  <2>4. row.run # runs + 1
    BY <1>0 DEF RunsInv, Row
  <2> QED
    BY <2>1, <2>2, <2>3, <2>4 DEF CountInv, HasDb, RunOf
<1>3. ASSUME NEW p \in Procs, OpenDb(p) PROVE CountInv'
  <2>1. pc[p] = "open" /\ HasDb = {} /\ UNCHANGED <<accepted, total, run, row>>
    BY <1>3 DEF OpenDb, trip, history
  <2>2. \A q \in Procs : (q = p => pc'[q] = "insert") /\ (q # p => pc'[q] = pc[q])
    BY <1>3 DEF OpenDb, TypeOK
  <2>3. HasDb' = {p}
    BY <2>1, <2>2 DEF HasDb
  <2>4. RunOf(run[p]) = {} /\ total[p] = 0
    BY <2>1 DEF RunOf, KeyInv, AcceptedIsStored, FreshInv
  <2>5. total[p] = Cardinality(RunOf(run[p]))
    BY <2>4, FS_EmptySet
  <2> QED
    BY <2>1, <2>2, <2>3, <2>5 DEF CountInv, RunOf
<1>4. ASSUME NEW p \in Procs, InsertMetadataRow(p) PROVE CountInv'
  <2>1. pc[p] = "insert" /\ UNCHANGED <<accepted, total, run>> /\ row'.run = run[p] /\ row'.end = 0
    BY <1>4 DEF InsertMetadataRow, trip, history
  <2>2. \A q \in Procs : (q = p => pc'[q] = "run") /\ (q # p => pc'[q] = pc[q])
    BY <1>4 DEF InsertMetadataRow, TypeOK
  <2>3. HasDb' = {p} /\ HasDb = {p}
    BY <2>1, <2>2 DEF HasDb, LockInv
  <2>4. \A q \in Procs : pc'[q] \in {"run", "flush", "update"} => q = p
    BY <2>3 DEF HasDb
  <2> QED
    BY <2>1, <2>2, <2>3, <2>4 DEF CountInv, RunOf
<1>5. ASSUME NEW p \in Procs, UpdateMetadataRow(p) PROVE CountInv'
  <2>1. pc[p] = "update" /\ ToDown(p) /\ UNCHANGED accepted
    BY <1>5 DEF UpdateMetadataRow
  <2>2. row'.run = row.run /\ row'.records = total[p]
    BY <1>0, <1>5 DEF UpdateMetadataRow, Row
  <2>3. HasDb = {p} /\ row.run = run[p] /\ total[p] = Cardinality(RunOf(run[p]))
    BY <2>1 DEF HasDb, LockInv, CountInv
  <2>4. HasDb' = {}
    BY <2>1, <2>3, DownFacts DEF HasDb
  <2>5. \A q \in Procs : pc'[q] \notin {"run", "flush", "update"}
    BY <2>4 DEF HasDb
  <2>6. \A q \in Procs : pc'[q] # "down" => run'[q] # row.run
    BY <2>1, <2>3, DownFacts DEF RunsInv
  <2> QED
    BY <2>1, <2>2, <2>3, <2>4, <2>5, <2>6 DEF CountInv, RunOf
<1>6. ASSUME NEW p \in Procs, Stops(p) PROVE CountInv'
  <2>1. UNCHANGED <<accepted, row>> /\ ToDown(p)
    BY <1>6 DEF Stops
  <2>2. HasDb' \subseteq HasDb \ {p}
    BY <2>1, DownFacts DEF HasDb
  <2> QED
    BY <2>1, <2>2, DownFacts DEF CountInv, HasDb, RunOf
<1>7. ASSUME NEW p \in Procs, Ends(p) PROVE CountInv'
  <2>1. pc[p] \in {"run", "flush", "update"} /\ UNCHANGED <<accepted, total, run, row>>
    BY <1>7 DEF Ends, history
  <2>2. \A q \in Procs : (q = p => pc'[q] \in {"flush", "update"}) /\ (q # p => pc'[q] = pc[q])
    BY <1>7 DEF Ends, TypeOK
  <2>3. HasDb' = HasDb
    BY <2>1, <2>2 DEF HasDb
  <2> QED
    BY <2>1, <2>2, <2>3 DEF CountInv, RunOf
<1>8. ASSUME NEW p \in Procs, NEW v \in Views,
             Drop(p, v) \/ ConversionThrows(p, v) \/ AppendRecordFails(p, v)
      PROVE  CountInv'
  <2>1. UNCHANGED <<accepted, total, row, pc, run>>
    BY <1>8 DEF Drop, ConversionThrows, AppendRecordFails, trip, history
  <2> QED
    BY <2>1 DEF CountInv, HasDb, RunOf
<1>9. ASSUME NEW p \in Procs, NEW v \in Views, AppendRecord(p, v) PROVE CountInv'
  <2>0. PICK w \in Views \cup {None} : AppendsAs(p, v, w)
    BY <1>9, AppendKinds
  <2> DEFINE x == TheRecord(p, w)
  <2>1. pc[p] = "run" /\ accepted' = accepted \cup {x} /\ UNCHANGED <<pc, run, row>>
    BY <2>0 DEF AppendsAs
  <2>2. x.run = run[p] /\ x \notin accepted
    BY <2>1, RecordType, PutKeepsAll DEF KeyInv, AcceptedIsStored
  <2>3. HasDb' = HasDb /\ HasDb = {p}
    BY <2>1 DEF HasDb, LockInv
  <2>4. total'[p] = total[p] + 1
    BY <2>0 DEF AppendsAs, TypeOK
  <2>5. RunOf(run[p])' = RunOf(run[p]) \cup {x} /\ x \notin RunOf(run[p])
    BY <2>1, <2>2 DEF RunOf
  <2>6. Cardinality(RunOf(run[p])') = Cardinality(RunOf(run[p])) + 1
    BY <2>5, RunOfFinite, FS_AddElement DEF CountInv
  <2>7. IsFiniteSet(accepted')
    BY <2>1, FS_AddElement DEF CountInv
  <2>8. row.run = run[p] /\ row.end = 0
    BY <2>1 DEF CountInv
  <2>9. total'[p] = Cardinality(RunOf(run[p])')
    BY <2>3, <2>4, <2>6 DEF CountInv
  <2> QED
    BY <2>1, <2>3, <2>7, <2>8, <2>9 DEF CountInv, RunOf
<1> QED
  BY <1>1, <1>2, <1>3, <1>4, <1>5, <1>6, <1>7, <1>8, <1>9, StepKinds

-----------------------------------------------------------------------------
(* Images.                                                                 *)

\* What is near a kept image is represented by it.
LEMMA DistFacts ==
    /\ \A v \in Views : Dist(v, v) <= Threshold
    /\ \A v, w \in Views : Dist(v, w) \in Nat
  BY Basics DEF Dist

\* The image v is near one that p's run stored or lost.
Represented(p, v) == \E w \in Views : StoredOrLost(p, w) /\ Dist(w, v) <= Threshold

\* What SceneInv says of one process.
Scene(p) ==
    (pc[p] = "run" /\ sensor = "image") =>
        /\ \A v \in seen[p] \ threw[p] : Represented(p, v)
        /\ IF last[p] = None THEN seen[p] \subseteq threw[p] ELSE StoredOrLost(p, last[p])

\* What is stored or lost stays so.
LEMMA StoredOrLostKept ==
    ASSUME NEW q \in Procs, run'[q] = run[q], accepted \subseteq accepted', lost[q] \subseteq lost'[q]
    PROVE  /\ \A w : StoredOrLost(q, w) => StoredOrLost(q, w)'
           /\ \A v : Represented(q, v) => Represented(q, v)'
<1>1. ASSUME NEW w, StoredOrLost(q, w) PROVE StoredOrLost(q, w)'
  BY <1>1 DEF StoredOrLost
<1> QED
  BY <1>1 DEF Represented

\* A process whose filter does nothing keeps what holds of it.
LEMMA SceneFrame ==
    ASSUME NEW q \in Procs, Scene(q), pc[q] = "run", sensor' = sensor,
           run'[q] = run[q], accepted \subseteq accepted', lost[q] \subseteq lost'[q],
           seen'[q] = seen[q], threw'[q] = threw[q], last'[q] = last[q]
    PROVE  Scene(q)'
<1> SUFFICES ASSUME sensor = "image" PROVE Scene(q)'
  BY DEF Scene
<1>1. \A v \in seen[q] \ threw[q] : Represented(q, v)'
  BY StoredOrLostKept DEF Scene
<1>2. last[q] # None => StoredOrLost(q, last[q])'
  BY DEF Scene, StoredOrLost
<1> QED
  BY <1>1, <1>2 DEF Scene

\* What the filter remembers and has seen is represented.
LEMMA SceneStep ==
    ASSUME TypeOK, RunsInv, FreshInv, KeyInv, SceneInv, [Next]_vars
    PROVE  SceneInv'
<1>a. \A p \in Procs : Scene(p)
  BY DEF SceneInv, EveryImageIsRepresented, Scene, Represented
<1>b. (\A p \in Procs : Scene(p)') => SceneInv'
  BY DEF SceneInv, EveryImageIsRepresented, Scene, Represented
<1> SUFFICES ASSUME NEW q \in Procs, (pc[q] = "run" /\ sensor = "image")' PROVE Scene(q)'
  BY <1>b DEF Scene
<1>2. CASE UNCHANGED vars \/ Tick
  <2>1. UNCHANGED <<pc, sensor, lost, threw, seen, last, run, accepted>>
    BY <1>2 DEF vars, Tick, filter, history
  <2> QED
    BY <2>1, <1>a, SceneFrame
<1>3. ASSUME NEW p \in Procs, StartNode(p) \/ OpenDb(p) \/ Ends(p) PROVE Scene(q)'
  <2>1. UNCHANGED <<sensor, lost, threw, seen, last, accepted>>
    BY <1>3 DEF StartNode, OpenDb, Ends, filter, history
  <2>2. q # p /\ pc[q] = "run" /\ run'[q] = run[q]
    BY <1>3 DEF StartNode, OpenDb, Ends, history, TypeOK
  <2> QED
    BY <2>1, <2>2, <1>a, SceneFrame
<1>4. ASSUME NEW p \in Procs, InsertMetadataRow(p) PROVE Scene(q)'
  <2>1. UNCHANGED <<sensor, lost, threw, seen, last, accepted, run>>
    BY <1>4 DEF InsertMetadataRow, filter, history
  <2>2. CASE q = p
    <3>1. seen[q] = {} /\ last[q] = None
      BY <1>4, <2>2 DEF FreshInv, InsertMetadataRow
    <3> QED
      BY <2>1, <3>1 DEF Scene
  <2>3. CASE q # p
    <3>1. pc[q] = "run"
      BY <1>4, <2>3 DEF InsertMetadataRow, TypeOK
    <3> QED
      BY <2>1, <3>1, <1>a, SceneFrame
  <2> QED
    BY <2>2, <2>3
<1>5. ASSUME NEW p \in Procs, UpdateMetadataRow(p) \/ Stops(p) PROVE Scene(q)'
  <2>1. ToDown(p) /\ UNCHANGED <<sensor, accepted>>
    BY <1>5 DEF UpdateMetadataRow, Stops
  <2>2. q # p
    BY <2>1, DownFacts
  <2> QED
    BY <2>1, <2>2, DownFacts, <1>a, SceneFrame
<1>6. ASSUME NEW p \in Procs, NEW v \in Views, ConversionThrows(p, v) PROVE Scene(q)'
  <2>1. /\ pc[q] = "run" /\ sensor = "image"
        /\ UNCHANGED <<pc, run, sensor, accepted, last, lost>>
    BY <1>6 DEF ConversionThrows, history
  <2>2. CASE q # p
    <3>1. seen'[q] = seen[q] /\ threw'[q] = threw[q]
      BY <1>6, <2>2 DEF ConversionThrows, TypeOK
    <3> QED
      BY <2>1, <3>1, <1>a, SceneFrame
  <2>3. CASE q = p
    <3>1. seen'[q] = seen[q] \cup {v} /\ threw'[q] = threw[q] \cup {v}
      BY <1>6, <2>3 DEF ConversionThrows, TypeOK
    <3>2. \A w \in seen'[q] \ threw'[q] : Represented(q, w)'
      BY <1>a, <2>1, <3>1, StoredOrLostKept DEF Scene
    <3>3. last[q] # None => StoredOrLost(q, last[q])'
      BY <1>a, <2>1 DEF Scene, StoredOrLost
    <3> QED
      BY <1>a, <2>1, <3>1, <3>2, <3>3 DEF Scene
  <2> QED
    BY <2>2, <2>3
<1>7. ASSUME NEW p \in Procs, NEW v \in Views, Drop(p, v) \/ AppendRecord(p, v) \/ AppendRecordFails(p, v)
      PROVE  Scene(q)'
  <2>1. /\ pc[p] = "run" /\ Filter(p, v) /\ UNCHANGED <<pc, run, sensor, threw>>
        /\ pc[q] = "run" /\ sensor = "image"
    BY <1>7 DEF Drop, AppendRecord, AppendRecordFails, history
  <2>2. accepted \subseteq accepted' /\ lost[q] \subseteq lost'[q]
    BY <1>7 DEF Drop, AppendRecord, AppendRecordFails, history, TypeOK
  <2>3. CASE q # p
    <3>1. seen'[q] = seen[q] /\ last'[q] = last[q]
      BY <2>1, <2>3 DEF Filter, TypeOK
    <3> QED
      BY <2>1, <2>2, <3>1, <1>a, SceneFrame
  <2>4. CASE q = p
    <3>1. seen'[q] = seen[q] \cup {v} /\ last'[q] = IF Kept(p, v) THEN v ELSE last[q]
      BY <2>1, <2>4 DEF Filter, TypeOK
    <3>2. \A w \in seen[q] \ threw[q] : Represented(q, w)'
      BY <1>a, <2>1, <2>2, StoredOrLostKept DEF Scene
    <3>3. SUFFICES Represented(q, v)' /\ last'[q] # None /\ StoredOrLost(q, last[q])'
      BY <2>1, <3>1, <3>2 DEF Scene
    <3>4. CASE Drop(p, v)
      <4>1. last[q] # None /\ ~(Dist(last[q], v) > Threshold) /\ last'[q] = last[q]
        BY <2>1, <2>4, <3>1, <3>4 DEF Drop, Kept, Unique
      <4>2. last[q] \in Views
        BY <4>1 DEF TypeOK
      <4>3. Dist(last[q], v) <= Threshold
        BY <4>1, <4>2, DistFacts, Basics
      <4>4. StoredOrLost(q, last[q])'
        <5>1. StoredOrLost(q, last[q])
          BY <1>a, <2>1, <4>1 DEF Scene
        <5> QED
          BY <2>1, <2>2, <4>1, <5>1 DEF StoredOrLost
      <4> QED
        BY <4>1, <4>2, <4>3, <4>4 DEF Represented, StoredOrLost
    <3>5. CASE AppendRecord(p, v) \/ AppendRecordFails(p, v)
      <4>1. PICK w \in Views \cup {None} : AppendsAs(p, v, w) \/ FailsAs(p, v, w)
        BY <3>5, AppendKinds
      <4>2. last'[q] = v /\ v # None /\ Dist(v, v) <= Threshold
        BY <2>4, <3>1, <4>1, DistFacts, Basics DEF AppendsAs, FailsAs, None
      <4>3. v \in lost'[q] \/ (AppendsAs(p, v, w) /\ w = v)
        BY <2>4, <4>1 DEF AppendsAs, FailsAs, TypeOK
      <4>4. CASE v \in lost'[q]
        BY <4>2, <4>4 DEF Represented, StoredOrLost
      <4>5. CASE AppendsAs(p, v, w) /\ w = v
        <5>1. TheRecord(p, v) \in accepted'
          BY <4>5 DEF AppendsAs
        <5>2. TheRecord(p, v).run = run'[q] /\ TheRecord(p, v).view = v
          BY <2>1, <2>4, RecordType
        <5> QED
          BY <4>2, <5>1, <5>2 DEF Represented, StoredOrLost
      <4> QED
        BY <4>3, <4>4, <4>5
    <3> QED
      BY <1>7, <3>4, <3>5
  <2> QED
    BY <2>3, <2>4
<1> QED
  BY <1>2, <1>3, <1>4, <1>5, <1>6, <1>7, StepKinds

-----------------------------------------------------------------------------
(* The theorems.                                                           *)

LEMMA Invariance == Spec => []IInv
<1>1. Init => IInv
  BY InvInit
<1>2. IInv /\ [Next]_vars => IInv'
  BY TypeStep, RunsStep, LockStep, FreshStep, KeyStep, CountStep, SceneStep DEF IInv
<1> QED
  BY <1>1, <1>2, PTL DEF Spec

\* Every variable keeps its type, for any number of processes and any faults.
THEOREM TypeCorrect == Spec => []TypeOK
<1>1. IInv => TypeOK
  BY DEF IInv
<1> QED
  BY <1>1, Invariance, PTL

\* What appendRecord returned for stays in the database, whatever processes
\* reopen it and number their records from 0 again.
THEOREM AcceptedIsStoredHolds == Spec => []AcceptedIsStored
<1>1. IInv => AcceptedIsStored
  BY DEF IInv, KeyInv
<1> QED
  BY <1>1, Invariance, PTL

\* A row with an end counts the records of the run that wrote it.
THEOREM ClosedRowCountsItsRunHolds == Spec => []ClosedRowCountsItsRun
<1>1. IInv => ClosedRowCountsItsRun
  BY DEF IInv, CountInv
<1> QED
  BY <1>1, Invariance, PTL

\* Each image given to a run is near one the run stored, or near one of its
\* own that is lost because appendRecord threw or imencode failed, or its
\* conversion threw: for every threshold and any images.
THEOREM EveryImageIsRepresentedHolds == Spec => []EveryImageIsRepresented
<1>1. IInv => EveryImageIsRepresented
  BY DEF IInv, SceneInv
<1> QED
  BY <1>1, Invariance, PTL

=============================================================================
