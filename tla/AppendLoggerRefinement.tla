----------------------- MODULE AppendLoggerRefinement -----------------------
(* While no stream write fails, AppendLogger implements TripStore, and the *)
(* node of ArchiveTier, which sees less of it.                             *)
EXTENDS AppendLoggerProofs

CONSTANT LastDay     \* the days of the node of ArchiveTier are 1..LastDay

-----------------------------------------------------------------------------
(* TripStore.                                                              *)

\* The refinement mapping, named.
NoTrip     == <<NoDay, -1>>
active     == IF HasTrip THEN Current ELSE NoTrip
stored     == [k \in Trips |-> IndexedRecords(idx[k])]
row        == [k \in Trips |-> [state |-> RowState(rows[k]), records |-> rows[k].records]]
absVars    == <<active, accepted, stored, row>>

\* An index with an entry that locates a chunk reaches at least one record.
LEMMA StoredIsPositive ==
    ASSUME NEW k \in Trips, TypeOK, DiskInv(k), idx[k] # <<>>
    PROVE  IndexedRecords(idx[k]) > 0
<1>1. idx[k] \in Seq(Entry) /\ 1 \in 1..Len(idx[k])
  BY EmptySeq DEF TypeOK
<1>2. Locates(idx[k][1], log[k]) /\ idx[k][1] \in Entry
  BY <1>1, ElementOfSeq DEF DiskInv
<1>3. idx[k][1].count \in Nat \ {0}
  <2>1. log[k] \in Seq(Item)
    BY DEF TypeOK
  <2>2. log[k][idx[k][1].offset + 1] \in Item
    BY <1>2, <2>1, ElementOfSeq DEF Locates
  <2>3. /\ idx[k][1].count = Len(log[k][idx[k][1].offset + 1].recs)
        /\ log[k][idx[k][1].offset + 1].recs # <<>>
    BY <1>2 DEF Locates
  <2> QED
    BY <2>2, <2>3, EmptySeq DEF Item
<1>4. <<1, 1>> \in {1} \X (1..idx[k][1].count)
  BY <1>3
<1>5. Slots(idx[k]) # {}
  BY <1>1, <1>4 DEF Slots
<1>6. IndexedRecords(idx[k]) # 0
  BY <1>1, <1>5, SlotsFinite, FS_EmptySet DEF IndexedRecords
<1> QED
  BY <1>1, <1>6, IndexedRecordsType

\* The initial states map to initial states.
LEMMA RefinementInit == Init => Store!Init
<1> SUFFICES ASSUME Init PROVE Store!Init
  OBVIOUS
<1>1. ~HasTrip
  BY DEF Init, HasTrip
<1>2. stored = [k \in Trips |-> 0]
  BY IndexedRecordsEmpty DEF Init, stored
<1>3. row = [k \in Trips |-> [state |-> "none", records |-> 0]]
  BY DEF Init, row, RowState, NoRow
<1> QED
  BY <1>1, <1>2, <1>3 DEF Init, Store!Init, stored, row, RowState

\* Steps that change none of what the mapping reads.
LEMMA Stutter ==
    ASSUME UNCHANGED <<idx, rows, accepted>>, active' = active
    PROVE  UNCHANGED Store!tvars
<1>1. stored' = stored /\ row' = row
  BY DEF stored, row, RowState
<1> QED
  BY <1>1 DEF Store!tvars, stored, row, active, NoTrip, RowState, HasTrip, Current

\* The mapping, as far as a trip's row is concerned.
LEMMA RowChange ==
    ASSUME TypeOK, NEW k \in Trips, NEW r \in Row, rows' = [rows EXCEPT ![k] = r]
    PROVE  row' = [row EXCEPT ![k] = [state |-> RowState(r), records |-> r.records]]
<1>1. \A m \in Trips : rows'[m] = IF m = k THEN r ELSE rows[m]
  BY DEF TypeOK
<1>2. row' = [m \in Trips |-> [state |-> RowState(rows'[m]), records |-> rows'[m].records]]
  BY DEF row, RowState
<1> QED
  BY <1>1, <1>2 DEF row

\* The abstract actions, in the words of the mapping.
LEMMA AbstractBegin ==
    ASSUME NEW k \in Trips, active = NoTrip, row[k].state = "none", stored[k] = 0,
           active' = k, row' = [row EXCEPT ![k] = [state |-> "open", records |-> 0]],
           accepted' = accepted, stored' = stored
    PROVE  Store!Begin(k)
  BY DEF Store!Begin, active, stored, row, NoTrip, RowState, HasTrip, Current

\* appendRecord accepts a record.
LEMMA AbstractAccept ==
    ASSUME NEW k \in Trips, active = k, accepted' = [accepted EXCEPT ![k] = @ + 1],
           active' = active, stored' = stored, row' = row
    PROVE  Store!Accept(k)
  BY DEF Store!Accept, active, stored, row, NoTrip, RowState, HasTrip, Current

\* The write of an index entry makes the buffered records reachable.
LEMMA AbstractStore ==
    ASSUME NEW k \in Trips, active = k, stored[k] < accepted[k],
           stored' = [stored EXCEPT ![k] = accepted[k]],
           active' = active, accepted' = accepted, row' = row
    PROVE  Store!Store(k)
  BY DEF Store!Store, active, stored, row, NoTrip, RowState, HasTrip, Current

\* endTrip closes the row of a trip that has everything stored.
LEMMA AbstractEnd ==
    ASSUME NEW k \in Trips, active = k, stored[k] = accepted[k], active' = NoTrip,
           row' = [row EXCEPT ![k] = [state |-> "closed", records |-> stored[k]]],
           accepted' = accepted, stored' = stored
    PROVE  Store!End(k)
  BY DEF Store!End, active, stored, row, NoTrip, RowState, HasTrip, Current

\* A process ends without closing its row.
LEMMA AbstractAbandon ==
    ASSUME active # NoTrip, active' = NoTrip, accepted' = accepted, stored' = stored, row' = row
    PROVE  Store!Abandon
  BY DEF Store!Abandon, active, stored, row, NoTrip, RowState, HasTrip, Current

\* A row of an earlier trip is closed by the recovery.
LEMMA AbstractRecover ==
    ASSUME NEW k \in Trips, active = NoTrip, row[k].state # "none", stored[k] > 0,
           row' = [row EXCEPT ![k] = [state |-> "closed", records |-> stored[k]]],
           active' = active, accepted' = accepted, stored' = stored
    PROVE  Store!Recover(k)
  BY DEF Store!Recover, active, stored, row, NoTrip, RowState, HasTrip, Current

\* Every step of the logger is a step of the abstract store or changes
\* nothing of it.
LEMMA RefinementNext ==
    ASSUME "diskfull" \notin Faults, TypeInv, StorageInv, TypeInv', [Next]_vars
    PROVE  [Store!Next]_(Store!tvars)
<1> USE DEF TypeInv
<1>0. (\A k \in Trips : DiskInv(k)) /\ ThreadInv
  BY DEF StorageInv
<1>1. HasTrip => active = Current /\ Current \in Trips /\ active # NoTrip
  BY CurrentIsTrip, SMTT(30) DEF HasTrip, active, NoTrip, Current, TypeOK, Trips, TripIds
<1>2. ~HasTrip => active = NoTrip
  BY DEF active
<1>3. ASSUME UNCHANGED <<idx, rows, accepted, day, id>>, HasTrip' <=> HasTrip
      PROVE  UNCHANGED Store!tvars
  BY <1>3, Stutter DEF active, Current
<1>4. ASSUME UNCHANGED <<idx, rows, accepted>>, pc' = "down"
      PROVE  UNCHANGED Store!tvars \/ Store!Abandon
  <2>1. stored' = stored /\ row' = row /\ active' = NoTrip
    BY <1>4 DEF stored, row, RowState, active, HasTrip, NoTrip
  <2> QED
    BY <1>1, <1>2, <1>4, <2>1, Stutter, AbstractAbandon
<1>5. CASE StartNode
  BY <1>2, <1>5, Stutter DEF StartNode, active, HasTrip
<1>6. CASE \E k \in Trips : RecoverGlobalRow(k)
  <2>1. PICK k \in Trips : RecoverGlobalRow(k)
    BY <1>6
  <2>2. ~HasTrip /\ ~HasTrip' /\ active' = active /\ UNCHANGED <<idx, accepted, day, id>>
    BY <2>1 DEF RecoverGlobalRow, HasTrip, active
  <2>3. CASE rows' = rows
    BY <1>3, <2>2, <2>3
  <2>4. CASE /\ idx[k] # <<>> /\ rows' # rows
             /\ rows' = WithEnd(k, SummaryEnd(idx[k]), IndexedRecords(idx[k]))
    <3> DEFINE r == [start |-> rows[k].start, end |-> SummaryEnd(idx[k]),
                     records |-> IndexedRecords(idx[k])]
    <3>1. HasRow(k) /\ rows' = [rows EXCEPT ![k] = r]
      BY <2>4 DEF WithEnd
    <3>2. IndexedRecords(idx[k]) \in Nat /\ SummaryEnd(idx[k]) \in Time
      <4>1. idx[k] \in Seq(Entry) /\ Len(idx[k]) \in 1..Len(idx[k])
        BY <2>4, EmptySeq DEF TypeOK
      <4>2. idx[k][Len(idx[k])] \in Entry
        BY <4>1, ElementOfSeq
      <4> QED
        BY <4>1, <4>2, IndexedRecordsType DEF SummaryEnd, Entry
    <3>3. r \in Row /\ r.start # 0 /\ r.end # 0
      BY <3>1, <3>2, ConstantsAssumption, SMTT(30) DEF Row, Time, HasRow, TypeOK
    <3>4. RowState(r) = "closed" /\ r.records = stored[k] /\ row[k].state # "none"
      BY <3>1, <3>3 DEF RowState, stored, row, HasRow
    <3>5. row' = [row EXCEPT ![k] = [state |-> RowState(r), records |-> r.records]]
      BY <3>1, <3>3, RowChange
    <3>6. stored[k] > 0
      BY <1>0, <2>4, StoredIsPositive DEF stored
    <3>7. stored' = stored
      BY <2>2 DEF stored
    <3> HIDE DEF r
    <3>8. Store!Recover(k)
      BY <1>2, <2>2, <3>4, <3>5, <3>6, <3>7, AbstractRecover
    <3> QED
      BY <3>8 DEF Store!Next
  <2> QED
    BY <2>1, <2>3, <2>4 DEF RecoverGlobalRow
<1>7. CASE GetTripId
  BY <1>2, <1>7, Stutter DEF GetTripId, active, HasTrip
<1>8. CASE OpenTripFiles
  BY <1>3, <1>8 DEF OpenTripFiles, memory, HasTrip
<1>9. CASE OpenTripFilesFails
  BY <1>4, <1>9 DEF OpenTripFilesFails, ToDown, Store!Next
<1>10. CASE WriteTripHeader
  BY <1>3, <1>10 DEF WriteTripHeader, HasTrip
<1>11. CASE InsertGlobalRow
  <2> DEFINE r == [start |-> startTs, end |-> 0, records |-> 0]
  <2>1. Current \in Trips /\ startTs # 0 /\ startTs \in 0..MaxTime
    BY <1>11, CurrentIsTrip DEF InsertGlobalRow, TypeOK
  <2>2. /\ rows' = [rows EXCEPT ![Current] = r] /\ pc = "insert" /\ pc' = "run"
        /\ UNCHANGED <<idx, accepted, day, id>>
    BY <1>11 DEF InsertGlobalRow, disk, memory
  <2>3. r \in Row /\ RowState(r) = "open" /\ r.records = 0
    BY <2>1, ConstantsAssumption DEF Row, RowState
  <2>4. row' = [row EXCEPT ![Current] = [state |-> "open", records |-> 0]]
    BY <2>1, <2>2, <2>3, RowChange
  <2>5. row[Current].state = "none" /\ stored[Current] = 0
    BY <1>0, <2>1, <2>2, IndexedRecordsEmpty DEF ThreadInv, row, RowState, NoRow, stored
  <2>6. active = NoTrip /\ active' = Current /\ stored' = stored
    BY <2>2 DEF active, HasTrip, Current, stored
  <2> HIDE DEF r
  <2>7. PICK k \in Trips : k = Current
    BY <2>1
  <2>8. Store!Begin(k)
    BY <2>2, <2>4, <2>5, <2>6, <2>7, AbstractBegin
  <2> QED
    BY <2>8 DEF Store!Next
<1>12. CASE InsertGlobalRowFails
  BY <1>4, <1>12 DEF InsertGlobalRowFails, disk, ToDown, Store!Next
<1>13. CASE \E size \in Sizes : AppendRecord(size)
  <2>1. PICK size \in Sizes : AppendRecord(size)
    BY <1>13
  <2>2. HasTrip /\ HasTrip' /\ UNCHANGED <<idx, rows, day, id>>
        /\ accepted' = [accepted EXCEPT ![Current] = @ + 1]
    BY <2>1 DEF AppendRecord, HasTrip, disk
  <2>3. active = Current /\ Current \in Trips /\ active' = active
    BY <1>1, <2>2 DEF active, Current
  <2>4. stored' = stored /\ row' = row
    BY <2>2 DEF stored, row, RowState
  <2>5. PICK k \in Trips : k = Current
    BY <2>3
  <2>6. Store!Accept(k)
    BY <2>2, <2>3, <2>4, <2>5, AbstractAccept
  <2> QED
    BY <2>6 DEF Store!Next
<1>14. CASE FlushLog
  BY <1>3, <1>14 DEF FlushLog, HasTrip
<1>15. CASE FlushIdx
  <2>1. HasTrip /\ HasTrip' /\ UNCHANGED <<rows, accepted, day, id>> /\ pc = "flushIdx"
    BY <1>15 DEF FlushIdx, HasTrip
  <2>2. active = Current /\ Current \in Trips /\ active' = active
    BY <1>1, <2>1 DEF active, Current
  <2>3. /\ idx' = [idx EXCEPT ![Current] = Append(@, tie)] /\ tie.count = Len(buf)
        /\ IndexedRecords(idx[Current]) + Len(buf) = accepted[Current]
    BY <1>0, <1>15, <2>1 DEF FlushIdx, ThreadInv
  <2>4. /\ idx[Current] \in Seq(Entry) /\ tie \in Entry /\ Len(buf) \in Nat \ {0}
        /\ IndexedRecords(idx[Current]) \in Nat
    BY <2>1, <2>2, IndexedRecordsType, EmptySeq DEF TypeOK
  <2>5. /\ IndexedRecords(Append(idx[Current], tie)) = accepted[Current]
        /\ IndexedRecords(idx[Current]) < accepted[Current]
    BY <2>3, <2>4, IndexedRecordsAppend
  <2>6. \A m \in Trips : idx'[m] = IF m = Current THEN Append(idx[Current], tie) ELSE idx[m]
    BY <2>3 DEF TypeOK
  <2>7. stored' = [m \in Trips |-> IF m = Current THEN accepted[Current] ELSE IndexedRecords(idx[m])]
    BY <2>5, <2>6 DEF stored
  <2>8. stored' = [stored EXCEPT ![Current] = accepted[Current]] /\ stored[Current] < accepted[Current]
    BY <2>2, <2>5, <2>7 DEF stored
  <2>9. row' = row
    BY <2>1 DEF row, RowState
  <2>10. PICK k \in Trips : k = Current
    BY <2>2
  <2>11. Store!Store(k)
    BY <2>1, <2>2, <2>8, <2>9, <2>10, AbstractStore
  <2> QED
    BY <2>11 DEF Store!Next
<1>16. CASE EndTrip
  BY <1>3, <1>16 DEF EndTrip, disk, HasTrip
<1>17. CASE UpdateGlobalRowEnd
  <2>1. /\ HasTrip /\ pc = "update" /\ pc' = "down" /\ UNCHANGED <<idx, accepted>>
        /\ active = Current /\ Current \in Trips /\ active' = NoTrip
    BY <1>1, <1>17 DEF UpdateGlobalRowEnd, HasTrip, disk, ToDown, active
  <2>2. CASE rows' = rows
    BY <1>4, <2>1, <2>2 DEF Store!Next
  <2>3. CASE rows' = WithEnd(Current, endTs, total)
    <3> DEFINE r == [start |-> rows[Current].start, end |-> endTs, records |-> total]
    <3>1. /\ HasRow(Current) /\ total = IndexedRecords(idx[Current]) /\ Len(buf) = 0
          /\ IndexedRecords(idx[Current]) + Len(buf) = accepted[Current]
      BY <1>0, <2>1 DEF ThreadInv
    <3>2. rows' = [rows EXCEPT ![Current] = r]
      BY <2>3, <3>1 DEF WithEnd
    <3>3. r \in Row /\ r.start # 0 /\ r.end # 0 /\ r.records = total
      BY <2>1, <3>1 DEF Row, HasRow, TypeOK
    <3>4. RowState(r) = "closed" /\ total \in Nat
      BY <3>3 DEF RowState, TypeOK
    <3>5. row' = [row EXCEPT ![Current] = [state |-> RowState(r), records |-> r.records]]
      BY <2>1, <3>2, <3>3, RowChange
    <3>6. stored[Current] = total /\ stored[Current] = accepted[Current] /\ stored' = stored
      BY <2>1, <3>1, <3>4 DEF stored
    <3> HIDE DEF r
    <3>7. PICK k \in Trips : k = Current
      BY <2>1
    <3>8. Store!End(k)
      BY <2>1, <3>3, <3>4, <3>5, <3>6, <3>7, AbstractEnd
    <3> QED
      BY <3>8 DEF Store!Next
  <2> QED
    BY <1>17, <2>2, <2>3 DEF UpdateGlobalRowEnd
<1>18. CASE Crash
  BY <1>4, <1>18 DEF Crash, ToDown, Store!Next
<1>19. CASE Tick
  BY <1>3, <1>19 DEF Tick, disk, memory, HasTrip
<1>20. CASE UNCHANGED vars
  BY <1>3, <1>20 DEF vars, HasTrip
<1> QED
  BY <1>5, <1>6, <1>7, <1>8, <1>9, <1>10, <1>11, <1>12, <1>13, <1>14, <1>15, <1>16,
     <1>17, <1>18, <1>19, <1>20 DEF Next, ThreadStep

\* While no stream write fails, the logger keeps the promise of TripStore:
\* what a reader reaches of a trip grows to what was accepted, a row is closed
\* only with the count a reader reaches, and an orderly end has everything.
THEOREM ImplementsTripStore ==
    ASSUME "diskfull" \notin Faults
    PROVE  Spec => StoreSpec
<1>1. Init => Store!Init
  BY RefinementInit
<1>2. TypeInv /\ StorageInv /\ TypeInv' /\ [Next]_vars => [Store!Next]_(Store!tvars)
  BY RefinementNext
<1>3. Spec => [](TypeInv /\ StorageInv)
  BY StorageCorrect
<1> QED
  BY <1>1, <1>2, <1>3, PTL DEF Spec, StoreSpec, Store!Spec

-----------------------------------------------------------------------------
(* The node of ArchiveTier.                                                *)

\* Chunks of a log: its items but the header and what a crash left of a write.
ChunkItems(l) == {i \in 1..Len(l) : l[i].kind = "chunk"}
Chunks(l)     == Cardinality(ChunkItems(l))

\* The refinement mapping: the archiver never runs.
Opened  == pc \notin {"down", "recover", "open"}
nodePc  ==
    CASE pc = "down"                -> "down"
      [] pc \in {"recover", "open"} -> "start"
      [] pc \in {"header", "insert"} -> "insert"
      [] OTHER                      -> "run"
nodeDay  == IF pc = "down" THEN 0 ELSE day
nodeTrip == IF Opened THEN Current ELSE <<0, 0>>
chunks   == [k \in Trips |-> Chunks(log[k])]
entries  == [k \in Trips |-> Len(idx[k])]
states   == [k \in Trips |-> RowState(rows[k])]

Node == INSTANCE ArchiveTier WITH
    MaxChunks <- MaxRecords, Strict <- FALSE, Careful <- TRUE, Faults <- {"ingestCrash"},
    today <- DayOf[now], npc <- nodePc, day <- nodeDay, active <- nodeTrip,
    linked <- files, logN <- chunks, idxN <- entries, rows <- states,
    apc <- "idle", todo <- {}, cur <- 0, left <- {}, members <- {},
    tar <- [d \in 1..LastDay |-> {}], tarIdx <- {},
    cold <- [k \in (1..LastDay) \X (0..(MaxTrips - 1)) |-> "none"],
    synced <- [d \in 1..LastDay |-> {}], unopened <- {}

\* The days are numbered from the first one, and none is skipped.
Calendar ==
    /\ LastDay \in Nat \ {0}
    /\ Days = 1..LastDay
    /\ DayOf[1] = 1
    /\ \A t \in 1..(MaxTime - 1) : DayOf[t + 1] \in {DayOf[t], DayOf[t] + 1}

\* What a process has written: no chunk without its records, and a chunk that
\* has no entry only between the two writes of a flush.
NodeInv ==
    /\ \A k \in Trips : Len(idx[k]) <= IndexedRecords(idx[k])
    /\ \A k \in Trips : accepted[k] <= MaxRecords
    /\ (pc \in {"header", "insert"}) => Chunks(log[Current]) = 0
    /\ (HasTrip /\ pc # "flushIdx") => Chunks(log[Current]) = Len(idx[Current])
    /\ (pc = "flushIdx") => Chunks(log[Current]) = Len(idx[Current]) + 1

\* What a write adds to the chunks of a log.
LEMMA ChunksAppend ==
    ASSUME NEW l \in Seq(Item), NEW item \in Item
    PROVE  /\ Chunks(l) \in Nat
           /\ item.kind = "chunk" => Chunks(Append(l, item)) = Chunks(l) + 1
           /\ item.kind # "chunk" => Chunks(Append(l, item)) = Chunks(l)
<1> DEFINE m == Append(l, item)
<1>1. IsFiniteSet(ChunkItems(l)) /\ Chunks(l) \in Nat
  <2>1. IsFiniteSet(1..Len(l))
    BY FS_Interval
  <2>2. IsFiniteSet(ChunkItems(l))
    BY <2>1, FS_Subset DEF ChunkItems
  <2> QED
    BY <2>2, FS_CardinalityType DEF Chunks
<1>2. /\ Len(m) = Len(l) + 1 /\ m[Len(l) + 1] = item
      /\ \A i \in 1..Len(l) : m[i] = l[i]
  OBVIOUS
<1> HIDE DEF m
<1>3. CASE item.kind = "chunk"
  <2>1. ChunkItems(m) = ChunkItems(l) \cup {Len(l) + 1} /\ Len(l) + 1 \notin ChunkItems(l)
    BY <1>2, <1>3 DEF ChunkItems
  <2> QED
    BY <1>1, <1>3, <2>1, FS_AddElement DEF Chunks, m
<1>4. CASE item.kind # "chunk"
  <2>1. ChunkItems(m) = ChunkItems(l)
    BY <1>2, <1>4 DEF ChunkItems
  <2> QED
    BY <1>1, <1>4, <2>1 DEF Chunks, m
<1> QED
  BY <1>3, <1>4

\* An empty log has none.
LEMMA ChunksEmpty == Chunks(<<>>) = 0
<1>1. ChunkItems(<<>>) = {}
  BY DEF ChunkItems
<1> QED
  BY <1>1, FS_EmptySet DEF Chunks

\* Before any process, nothing is written.
LEMMA NodeInvInit == Init => NodeInv
  BY IndexedRecordsEmpty, ConstantsAssumption DEF Init, NodeInv, HasTrip

\* Steps that write to no trip, and after which the process is no further
\* than it was, or has ended.
LEMMA NodeInvFrame ==
    ASSUME NodeInv, UNCHANGED <<idx, accepted>>,
           \/ pc' \in {"down", "recover", "open"}
           \/ log' = log /\ pc' = pc /\ Current' = Current
           \/ /\ log' = log /\ Current' = Current
              /\ pc = "insert" /\ pc' = "run" /\ idx[Current] = <<>>
           \/ /\ log' = log /\ Current' = Current
              /\ pc = "run" /\ pc' \in {"update", "flushLog"}
    PROVE  NodeInv'
  BY DEF NodeInv, HasTrip

\* Every step keeps the counts of the node.
LEMMA NodeInvNext ==
    ASSUME "diskfull" \notin Faults, TypeInv, NewTripInv, StorageInv, NodeInv, [Next]_vars
    PROVE  NodeInv'
<1> USE DEF TypeInv
<1>0. ThreadInv /\ ~logBad /\ ~idxBad /\ \A k \in Trips : DiskInv(k)
  BY DEF StorageInv, ThreadInv
<1>1. CASE \/ StartNode \/ GetTripId \/ OpenTripFilesFails \/ InsertGlobalRowFails
           \/ UpdateGlobalRowEnd \/ Crash \/ \E k \in Trips : RecoverGlobalRow(k)
  BY <1>1, NodeInvFrame DEF StartNode, GetTripId, OpenTripFilesFails, InsertGlobalRowFails,
     UpdateGlobalRowEnd, Crash, RecoverGlobalRow, ToDown, disk
<1>2. CASE OpenTripFiles
  <2>1. /\ pc' = "header" /\ log[Current] = <<>> /\ UNCHANGED <<log, idx, accepted>>
        /\ Current' = Current
    <3>1. pc = "open" /\ Current \in Trips /\ Current \notin files
      BY <1>2, OpenIsNew DEF OpenTripFiles
    <3> QED
      BY <1>0, <1>2, <3>1 DEF OpenTripFiles, DiskInv, memory, Current
  <2> QED
    BY <2>1, ChunksEmpty DEF NodeInv, HasTrip
<1>3. CASE WriteTripHeader
  <2>1. Current \in Trips /\ pc = "header" /\ pc' = "insert" /\ UNCHANGED <<idx, accepted>>
        /\ Current' = Current
    BY <1>3, CurrentIsTrip DEF WriteTripHeader, Current
  <2>2. log'[Current] = Append(log[Current], TripHeader) /\ log[Current] \in Seq(Item)
    BY <1>0, <1>3, <2>1 DEF WriteTripHeader, WriteLog, TypeOK
  <2>3. TripHeader \in Item /\ TripHeader.kind # "chunk"
    BY EmptySeq DEF TripHeader, Item
  <2>4. Chunks(log'[Current]) = 0
    BY <2>1, <2>2, <2>3, ChunksAppend DEF NodeInv
  <2> QED
    BY <2>1, <2>4 DEF NodeInv, HasTrip
<1>4. CASE InsertGlobalRow
  BY <1>0, <1>4, NodeInvFrame DEF InsertGlobalRow, ThreadInv, disk, memory, Current
<1>5. CASE \E size \in Sizes : AppendRecord(size)
  <2>1. /\ Current \in Trips /\ pc = "run" /\ pc' \in {"run", "flushLog"} /\ Current' = Current
        /\ UNCHANGED <<log, idx>> /\ accepted[Current] < MaxRecords
        /\ accepted' = [accepted EXCEPT ![Current] = @ + 1]
    BY <1>5, CurrentIsTrip DEF AppendRecord, disk, Current
  <2>2. \A k \in Trips : accepted'[k] <= MaxRecords
    BY <2>1, ConstantsAssumption DEF NodeInv, TypeOK
  <2> QED
    BY <2>1, <2>2 DEF NodeInv, HasTrip
<1>6. CASE FlushLog
  <2>1. Current \in Trips /\ pc = "flushLog" /\ pc' = "flushIdx" /\ UNCHANGED <<idx, accepted>>
        /\ Current' = Current
    BY <1>6, CurrentIsTrip DEF FlushLog, Current
  <2>2. log'[Current] = Append(log[Current], Chunk(buf)) /\ log[Current] \in Seq(Item)
    BY <1>0, <1>6, <2>1 DEF FlushLog, WriteLog, TypeOK
  <2>3. Chunk(buf) \in Item /\ Chunk(buf).kind = "chunk"
    BY DEF Chunk, Item, TypeOK
  <2>4. Chunks(log'[Current]) = Len(idx[Current]) + 1
    BY <2>1, <2>2, <2>3, ChunksAppend DEF NodeInv, HasTrip
  <2> QED
    BY <2>1, <2>4 DEF NodeInv, HasTrip
<1>7. CASE FlushIdx
  <2>1. /\ Current \in Trips /\ pc = "flushIdx" /\ pc' \in {"run", "update"}
        /\ UNCHANGED <<log, accepted>> /\ Current' = Current
        /\ idx' = [idx EXCEPT ![Current] = Append(@, tie)]
    BY <1>0, <1>7, CurrentIsTrip DEF FlushIdx, Current
  <2>2. /\ idx[Current] \in Seq(Entry) /\ tie \in Entry /\ tie.count \in Nat \ {0}
        /\ IndexedRecords(idx[Current]) \in Nat
    <3>1. tie.count = Len(buf) /\ buf \in Seq(Record) /\ buf # <<>> /\ tie \in Entry
      BY <1>0, <2>1 DEF ThreadInv, TypeOK
    <3>2. Len(buf) \in Nat \ {0}
      BY <3>1, EmptySeq
    <3> QED
      BY <2>1, <3>1, <3>2, IndexedRecordsType DEF TypeOK
  <2>3. /\ idx'[Current] = Append(idx[Current], tie)
        /\ \A k \in Trips \ {Current} : idx'[k] = idx[k]
    BY <2>1 DEF TypeOK
  <2>4. IndexedRecords(idx'[Current]) = IndexedRecords(idx[Current]) + tie.count
    BY <2>2, <2>3, IndexedRecordsAppend
  <2>5. Len(idx'[Current]) = Len(idx[Current]) + 1 /\ Len(idx[Current]) \in Nat
    BY <2>2, <2>3
  <2>6. Len(idx[Current]) <= IndexedRecords(idx[Current])
    BY <2>1 DEF NodeInv
  <2>7. Len(idx'[Current]) <= IndexedRecords(idx'[Current])
    BY <2>2, <2>4, <2>5, <2>6
  <2>8. \A k \in Trips : Len(idx'[k]) <= IndexedRecords(idx'[k])
    BY <2>3, <2>7 DEF NodeInv
  <2>9. Chunks(log'[Current]) = Len(idx'[Current])
    BY <2>1, <2>5 DEF NodeInv
  <2> QED
    BY <2>1, <2>8, <2>9 DEF NodeInv, HasTrip
<1>8. CASE EndTrip
  BY <1>8, NodeInvFrame DEF EndTrip, disk, Current
<1>9. CASE Tick \/ UNCHANGED vars
  BY <1>9, NodeInvFrame DEF Tick, disk, memory, vars, Current
<1> QED
  BY <1>1, <1>2, <1>3, <1>4, <1>5, <1>6, <1>7, <1>8, <1>9 DEF Next, ThreadStep

\* The days and trips of the node are those of the logger.
LEMMA SameTrips ==
    ASSUME Calendar
    PROVE  Node!Days = Days /\ Node!Trips = Trips
  BY DEF Calendar, Node!Days, Node!Trips, Trips, TripIds

\* The logs of a day folder are counted the same way.
LEMMA SameCount ==
    ASSUME Calendar, TypeOK, NEW d \in Days
    PROVE  Cardinality(files \cap Node!TripsOf(d)) = CountTripLogs(d)
<1> DEFINE S == {i \in TripIds : <<d, i>> \in files}
           T == files \cap Node!TripsOf(d)
           f == [i \in S |-> <<d, i>>]
<1>1. T = {k \in files : k[1] = d} /\ files \subseteq Days \X TripIds
  BY SameTrips DEF Node!TripsOf, TypeOK, Trips
<1>2. \A k \in T : k[2] \in S /\ k = <<d, k[2]>>
  BY <1>1
<1>3. \A i \in S : <<d, i>> \in T
  BY <1>1
<1>4. f \in Bijection(S, T)
  <2> HIDE DEF S, T
  <2>1. f \in [S -> T]
    BY <1>3
  <2>2. \A i, j \in S : f[i] = f[j] => i = j
    OBVIOUS
  <2>3. \A k \in T : \E i \in S : f[i] = k
    BY <1>2
  <2> QED
    BY <2>1, <2>2, <2>3, Fun_IsBij
<1>5. IsFiniteSet(S)
  <2>1. MaxTrips \in Nat
    BY ConstantsAssumption
  <2>2. IsFiniteSet(TripIds)
    BY <2>1, FromZero, Zenon DEF TripIds
  <2> QED
    BY <2>2, FS_Subset
<1>6. Cardinality(S) = Cardinality(T)
  <2> HIDE DEF S, T, f
  <2> QED
    BY <1>4, <1>5, FS_Bijection DEF ExistsBijection
<1> QED
  BY <1>6 DEF CountTripLogs

\* Cardinality is the same in both modules.
LEMMA SameCardinality == \A S : Node!Cardinality(S) = Cardinality(S)
  BY DEF Node!Cardinality, Cardinality

\* The actions of the node, in the words of the mapping: a process starts.
LEMMA NodeStarts ==
    ASSUME nodePc = "down", Cardinality(files \cap Node!TripsOf(DayOf[now])) < MaxTrips,
           nodePc' = "start", nodeDay' = DayOf[now],
           DayOf[now'] = DayOf[now], UNCHANGED <<nodeTrip, files, chunks, entries, states>>
    PROVE  Node!StartNode
  BY SameCardinality DEF Node!StartNode, Node!archive, Node!hdd

\* The constructor closes the row of an earlier trip.
LEMMA NodeRecovers ==
    ASSUME NEW k \in Trips, nodePc = "start", states[k] = "open", k \in files, entries[k] > 0,
           states' = [states EXCEPT ![k] = "closed"],
           DayOf[now'] = DayOf[now], UNCHANGED <<nodePc, nodeDay, nodeTrip, files, chunks, entries>>
    PROVE  Node!RecoverRow(k)
  BY DEF Node!RecoverRow, Node!ingest, Node!archive, Node!hdd

\* The process ends without closing the row of its trip.
LEMMA NodeCrashes ==
    ASSUME nodePc # "down", pc' = "down",
           DayOf[now'] = DayOf[now], UNCHANGED <<files, chunks, entries, states>>
    PROVE  Node!IngestCrash
<1>1. nodePc' = "down" /\ nodeDay' = 0 /\ nodeTrip' = <<0, 0>>
  BY DEF nodePc, nodeDay, nodeTrip, Opened
<1> QED
  BY <1>1 DEF Node!IngestCrash, Node!NodeEnds, Node!NoTrip, Node!archive, Node!hdd

\* A step the archiver could not notice.
LEMMA NodeStutters ==
    ASSUME DayOf[now'] = DayOf[now],
           UNCHANGED <<nodePc, nodeDay, nodeTrip, files, chunks, entries, states>>
    PROVE  UNCHANGED Node!vars
  BY DEF Node!vars

\* What the mapping makes of a step that leaves the process at its work.
LEMMA SamePlace ==
    ASSUME nodePc' = nodePc, UNCHANGED <<day, id>>
    PROVE  UNCHANGED <<nodeDay, nodeTrip>>
  BY DEF nodePc, nodeDay, nodeTrip, Opened, Current

\* What it makes of what is written.
LEMMA SameData ==
    /\ log' = log => chunks' = chunks
    /\ idx' = idx => entries' = entries
    /\ rows' = rows => states' = states
  BY DEF chunks, entries, states, RowState

\* One row changes.
LEMMA StateChange ==
    ASSUME TypeOK, NEW k \in Trips, NEW r \in Row, rows' = [rows EXCEPT ![k] = r]
    PROVE  states' = [states EXCEPT ![k] = RowState(r)]
<1>1. \A m \in Trips : rows'[m] = IF m = k THEN r ELSE rows[m]
  BY DEF TypeOK
<1>2. states' = [m \in Trips |-> RowState(rows'[m])]
  BY DEF states, RowState
<1>3. \A m \in Trips : RowState(rows'[m]) = IF m = k THEN RowState(r) ELSE states[m]
  BY <1>1 DEF states
<1>4. states' = [m \in Trips |-> IF m = k THEN RowState(r) ELSE states[m]]
  BY <1>2, <1>3
<1> QED
  BY <1>4 DEF states

\* One item is written to a log.
LEMMA LogChange ==
    ASSUME TypeOK, NEW k \in Trips, NEW item \in Item, log' = [log EXCEPT ![k] = Append(@, item)]
    PROVE  /\ item.kind # "chunk" => chunks' = chunks
           /\ item.kind = "chunk" => chunks' = [chunks EXCEPT ![k] = @ + 1]
<1>1. \A m \in Trips : log'[m] = IF m = k THEN Append(log[k], item) ELSE log[m]
  BY DEF TypeOK
<1>2. chunks' = [m \in Trips |-> Chunks(log'[m])]
  BY DEF chunks, Chunks, ChunkItems
<1>3. log[k] \in Seq(Item)
  BY DEF TypeOK
<1>4. /\ item.kind = "chunk" => Chunks(Append(log[k], item)) = Chunks(log[k]) + 1
      /\ item.kind # "chunk" => Chunks(Append(log[k], item)) = Chunks(log[k])
  BY <1>3, ChunksAppend
<1>5. \A m \in Trips : chunks'[m] = IF m = k THEN Chunks(Append(log[k], item)) ELSE chunks[m]
  BY <1>1, <1>2 DEF chunks
<1> QED
  BY <1>2, <1>4, <1>5 DEF chunks

\* Every step of the logger is a step of the node or changes nothing the
\* archiver can notice.
LEMMA NodeNext ==
    ASSUME Calendar, "diskfull" \notin Faults, "stepback" \notin Faults,
           TypeInv, NewTripInv, StorageInv, NodeInv, [Next]_vars
    PROVE  [Node!Next]_(Node!vars)
<1> USE DEF TypeInv
<1>0. /\ ThreadInv /\ ~logBad /\ ~idxBad
      /\ Node!Trips = Trips /\ Node!Days = Days /\ DayOf[now] \in Days
  BY SameTrips, ConstantsAssumption DEF StorageInv, ThreadInv, TypeOK
<1>1. (pc \notin {"down", "recover"}) => Current \in Trips
  BY CurrentIsTrip
<1>2. HasTrip => nodePc = "run" /\ nodeTrip = Current
  BY DEF HasTrip, nodePc, nodeTrip, Opened
<1>3. ASSUME nodePc' = nodePc, UNCHANGED <<now, day, id, files, log, idx, rows>>
      PROVE  UNCHANGED Node!vars
  BY <1>3, SamePlace, SameData, NodeStutters
<1>4. ASSUME pc # "down", pc' = "down", UNCHANGED <<now, files, idx, rows>>, chunks' = chunks
      PROVE  Node!Next
  <2>1. nodePc # "down"
    BY <1>4 DEF nodePc
  <2>2. Node!IngestCrash
    BY <1>4, <2>1, SameData, NodeCrashes
  <2> QED
    BY <2>2 DEF Node!Next, Node!IngestStep
<1>5. CASE StartNode
  <2>1. /\ nodePc = "down" /\ nodePc' = "start" /\ nodeDay' = DayOf[now]
        /\ UNCHANGED <<now, nodeTrip, files, log, idx, rows>>
    BY <1>5 DEF StartNode, nodePc, nodeDay, nodeTrip, Opened
  <2>2. Cardinality(files \cap Node!TripsOf(DayOf[now])) < MaxTrips
    BY <1>0, <1>5, SameCount DEF StartNode
  <2>3. Node!StartNode
    BY <2>1, <2>2, SameData, NodeStarts
  <2> QED
    BY <2>3 DEF Node!Next, Node!IngestStep
<1>6. CASE \E k \in Trips : RecoverGlobalRow(k)
  <2>1. PICK k \in Trips : RecoverGlobalRow(k)
    BY <1>6
  <2>2. /\ nodePc = "start" /\ nodePc' = nodePc /\ pc' = pc
        /\ UNCHANGED <<now, day, id, files, log, idx>>
    BY <2>1 DEF RecoverGlobalRow, nodePc
  <2>3. CASE rows' = rows
    BY <1>3, <2>2, <2>3
  <2>4. CASE /\ idx[k] # <<>> /\ rows' # rows
             /\ rows' = WithEnd(k, SummaryEnd(idx[k]), IndexedRecords(idx[k]))
    <3> DEFINE r == [start |-> rows[k].start, end |-> SummaryEnd(idx[k]),
                     records |-> IndexedRecords(idx[k])]
    <3>1. HasRow(k) /\ rows' = [rows EXCEPT ![k] = r]
      BY <2>4 DEF WithEnd
    <3>2. idx[k] \in Seq(Entry) /\ Len(idx[k]) \in 1..Len(idx[k])
      BY <2>4, EmptySeq DEF TypeOK
    <3>3. IndexedRecords(idx[k]) \in Nat /\ SummaryEnd(idx[k]) \in Time
      <4>1. idx[k][Len(idx[k])] \in Entry
        BY <3>2, ElementOfSeq
      <4> QED
        BY <3>2, <4>1, IndexedRecordsType DEF SummaryEnd, Entry
    <3>4. r \in Row /\ r.start # 0 /\ r.end # 0
      BY <3>1, <3>3, ConstantsAssumption, SMTT(30) DEF Row, Time, HasRow, TypeOK
    <3>5. states' = [states EXCEPT ![k] = "closed"]
      <4>1. RowState(r) = "closed"
        BY <3>4 DEF RowState
      <4> HIDE DEF r
      <4> QED
        BY <3>1, <3>4, <4>1, StateChange
    <3>6. CASE rows[k].end = 0
      <4>1. states[k] = "open" /\ k \in files
        BY <3>1, <3>6 DEF states, RowState, HasRow, NewTripInv, NoRow
      <4>2. entries[k] > 0
        BY <3>2 DEF entries
      <4>3. Node!RecoverRow(k)
        BY <2>2, <3>5, <4>1, <4>2, SamePlace, SameData, NodeRecovers
      <4> QED
        BY <1>0, <4>3 DEF Node!Next, Node!IngestStep
    <3>7. CASE rows[k].end # 0
      <4>1. states[k] = "closed"
        BY <3>1, <3>7 DEF states, RowState, HasRow
      <4>2. states' = states
        BY <3>5, <4>1 DEF states
      <4> QED
        BY <2>2, <4>2, SamePlace, SameData, NodeStutters
    <3> QED
      BY <3>6, <3>7
  <2> QED
    BY <2>1, <2>3, <2>4 DEF RecoverGlobalRow
<1>7. CASE GetTripId
  <2>1. /\ nodePc' = nodePc /\ UNCHANGED <<now, nodeDay, nodeTrip, files, log, idx, rows>>
    BY <1>7 DEF GetTripId, nodePc, nodeDay, nodeTrip, Opened
  <2> QED
    BY <2>1, SameData, NodeStutters
<1>8. CASE OpenTripFiles
  <2>1. /\ nodePc = "start" /\ nodePc' = "insert" /\ nodeDay = day /\ nodeDay' = day
        /\ nodeTrip' = <<day, id>> /\ files' = files \cup {<<day, id>>} /\ pc = "open"
        /\ UNCHANGED <<now, log, idx, rows>>
    BY <1>8 DEF OpenTripFiles, nodePc, nodeDay, nodeTrip, Opened, Current, memory
  <2>2. id \in Nat /\ day \in Days
    BY <2>1 DEF TypeOK, TripIds
  <2>3. id = CountTripLogs(day)
    BY <2>1, <2>2, CountOfPrefix DEF NewTripInv
  <2>4. id = Cardinality(files \cap Node!TripsOf(day))
    BY <2>2, <2>3, SameCount
  <2>5. Node!OpenTripFiles
    BY <2>1, <2>4, SameData, SameCardinality DEF Node!OpenTripFiles, Node!archive, Node!hdd
  <2> QED
    BY <2>5 DEF Node!Next, Node!IngestStep
<1>9. CASE OpenTripFilesFails
  BY <1>9 DEF OpenTripFilesFails
<1>10. CASE WriteTripHeader
  <2>1. /\ pc = "header" /\ nodePc' = nodePc /\ UNCHANGED <<now, day, id, files, idx, rows>>
        /\ log' = [log EXCEPT ![Current] = Append(@, TripHeader)]
    BY <1>0, <1>10 DEF WriteTripHeader, WriteLog, nodePc
  <2>2. TripHeader \in Item /\ TripHeader.kind # "chunk"
    BY EmptySeq DEF TripHeader, Item
  <2>3. chunks' = chunks
    BY <1>1, <2>1, <2>2, LogChange
  <2> QED
    BY <2>1, <2>3, SamePlace, SameData, NodeStutters
<1>11. CASE InsertGlobalRow
  <2> DEFINE r == [start |-> startTs, end |-> 0, records |-> 0]
  <2>1. /\ nodePc = "insert" /\ nodePc' = "run" /\ nodeTrip = Current /\ Current \in Trips
        /\ UNCHANGED <<now, nodeDay, nodeTrip, files, log, idx>>
        /\ rows' = [rows EXCEPT ![Current] = r]
    BY <1>1, <1>11 DEF InsertGlobalRow, nodePc, nodeDay, nodeTrip, Opened, Current, disk, memory
  <2>2. r \in Row /\ RowState(r) = "open"
    BY <1>11, ConstantsAssumption DEF InsertGlobalRow, TypeOK, Row, RowState
  <2> HIDE DEF r
  <2>3. states' = [states EXCEPT ![nodeTrip] = "open"]
    BY <2>1, <2>2, StateChange
  <2>4. Node!InsertGlobalRow
    BY <2>1, <2>3, SameData DEF Node!InsertGlobalRow, Node!archive, Node!hdd
  <2> QED
    BY <2>4 DEF Node!Next, Node!IngestStep
<1>12. CASE InsertGlobalRowFails
  BY <1>4, <1>12, SameData DEF InsertGlobalRowFails, ToDown, disk
<1>13. CASE \E size \in Sizes : AppendRecord(size)
  BY <1>3, <1>13 DEF AppendRecord, nodePc, disk
<1>14. CASE FlushLog
  <2>1. /\ pc = "flushLog" /\ HasTrip /\ Current \in Trips /\ nodePc' = nodePc
        /\ log' = [log EXCEPT ![Current] = Append(@, Chunk(buf))]
        /\ UNCHANGED <<now, day, id, files, idx, rows>>
    BY <1>0, <1>1, <1>14 DEF FlushLog, WriteLog, HasTrip, nodePc
  <2>2. Chunk(buf) \in Item /\ Chunk(buf).kind = "chunk"
    BY DEF Chunk, Item, TypeOK
  <2>3. chunks' = [chunks EXCEPT ![Current] = @ + 1]
    BY <2>1, <2>2, LogChange
  <2>4. chunks[Current] = entries[Current] /\ chunks[Current] < MaxRecords
    <3>1. Chunks(log[Current]) = Len(idx[Current]) /\ Len(idx[Current]) <= IndexedRecords(idx[Current])
          /\ accepted[Current] <= MaxRecords
      BY <2>1 DEF NodeInv
    <3>2. IndexedRecords(idx[Current]) + Len(buf) = accepted[Current]
      BY <1>0, <2>1 DEF ThreadInv
    <3>3. /\ Len(buf) \in Nat \ {0} /\ Len(idx[Current]) \in Nat /\ accepted[Current] \in Nat
          /\ IndexedRecords(idx[Current]) \in Nat
      BY <2>1, EmptySeq, IndexedRecordsType DEF TypeOK
    <3>4. Len(idx[Current]) < MaxRecords
      BY <3>1, <3>2, <3>3, ConstantsAssumption
    <3> QED
      BY <2>1, <3>1, <3>4 DEF chunks, entries
  <2>5. Node!FlushLog
    BY <1>2, <2>1, <2>3, <2>4, SamePlace, SameData
       DEF Node!FlushLog, Node!node, Node!archive, Node!hdd
  <2> QED
    BY <2>5 DEF Node!Next, Node!IngestStep
<1>15. CASE FlushIdx
  <2>1. /\ pc = "flushIdx" /\ HasTrip /\ Current \in Trips /\ nodePc' = nodePc
        /\ idx' = [idx EXCEPT ![Current] = Append(@, tie)]
        /\ UNCHANGED <<now, day, id, files, log, rows>>
    BY <1>0, <1>1, <1>15 DEF FlushIdx, HasTrip, nodePc
  <2>2. /\ idx[Current] \in Seq(Entry) /\ tie \in Entry
        /\ Chunks(log[Current]) = Len(idx[Current]) + 1
    BY <2>1 DEF TypeOK, NodeInv
  <2>3. /\ Len(Append(idx[Current], tie)) = Chunks(log[Current])
        /\ Len(idx[Current]) < Chunks(log[Current])
    BY <2>2
  <2>4. \A m \in Trips : idx'[m] = IF m = Current THEN Append(idx[Current], tie) ELSE idx[m]
    BY <2>1 DEF TypeOK
  <2>5. entries' = [m \in Trips |-> IF m = Current THEN Chunks(log[Current]) ELSE Len(idx[m])]
    BY <2>3, <2>4 DEF entries
  <2>6. entries' = [entries EXCEPT ![Current] = chunks[Current]] /\ entries[Current] < chunks[Current]
    BY <2>1, <2>3, <2>5 DEF entries, chunks
  <2>7. Node!FlushIdx
    BY <1>2, <2>1, <2>6, SamePlace, SameData
       DEF Node!FlushIdx, Node!node, Node!archive, Node!hdd
  <2> QED
    BY <2>7 DEF Node!Next, Node!IngestStep
<1>16. CASE EndTrip
  BY <1>3, <1>16 DEF EndTrip, nodePc, disk
<1>17. CASE UpdateGlobalRowEnd
  <2>1. /\ pc = "update" /\ pc' = "down" /\ HasTrip /\ Current \in Trips
        /\ UNCHANGED <<now, files, log, idx>>
    BY <1>1, <1>17 DEF UpdateGlobalRowEnd, HasTrip, disk, ToDown
  <2>2. CASE rows' = rows
    BY <1>4, <2>1, <2>2, SameData
  <2>3. CASE rows' = WithEnd(Current, endTs, total)
    <3> DEFINE r == [start |-> rows[Current].start, end |-> endTs, records |-> total]
    <3>1. HasRow(Current) /\ rows' = [rows EXCEPT ![Current] = r]
      BY <1>0, <2>1, <2>3 DEF ThreadInv, WithEnd
    <3>2. r \in Row /\ RowState(r) = "closed" /\ states[Current] # "none"
      BY <2>1, <3>1 DEF TypeOK, Row, HasRow, RowState, states
    <3> HIDE DEF r
    <3>3. states' = [states EXCEPT ![Current] = "closed"]
      BY <2>1, <3>1, <3>2, StateChange
    <3>4. entries[Current] = chunks[Current]
      BY <2>1 DEF NodeInv, entries, chunks
    <3>5. nodePc' = "down" /\ nodeDay' = 0 /\ nodeTrip' = <<0, 0>>
      BY <2>1 DEF nodePc, nodeDay, nodeTrip, Opened
    <3>6. states' = [states EXCEPT ![nodeTrip] = IF @ = "none" THEN @ ELSE "closed"]
      BY <1>2, <2>1, <3>2, <3>3
    <3>7. Node!EndTrip
      BY <1>2, <2>1, <3>4, <3>5, <3>6, SameData
         DEF Node!EndTrip, Node!NodeEnds, Node!NoTrip, Node!archive, Node!hdd
    <3> QED
      BY <3>7 DEF Node!Next, Node!IngestStep
  <2> QED
    BY <1>17, <2>2, <2>3 DEF UpdateGlobalRowEnd
<1>18. CASE Crash
  <2>1. pc # "down" /\ pc' = "down" /\ UNCHANGED <<now, files, idx, rows>>
    BY <1>18 DEF Crash, ToDown
  <2>2. chunks' = chunks
    <3>1. CASE log' = log
      BY <3>1, SameData
    <3>2. CASE pc = "flushLog" /\ log' = [log EXCEPT ![Current] = Append(@, Torn)]
      <4>1. Torn \in Item /\ Torn.kind # "chunk"
        BY EmptySeq DEF Torn, Item
      <4> QED
        BY <1>1, <3>2, <4>1, LogChange
    <3> QED
      BY <1>18, <3>1, <3>2 DEF Crash
  <2> QED
    BY <1>4, <2>1, <2>2
<1>19. CASE Tick
  <2>1. /\ now \in 1..(MaxTime - 1) /\ now' = now + 1 /\ nodePc' = nodePc
        /\ UNCHANGED <<day, id, files, log, idx, rows>>
    BY <1>19, ConstantsAssumption DEF Tick, disk, memory, nodePc, TypeOK, Time
  <2>2. now' \in Time
    BY <2>1, ConstantsAssumption DEF Time
  <2>3. CASE DayOf[now'] = DayOf[now]
    BY <2>1, <2>3, SamePlace, SameData, NodeStutters
  <2>4. CASE DayOf[now'] = DayOf[now] + 1
    <3>1. DayOf[now] < LastDay
      BY <1>0, <2>2, <2>4, ConstantsAssumption DEF Calendar
    <3>2. Node!Midnight
      BY <2>1, <2>4, <3>1, SamePlace, SameData DEF Node!Midnight, Node!node, Node!archive, Node!hdd
    <3> QED
      BY <3>2 DEF Node!Next
  <2> QED
    BY <2>1, <2>3, <2>4 DEF Calendar
<1>20. CASE UNCHANGED vars
  BY <1>3, <1>20 DEF vars, nodePc
<1> QED
  BY <1>5, <1>6, <1>7, <1>8, <1>9, <1>10, <1>11, <1>12, <1>13, <1>14, <1>15, <1>16,
     <1>17, <1>18, <1>19, <1>20 DEF Next, ThreadStep

\* Before any process, the node is down and has written nothing.
LEMMA NodeInit == Calendar /\ Init => Node!Init
<1> SUFFICES ASSUME Calendar, Init PROVE Node!Init
  OBVIOUS
<1>1. Node!Trips = Trips /\ Node!Days = 1..LastDay /\ Trips = (1..LastDay) \X (0..(MaxTrips - 1))
  BY SameTrips DEF Calendar, Node!Days, Node!Trips
<1>2. nodePc = "down" /\ nodeDay = 0 /\ nodeTrip = <<0, 0>> /\ DayOf[now] = 1
  BY DEF Init, nodePc, nodeDay, nodeTrip, Opened, Calendar
<1>3. chunks = [k \in Trips |-> 0]
  BY ChunksEmpty DEF Init, chunks
<1>4. entries = [k \in Trips |-> 0] /\ states = [k \in Trips |-> "none"]
  BY DEF Init, entries, states, RowState, NoRow
<1> QED
  BY <1>1, <1>2, <1>3, <1>4 DEF Init, Node!Init, Node!NoTrip

\* While no stream write fails and the clock is not set back, every behaviour
\* of the logger is one of ArchiveTier in which the archiver does not run: the
\* node that ArchiveTier puts next to the archiver forbids nothing that this
\* one does with its files, its rows and the day it started on.
THEOREM ImplementsArchivedNode ==
    ASSUME Calendar, "diskfull" \notin Faults, "stepback" \notin Faults
    PROVE  Spec => Node!Spec
<1>1. Init => Node!Init
  BY NodeInit
<1>2. TypeInv /\ NewTripInv /\ StorageInv /\ NodeInv /\ [Next]_vars => NodeInv'
  BY NodeInvNext
<1>3. TypeInv /\ NewTripInv /\ StorageInv /\ NodeInv /\ [Next]_vars => [Node!Next]_(Node!vars)
  BY NodeNext
<1>4. Spec => [](TypeInv /\ StorageInv)
  BY StorageCorrect
<1> QED
  BY <1>1, <1>2, <1>3, <1>4, NewTripCorrect, NodeInvInit, PTL DEF Spec, Node!Spec

=============================================================================
