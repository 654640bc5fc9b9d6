---------------------------- MODULE TripScanProofs ----------------------------
(* Theorems about the times in the files of AppendLogger and about the     *)
(* scans that rely on them, for every value of the constants.              *)
EXTENDS TripScan, AppendLoggerProofs

-----------------------------------------------------------------------------
(* What a step may write to a log.                                         *)

\* A log grows by a header, by a part of a chunk, or by the buffered chunk.
LEMMA LogSteps ==
    ASSUME TypeInv, [Next]_vars, NEW k \in Trips
    PROVE  \/ log'[k] = log[k]
           \/ \E item \in {TripHeader, Torn} : log'[k] = Append(log[k], item)
           \/ pc = "flushLog" /\ k = Current /\ log'[k] = Append(log[k], Chunk(buf))
<1> USE DEF TypeInv
<1>1. CASE UNCHANGED log
  BY <1>1
<1>2. CASE WriteTripHeader
  <2>1. WriteLog(TripHeader) /\ Current \in Trips
    BY <1>2, CurrentIsTrip DEF WriteTripHeader
  <2> QED
    BY <2>1 DEF WriteLog, TypeOK
<1>3. CASE FlushLog
  <2>1. WriteLog(Chunk(buf)) /\ Current \in Trips /\ pc = "flushLog"
    BY <1>3, CurrentIsTrip DEF FlushLog
  <2> QED
    BY <2>1 DEF WriteLog, TypeOK
<1>4. CASE Crash
  <2>1. \/ log' = log
        \/ /\ Current \in Trips
           /\ log' = [log EXCEPT ![Current] = Append(@, Torn)]
    BY <1>4, CurrentIsTrip DEF Crash
  <2> QED
    BY <2>1 DEF TypeOK
<1>5. CASE StartNode \/ GetTripId \/ OpenTripFiles \/ OpenTripFilesFails \/ InsertGlobalRow
           \/ InsertGlobalRowFails
  BY <1>1, <1>5 DEF StartNode, GetTripId, OpenTripFiles, OpenTripFilesFails, InsertGlobalRow,
                    InsertGlobalRowFails, disk
<1>6. CASE FlushIdx \/ EndTrip \/ UpdateGlobalRowEnd \/ Tick \/ UNCHANGED vars
  BY <1>1, <1>6 DEF FlushIdx, EndTrip, UpdateGlobalRowEnd, Tick, vars, disk
<1>7. CASE (\E m \in Trips : RecoverGlobalRow(m)) \/ (\E size \in Sizes : AppendRecord(size))
  BY <1>1, <1>7 DEF RecoverGlobalRow, AppendRecord, disk
<1> QED
  BY <1>2, <1>3, <1>4, <1>5, <1>6, <1>7 DEF Next, ThreadStep

-----------------------------------------------------------------------------
(* Chunks, whatever the clock does and whatever writes fail.               *)

\* No record but the last is older than the first.
FirstIsLeast(recs) == \A j \in 1..(Len(recs) - 1) : recs[1].ts <= recs[j].ts

ChunkInv ==
    \A k \in Trips : \A i \in 1..Len(log[k]) :
        log[k][i].kind = "chunk" => FirstIsLeast(log[k][i].recs)

\* A chunk is written when its newest record made it complete, and no other.
LEMMA ChunkNext ==
    ASSUME TypeInv, LossInv, ChunkInv, [Next]_vars
    PROVE  ChunkInv'
<1> SUFFICES ASSUME NEW k \in Trips, NEW i \in 1..Len(log'[k]), log'[k][i].kind = "chunk"
             PROVE  FirstIsLeast(log'[k][i].recs)
  BY DEF ChunkInv
<1>1. log[k] \in Seq(Item)
  BY DEF TypeInv, TypeOK
<1>2. ASSUME NEW item, log'[k] = Append(log[k], item)
      PROVE  \/ i \in 1..Len(log[k]) /\ log'[k][i] = log[k][i]
             \/ log'[k][i] = item
  BY <1>1, <1>2
<1>3. CASE log'[k] = log[k]
  BY <1>3 DEF ChunkInv
<1>4. ASSUME NEW item \in {TripHeader, Torn}, log'[k] = Append(log[k], item)
      PROVE  FirstIsLeast(log'[k][i].recs)
  BY <1>2, <1>4 DEF ChunkInv, TripHeader, Torn
<1>5. CASE pc = "flushLog" /\ log'[k] = Append(log[k], Chunk(buf))
  <2>1. FirstIsLeast(buf)
    BY <1>5 DEF LossInv, Within, FirstIsLeast
  <2> QED
    BY <1>2, <1>5, <2>1 DEF ChunkInv, Chunk
<1> QED
  BY <1>3, <1>4, <1>5, LogSteps

\* The times as numbers.
LEMMA Numbers ==
    ASSUME TypeOK
    PROVE  /\ now \in Nat /\ startTs \in Nat /\ endTs \in Nat
           /\ \A k \in Trips : rows[k].start \in Nat /\ rows[k].end \in Nat
           /\ \A k \in Trips : Len(idx[k]) \in Nat
           /\ \A k \in Trips : \A i \in 1..Len(idx[k]) : idx[k][i].start \in Nat /\ idx[k][i].end \in Nat \ {0}
           /\ Len(buf) \in Nat /\ \A j \in 1..Len(buf) : buf[j].ts \in Nat
<1>1. MaxTime \in Nat /\ Time \subseteq Nat \ {0}
  BY ConstantsAssumption DEF Time
<1>2. \A k \in Trips : rows[k] \in Row /\ idx[k] \in Seq(Entry)
  BY DEF TypeOK
<1>3. \A k \in Trips : \A i \in 1..Len(idx[k]) : idx[k][i] \in Entry
  BY <1>2, ElementOfSeq
<1>4. Len(buf) \in Nat /\ \A j \in 1..Len(buf) : buf[j].ts \in Time
  <2>1. buf \in Seq(Record)
    BY DEF TypeOK
  <2>2. \A j \in 1..Len(buf) : buf[j] \in Record
    BY <2>1, ElementOfSeq
  <2> QED
    BY <2>1, <2>2, LenProperties DEF Record
<1>5. \A k \in Trips : Len(idx[k]) \in Nat
  BY <1>2, LenProperties
<1>6. \A k \in Trips : \A i \in 1..Len(idx[k]) : idx[k][i].start \in Time /\ idx[k][i].end \in Time
  BY <1>3 DEF Entry
<1>7. \A k \in Trips : rows[k].start \in Nat /\ rows[k].end \in Nat
  BY <1>1, <1>2 DEF Row
<1>8. now \in Nat /\ startTs \in Nat /\ endTs \in Nat
  BY <1>1 DEF TypeOK
<1> QED
  BY <1>1, <1>4, <1>5, <1>6, <1>7, <1>8

\* What is known of a stored record and of its chunk.
LEMMA StoredFacts ==
    ASSUME TypeInv, ChunkInv, NEW k \in Trips, NEW i \in Located(k), NEW j \in 1..Len(Recs(k, i))
    PROVE  /\ i \in 1..Len(idx[k])
           /\ Len(Recs(k, i)) \in Nat /\ Len(Recs(k, i)) > 0
           /\ \A n \in 1..Len(Recs(k, i)) : Recs(k, i)[n].ts \in Nat
           /\ FirstIsLeast(Recs(k, i))
           /\ idx[k][i].start = Recs(k, i)[1].ts
           /\ idx[k][i].end = Recs(k, i)[Len(Recs(k, i))].ts
<1> DEFINE r == Recs(k, i)
           c == log[k][idx[k][i].offset + 1]
<1>1. /\ idx[k][i].offset + 1 \in 1..Len(log[k]) /\ c.kind = "chunk" /\ r # <<>> /\ r = c.recs
      /\ idx[k][i].start = r[1].ts /\ idx[k][i].end = r[Len(r)].ts
      /\ i \in 1..Len(idx[k])
  BY DEF Located, Locates, Recs
<1>2. c \in Item
  BY <1>1, ElementOfSeq DEF TypeInv, TypeOK
<1>3. r \in Seq(Record)
  BY <1>1, <1>2 DEF Item
<1>4. FirstIsLeast(r)
  BY <1>1 DEF ChunkInv
<1>5. Len(r) \in Nat /\ Len(r) > 0 /\ \A n \in 1..Len(r) : r[n].ts \in Nat
  <2> HIDE DEF r, c
  <2>1. Len(r) \in Nat /\ Len(r) > 0
    BY <1>1, <1>3, EmptySeq, LenProperties
  <2>2. \A n \in 1..Len(r) : r[n] \in Record
    BY <1>3, ElementOfSeq
  <2> QED
    BY <2>1, <2>2, ConstantsAssumption DEF Record, Time
<1> QED
  BY <1>1, <1>4, <1>5

\* A record older than the first of its chunk is the last.
LEMMA BeforeFirst ==
    ASSUME NEW recs, FirstIsLeast(recs), NEW j \in 1..Len(recs), Len(recs) \in Nat, Len(recs) > 0,
           \A n \in 1..Len(recs) : recs[n].ts \in Nat,
           recs[j].ts < recs[1].ts
    PROVE  OutOfOrder(recs, j)
<1>1. j \notin 1..(Len(recs) - 1)
  BY DEF FirstIsLeast
<1> QED
  BY <1>1 DEF OutOfOrder

\* A scan misses a record of the queried time only when the clock was set
\* back: out of its trip's interval or of its chunk's order, and a cold scan
\* also after a chunk that begins later. Under every fault, failing writes
\* included.
THEOREM MissedAreOutOfOrderHolds == Spec => []MissedAreOutOfOrder
<1>1. Init => ChunkInv
  BY DEF Init, ChunkInv
<1>2. TypeInv /\ LossInv /\ ChunkInv /\ [Next]_vars => ChunkInv'
  BY ChunkNext
<1>3. TypeInv /\ NewTripInv /\ ChunkInv => MissedAreOutOfOrder
  <2> SUFFICES ASSUME TypeInv, NewTripInv, ChunkInv, NEW k \in Trips, NEW s \in Time,
                      NEW e \in s..MaxTime, NEW x \in StoredIn(k, s, e)
               PROVE  LET i   == x[1]
                          j   == x[2]
                          t   == Recs(k, i)[j].ts
                          odd == OutsideRow(rows[k], t) \/ OutOfOrder(Recs(k, i), j)
                      IN  /\ x \in HotScan(k, s, e) \/ odd
                          /\ rows[k].end # 0 =>
                                x \in ColdScan(k, s, e) \/ odd \/ AfterNewerChunk(idx[k], i, t)
    BY DEF MissedAreOutOfOrder
  <2>0. PICK i \in Located(k) : \E n \in 1..Len(Recs(k, i)) : x = <<i, n>> /\ Recs(k, i)[n].ts \in s..e
    BY DEF StoredIn, RecordsIn
  <2>1. PICK j \in 1..Len(Recs(k, i)) : x = <<i, j>> /\ Recs(k, i)[j].ts \in s..e
    BY <2>0
  <2> DEFINE recs == Recs(k, i)
             t    == recs[j].ts
             row  == rows[k]
             y    == idx[k]
  <2>2. /\ i \in 1..Len(y) /\ Len(recs) \in Nat /\ Len(recs) > 0
        /\ \A n \in 1..Len(recs) : recs[n].ts \in Nat
        /\ FirstIsLeast(recs)
        /\ y[i].start = recs[1].ts /\ y[i].end = recs[Len(recs)].ts
    BY StoredFacts
  <2>3. /\ row.start \in Nat /\ row.end \in Nat /\ Len(y) \in Nat
        /\ \A n \in 1..Len(y) : y[n].start \in Nat /\ y[n].end \in Nat
        /\ s \in Nat /\ e \in Nat
    BY Numbers, ConstantsAssumption DEF TypeInv, Time
  <2>4. t \in Nat /\ s <= t /\ t <= e
    BY <2>1, <2>2
  <2>5. row.start # 0
    <3>1. y # <<>>
      BY <2>2
    <3> QED
      BY <3>1 DEF NewTripInv, HasRow
  <2>6. ASSUME NEW ns, i \in ns
        PROVE  x \in RecordsIn(k, ns, s, e)
    BY <2>1, <2>6 DEF RecordsIn
  <2> HIDE DEF recs, t, row, y
  <2>7. \/ OutsideRow(row, t)
        \/ HotRow(row, s, e) /\ (row.end # 0 => ColdRow(row, s, e))
    BY <2>3, <2>4, <2>5 DEF OutsideRow, HotRow, ColdRow
  <2>8. y[i].start > e => OutOfOrder(recs, j)
    <3> SUFFICES ASSUME y[i].start > e PROVE OutOfOrder(recs, j)
      OBVIOUS
    <3>1. recs[1].ts \in Nat /\ recs[j].ts < recs[1].ts
      BY <2>2, <2>3, <2>4 DEF t
    <3>2. j \in 1..Len(recs)
      BY DEF recs
    <3> QED
      BY <2>2, <3>1, <3>2, BeforeFirst
  <2>9. y[i].end < s => OutOfOrder(recs, j)
    BY <2>2, <2>3, <2>4 DEF OutOfOrder, t
  <2>10. x \in HotScan(k, s, e) \/ OutsideRow(row, t) \/ OutOfOrder(recs, j)
    <3> SUFFICES ASSUME ~OutsideRow(row, t), ~OutOfOrder(recs, j) PROVE x \in HotScan(k, s, e)
      OBVIOUS
    <3>1. Overlaps(y[i], s, e)
      BY <2>2, <2>3, <2>8, <2>9 DEF Overlaps
    <3> QED
      BY <2>2, <2>6, <2>7, <3>1 DEF HotScan, row, y
  <2>11. row.end # 0 => \/ x \in ColdScan(k, s, e)
                        \/ OutsideRow(row, t) \/ OutOfOrder(recs, j) \/ AfterNewerChunk(y, i, t)
    <3> SUFFICES ASSUME row.end # 0, ~OutsideRow(row, t), ~OutOfOrder(recs, j),
                        ~AfterNewerChunk(y, i, t)
                 PROVE  x \in ColdScan(k, s, e)
      OBVIOUS
    <3>1. Started(y, i, s)
      BY <2>2, <2>3, <2>9 DEF Started
    <3>2. ASSUME NEW n \in 1..i PROVE y[n].start <= e
      <4>1. n = i \/ n \in 1..(i - 1)
        BY <2>2, <2>3
      <4>2. CASE n = i
        BY <2>2, <2>3, <2>8, <4>2
      <4>3. CASE n \in 1..(i - 1)
        <5>1. ~(y[n].start > t) /\ y[n].start \in Nat
          BY <2>2, <2>3, <4>3 DEF AfterNewerChunk
        <5> QED
          BY <2>3, <2>4, <5>1
      <4> QED
        BY <4>1, <4>2, <4>3
    <3>3. ColdReads(y, i, s, e)
      BY <3>1, <3>2 DEF ColdReads
    <3> QED
      BY <2>2, <2>6, <2>7, <3>3 DEF ColdScan, row, y
  <2>12. x[1] = i /\ x[2] = j
    BY <2>1
  <2> QED
    BY <2>10, <2>11, <2>12 DEF t, recs, row, y
<1> QED
  BY <1>1, <1>2, <1>3, LossCorrect, NewTripCorrect, PTL DEF Spec

-----------------------------------------------------------------------------
(* Times, while the clock is not set back and no stream write fails.       *)

Sorted(recs) == \A a, b \in 1..Len(recs) : a <= b => recs[a].ts <= recs[b].ts

\* Entry by entry the index of a trip goes forward in time, from the start its
\* row announces to the end, if the row has one.
TimesOf(k) ==
    /\ \A i \in 1..Len(idx[k]) :
          /\ idx[k][i].start <= idx[k][i].end /\ idx[k][i].end <= now
          /\ Sorted(Recs(k, i))
          /\ HasRow(k) /\ rows[k].start <= idx[k][i].start
          /\ rows[k].end # 0 => idx[k][i].end <= rows[k].end
    /\ \A i, j \in 1..Len(idx[k]) : i < j => idx[k][i].end <= idx[k][j].start

\* The buffer goes on from there, and the end of the trip is after both.
LiveTimes ==
    /\ pc \in {"open", "header", "insert"} => startTs <= now
    /\ pc \notin {"flushLog", "flushIdx", "update"} => endTs = 0
    /\ HasTrip =>
          /\ rows[Current].start <= now /\ endTs <= now
          /\ Sorted(buf)
          /\ \A j \in 1..Len(buf) : rows[Current].start <= buf[j].ts /\ buf[j].ts <= now
          /\ \A i \in 1..Len(idx[Current]), j \in 1..Len(buf) : idx[Current][i].end <= buf[j].ts
          /\ endTs # 0 => /\ \A i \in 1..Len(idx[Current]) : idx[Current][i].end <= endTs
                          /\ \A j \in 1..Len(buf) : buf[j].ts <= endTs

TimeInv == (\A k \in Trips : TimesOf(k)) /\ LiveTimes

\* Time passes and logs grow: the times of a trip stay what they are.
LEMMA TimesFrame ==
    ASSUME TypeOK, TypeOK', StorageInv, NEW k \in Trips, TimesOf(k), now' >= now,
           idx'[k] = idx[k], rows'[k] = rows[k],
           \/ log'[k] = log[k]
           \/ \E item \in Item : log'[k] = Append(log[k], item)
    PROVE  TimesOf(k)'
<1>1. log[k] \in Seq(Item) /\ idx[k] \in Seq(Entry)
  BY DEF TypeOK
<1>2. ASSUME NEW i \in 1..Len(idx[k]) PROVE Recs(k, i)' = Recs(k, i)
  <2>1. idx[k][i] \in Entry /\ Locates(idx[k][i], log[k])
    BY <1>1, ElementOfSeq DEF StorageInv, DiskInv
  <2>2. log'[k][idx[k][i].offset + 1] = log[k][idx[k][i].offset + 1]
    BY <1>1, <2>1, LocatesAppend
  <2> QED
    BY <2>2 DEF Recs
<1>3. now' \in Nat /\ now \in Nat /\ \A i \in 1..Len(idx[k]) : idx[k][i].end \in Nat
  <2>1. now' \in Time /\ Time \subseteq Nat
    BY ConstantsAssumption DEF TypeOK, Time
  <2> QED
    BY <2>1, Numbers
<1> QED
  BY <1>2, <1>3 DEF TimesOf, HasRow

\* What may be appended to a log is an item.
LEMMA LogGrows ==
    ASSUME TypeInv, [Next]_vars, NEW k \in Trips
    PROVE  log'[k] = log[k] \/ \E item \in Item : log'[k] = Append(log[k], item)
<1>1. TripHeader \in Item /\ Torn \in Item /\ Chunk(buf) \in Item
  BY DEF TripHeader, Torn, Chunk, Item, TypeInv, TypeOK
<1> QED
  BY <1>1, LogSteps

\* No step but those of the catalog and of the index changes more than that.
LEMMA TimesKept ==
    ASSUME TypeInv, TypeInv', StorageInv, [Next]_vars, NEW k \in Trips, TimesOf(k),
           now' >= now, idx'[k] = idx[k], rows'[k] = rows[k]
    PROVE  TimesOf(k)'
  BY TimesFrame, LogGrows DEF TypeInv

\* Time passes: what holds of the running trip holds later.
LEMMA LiveKept ==
    ASSUME TypeInv, LiveTimes, now' \in Nat, now' >= now,
           UNCHANGED <<idx, rows, day, id, startTs, buf, endTs>>,
           \/ pc' = pc
           \/ pc = "open" /\ pc' = "header"
           \/ pc = "header" /\ pc' = "insert"
           \/ pc = "flushLog" /\ pc' = "flushIdx"
    PROVE  LiveTimes'
<1>1. /\ now \in Nat /\ startTs \in Nat /\ endTs \in Nat
      /\ Len(buf) \in Nat /\ \A j \in 1..Len(buf) : buf[j].ts \in Nat
  BY Numbers DEF TypeInv
<1>2. pc' \in {"open", "header", "insert"} => startTs' <= now'
  BY <1>1 DEF LiveTimes
<1>3. pc' \notin {"flushLog", "flushIdx", "update"} => endTs' = 0
  BY DEF LiveTimes
<1>4. ASSUME HasTrip'
      PROVE  /\ HasTrip
             /\ rows[Current].start \in Nat
             /\ Current' = Current
  BY <1>4, CurrentIsTrip, Numbers DEF HasTrip, Current, TypeInv
<1> QED
  BY <1>1, <1>2, <1>3, <1>4 DEF LiveTimes, Sorted

\* A process that ended has no times.
LEMMA LiveDown ==
    ASSUME ToDown
    PROVE  LiveTimes'
  BY DEF ToDown, LiveTimes, HasTrip

\* A record is stamped with the present, after everything stored or buffered.
LEMMA AppendRecordTimes ==
    ASSUME TypeInv, TypeInv', StorageInv, TimeInv, NEW size \in Sizes, AppendRecord(size)
    PROVE  LiveTimes'
<1> USE DEF TypeInv
<1> DEFINE r == [n |-> accepted[Current] + 1, ts |-> now]
<1>1. /\ pc = "run" /\ HasTrip /\ HasTrip' /\ Current' = Current /\ Current \in Trips
      /\ buf' = Append(buf, r) /\ endTs = 0 /\ now' = now
      /\ UNCHANGED <<idx, rows, endTs, startTs>>
  BY CurrentIsTrip DEF AppendRecord, HasTrip, Current, TimeInv, LiveTimes, disk
<1>2. pc' \in {"run", "flushLog"}
  BY DEF AppendRecord
<1>3. /\ now \in Nat /\ rows[Current].start \in Nat
      /\ \A i \in 1..Len(idx[Current]) : idx[Current][i].end \in Nat
      /\ Len(buf) \in Nat /\ \A j \in 1..Len(buf) : buf[j].ts \in Nat
  BY <1>1, Numbers
<1>4. /\ Len(buf') = Len(buf) + 1 /\ buf'[Len(buf) + 1].ts = now
      /\ \A j \in 1..Len(buf) : buf'[j] = buf[j]
  <2>1. buf \in Seq(Record) /\ buf' \in Seq(Record)
    BY DEF TypeOK
  <2>2. r.ts = now
    OBVIOUS
  <2> QED
    BY <1>1, <2>1, <2>2
<1>5. /\ rows[Current].start <= now /\ Sorted(buf)
      /\ \A j \in 1..Len(buf) : rows[Current].start <= buf[j].ts /\ buf[j].ts <= now
      /\ \A i \in 1..Len(idx[Current]), j \in 1..Len(buf) : idx[Current][i].end <= buf[j].ts
  BY <1>1 DEF TimeInv, LiveTimes
<1>6. \A i \in 1..Len(idx[Current]) : idx[Current][i].end <= now
  BY <1>1 DEF TimeInv, TimesOf
<1>7. Sorted(buf')
  BY <1>3, <1>4, <1>5 DEF Sorted
<1>8. \A j \in 1..Len(buf') : /\ rows[Current].start <= buf'[j].ts /\ buf'[j].ts <= now
                              /\ \A i \in 1..Len(idx[Current]) : idx[Current][i].end <= buf'[j].ts
  BY <1>3, <1>4, <1>5, <1>6
<1> QED
  BY <1>1, <1>2, <1>3, <1>5, <1>7, <1>8 DEF LiveTimes

\* The end of a trip is after all its records.
LEMMA EndTripTimes ==
    ASSUME TypeInv, TimeInv, EndTrip
    PROVE  LiveTimes'
<1> USE DEF TypeInv
<1>1. /\ pc = "run" /\ HasTrip /\ HasTrip' /\ Current' = Current /\ Current \in Trips
      /\ endTs' = now /\ now' = now /\ pc' \in {"update", "flushLog"}
      /\ UNCHANGED <<idx, rows, startTs, buf>>
  BY CurrentIsTrip DEF EndTrip, HasTrip, Current, disk
<1>2. \A i \in 1..Len(idx[Current]) : idx[Current][i].end <= now
  BY <1>1 DEF TimeInv, TimesOf
<1>3. now \in Nat
  BY Numbers
<1> QED
  BY <1>1, <1>2, <1>3 DEF TimeInv, LiveTimes, Sorted

\* An entry carries the times of its chunk, which are after the entries before.
LEMMA FlushIdxTimes ==
    ASSUME "diskfull" \notin Faults, TypeInv, TypeInv', StorageInv, TimeInv, FlushIdx
    PROVE  TimeInv'
<1> USE DEF TypeInv
<1> DEFINE x == idx[Current]
           n == Len(x)
           y == idx'[Current]
<1>1. /\ pc = "flushIdx" /\ HasTrip /\ Current' = Current /\ Current \in Trips
      /\ idx' = [idx EXCEPT ![Current] = Append(@, tie)] /\ buf' = <<>>
      /\ UNCHANGED <<now, rows, log, endTs, startTs>>
      /\ pc' = IF endTs = 0 THEN "run" ELSE "update"
  BY CurrentIsTrip DEF FlushIdx, HasTrip, Current, StorageInv, ThreadInv, ClearBuffer
<1>2. x \in Seq(Entry) /\ tie \in Entry /\ buf \in Seq(Record) /\ buf # <<>>
  BY <1>1 DEF TypeOK
<1>3. n \in Nat /\ Len(y) = n + 1 /\ y[n + 1] = tie /\ \A i \in 1..n : y[i] = x[i]
  BY <1>1, <1>2, AppendProperties DEF TypeOK
<1>4. Len(buf) \in Nat \ {0}
  BY <1>2, EmptySeq
<1>5. /\ log[Current][tie.offset + 1].recs = buf
      /\ tie.start = buf[1].ts /\ tie.end = buf[Len(buf)].ts
  BY <1>1 DEF StorageInv, ThreadInv, Locates
<1>6. /\ now \in Nat /\ endTs \in Nat /\ rows[Current].start \in Nat /\ rows[Current].end = 0
      /\ HasRow(Current)
      /\ \A i \in 1..n : x[i].start \in Nat /\ x[i].end \in Nat
      /\ \A j \in 1..Len(buf) : buf[j].ts \in Nat
  BY <1>1, Numbers DEF StorageInv, ThreadInv
<1>7. /\ rows[Current].start <= now /\ endTs <= now /\ Sorted(buf)
      /\ \A j \in 1..Len(buf) : rows[Current].start <= buf[j].ts /\ buf[j].ts <= now
      /\ \A i \in 1..n, j \in 1..Len(buf) : x[i].end <= buf[j].ts
      /\ endTs # 0 => /\ \A i \in 1..n : x[i].end <= endTs
                      /\ \A j \in 1..Len(buf) : buf[j].ts <= endTs
  BY <1>1 DEF TimeInv, LiveTimes
<1>8. /\ rows[Current].start <= tie.start /\ tie.start <= tie.end /\ tie.end <= now
      /\ \A i \in 1..n : x[i].end <= tie.start
      /\ endTs # 0 => tie.end <= endTs
      /\ tie.start \in Nat /\ tie.end \in Nat
  <2>1. 1 \in 1..Len(buf) /\ Len(buf) \in 1..Len(buf) /\ 1 <= Len(buf)
    BY <1>4
  <2> QED
    BY <1>5, <1>6, <1>7, <2>1 DEF Sorted
<1>9. \A i \in 1..n : /\ x[i].start <= x[i].end /\ x[i].end <= now
                      /\ Sorted(log[Current][x[i].offset + 1].recs)
                      /\ rows[Current].start <= x[i].start
  BY <1>1 DEF TimeInv, TimesOf, Recs
<1>10. \A i, j \in 1..n : i < j => x[i].end <= x[j].start
  BY <1>1 DEF TimeInv, TimesOf
<1>11. ASSUME NEW k \in Trips, k = Current
       PROVE  TimesOf(k)'
  <2> HIDE DEF x, y, n
  <2>1. \A i \in 1..(n + 1) : /\ y[i].start <= y[i].end /\ y[i].end <= now
                              /\ Sorted(log[Current][y[i].offset + 1].recs)
                              /\ rows[Current].start <= y[i].start
    BY <1>3, <1>5, <1>7, <1>8, <1>9
  <2>2. \A i, j \in 1..(n + 1) : i < j => y[i].end <= y[j].start
    BY <1>3, <1>8, <1>10
  <2>3. HasRow(Current)' /\ rows'[Current].end = 0
    BY <1>1, <1>6 DEF HasRow
  <2> QED
    BY <1>1, <1>3, <1>11, <2>1, <2>2, <2>3 DEF TimesOf, Recs, HasRow, y
<1>12. \A k \in Trips : TimesOf(k)'
  <2> SUFFICES ASSUME NEW k \in Trips, k # Current
               PROVE  TimesOf(k)'
    BY <1>11
  <2>1. idx'[k] = idx[k]
    BY <1>1 DEF TypeOK
  <2> QED
    BY <1>1, <2>1 DEF TimeInv, TimesOf, Recs, HasRow
<1>13. LiveTimes'
  <2> HIDE DEF x, y, n
  <2>1. (HasTrip' /\ endTs # 0) => \A i \in 1..(n + 1) : y[i].end <= endTs
    BY <1>3, <1>7, <1>8
  <2>2. pc' \notin {"flushLog", "flushIdx", "update"} => endTs' = 0
    BY <1>1
  <2>3. Len(buf') = 0
    BY <1>1
  <2> QED
    BY <1>1, <1>3, <1>6, <1>7, <2>1, <2>2, <2>3 DEF LiveTimes, Sorted, y
<1> QED
  BY <1>12, <1>13 DEF TimeInv

\* A new row starts no later than now; its index is empty.
LEMMA InsertGlobalRowTimes ==
    ASSUME TypeInv, TypeInv', StorageInv, TimeInv, InsertGlobalRow
    PROVE  TimeInv'
<1> USE DEF TypeInv
<1>1. /\ pc = "insert" /\ HasTrip' /\ Current' = Current /\ Current \in Trips
      /\ UNCHANGED <<now, idx, log, endTs, startTs, buf>> /\ pc' = "run"
      /\ rows' = [rows EXCEPT ![Current] = [start |-> startTs, end |-> 0, records |-> 0]]
  BY CurrentIsTrip DEF InsertGlobalRow, HasTrip, Current, disk, memory
<1>2. /\ idx[Current] = <<>> /\ buf = <<>> /\ endTs = 0 /\ startTs <= now /\ now \in Nat
  BY <1>1, Numbers DEF StorageInv, ThreadInv, HasTrip, TimeInv, LiveTimes
<1>3. \A k \in Trips : TimesOf(k)'
  <2> SUFFICES ASSUME NEW k \in Trips
               PROVE  TimesOf(k)'
    OBVIOUS
  <2>1. CASE k = Current
    BY <1>1, <1>2, <2>1 DEF TimesOf
  <2>2. CASE k # Current
    <3>1. rows'[k] = rows[k]
      BY <1>1, <2>2 DEF TypeOK
    <3> QED
      BY <1>1, <3>1 DEF TimeInv, TimesOf, Recs, HasRow
  <2> QED
    BY <2>1, <2>2
<1>4. LiveTimes'
  <2>1. rows'[Current].start = startTs
    BY <1>1 DEF TypeOK
  <2> QED
    BY <1>1, <1>2, <2>1 DEF LiveTimes, Sorted
<1> QED
  BY <1>3, <1>4 DEF TimeInv

\* Any end not before the last entry's may be given to a row.
LEMMA RowEndTimes ==
    ASSUME TypeInv, StorageInv, NEW k \in Trips, TimesOf(k), NEW end \in Nat, NEW n,
           \A i \in 1..Len(idx[k]) : idx[k][i].end <= end,
           rows' = WithEnd(k, end, n), UNCHANGED <<now, idx, log>>,
           NEW m \in Trips, TimesOf(m)
    PROVE  TimesOf(m)'
<1>1. rows'[m].start = rows[m].start /\ (rows'[m].end = rows[m].end \/ (m = k /\ rows'[m].end = end))
  BY DEF WithEnd, TypeInv, TypeOK
<1> QED
  BY <1>1 DEF TimesOf, Recs, HasRow

\* The end that recovery takes from the last entry is not before any other.
LEMMA RecoverTimes ==
    ASSUME TypeInv, StorageInv, TimeInv, NEW k \in Trips, RecoverGlobalRow(k)
    PROVE  TimeInv'
<1> USE DEF TypeInv
<1>1. pc = "recover" /\ ~HasTrip' /\ pc' = pc /\ UNCHANGED <<now, idx, log, endTs, startTs>>
  BY DEF RecoverGlobalRow, HasTrip
<1>2. LiveTimes'
  BY <1>1 DEF LiveTimes, TimeInv
<1>3. \A m \in Trips : TimesOf(m)'
  <2>1. CASE rows' = rows
    BY <1>1, <2>1 DEF TimeInv, TimesOf, Recs, HasRow
  <2>2. CASE idx[k] # <<>> /\ rows' = WithEnd(k, SummaryEnd(idx[k]), IndexedRecords(idx[k]))
    <3>1. idx[k] \in Seq(Entry)
      BY DEF TypeOK
    <3>2. Len(idx[k]) \in Nat \ {0}
      BY <2>2, <3>1, EmptySeq
    <3>3. /\ \A i \in 1..Len(idx[k]) : /\ idx[k][i].start \in Nat /\ idx[k][i].end \in Nat
                                       /\ idx[k][i].start <= idx[k][i].end
          /\ \A i, j \in 1..Len(idx[k]) : i < j => idx[k][i].end <= idx[k][j].start
      BY Numbers DEF TimeInv, TimesOf
    <3>4. SummaryEnd(idx[k]) \in Nat
      BY <3>2, <3>3 DEF SummaryEnd
    <3>5. \A i \in 1..Len(idx[k]) : idx[k][i].end <= SummaryEnd(idx[k])
      BY <3>2, <3>3 DEF SummaryEnd
    <3> QED
      BY <1>1, <2>2, <3>4, <3>5, RowEndTimes DEF TimeInv
  <2> QED
    BY <2>1, <2>2 DEF RecoverGlobalRow
<1> QED
  BY <1>2, <1>3 DEF TimeInv

\* The end the destructor took is not before any entry.
LEMMA UpdateTimes ==
    ASSUME TypeInv, StorageInv, TimeInv, UpdateGlobalRowEnd
    PROVE  TimeInv'
<1> USE DEF TypeInv
<1>1. /\ pc = "update" /\ HasTrip /\ ToDown /\ UNCHANGED <<now, idx, log>>
      /\ Current \in Trips /\ endTs # 0 /\ endTs \in Nat
  BY CurrentIsTrip, Numbers DEF UpdateGlobalRowEnd, HasTrip, TypeOK, disk
<1>2. \A i \in 1..Len(idx[Current]) : idx[Current][i].end <= endTs
  BY <1>1 DEF TimeInv, LiveTimes
<1>3. \A m \in Trips : TimesOf(m)'
  <2>1. CASE rows' = rows
    BY <1>1, <2>1 DEF TimeInv, TimesOf, Recs, HasRow
  <2>2. CASE rows' = WithEnd(Current, endTs, total)
    BY <1>1, <1>2, <2>2, RowEndTimes DEF TimeInv
  <2> QED
    BY <2>1, <2>2 DEF UpdateGlobalRowEnd
<1> QED
  BY <1>1, <1>3, LiveDown DEF TimeInv

\* Every step keeps the times.
LEMMA TimeNext ==
    ASSUME "diskfull" \notin Faults, "stepback" \notin Faults,
           TypeInv, TypeInv', StorageInv, TimeInv, [Next]_vars
    PROVE  TimeInv'
<1> USE DEF TypeInv
<1>1. now \in Nat /\ now' \in Nat
  BY ConstantsAssumption DEF TypeOK, Time
<1>2. ASSUME UNCHANGED <<idx, rows>>, now' >= now
      PROVE  \A k \in Trips : TimesOf(k)'
  BY <1>2, TimesKept DEF TimeInv
<1>3. CASE StartNode
  <2>1. UNCHANGED <<now, idx, rows, endTs>> /\ pc' = "recover" /\ pc = "down"
    BY <1>3 DEF StartNode
  <2>2. LiveTimes'
    BY <2>1 DEF LiveTimes, TimeInv, HasTrip
  <2> QED
    BY <1>1, <1>2, <2>1, <2>2 DEF TimeInv
<1>4. ASSUME NEW k \in Trips, RecoverGlobalRow(k)
      PROVE  TimeInv'
  BY <1>4, RecoverTimes
<1>5. CASE GetTripId
  <2>1. UNCHANGED <<now, idx, rows, endTs>> /\ pc = "recover" /\ pc' = "open" /\ startTs' = now
    BY <1>5 DEF GetTripId
  <2>2. LiveTimes'
    BY <1>1, <2>1 DEF LiveTimes, TimeInv, HasTrip
  <2> QED
    BY <1>1, <1>2, <2>1, <2>2 DEF TimeInv
<1>6. CASE OpenTripFiles \/ WriteTripHeader \/ FlushLog
  <2>1. UNCHANGED <<now, idx, rows, day, id, startTs, buf, endTs>>
    BY <1>6 DEF OpenTripFiles, WriteTripHeader, FlushLog, memory
  <2>2. \/ pc = "open" /\ pc' = "header"
        \/ pc = "header" /\ pc' = "insert"
        \/ pc = "flushLog" /\ pc' = "flushIdx"
    BY <1>6 DEF OpenTripFiles, WriteTripHeader, FlushLog
  <2> QED
    BY <1>1, <1>2, <2>1, <2>2, LiveKept DEF TimeInv
<1>7. CASE OpenTripFilesFails \/ InsertGlobalRowFails \/ Crash
  <2>1. UNCHANGED <<now, idx, rows>> /\ ToDown
    BY <1>7 DEF OpenTripFilesFails, InsertGlobalRowFails, Crash, disk
  <2> QED
    BY <1>1, <1>2, <2>1, LiveDown DEF TimeInv
<1>8. CASE InsertGlobalRow
  BY <1>8, InsertGlobalRowTimes
<1>9. ASSUME NEW size \in Sizes, AppendRecord(size)
      PROVE  TimeInv'
  <2>1. UNCHANGED <<now, idx, rows>>
    BY <1>9 DEF AppendRecord, disk
  <2> QED
    BY <1>1, <1>2, <1>9, <2>1, AppendRecordTimes DEF TimeInv
<1>10. CASE FlushIdx
  BY <1>10, FlushIdxTimes
<1>11. CASE EndTrip
  <2>1. UNCHANGED <<now, idx, rows>>
    BY <1>11 DEF EndTrip, disk
  <2> QED
    BY <1>1, <1>2, <1>11, <2>1, EndTripTimes DEF TimeInv
<1>12. CASE UpdateGlobalRowEnd
  BY <1>12, UpdateTimes
<1>13. CASE Tick
  <2>1. now' >= now /\ UNCHANGED <<idx, rows, pc, day, id, startTs, buf, endTs>>
    BY <1>1, <1>13 DEF Tick, disk, memory
  <2> QED
    BY <1>1, <1>2, <2>1, LiveKept DEF TimeInv
<1>14. CASE UNCHANGED vars
  <2>1. UNCHANGED <<now, idx, rows, pc, day, id, startTs, buf, endTs>>
    BY <1>14 DEF vars
  <2> QED
    BY <1>1, <1>2, <2>1, LiveKept DEF TimeInv
<1> QED
  BY <1>3, <1>4, <1>5, <1>6, <1>7, <1>8, <1>9, <1>10, <1>11, <1>12, <1>13, <1>14
     DEF Next, ThreadStep

\* The times hold in every reachable state.
LEMMA TimeCorrect ==
    ASSUME "diskfull" \notin Faults, "stepback" \notin Faults
    PROVE  Spec => [](TypeInv /\ StorageInv /\ TimeInv)
<1>1. Init => TimeInv
  <2> SUFFICES ASSUME Init
               PROVE  TimeInv
    OBVIOUS
  <2>1. \A k \in Trips : Len(idx[k]) = 0
    BY DEF Init
  <2> QED
    BY <2>1 DEF Init, TimeInv, TimesOf, LiveTimes, HasTrip
<1>2. TypeInv /\ StorageInv /\ TypeInv' /\ TimeInv /\ [Next]_vars => TimeInv'
  BY TimeNext
<1>3. Spec => [](TypeInv /\ StorageInv)
  BY StorageCorrect
<1> QED
  BY <1>1, <1>2, <1>3, PTL DEF Spec

\* The times of an entry are the least and the greatest of its chunk.
LEMMA EntrySpansChunk ==
    ASSUME TypeInv, StorageInv, NEW k \in Trips, TimesOf(k), NEW i \in 1..Len(idx[k]),
           NEW j \in 1..Len(Recs(k, i))
    PROVE  /\ Recs(k, i)[j].ts \in Nat
           /\ idx[k][i].start <= Recs(k, i)[j].ts /\ Recs(k, i)[j].ts <= idx[k][i].end
<1> USE DEF TypeInv
<1> DEFINE r == Recs(k, i)
           c == log[k][idx[k][i].offset + 1]
<1>1. /\ idx[k][i].offset + 1 \in 1..Len(log[k]) /\ r # <<>> /\ r = c.recs
      /\ idx[k][i].start = r[1].ts /\ idx[k][i].end = r[Len(r)].ts
  BY DEF StorageInv, DiskInv, Locates, Recs
<1>2. c \in Item
  BY <1>1, ElementOfSeq DEF TypeOK
<1>3. r \in Seq(Record)
  BY <1>1, <1>2 DEF Item
<1>4. Sorted(r)
  BY DEF TimesOf
<1>5. j \in 1..Len(r)
  OBVIOUS
<1> HIDE DEF r, c
<1>6. Len(r) \in Nat \ {0}
  BY <1>1, <1>3, EmptySeq
<1>7. r[j].ts \in Nat
  <2>1. r[j] \in Record
    BY <1>3, <1>5, ElementOfSeq
  <2> QED
    BY <2>1, ConstantsAssumption DEF Record, Time
<1>8. r[1].ts <= r[j].ts /\ r[j].ts <= r[Len(r)].ts
  BY <1>4, <1>5, <1>6 DEF Sorted
<1> QED
  BY <1>1, <1>7, <1>8 DEF r

\* While the clock is not set back and no stream write fails, the interval of
\* a row contains every stored record, whoever wrote its end.
THEOREM RowCoversRecordsHolds ==
    ASSUME "diskfull" \notin Faults, "stepback" \notin Faults
    PROVE  Spec => []RowCoversRecords
<1>1. TypeInv /\ StorageInv /\ TimeInv => RowCoversRecords
  <2> SUFFICES ASSUME TypeInv, StorageInv, TimeInv, NEW k \in Trips, NEW i \in 1..Len(idx[k])
               PROVE  /\ HasRow(k)
                      /\ \A j \in 1..Len(Recs(k, i)) :
                            /\ rows[k].start <= Recs(k, i)[j].ts
                            /\ rows[k].end # 0 => Recs(k, i)[j].ts <= rows[k].end
    BY DEF RowCoversRecords, Recs
  <2>1. TimesOf(k)
    BY DEF TimeInv
  <2>2. /\ rows[k].start \in Nat /\ rows[k].end \in Nat
        /\ idx[k][i].start \in Nat /\ idx[k][i].end \in Nat
    BY Numbers DEF TypeInv
  <2> QED
    BY <2>1, <2>2, EntrySpansChunk DEF TimesOf
<1> QED
  BY <1>1, TimeCorrect, PTL

\* A scan that leaves out only entries without a record of the range finds
\* every stored record of it.
LEMMA SameRecords ==
    ASSUME NEW k, NEW ns \in SUBSET (1..Len(idx[k])), NEW s, NEW e,
           \A i \in 1..Len(idx[k]) : \A j \in 1..Len(Recs(k, i)) :
               Recs(k, i)[j].ts \in s..e => i \in ns
    PROVE  RecordsIn(k, ns, s, e) = StoredIn(k, s, e)
  BY DEF RecordsIn, StoredIn, Located

\* While the clock is not set back and no stream write fails, the hot scan of
\* a range finds every stored record of it, and so does the cold scan of a
\* closed trip, although it stops at the first entry that begins too late.
THEOREM ScansFindAllHolds ==
    ASSUME "diskfull" \notin Faults, "stepback" \notin Faults
    PROVE  Spec => []ScansFindAll
<1>1. TypeInv /\ StorageInv /\ TimeInv => ScansFindAll
  <2> SUFFICES ASSUME TypeInv, StorageInv, TimeInv,
                      NEW k \in Trips, NEW s \in Time, NEW e \in s..MaxTime
               PROVE  /\ HotScan(k, s, e) = StoredIn(k, s, e)
                      /\ rows[k].end # 0 => ColdScan(k, s, e) = StoredIn(k, s, e)
    BY DEF ScansFindAll
  <2> DEFINE x == idx[k]
             hot == {i \in 1..Len(x) : Overlaps(x[i], s, e)}
             cold == {i \in 1..Len(x) : ColdReads(x, i, s, e)}
  <2>1. TimesOf(k)
    BY DEF TimeInv
  <2>2. /\ rows[k].start \in Nat /\ rows[k].end \in Nat /\ s \in Nat /\ e \in Nat
        /\ Len(x) \in Nat /\ \A i \in 1..Len(x) : x[i].start \in Nat /\ x[i].end \in Nat
    BY Numbers, ConstantsAssumption DEF TypeInv, Time
  <2>3. ASSUME NEW i \in 1..Len(x), NEW j \in 1..Len(Recs(k, i)), Recs(k, i)[j].ts \in s..e
        PROVE  /\ x[i].start <= e /\ x[i].end >= s
               /\ HotRow(rows[k], s, e)
               /\ rows[k].end # 0 => ColdRow(rows[k], s, e)
    <3>1. /\ Recs(k, i)[j].ts \in Nat
          /\ x[i].start <= Recs(k, i)[j].ts /\ Recs(k, i)[j].ts <= x[i].end
      BY <2>1, EntrySpansChunk
    <3>2. x[i].start <= e /\ x[i].end >= s
      BY <2>2, <2>3, <3>1
    <3>3. /\ rows[k].start # 0 /\ rows[k].start <= x[i].start
          /\ rows[k].end # 0 => x[i].end <= rows[k].end
      BY <2>1 DEF TimesOf, HasRow
    <3> QED
      BY <2>2, <3>2, <3>3 DEF HotRow, ColdRow
  <2>4. ASSUME NEW i \in 1..Len(x), x[i].start <= e, x[i].end >= s
        PROVE  ColdReads(x, i, s, e)
    <3>1. Started(x, i, s)
      BY <2>2, <2>4 DEF Started
    <3>2. ASSUME NEW n \in 1..i
          PROVE  x[n].start <= e
      <4>1. n \in 1..Len(x) /\ n \in Nat /\ (n = i \/ n < i)
        BY <2>2
      <4>2. n < i => x[n].end <= x[i].start
        BY <2>1, <4>1 DEF TimesOf
      <4>3. x[n].start <= x[n].end
        BY <2>1, <4>1 DEF TimesOf
      <4> QED
        BY <2>2, <2>4, <4>1, <4>2, <4>3
    <3> QED
      BY <3>1, <3>2 DEF ColdReads
  <2>5. /\ RecordsIn(k, hot, s, e) = StoredIn(k, s, e)
        /\ RecordsIn(k, cold, s, e) = StoredIn(k, s, e)
    BY <2>3, <2>4, SameRecords DEF Overlaps
  <2>6. CASE StoredIn(k, s, e) = {}
    BY <2>5, <2>6 DEF HotScan, ColdScan
  <2>7. CASE StoredIn(k, s, e) # {}
    <3>1. HotRow(rows[k], s, e) /\ (rows[k].end # 0 => ColdRow(rows[k], s, e))
      BY <2>3, <2>7 DEF StoredIn, RecordsIn
    <3> QED
      BY <2>5, <3>1 DEF HotScan, ColdScan
  <2> QED
    BY <2>6, <2>7
<1> QED
  BY <1>1, TimeCorrect, PTL

=============================================================================
