------------------------- MODULE AppendLoggerProofs -------------------------
(* Theorems about AppendLogger, for every value of its constants.          *)
EXTENDS AppendLogger, FunctionTheorems, FiniteSetTheorems, SequenceTheorems, TLAPS

-----------------------------------------------------------------------------
(* What the operators on indexes and day folders compute.                  *)

\* The number of integers from a to b.
LEMMA IntervalSize ==
    ASSUME NEW a \in Int, NEW b \in Int, a <= b + 1
    PROVE  IsFiniteSet(a..b) /\ Cardinality(a..b) = b - a + 1
<1>1. IsFiniteSet(a..b) /\ Cardinality(a..b) = IF a > b THEN 0 ELSE b - a + 1
  BY FS_Interval, Zenon
<1>2. (IF a > b THEN 0 ELSE b - a + 1) = b - a + 1
  OBVIOUS
<1> QED
  BY <1>1, <1>2, Zenon

\* There are n integers from 1 to n: the slots of one index entry.
LEMMA FromOne ==
    ASSUME NEW n \in Nat
    PROVE  IsFiniteSet(1..n) /\ Cardinality(1..n) = n
<1>1. 1 \in Int /\ n \in Int /\ 1 <= n + 1 /\ n - 1 + 1 = n
  OBVIOUS
<1>2. IsFiniteSet(1..n) /\ Cardinality(1..n) = n - 1 + 1
  BY <1>1, IntervalSize, Zenon
<1> QED
  BY <1>1, <1>2, Zenon

\* There are n integers from 0 to n - 1: the trip ids of a day folder.
LEMMA FromZero ==
    ASSUME NEW n \in Nat
    PROVE  IsFiniteSet(0..(n - 1)) /\ Cardinality(0..(n - 1)) = n
<1>1. 0 \in Int /\ n - 1 \in Int /\ 0 <= n - 1 + 1 /\ (n - 1) - 0 + 1 = n
  OBVIOUS
<1>2. IsFiniteSet(0..(n - 1)) /\ Cardinality(0..(n - 1)) = (n - 1) - 0 + 1
  BY <1>1, IntervalSize, Zenon
<1> QED
  BY <1>1, <1>2, Zenon

\* The slots of an index are finite in number.
LEMMA SlotsFinite ==
    ASSUME NEW x \in Seq(Entry)
    PROVE  IsFiniteSet(Slots(x))
<1> DEFINE R(i) == {i} \X (1..x[i].count)
           D == 1..Len(x)
           S == {R(i) : i \in D}
           f == [i \in D |-> R(i)]
<1>1. IsFiniteSet(D)
  BY FS_Interval
<1>2. f \in Surjection(D, S)
  BY DEF Surjection
<1>3. IsFiniteSet(S)
  BY <1>1, <1>2, FS_Surjection
<1>4. ASSUME NEW T \in S
      PROVE  IsFiniteSet(T)
  <2>1. PICK i \in D : T = R(i)
    OBVIOUS
  <2>2. x[i] \in Entry
    BY ElementOfSeq
  <2>3. x[i].count \in Nat
    BY <2>2 DEF Entry
  <2>4. IsFiniteSet({i})
    BY FS_Singleton
  <2>5. IsFiniteSet(1..x[i].count)
    BY <2>3, FromOne, Zenon
  <2> QED
    BY <2>1, <2>4, <2>5, FS_Product
<1> QED
  BY <1>3, <1>4, FS_UNION DEF Slots

\* An empty index counts nothing; an appended entry adds its count.
LEMMA IndexedRecordsEmpty == IndexedRecords(<<>>) = 0
<1>1. Slots(<<>>) = {}
  BY DEF Slots
<1> QED
  BY <1>1, FS_EmptySet DEF IndexedRecords

\* The number of records an index counts is a natural number.
LEMMA IndexedRecordsType ==
    ASSUME NEW x \in Seq(Entry)
    PROVE  IndexedRecords(x) \in Nat
  BY SlotsFinite, FS_CardinalityType DEF IndexedRecords

\* flushChunkLocked appends one entry: the index counts that many more.
LEMMA IndexedRecordsAppend ==
    ASSUME NEW x \in Seq(Entry), NEW e \in Entry
    PROVE  IndexedRecords(Append(x, e)) = IndexedRecords(x) + e.count
<1> DEFINE y == Append(x, e)
           n == Len(x) + 1
           T == {n} \X (1..e.count)
<1>1. y \in Seq(Entry) /\ Len(y) = n /\ y[n] = e /\ \A i \in 1..Len(x) : y[i] = x[i]
  BY AppendProperties
<1>2. Len(x) \in Nat /\ 1..n = (1..Len(x)) \cup {n}
  OBVIOUS
<1>3. Slots(y) = Slots(x) \cup T
  <2>1. ASSUME NEW s PROVE s \in Slots(y) <=> \E i \in 1..n : s \in {i} \X (1..y[i].count)
    BY <1>1 DEF Slots
  <2>2. ASSUME NEW s PROVE s \in Slots(x) <=> \E i \in 1..Len(x) : s \in {i} \X (1..x[i].count)
    BY DEF Slots
  <2>3. ASSUME NEW s PROVE s \in Slots(y) <=> s \in Slots(x) \cup T
    BY <2>1, <2>2, <1>1, <1>2
  <2> QED
    BY <2>3
<1>4. Slots(x) \cap T = {}
  <2>1. SUFFICES ASSUME NEW s \in Slots(x), s \in T PROVE FALSE
    OBVIOUS
  <2>2. PICK i \in 1..Len(x) : s \in {i} \X (1..x[i].count)
    BY DEF Slots
  <2>3. s[1] = i /\ s[1] = n
    BY <2>1, <2>2
  <2> QED
    BY <2>3, <1>2
<1>5. IsFiniteSet(T) /\ Cardinality(T) = e.count
  <2>1. e.count \in Nat
    BY DEF Entry
  <2>2. /\ IsFiniteSet({n}) /\ Cardinality({n}) = 1
        /\ IsFiniteSet(1..e.count) /\ Cardinality(1..e.count) = e.count
    BY <2>1, FromOne, FS_Singleton, Zenon
  <2>3. IsFiniteSet(T) /\ Cardinality(T) = 1 * e.count
    BY <2>2, FS_Product
  <2> QED
    BY <2>1, <2>3
<1>6. /\ IsFiniteSet(Slots(x)) /\ Cardinality(Slots(x)) \in Nat
      /\ Cardinality(Slots(x) \cup T) = Cardinality(Slots(x)) + Cardinality(T) - Cardinality({})
  <2>1. IsFiniteSet(Slots(x)) /\ Cardinality(Slots(x)) \in Nat
    BY SlotsFinite, FS_CardinalityType
  <2>2. Cardinality(Slots(x) \cup T)
          = Cardinality(Slots(x)) + Cardinality(T) - Cardinality(Slots(x) \cap T)
    BY <2>1, <1>5, FS_Union
  <2> QED
    BY <2>1, <2>2, <1>4
<1>7. e.count \in Nat
  BY DEF Entry
<1> QED
  BY <1>3, <1>5, <1>6, <1>7, FS_EmptySet DEF IndexedRecords

\* When the trips of a day folder are the first c ones, the next id is c.
LEMMA CountOfPrefix ==
    ASSUME NEW d, NEW c \in Nat, {i \in TripIds : <<d, i>> \in files} = 0..(c - 1)
    PROVE  CountTripLogs(d) = c
  BY FromZero, Zenon DEF CountTripLogs

-----------------------------------------------------------------------------
(* Types.                                                                  *)

\* The process that recovers has room for one more trip: nobody else creates
\* files in the day folder of its topic.
TypeInv ==
    /\ TypeOK
    /\ (pc = "recover") => CountTripLogs(day) \in TripIds

\* The number of trip logs of a day folder is a natural number.
LEMMA CountTripLogsType ==
    ASSUME NEW d
    PROVE  CountTripLogs(d) \in Nat
<1> DEFINE S == {i \in TripIds : <<d, i>> \in files}
<1>1. IsFiniteSet(TripIds) /\ S \in SUBSET TripIds
  <2>1. MaxTrips \in Nat
    BY ConstantsAssumption
  <2> QED
    BY <2>1, FromZero, Zenon DEF TripIds
<1>2. IsFiniteSet(S)
  BY <1>1, FS_Subset
<1> QED
  BY <1>2, FS_CardinalityType DEF CountTripLogs

\* The state before any process has its types.
LEMMA TypeInit == Init => TypeInv
<1> SUFFICES ASSUME Init PROVE TypeInv
  OBVIOUS
<1>1. 1 \in Time /\ 0 \in 0..MaxTime /\ MaxTime \in Nat
  BY ConstantsAssumption DEF Time
<1>2. NoRow \in Row /\ NoEntry \in Entry
  BY <1>1 DEF NoRow, Row, NoEntry, Entry
<1>3. /\ log \in [Trips -> Seq(Item)] /\ idx \in [Trips -> Seq(Entry)]
      /\ rows \in [Trips -> Row] /\ accepted \in [Trips -> Nat]
  BY <1>2 DEF Init
<1>4. /\ now \in Time /\ files \subseteq Trips /\ pc = "down" /\ todo \subseteq Trips
      /\ buf \in Seq(Record) /\ tie \in Entry
  BY <1>1, <1>2, EmptySeq DEF Init
<1> QED
  BY <1>1, <1>3, <1>4 DEF Init, TypeInv, TypeOK, PCs

\* The end of the process, by a destructor, an exception or a crash, keeps
\* the types.
LEMMA TypeDown ==
    ASSUME TypeInv, ToDown, now' \in Time, files' \subseteq Trips,
           log' \in [Trips -> Seq(Item)], idx' = idx, rows' \in [Trips -> Row],
           accepted' = accepted
    PROVE  TypeInv'
<1>1. 1 \in Time /\ 0 \in 0..MaxTime
  BY ConstantsAssumption DEF Time
<1>2. NoEntry \in Entry
  BY <1>1 DEF NoEntry, Entry
<1>3. idx' \in [Trips -> Seq(Entry)] /\ accepted' \in [Trips -> Nat]
  BY DEF TypeInv, TypeOK
<1>4. /\ pc' = "down" /\ todo' \subseteq Trips /\ buf' \in Seq(Record) /\ tie' \in Entry
  BY <1>2, EmptySeq DEF ToDown
<1> QED
  BY <1>1, <1>3, <1>4 DEF TypeInv, TypeOK, ToDown, PCs

\* Writing an item, or a part of it, to the log of the current trip.
LEMMA WriteLogType ==
    ASSUME TypeOK, Current \in Trips, NEW item \in Item, WriteLog(item)
    PROVE  log' \in [Trips -> Seq(Item)] /\ logBad' \in BOOLEAN
<1>1. Torn \in Item
  BY DEF Torn, Item
<1>2. /\ Append(log[Current], item) \in Seq(Item)
      /\ Append(log[Current], Torn) \in Seq(Item)
  BY <1>1 DEF TypeOK
<1> QED
  BY <1>2 DEF TypeOK, WriteLog

\* The UPDATE keeps the table a table.
LEMMA WithEndType ==
    ASSUME rows \in [Trips -> Row], NEW k \in Trips, NEW e \in 0..MaxTime, NEW n \in Nat
    PROVE  WithEnd(k, e, n) \in [Trips -> Row]
  BY DEF WithEnd, Row, HasRow

\* A thread past the recovery works on a trip of its day.
LEMMA CurrentIsTrip ==
    ASSUME TypeOK, pc \notin {"down", "recover"}
    PROVE  Current \in Trips
  BY DEF TypeOK, Current, Trips

\* Every step keeps the types.
LEMMA TypeNext ==
    ASSUME TypeInv, [Next]_vars
    PROVE  TypeInv'
<1> USE DEF TypeInv
<1>0. MaxTime \in Nat /\ 1 \in Time /\ Time \subseteq 0..MaxTime /\ Time \subseteq Nat \ {0}
  BY ConstantsAssumption DEF Time
<1>00. NoEntry \in Entry
  BY <1>0 DEF NoEntry, Entry
<1>1. CASE StartNode
  <2>1. CountTripLogs(DayOf[now]) \in TripIds
    BY <1>1, CountTripLogsType, ConstantsAssumption DEF StartNode, TripIds
  <2>2. CountTripLogs(day') = CountTripLogs(DayOf[now]) /\ CountTripLogs(day)' = CountTripLogs(day')
    BY <1>1 DEF StartNode, CountTripLogs
  <2>3. DayOf[now] \in Days
    BY ConstantsAssumption DEF TypeOK
  <2> QED
    BY <1>1, <2>1, <2>2, <2>3 DEF StartNode, TypeOK, PCs
<1>2. CASE \E k \in Trips : RecoverGlobalRow(k)
  <2>1. PICK k \in Trips : RecoverGlobalRow(k)
    BY <1>2
  <2>2. CountTripLogs(day)' = CountTripLogs(day)
    BY <2>1 DEF RecoverGlobalRow, CountTripLogs
  <2>3. rows' \in [Trips -> Row]
    <3>1. CASE rows' = rows
      BY <3>1 DEF TypeOK
    <3>2. CASE idx[k] # <<>> /\ rows' = WithEnd(k, SummaryEnd(idx[k]), IndexedRecords(idx[k]))
      <4>1. idx[k] \in Seq(Entry)
        BY DEF TypeOK
      <4>2. idx[k][Len(idx[k])] \in Entry
        BY <4>1, <3>2, EmptySeq, ElementOfSeq
      <4>3. SummaryEnd(idx[k]) \in 0..MaxTime
        BY <4>2, <1>0 DEF SummaryEnd, Entry
      <4>4. IndexedRecords(idx[k]) \in Nat
        BY <4>1, IndexedRecordsType
      <4> QED
        BY <3>2, <4>3, <4>4, WithEndType DEF TypeOK
    <3> QED
      BY <2>1, <3>1, <3>2 DEF RecoverGlobalRow
  <2> QED
    BY <2>1, <2>2, <2>3 DEF RecoverGlobalRow, TypeOK, PCs
<1>3. CASE GetTripId
  BY <1>0, <1>3 DEF GetTripId, TypeOK, PCs
<1>4. CASE OpenTripFiles
  BY <1>4, CurrentIsTrip DEF OpenTripFiles, memory, TypeOK, PCs
<1>5. CASE OpenTripFilesFails
  <2>1. Current \in Trips
    BY <1>5, CurrentIsTrip DEF OpenTripFilesFails
  <2> QED
    BY <1>5, <2>1, TypeDown DEF OpenTripFilesFails, TypeOK
<1>6. CASE WriteTripHeader
  <2>1. Current \in Trips
    BY <1>6, CurrentIsTrip DEF WriteTripHeader
  <2>2. TripHeader \in Item
    BY DEF TripHeader, Item
  <2>3. log' \in [Trips -> Seq(Item)] /\ logBad' \in BOOLEAN
    BY <1>6, <2>1, <2>2, WriteLogType DEF WriteTripHeader
  <2> QED
    BY <1>6, <2>3 DEF WriteTripHeader, TypeOK, PCs
<1>7. CASE InsertGlobalRow
  <2>1. [start |-> startTs, end |-> 0, records |-> 0] \in Row
    BY <1>0 DEF TypeOK, Row
  <2>2. rows' \in [Trips -> Row]
    BY <1>7, <2>1 DEF InsertGlobalRow, TypeOK
  <2> QED
    BY <1>7, <2>2 DEF InsertGlobalRow, disk, memory, TypeOK, PCs
<1>8. CASE InsertGlobalRowFails
  BY <1>8, TypeDown DEF InsertGlobalRowFails, disk, TypeOK
<1>9. CASE \E size \in Sizes : AppendRecord(size)
  <2>1. PICK size \in Sizes : AppendRecord(size)
    BY <1>9
  <2>2. Current \in Trips /\ size \in Nat
    BY <2>1, CurrentIsTrip, ConstantsAssumption DEF AppendRecord
  <2>3. accepted[Current] + 1 \in Nat \ {0}
    BY <2>2 DEF TypeOK
  <2>4. [n |-> accepted[Current] + 1, ts |-> now] \in Record
    BY <2>3 DEF Record, TypeOK
  <2>5. buf' \in Seq(Record) /\ buf' # <<>>
    <3> DEFINE r == [n |-> accepted[Current] + 1, ts |-> now]
    <3>1. buf \in Seq(Record) /\ r \in Record /\ buf' = Append(buf, r)
      BY <2>1, <2>4 DEF AppendRecord, TypeOK
    <3> HIDE DEF r
    <3> QED
      BY <3>1, AppendProperties
  <2>6. accepted' \in [Trips -> Nat] /\ bufBytes' \in Nat
    BY <2>1, <2>2, <2>3 DEF AppendRecord, TypeOK
  <2> QED
    BY <2>1, <2>5, <2>6 DEF AppendRecord, disk, TypeOK, PCs
<1>10. CASE FlushLog
  <2>1. Current \in Trips /\ buf \in Seq(Record) /\ buf # <<>>
    BY <1>10, CurrentIsTrip DEF FlushLog, TypeOK
  <2>2. Len(buf) \in Nat /\ buf[1] \in Record /\ buf[Len(buf)] \in Record
    BY <2>1, EmptySeq, ElementOfSeq
  <2>3. Chunk(buf) \in Item
    BY <2>1 DEF Chunk, Item
  <2>4. log' \in [Trips -> Seq(Item)] /\ logBad' \in BOOLEAN
    BY <1>10, <2>1, <2>3, WriteLogType DEF FlushLog
  <2>5. Tell \in Int
    BY <2>1 DEF Tell, TypeOK
  <2>6. tie' \in Entry
    BY <1>10, <2>2, <2>5 DEF FlushLog, Entry, Record
  <2> QED
    BY <1>10, <2>4, <2>6 DEF FlushLog, TypeOK, PCs
<1>11. CASE FlushIdx
  <2>1. Current \in Trips
    BY <1>11, CurrentIsTrip DEF FlushIdx
  <2>2. idx' \in [Trips -> Seq(Entry)] /\ idxBad' \in BOOLEAN
    <3>1. Append(idx[Current], tie) \in Seq(Entry)
      BY <2>1 DEF TypeOK
    <3> QED
      BY <1>11, <2>1, <3>1 DEF FlushIdx, TypeOK
  <2>3. total' \in Nat
    BY <1>11 DEF FlushIdx, CountRecords, TypeOK, Entry
  <2> QED
    BY <1>11, <1>00, <2>2, <2>3 DEF FlushIdx, ClearBuffer, TypeOK, PCs
<1>12. CASE EndTrip
  BY <1>12, <1>0 DEF EndTrip, disk, TypeOK, PCs
<1>13. CASE UpdateGlobalRowEnd
  <2>1. Current \in Trips
    BY <1>13, CurrentIsTrip DEF UpdateGlobalRowEnd
  <2>2. rows' \in [Trips -> Row]
    BY <1>13, <2>1, WithEndType DEF UpdateGlobalRowEnd, TypeOK
  <2> QED
    BY <1>13, <2>2, TypeDown DEF UpdateGlobalRowEnd, disk, TypeOK
<1>14. CASE Crash
  <2>1. log' \in [Trips -> Seq(Item)]
    <3>1. CASE log' = log
      BY <3>1 DEF TypeOK
    <3>2. CASE pc = "flushLog" /\ log' = [log EXCEPT ![Current] = Append(@, Torn)]
      <4>1. Current \in Trips /\ Torn \in Item
        BY <3>2, CurrentIsTrip DEF Torn, Item
      <4> QED
        BY <3>2, <4>1 DEF TypeOK
    <3> QED
      BY <1>14, <3>1, <3>2 DEF Crash
  <2> QED
    BY <1>14, <2>1, TypeDown DEF Crash, TypeOK
<1>15. CASE Tick
  <2>1. now' \in Time
    BY <1>15, ConstantsAssumption DEF Tick, TypeOK, Time
  <2>2. CountTripLogs(day)' = CountTripLogs(day)
    BY <1>15 DEF Tick, disk, memory, CountTripLogs
  <2> QED
    BY <1>15, <2>1, <2>2 DEF Tick, disk, memory, TypeOK
<1>16. CASE UNCHANGED vars
  <2>1. CountTripLogs(day)' = CountTripLogs(day)
    BY <1>16 DEF vars, CountTripLogs
  <2> QED
    BY <1>16, <2>1 DEF vars, TypeOK
<1> QED
  BY <1>1, <1>2, <1>3, <1>4, <1>5, <1>6, <1>7, <1>8, <1>9, <1>10, <1>11, <1>12,
     <1>13, <1>14, <1>15, <1>16 DEF Next, ThreadStep

\* Every variable keeps its type, and the trip a thread works on is a trip of
\* the day its process started on.
THEOREM TypeCorrect == Spec => []TypeOK
<1>1. Init => TypeInv
  BY TypeInit
<1>2. TypeInv /\ [Next]_vars => TypeInv'
  BY TypeNext
<1>3. TypeInv => TypeOK
  BY DEF TypeInv
<1> QED
  BY <1>1, <1>2, <1>3, PTL DEF Spec

-----------------------------------------------------------------------------
(* New trips, whatever fails.                                              *)

\* The ids in use in a day folder are the first ones, so that counting the
\* logs gives one that is not.
FilesInv ==
    \A d \in Days : \E c \in 0..MaxTrips : {i \in TripIds : <<d, i>> \in files} = 0..(c - 1)

\* What no failure disturbs: a trip gets its files before anything else, in
\* the order of the ids, and its row before the first entry of its index.
NewTripInv ==
    /\ \A k \in Trips : (k \notin files) => log[k] = <<>> /\ idx[k] = <<>> /\ rows[k] = NoRow
    /\ FilesInv
    /\ (pc = "open") => {i \in TripIds : <<day, i>> \in files} = 0..(id - 1)
    /\ (pc \in {"header", "insert"}) => Current \in files /\ idx[Current] = <<>> /\ rows[Current] = NoRow
    /\ HasTrip => Current \in files /\ HasRow(Current)
    /\ \A k \in Trips : idx[k] # <<>> => HasRow(k)

\* The trip about to be opened has no file yet.
LEMMA OpenIsNew ==
    ASSUME TypeOK, NewTripInv, pc = "open"
    PROVE  Current \in Trips \ files
<1>1. Current \in Trips /\ id \in TripIds
  BY CurrentIsTrip DEF TypeOK
<1>2. {i \in TripIds : <<day, i>> \in files} = 0..(id - 1) /\ id \in Int
  BY <1>1 DEF NewTripInv, TripIds
<1> QED
  BY <1>1, <1>2 DEF Current

\* Its file gets the next id.
LEMMA FilesOpened ==
    ASSUME TypeOK, NewTripInv, pc = "open", files' = files \cup {Current}
    PROVE  FilesInv'
<1>1. day \in Days /\ id \in TripIds
  BY DEF TypeOK
<1>2. {i \in TripIds : <<day, i>> \in files} = 0..(id - 1) /\ id \in 0..(MaxTrips - 1)
  BY <1>1 DEF NewTripInv, TripIds
<1> SUFFICES ASSUME NEW d \in Days
             PROVE  \E c \in 0..MaxTrips : {i \in TripIds : <<d, i>> \in files'} = 0..(c - 1)
  BY DEF FilesInv
<1>3. CASE d = day
  <2>1. {i \in TripIds : <<d, i>> \in files'} = {i \in TripIds : <<day, i>> \in files} \cup {id}
    BY <1>1, <1>3 DEF Current
  <2>2. (0..(id - 1)) \cup {id} = 0..((id + 1) - 1) /\ id + 1 \in 0..MaxTrips
    BY <1>2, ConstantsAssumption
  <2> QED
    BY <1>2, <2>1, <2>2
<1>4. CASE d # day
  <2>1. {i \in TripIds : <<d, i>> \in files'} = {i \in TripIds : <<d, i>> \in files}
    BY <1>4 DEF Current
  <2> QED
    BY <2>1 DEF NewTripInv, FilesInv
<1> QED
  BY <1>3, <1>4

\* The process ends without having written to a trip.
LEMMA NewTripDown ==
    ASSUME NewTripInv, ToDown, FilesInv', files \subseteq files', UNCHANGED <<log, idx, rows>>
    PROVE  NewTripInv'
  BY DEF NewTripInv, ToDown, HasTrip, HasRow

\* An end is given to a row only.
LEMMA WithEndKeeps ==
    ASSUME TypeOK, NEW k, NEW end, NEW n, NEW m \in Trips, rows' = WithEnd(k, end, n)
    PROVE  rows'[m].start = rows[m].start /\ (~HasRow(m) => rows'[m] = rows[m])
<1>1. CASE HasRow(k) /\ m = k
  BY <1>1 DEF WithEnd, TypeOK
<1>2. CASE HasRow(k) /\ m # k
  BY <1>2 DEF WithEnd, TypeOK
<1>3. CASE ~HasRow(k)
  BY <1>3 DEF WithEnd
<1> QED
  BY <1>1, <1>2, <1>3

\* Every step keeps that, under every fault.
LEMMA NewTripNext ==
    ASSUME TypeInv, NewTripInv, [Next]_vars
    PROVE  NewTripInv'
<1> USE DEF TypeInv
<1>1. files' = files => FilesInv'
  BY DEF NewTripInv, FilesInv
<1>2. CASE StartNode \/ EndTrip \/ Tick \/ (\E size \in Sizes : AppendRecord(size))
           \/ UNCHANGED vars
  <2>1. UNCHANGED <<files, log, idx, rows>>
    BY <1>2 DEF StartNode, EndTrip, Tick, AppendRecord, vars, disk
  <2>2. \/ pc' = "recover"
        \/ UNCHANGED <<pc, day, id>>
        \/ HasTrip /\ HasTrip' /\ UNCHANGED <<day, id>>
    BY <1>2 DEF StartNode, EndTrip, Tick, AppendRecord, vars, memory, HasTrip
  <2> QED
    BY <1>1, <2>1, <2>2 DEF NewTripInv, HasTrip, HasRow, Current
<1>3. CASE \E k \in Trips : RecoverGlobalRow(k)
  <2>1. PICK k \in Trips : RecoverGlobalRow(k)
    BY <1>3
  <2>2. UNCHANGED <<files, log, idx, pc>> /\ pc = "recover"
    BY <2>1 DEF RecoverGlobalRow
  <2>3. rows' = rows \/ rows' = WithEnd(k, SummaryEnd(idx[k]), IndexedRecords(idx[k]))
    BY <2>1 DEF RecoverGlobalRow
  <2>4. ASSUME NEW m \in Trips
        PROVE  rows'[m].start = rows[m].start /\ (~HasRow(m) => rows'[m] = rows[m])
    BY <2>3, WithEndKeeps
  <2> QED
    BY <1>1, <2>2, <2>4 DEF NewTripInv, HasTrip, HasRow, NoRow
<1>4. CASE GetTripId
  <2>1. day \in Days /\ pc' = "open" /\ id' = CountTripLogs(day) /\ UNCHANGED <<files, log, idx, rows, day>>
    BY <1>4 DEF GetTripId, TypeOK
  <2>2. PICK c \in 0..MaxTrips : {i \in TripIds : <<day, i>> \in files} = 0..(c - 1)
    BY <2>1 DEF NewTripInv, FilesInv
  <2>3. c \in Nat /\ CountTripLogs(day) = c
    BY <2>2, ConstantsAssumption, CountOfPrefix
  <2> QED
    BY <1>1, <2>1, <2>2, <2>3 DEF NewTripInv, HasTrip, HasRow
<1>5. CASE OpenTripFiles
  <2>1. pc = "open" /\ pc' = "header" /\ files' = files \cup {Current} /\ UNCHANGED <<log, idx, rows, day, id>>
    BY <1>5 DEF OpenTripFiles, memory
  <2>2. Current \in Trips \ files /\ FilesInv'
    BY <2>1, OpenIsNew, FilesOpened
  <2> QED
    BY <2>1, <2>2 DEF NewTripInv, HasTrip, HasRow, Current
<1>6. CASE OpenTripFilesFails
  <2>1. pc = "open" /\ files' \in {files, files \cup {Current}} /\ ToDown /\ UNCHANGED <<log, idx, rows>>
    BY <1>6 DEF OpenTripFilesFails
  <2> QED
    BY <1>1, <2>1, FilesOpened, NewTripDown
<1>7. CASE InsertGlobalRowFails
  BY <1>1, <1>7, NewTripDown DEF InsertGlobalRowFails, disk
<1>8. CASE Crash \/ UpdateGlobalRowEnd
  <2>1. UNCHANGED <<files, idx>> /\ ToDown
    BY <1>8 DEF Crash, UpdateGlobalRowEnd, disk
  <2>2. ASSUME NEW m \in Trips, m \notin files
        PROVE  log'[m] = log[m]
    BY <1>8, <2>2 DEF Crash, UpdateGlobalRowEnd, disk, NewTripInv, HasTrip, TypeOK
  <2>3. ASSUME NEW m \in Trips
        PROVE  rows'[m].start = rows[m].start /\ (~HasRow(m) => rows'[m] = rows[m])
    <3>1. rows' = rows \/ rows' = WithEnd(Current, endTs, total)
      BY <1>8 DEF Crash, UpdateGlobalRowEnd
    <3> QED
      BY <3>1, WithEndKeeps
  <2> QED
    BY <1>1, <2>1, <2>2, <2>3 DEF NewTripInv, ToDown, HasTrip, HasRow, NoRow
<1>9. CASE WriteTripHeader \/ FlushLog
  <2>1. Current \in files /\ UNCHANGED <<files, idx, rows, day, id>>
    BY <1>9 DEF WriteTripHeader, FlushLog, NewTripInv, HasTrip
  <2>2. \/ pc = "header" /\ pc' = "insert"
        \/ pc = "flushLog" /\ pc' = "flushIdx"
    BY <1>9 DEF WriteTripHeader, FlushLog
  <2>3. ASSUME NEW m \in Trips, m \notin files
        PROVE  log'[m] = log[m]
    BY <1>9, <2>1, <2>3 DEF WriteTripHeader, FlushLog, WriteLog, TypeOK
  <2> QED
    BY <1>1, <2>1, <2>2, <2>3 DEF NewTripInv, HasTrip, HasRow, Current
<1>10. CASE InsertGlobalRow
  <2>1. /\ pc = "insert" /\ pc' = "run" /\ Current \in Trips /\ startTs # 0
        /\ rows' = [rows EXCEPT ![Current] = [start |-> startTs, end |-> 0, records |-> 0]]
        /\ UNCHANGED <<files, log, idx, day, id>>
    BY <1>10, CurrentIsTrip DEF InsertGlobalRow, disk, memory, TypeOK
  <2>2. /\ rows'[Current].start # 0 /\ \A k \in Trips \ {Current} : rows'[k] = rows[k]
        /\ Current \in files
    BY <2>1 DEF TypeOK, NewTripInv
  <2> QED
    BY <1>1, <2>1, <2>2 DEF NewTripInv, HasTrip, HasRow, Current
<1>11. CASE FlushIdx
  <2>1. /\ HasTrip /\ HasTrip' /\ UNCHANGED <<files, log, rows, day, id>>
        /\ Current \in files /\ HasRow(Current)
    BY <1>11 DEF FlushIdx, HasTrip, NewTripInv
  <2>2. ASSUME NEW m \in Trips, m # Current
        PROVE  idx'[m] = idx[m]
    BY <1>11, <2>2 DEF FlushIdx, TypeOK
  <2> QED
    BY <1>1, <2>1, <2>2 DEF NewTripInv, HasTrip, HasRow, Current
<1> QED
  BY <1>2, <1>3, <1>4, <1>5, <1>6, <1>7, <1>8, <1>9, <1>10, <1>11 DEF Next, ThreadStep

\* It holds in every reachable state.
LEMMA NewTripCorrect == Spec => [](TypeInv /\ NewTripInv)
<1>1. Init => NewTripInv
  <2>1. Init => FilesInv
    <3> SUFFICES ASSUME Init PROVE FilesInv
      OBVIOUS
    <3>1. MaxTrips \in Nat /\ 0 \in 0..MaxTrips
      BY ConstantsAssumption
    <3>2. \A d \in Days : {i \in TripIds : <<d, i>> \in files} = 0..(0 - 1)
      BY DEF Init
    <3> QED
      BY <3>1, <3>2 DEF FilesInv
  <2> QED
    BY <2>1 DEF Init, NewTripInv, HasTrip
<1>2. TypeInv /\ NewTripInv /\ [Next]_vars => (TypeInv /\ NewTripInv)'
  BY TypeNext, NewTripNext
<1> QED
  BY <1>1, <1>2, TypeInit, PTL DEF Spec

\* No trip id is given twice, whatever stopped the earlier processes and
\* whatever failed.
THEOREM TripNeverReusedHolds == Spec => []TripNeverReused
<1>1. TypeInv /\ NewTripInv => TripNeverReused
  BY OpenIsNew DEF TypeInv, TripNeverReused, NewTripInv, HasRow, NoRow
<1> QED
  BY <1>1, NewTripCorrect, PTL

-----------------------------------------------------------------------------
(* Recovery, while the catalog is never busy.                              *)

\* Every trip that stored anything has an end, or is to be visited.
RecoveredInv ==
    /\ (pc = "recover") => \A k \in Trips : idx[k] # <<>> => rows[k].end # 0 \/ k \in todo
    /\ RunningMeansRecovered

\* Every step keeps that.
LEMMA RecoveredNext ==
    ASSUME "busy" \notin Faults, TypeInv, NewTripInv, RecoveredInv, [Next]_vars
    PROVE  RecoveredInv'
<1> USE DEF TypeInv
<1>1. CASE StartNode
  <2>1. pc' = "recover" /\ UNCHANGED <<idx, rows>> /\ todo' = {k \in Trips : NeedsRecovery(rows[k])}
    BY <1>1 DEF StartNode
  <2>2. \A k \in Trips : idx[k] # <<>> => HasRow(k)
    BY DEF NewTripInv
  <2> QED
    BY <2>1, <2>2 DEF RecoveredInv, RunningMeansRecovered, NeedsRecovery, HasRow
<1>2. CASE \E k \in Trips : RecoverGlobalRow(k)
  <2>1. PICK k \in Trips : RecoverGlobalRow(k)
    BY <1>2
  <2>2. UNCHANGED <<idx, pc>> /\ pc = "recover" /\ todo' = todo \ {k}
    BY <2>1 DEF RecoverGlobalRow
  <2>3. CASE idx[k] = <<>>
    <3>1. rows' = rows
      BY <2>1, <2>3 DEF RecoverGlobalRow
    <3> QED
      BY <2>2, <2>3, <3>1 DEF RecoveredInv, RunningMeansRecovered
  <2>4. CASE idx[k] # <<>>
    <3>1. idx[k] \in Seq(Entry) /\ Len(idx[k]) \in 1..Len(idx[k])
      BY <2>4, EmptySeq DEF TypeOK
    <3>2. SummaryEnd(idx[k]) \in Time
      <4>1. idx[k][Len(idx[k])] \in Entry
        BY <3>1, ElementOfSeq
      <4> QED
        BY <4>1 DEF SummaryEnd, Entry
    <3>3. rows' = WithEnd(k, SummaryEnd(idx[k]), IndexedRecords(idx[k])) /\ HasRow(k)
      BY <2>1, <2>4 DEF RecoverGlobalRow, NewTripInv
    <3>4. rows'[k].end # 0 /\ \A m \in Trips \ {k} : rows'[m] = rows[m]
      BY <3>2, <3>3, ConstantsAssumption DEF WithEnd, TypeOK, Time
    <3> QED
      BY <2>2, <3>4 DEF RecoveredInv, RunningMeansRecovered
  <2> QED
    BY <2>3, <2>4
<1>3. CASE GetTripId
  BY <1>3 DEF GetTripId, RecoveredInv, RunningMeansRecovered
<1>4. CASE OpenTripFilesFails \/ InsertGlobalRowFails \/ UpdateGlobalRowEnd \/ Crash
  BY <1>4 DEF OpenTripFilesFails, InsertGlobalRowFails, UpdateGlobalRowEnd, Crash, ToDown,
              RecoveredInv, RunningMeansRecovered
<1>5. CASE OpenTripFiles \/ WriteTripHeader \/ FlushLog \/ EndTrip \/ (\E size \in Sizes : AppendRecord(size))
  <2>1. /\ UNCHANGED <<idx, rows, day, id>>
        /\ {pc, pc'} \cap {"down", "recover"} = {}
    BY <1>5 DEF OpenTripFiles, WriteTripHeader, FlushLog, EndTrip, AppendRecord, memory, disk
  <2> QED
    BY <2>1 DEF RecoveredInv, RunningMeansRecovered, Current
<1>6. CASE InsertGlobalRow \/ FlushIdx
  <2>1. /\ UNCHANGED <<day, id>>
        /\ {pc, pc'} \cap {"down", "recover"} = {}
    BY <1>6 DEF InsertGlobalRow, FlushIdx, memory
  <2>2. ASSUME NEW k \in Trips \ {Current}
        PROVE  rows'[k] = rows[k] /\ idx'[k] = idx[k]
    BY <1>6 DEF InsertGlobalRow, FlushIdx, disk, TypeOK
  <2> QED
    BY <2>1, <2>2 DEF RecoveredInv, RunningMeansRecovered, Current
<1>7. CASE Tick \/ UNCHANGED vars
  BY <1>7 DEF Tick, disk, memory, vars, RecoveredInv, RunningMeansRecovered, Current
<1> QED
  BY <1>1, <1>2, <1>3, <1>4, <1>5, <1>6, <1>7 DEF Next, ThreadStep

\* While the catalog is never busy, a node that ingests has closed the row of
\* every earlier trip that stored anything, failed writes included.
THEOREM RunningMeansRecoveredHolds ==
    ASSUME "busy" \notin Faults
    PROVE  Spec => []RunningMeansRecovered
<1>1. Init => RecoveredInv
  BY DEF Init, RecoveredInv, RunningMeansRecovered
<1>2. TypeInv /\ NewTripInv /\ RecoveredInv /\ [Next]_vars => RecoveredInv'
  BY RecoveredNext
<1>3. RecoveredInv => RunningMeansRecovered
  BY DEF RecoveredInv
<1> QED
  BY <1>1, <1>2, <1>3, NewTripCorrect, PTL DEF Spec

-----------------------------------------------------------------------------
(* Damage, under every fault.                                              *)

\* On a log whose stream is good every entry locates its chunk. On a bad one
\* nothing is written any more, and the next entry locates nothing.
DamageInv ==
    /\ DamageIsASuffix
    /\ (HasTrip /\ ~logBad) => \A i \in 1..Len(idx[Current]) : Locates(idx[Current][i], log[Current])
    /\ (pc = "flushIdx") => (Locates(tie, log[Current]) <=> ~logBad)

\* What is appended to a log does not move what an entry locates.
LEMMA LocatesAppend ==
    ASSUME NEW l \in Seq(Item), NEW item \in Item, NEW e \in Entry, Locates(e, l)
    PROVE  Locates(e, Append(l, item)) /\ Append(l, item)[e.offset + 1] = l[e.offset + 1]
<1>1. e.offset + 1 \in 1..Len(l)
  BY DEF Locates
<1>2. /\ Len(Append(l, item)) = Len(l) + 1 /\ Len(l) \in Nat
      /\ Append(l, item)[e.offset + 1] = l[e.offset + 1]
  BY <1>1, AppendProperties
<1>3. e.offset + 1 \in 1..Len(Append(l, item))
  BY <1>1, <1>2
<1> QED
  BY <1>2, <1>3, Zenon DEF Locates

\* What a trip's files show does not change while they do not.
LEMMA DamageKept ==
    ASSUME DamageInv, UNCHANGED <<log, idx>>,
           \/ UNCHANGED <<pc, day, id, logBad, tie>>
           \/ HasTrip /\ pc' \in {"run", "flushLog", "update"} /\ UNCHANGED <<day, id, logBad>>
           \/ ~HasTrip' /\ pc' # "flushIdx"
    PROVE  DamageInv'
  BY DEF DamageInv, DamageIsASuffix, HasTrip, Current

\* Appending to a log that has the chunk of every entry moves none of them.
LEMMA AllLocatedAppend ==
    ASSUME NEW l \in Seq(Item), NEW x \in Seq(Entry), NEW item \in Item,
           \A i \in 1..Len(x) : Locates(x[i], l)
    PROVE  \A i \in 1..Len(x) : Locates(x[i], Append(l, item))
  BY LocatesAppend, ElementOfSeq

\* An entry whose offset is the end of the log locates what is appended, if
\* that is the chunk it describes, and nothing otherwise.
LEMMA LocatesTell ==
    ASSUME NEW l \in Seq(Item), NEW e \in Entry, e.offset = Len(l)
    PROVE  /\ ~Locates(e, l)
           /\ ~Locates(e, Append(l, Torn))
           /\ \A b \in Seq(Record) :
                 (b # <<>> /\ e.count = Len(b) /\ e.start = b[1].ts /\ e.end = b[Len(b)].ts)
                     => Locates(e, Append(l, Chunk(b)))
<1>1. Len(l) \in Nat
  BY LenProperties
<1>2. ASSUME NEW item \in Item
      PROVE  Len(Append(l, item)) = Len(l) + 1 /\ Append(l, item)[Len(l) + 1] = item
  BY AppendProperties
<1>3. Torn \in Item /\ \A b \in Seq(Record) : Chunk(b) \in Item
  BY DEF Torn, Item, Chunk
<1>4. ~Locates(e, l)
  BY <1>1 DEF Locates
<1>5. ~Locates(e, Append(l, Torn))
  BY <1>1, <1>2, <1>3 DEF Locates, Torn
<1>6. ASSUME NEW b \in Seq(Record), b # <<>>, e.count = Len(b), e.start = b[1].ts, e.end = b[Len(b)].ts
      PROVE  Locates(e, Append(l, Chunk(b)))
  BY <1>1, <1>2, <1>3, <1>6 DEF Locates, Chunk
<1> QED
  BY <1>4, <1>5, <1>6

\* Every step keeps that, under every fault.
LEMMA DamageNext ==
    ASSUME TypeInv, NewTripInv, DamageInv, [Next]_vars
    PROVE  DamageInv'
<1> USE DEF TypeInv
<1>1. CASE StartNode \/ GetTripId \/ OpenTripFiles \/ OpenTripFilesFails
           \/ InsertGlobalRowFails \/ UpdateGlobalRowEnd
  BY <1>1, DamageKept DEF StartNode, GetTripId, OpenTripFiles, OpenTripFilesFails,
                          InsertGlobalRowFails,
                          UpdateGlobalRowEnd, ToDown, HasTrip, disk
<1>2. CASE (\E k \in Trips : RecoverGlobalRow(k)) \/ Tick \/ UNCHANGED vars
  BY <1>2, DamageKept DEF RecoverGlobalRow, Tick, disk, memory, vars
<1>3. CASE EndTrip \/ (\E size \in Sizes : AppendRecord(size))
  BY <1>3, DamageKept DEF EndTrip, AppendRecord, HasTrip, disk
<1>4. CASE InsertGlobalRow
  <2>1. /\ pc' = "run" /\ UNCHANGED <<log, idx, day, id>>
        /\ idx[Current] = <<>>
    BY <1>4 DEF InsertGlobalRow, NewTripInv, disk, memory
  <2> QED
    BY <2>1 DEF DamageInv, DamageIsASuffix, Current
<1>5. ASSUME Current \in Trips, NEW item \in Item, log' = [log EXCEPT ![Current] = Append(@, item)],
             idx' = idx, \A i \in 1..Len(idx[Current]) : Locates(idx[Current][i], log[Current])
      PROVE  /\ DamageIsASuffix'
             /\ \A i \in 1..Len(idx[Current]) : Locates(idx[Current][i], log'[Current])
  <2>1. log[Current] \in Seq(Item) /\ idx[Current] \in Seq(Entry) /\ log'[Current] = Append(log[Current], item)
    BY <1>5 DEF TypeOK
  <2>2. \A i \in 1..Len(idx[Current]) : Locates(idx[Current][i], log'[Current])
    BY <1>5, <2>1, AllLocatedAppend
  <2>3. ASSUME NEW k \in Trips, k # Current
        PROVE  log'[k] = log[k]
    BY <1>5, <2>3 DEF TypeOK
  <2> QED
    BY <1>5, <2>2, <2>3 DEF DamageInv, DamageIsASuffix
<1>6. CASE Crash
  <2>1. ToDown /\ idx' = idx /\ pc' = "down"
    BY <1>6 DEF Crash, ToDown
  <2>2. CASE log' = log
    BY <2>1, <2>2, DamageKept DEF HasTrip
  <2>3. CASE pc = "flushLog" /\ ~logBad /\ log' = [log EXCEPT ![Current] = Append(@, Torn)]
    <3>1. Current \in Trips /\ Torn \in Item
      BY <2>3, CurrentIsTrip DEF Torn, Item
    <3>2. DamageIsASuffix'
      BY <1>5, <2>1, <2>3, <3>1 DEF DamageInv, HasTrip
    <3> QED
      BY <2>1, <3>2 DEF DamageInv, HasTrip
  <2> QED
    BY <1>6, <2>2, <2>3 DEF Crash
<1>7. CASE WriteTripHeader
  <2>1. /\ pc' = "insert" /\ idx' = idx /\ idx[Current] = <<>> /\ Current \in Trips
        /\ WriteLog(TripHeader)
    BY <1>7, CurrentIsTrip DEF WriteTripHeader, NewTripInv
  <2>2. TripHeader \in Item /\ Torn \in Item
    BY DEF TripHeader, Torn, Item
  <2>3. DamageIsASuffix'
    BY <1>5, <2>1, <2>2 DEF WriteLog, DamageInv, DamageIsASuffix
  <2> QED
    BY <2>1, <2>3 DEF DamageInv, HasTrip
<1>8. CASE FlushLog
  <2> DEFINE l == log[Current]
  <2>1. /\ pc = "flushLog" /\ pc' = "flushIdx" /\ HasTrip /\ Current \in Trips /\ Current' = Current
        /\ WriteLog(Chunk(buf)) /\ idx' = idx /\ UNCHANGED <<day, id>>
        /\ tie' = [start |-> buf[1].ts, end |-> buf[Len(buf)].ts, offset |-> Tell, count |-> Len(buf)]
    BY <1>8, CurrentIsTrip DEF FlushLog, HasTrip, Current
  <2>2. buf \in Seq(Record) /\ buf # <<>> /\ Chunk(buf) \in Item /\ Torn \in Item /\ l \in Seq(Item)
    <3>1. buf \in Seq(Record) /\ buf # <<>> /\ l \in Seq(Item)
      BY <2>1 DEF TypeOK
    <3>2. Chunk(buf) \in Item /\ Torn \in Item
      BY <3>1 DEF Chunk, Torn, Item
    <3> QED
      BY <3>1, <3>2
  <2>3. CASE logBad
    <3>1. log' = log /\ logBad' /\ tie'.offset = -1
      BY <2>1, <2>3 DEF WriteLog, Tell
    <3>2. ~Locates(tie', l)
      <4>1. -1 + 1 \notin 1..Len(l)
        BY <2>2, LenProperties
      <4> QED
        BY <3>1, <4>1 DEF Locates
    <3> QED
      BY <2>1, <3>1, <3>2 DEF DamageInv, DamageIsASuffix
  <2>4. CASE ~logBad
    <3>1. /\ tie' \in Entry /\ tie'.offset = Len(l)
          /\ tie'.count = Len(buf) /\ tie'.start = buf[1].ts /\ tie'.end = buf[Len(buf)].ts
      <4>1. tie' \in Entry
        BY TypeNext DEF TypeOK
      <4> QED
        BY <2>1, <2>4, <4>1 DEF Tell
    <3>2. \A i \in 1..Len(idx[Current]) : Locates(idx[Current][i], l)
      BY <2>1, <2>4 DEF DamageInv
    <3>3. CASE log' = [log EXCEPT ![Current] = Append(@, Chunk(buf))] /\ ~logBad'
      <4>1. log'[Current] = Append(l, Chunk(buf))
        BY <2>1, <3>3 DEF TypeOK
      <4>2. Locates(tie', log'[Current])
        BY <2>2, <3>1, <4>1, LocatesTell
      <4> QED
        BY <1>5, <2>1, <2>2, <3>2, <3>3, <4>2 DEF DamageInv
    <3>4. CASE log' = [log EXCEPT ![Current] = Append(@, Torn)] /\ logBad'
      <4>1. log'[Current] = Append(l, Torn)
        BY <2>1, <3>4 DEF TypeOK
      <4>2. ~Locates(tie', log'[Current])
        BY <2>2, <3>1, <4>1, LocatesTell
      <4> QED
        BY <1>5, <2>1, <2>2, <3>2, <3>4, <4>2 DEF DamageInv
    <3>5. CASE log' = log /\ logBad'
      <4>1. ~Locates(tie', l)
        BY <2>2, <3>1, LocatesTell
      <4> QED
        BY <2>1, <3>5, <4>1 DEF DamageInv, DamageIsASuffix
    <3> QED
      BY <2>1, <2>4, <3>3, <3>4, <3>5 DEF WriteLog
  <2> QED
    BY <2>3, <2>4
<1>9. CASE FlushIdx
  <2>1. /\ pc = "flushIdx" /\ pc' \in {"run", "update"} /\ HasTrip /\ Current \in Trips
        /\ UNCHANGED <<log, day, id, logBad>>
        /\ idx' = idx \/ idx' = [idx EXCEPT ![Current] = Append(@, tie)]
    BY <1>9, CurrentIsTrip DEF FlushIdx, HasTrip
  <2>2. CASE idx' = idx
    BY <2>1, <2>2, DamageKept
  <2>3. CASE idx' = [idx EXCEPT ![Current] = Append(@, tie)]
    <3> DEFINE x == idx[Current]
               y == idx'[Current]
               n == Len(x)
    <3>1. x \in Seq(Entry) /\ tie \in Entry /\ y = Append(x, tie)
      BY <2>1, <2>3 DEF TypeOK
    <3>2. n \in Nat /\ Len(y) = n + 1 /\ y[n + 1] = tie /\ \A i \in 1..n : y[i] = x[i]
      BY <3>1, AppendProperties
    <3>3. ASSUME NEW k \in Trips, k # Current
          PROVE  idx'[k] = idx[k]
      BY <2>3, <3>3 DEF TypeOK
    <3>4. /\ \A i, j \in 1..n : (i < j /\ Locates(x[j], log[Current])) => Locates(x[i], log[Current])
          /\ Locates(tie, log[Current]) <=> ~logBad
          /\ ~logBad => \A i \in 1..n : Locates(x[i], log[Current])
      BY <2>1 DEF DamageInv, DamageIsASuffix
    <3> HIDE DEF x, y, n
    <3>5. \A i, j \in 1..(n + 1) : (i < j /\ Locates(y[j], log[Current])) => Locates(y[i], log[Current])
      BY <3>2, <3>4
    <3>6. ~logBad => \A i \in 1..(n + 1) : Locates(y[i], log[Current])
      BY <3>2, <3>4
    <3>7. DamageIsASuffix'
      <4> SUFFICES ASSUME NEW k \in Trips, NEW i \in 1..Len(idx'[k]), NEW j \in 1..Len(idx'[k]),
                          i < j, Locates(idx'[k][j], log[k])
                   PROVE  Locates(idx'[k][i], log[k])
        BY <2>1 DEF DamageIsASuffix
      <4>1. CASE k = Current
        BY <3>2, <3>5, <4>1 DEF y
      <4>2. CASE k # Current
        BY <3>3, <4>2 DEF DamageInv, DamageIsASuffix
      <4> QED
        BY <4>1, <4>2
    <3> QED
      BY <2>1, <3>2, <3>6, <3>7 DEF DamageInv, Current, y
  <2> QED
    BY <2>1, <2>2, <2>3
<1> QED
  BY <1>1, <1>2, <1>3, <1>4, <1>6, <1>7, <1>8, <1>9 DEF Next, ThreadStep

\* It holds in every reachable state.
LEMMA DamageCorrect == Spec => [](TypeInv /\ NewTripInv /\ DamageInv)
<1>1. Init => DamageInv
  <2>1. Init => \A k \in Trips : Len(idx[k]) = 0
    BY DEF Init
  <2> QED
    BY <2>1 DEF Init, DamageInv, DamageIsASuffix, HasTrip
<1>2. TypeInv /\ NewTripInv /\ DamageInv /\ [Next]_vars => DamageInv'
  BY DamageNext
<1> QED
  BY <1>1, <1>2, NewTripCorrect, PTL DEF Spec

\* Whatever fails, the entries that locate no chunk are the last ones of their
\* index.
THEOREM DamageIsASuffixHolds == Spec => []DamageIsASuffix
<1>1. DamageInv => DamageIsASuffix
  BY DEF DamageInv
<1> QED
  BY <1>1, DamageCorrect, PTL

-----------------------------------------------------------------------------
(* Records and counts, under every fault.                                  *)

\* The i-th entry of the index x leads to records of l that continue the
\* numbering where the entries before it stop.
Numbered(x, i, l) ==
    LET recs == l[x[i].offset + 1].recs
    IN  \A j \in 1..Len(recs) : recs[j].n = IndexedRecords(SubSeq(x, 1, i - 1)) + j

\* What disk and catalog hold of the trip k, at any step of any process. Index
\* and row count no record that was not accepted; a row may count records whose
\* index entry could not be written.
TripInv(k) ==
    /\ (k \notin files) => accepted[k] = 0
    /\ \A i \in 1..Len(idx[k]) :
          /\ Locates(idx[k][i], log[k]) => Numbered(idx[k], i, log[k])
          /\ ("diskfull" \notin Faults) => Locates(idx[k][i], log[k])
    /\ IndexedRecords(idx[k]) <= accepted[k]
    /\ (rows[k].end # 0) =>
          /\ IndexedRecords(idx[k]) <= rows[k].records /\ rows[k].records <= accepted[k]
          /\ ("diskfull" \notin Faults) => rows[k].records = IndexedRecords(idx[k])

\* What the memory of the process adds: the records counted and those in the
\* buffer are what the trip accepted, and the index has all that were counted
\* until a write of it fails.
MemoryInv ==
    /\ (pc \in {"header", "insert"}) => accepted[Current] = 0
    /\ ~HasTrip => buf = <<>> /\ total = 0
    /\ HasTrip => /\ rows[Current].end = 0
                  /\ total + Len(buf) = accepted[Current]
                  /\ \A j \in 1..Len(buf) : buf[j].n = total + j
                  /\ IndexedRecords(idx[Current]) <= total
                  /\ ~idxBad => IndexedRecords(idx[Current]) = total
    /\ (pc = "update") => buf = <<>>
    /\ (pc = "flushIdx") => /\ tie.count = Len(buf)
                            /\ Locates(tie, log[Current]) => log[Current][tie.offset + 1].recs = buf
    /\ ("diskfull" \notin Faults) => ~logBad /\ ~idxBad

CountInv == (\A k \in Trips : TripInv(k)) /\ MemoryInv

\* The entries before one are not changed by appending to the index.
LEMMA PrefixAppend ==
    ASSUME NEW x \in Seq(Entry), NEW e \in Entry, NEW n \in 0..Len(x)
    PROVE  SubSeq(Append(x, e), 1, n) = SubSeq(x, 1, n)
<1>0. Len(x) \in Nat /\ Append(x, e) \in Seq(Entry) /\ Len(Append(x, e)) = Len(x) + 1
      /\ \A i \in 1..Len(x) : Append(x, e)[i] = x[i]
  BY AppendProperties
<1>1. /\ SubSeq(x, 1, n) \in Seq(Entry)
      /\ Len(SubSeq(x, 1, n)) = n
      /\ \A i \in 1..n : SubSeq(x, 1, n)[i] = x[i]
  BY <1>0
<1>2. /\ SubSeq(Append(x, e), 1, n) \in Seq(Entry)
      /\ Len(SubSeq(Append(x, e), 1, n)) = n
      /\ \A i \in 1..n : SubSeq(Append(x, e), 1, n)[i] = x[i]
  BY <1>0
<1> QED
  BY <1>1, <1>2, SeqEqual

\* A step that leaves a trip's index and row alone, and appends to its log only
\* when that has the chunk of every entry, keeps what is known of the trip.
LEMMA TripFrame ==
    ASSUME TypeOK, NEW k \in Trips, TripInv(k), NEW item \in Item,
           \/ log'[k] = log[k]
           \/ /\ log'[k] = Append(log[k], item)
              /\ \A i \in 1..Len(idx[k]) : Locates(idx[k][i], log[k]),
           idx'[k] = idx[k], rows'[k] = rows[k], accepted'[k] >= accepted[k],
           (k \notin files') => accepted'[k] = 0,
           accepted'[k] \in Nat
    PROVE  TripInv(k)'
<1>1. /\ log[k] \in Seq(Item) /\ idx[k] \in Seq(Entry) /\ accepted[k] \in Nat
      /\ IndexedRecords(idx[k]) \in Nat /\ rows[k].records \in Nat
  BY IndexedRecordsType DEF TypeOK, Row
<1>2. ASSUME NEW i \in 1..Len(idx[k])
      PROVE  /\ Locates(idx[k][i], log'[k]) => Numbered(idx[k], i, log'[k])
             /\ ("diskfull" \notin Faults) => Locates(idx[k][i], log'[k])
  <2>1. /\ idx[k][i] \in Entry
        /\ Locates(idx[k][i], log[k]) => Numbered(idx[k], i, log[k])
        /\ ("diskfull" \notin Faults) => Locates(idx[k][i], log[k])
    BY <1>1, ElementOfSeq DEF TripInv
  <2>2. CASE log'[k] = log[k]
    BY <2>1, <2>2
  <2>3. CASE /\ log'[k] = Append(log[k], item)
             /\ \A n \in 1..Len(idx[k]) : Locates(idx[k][n], log[k])
    <3>1. /\ Locates(idx[k][i], log'[k])
          /\ log'[k][idx[k][i].offset + 1] = log[k][idx[k][i].offset + 1]
      BY <1>1, <2>1, <2>3, LocatesAppend
    <3> QED
      BY <2>1, <2>3, <3>1 DEF Numbered
  <2> QED
    BY <2>2, <2>3
<1>3. IndexedRecords(idx[k]) <= accepted'[k]
  BY <1>1 DEF TripInv
<1>4. (rows'[k].end # 0) =>
          /\ IndexedRecords(idx[k]) <= rows'[k].records /\ rows'[k].records <= accepted'[k]
          /\ ("diskfull" \notin Faults) => rows'[k].records = IndexedRecords(idx[k])
  BY <1>1 DEF TripInv
<1> QED
  BY <1>2, <1>3, <1>4 DEF TripInv

\* Nothing is counted initially.
LEMMA CountInit == Init => CountInv
<1> SUFFICES ASSUME Init PROVE CountInv
  OBVIOUS
<1>1. ASSUME NEW k \in Trips PROVE TripInv(k)
  <2>1. /\ idx[k] = <<>> /\ rows[k] = NoRow /\ accepted[k] = 0 /\ rows[k].end = 0
    BY DEF Init, NoRow
  <2>2. Len(idx[k]) = 0 /\ IndexedRecords(idx[k]) = 0
    BY <2>1, IndexedRecordsEmpty
  <2> QED
    BY <2>1, <2>2 DEF TripInv
<1>2. MemoryInv
  BY DEF Init, MemoryInv, HasTrip
<1> QED
  BY <1>1, <1>2 DEF CountInv

\* The process ends: its trip is left as it is on the disk.
LEMMA CountDown ==
    ASSUME ToDown, \A k \in Trips : TripInv(k)'
    PROVE  CountInv'
  BY DEF ToDown, MemoryInv, HasTrip, CountInv

\* A chunk, a part of it or nothing is written to the log.
LEMMA CountFlushLog ==
    ASSUME TypeInv, TypeInv', NewTripInv, DamageInv, CountInv, FlushLog
    PROVE  CountInv'
<1> USE DEF TypeInv
<1> DEFINE l == log[Current]
<1>1. /\ Current \in Trips /\ Current' = Current /\ HasTrip /\ HasTrip' /\ pc' = "flushIdx"
      /\ UNCHANGED <<files, idx, rows, accepted, buf, total, idxBad>>
      /\ WriteLog(Chunk(buf))
      /\ tie' = [start |-> buf[1].ts, end |-> buf[Len(buf)].ts, offset |-> Tell, count |-> Len(buf)]
  BY CurrentIsTrip DEF FlushLog, HasTrip, Current
<1>2. buf \in Seq(Record) /\ buf # <<>> /\ l \in Seq(Item) /\ Chunk(buf) \in Item /\ Torn \in Item
  <2>1. buf \in Seq(Record) /\ buf # <<>> /\ l \in Seq(Item)
    BY <1>1 DEF FlushLog, TypeOK
  <2> QED
    BY <2>1 DEF Chunk, Torn, Item
<1>3. (~logBad) => \A i \in 1..Len(idx[Current]) : Locates(idx[Current][i], l)
  BY <1>1 DEF DamageInv
<1>4. \/ log' = log
      \/ ~logBad /\ log' = [log EXCEPT ![Current] = Append(@, Chunk(buf))]
      \/ ~logBad /\ log' = [log EXCEPT ![Current] = Append(@, Torn)]
  BY <1>1 DEF WriteLog
<1>5. ASSUME NEW k \in Trips PROVE TripInv(k)'
  <2>1. TripInv(k) /\ accepted[k] \in Nat /\ (k \notin files => accepted[k] = 0)
    BY DEF CountInv, TripInv, TypeOK
  <2>2. CASE log'[k] = log[k]
    BY <1>1, <1>2, <2>1, <2>2, TripFrame
  <2>3. CASE k = Current /\ ~logBad /\ log'[k] = Append(log[k], Chunk(buf))
    BY <1>1, <1>2, <1>3, <2>1, <2>3, TripFrame
  <2>4. CASE k = Current /\ ~logBad /\ log'[k] = Append(log[k], Torn)
    BY <1>1, <1>2, <1>3, <2>1, <2>4, TripFrame
  <2> QED
    BY <1>1, <1>4, <2>2, <2>3, <2>4 DEF TypeOK
<1>6. tie'.count = Len(buf) /\ (Locates(tie', log'[Current]) => log'[Current][tie'.offset + 1].recs = buf)
  <2>1. tie' \in Entry /\ tie'.count = Len(buf)
    BY <1>1 DEF TypeOK
  <2>2. CASE logBad
    <3>1. tie'.offset + 1 = 0
      BY <1>1, <2>2 DEF Tell
    <3>2. ~Locates(tie', log'[Current])
      BY <3>1 DEF Locates
    <3> QED
      BY <2>1, <3>2
  <2>3. CASE ~logBad
    <3>1. tie'.offset = Len(l) /\ Len(l) \in Nat
      BY <1>1, <1>2, <2>3 DEF Tell
    <3>2. ~Locates(tie', l) /\ ~Locates(tie', Append(l, Torn))
      BY <1>2, <2>1, <3>1, LocatesTell
    <3>3. Append(l, Chunk(buf))[tie'.offset + 1].recs = buf
      <4>1. Append(l, Chunk(buf))[Len(l) + 1] = Chunk(buf)
        BY <1>2, AppendProperties
      <4> QED
        BY <3>1, <4>1 DEF Chunk
    <3>4. log'[Current] \in {l, Append(l, Torn), Append(l, Chunk(buf))}
      BY <1>1, <1>4 DEF TypeOK
    <3> QED
      BY <2>1, <3>2, <3>3, <3>4
  <2> QED
    BY <2>2, <2>3
<1>7. ("diskfull" \notin Faults) => ~logBad' /\ ~idxBad'
  BY <1>1 DEF WriteLog, CountInv, MemoryInv
<1>8. MemoryInv'
  <2>1. /\ rows[Current].end = 0 /\ total + Len(buf) = accepted[Current]
        /\ \A j \in 1..Len(buf) : buf[j].n = total + j
        /\ IndexedRecords(idx[Current]) <= total
        /\ ~idxBad => IndexedRecords(idx[Current]) = total
    BY <1>1 DEF CountInv, MemoryInv
  <2> QED
    BY <1>1, <1>6, <1>7, <2>1 DEF MemoryInv
<1> QED
  BY <1>5, <1>8 DEF CountInv

\* The records of a chunk are counted and, unless the index is bad, its entry
\* is written; it leads to records that go on where the earlier entries stop.
LEMMA CountFlushIdx ==
    ASSUME TypeInv, TypeInv', DamageInv, CountInv, FlushIdx
    PROVE  CountInv'
<1> USE DEF TypeInv
<1> DEFINE x == idx[Current]
           l == log[Current]
<1>1. /\ Current \in Trips /\ Current' = Current /\ HasTrip /\ HasTrip'
      /\ UNCHANGED <<files, log, rows, accepted, logBad>>
      /\ pc = "flushIdx" /\ total' = total + tie.count /\ buf' = <<>>
  BY CurrentIsTrip DEF FlushIdx, HasTrip, Current, CountRecords, ClearBuffer
<1>2. /\ x \in Seq(Entry) /\ tie \in Entry /\ buf \in Seq(Record) /\ tie.count \in Nat
      /\ IndexedRecords(x) \in Nat /\ total \in Nat /\ accepted[Current] \in Nat
  BY <1>1, IndexedRecordsType DEF TypeOK, Entry
<1>3. /\ rows[Current].end = 0 /\ total + Len(buf) = accepted[Current]
      /\ \A j \in 1..Len(buf) : buf[j].n = total + j
      /\ IndexedRecords(x) <= total /\ (~idxBad => IndexedRecords(x) = total)
      /\ tie.count = Len(buf)
      /\ Locates(tie, l) => l[tie.offset + 1].recs = buf
  BY <1>1 DEF CountInv, MemoryInv
<1>4. total' = accepted[Current] /\ Len(buf') = 0
  BY <1>1, <1>2, <1>3
<1>5. CASE idx' = idx /\ idxBad' /\ "diskfull" \in Faults
  <2>1. ASSUME NEW k \in Trips PROVE TripInv(k)'
    BY <1>1, <1>5 DEF CountInv, TripInv
  <2>2. IndexedRecords(idx'[Current]) <= total'
    BY <1>2, <1>3, <1>4, <1>5
  <2>3. MemoryInv'
    BY <1>1, <1>3, <1>4, <1>5, <2>2 DEF FlushIdx, MemoryInv, HasTrip
  <2> QED
    BY <2>1, <2>3 DEF CountInv
<1>6. CASE ~idxBad /\ ~idxBad' /\ idx' = [idx EXCEPT ![Current] = Append(@, tie)]
  <2> DEFINE y == Append(x, tie)
  <2>1. idx'[Current] = y /\ \A k \in Trips \ {Current} : idx'[k] = idx[k]
    BY <1>1, <1>6 DEF TypeOK
  <2>2. IndexedRecords(y) = total' /\ IndexedRecords(x) = total
    BY <1>1, <1>2, <1>3, <1>6, IndexedRecordsAppend
  <2>3. /\ Len(x) \in Nat /\ Len(y) = Len(x) + 1 /\ y[Len(x) + 1] = tie
        /\ \A i \in 1..Len(x) : y[i] = x[i]
    BY <1>2, AppendProperties
  <2>4. ASSUME NEW i \in 1..Len(y)
        PROVE  /\ Locates(y[i], l) => Numbered(y, i, l)
               /\ ("diskfull" \notin Faults) => Locates(y[i], l)
    <3>1. CASE i \in 1..Len(x)
      <4>1. /\ Locates(x[i], l) => Numbered(x, i, l)
            /\ ("diskfull" \notin Faults) => Locates(x[i], l)
        BY <1>1, <3>1 DEF CountInv, TripInv
      <4>2. SubSeq(y, 1, i - 1) = SubSeq(x, 1, i - 1) /\ y[i] = x[i]
        BY <1>2, <2>3, <3>1, PrefixAppend
      <4> HIDE DEF x, y, l
      <4> QED
        BY <4>1, <4>2 DEF Numbered
    <3>2. CASE i = Len(x) + 1
      <4>1. SubSeq(y, 1, i - 1) = SubSeq(x, 1, Len(x)) /\ y[i] = tie
        BY <1>2, <2>3, <3>2, PrefixAppend
      <4>2. SubSeq(y, 1, i - 1) = x
        BY <1>2, <4>1, SubSeqFull
      <4>3. ("diskfull" \notin Faults) => Locates(tie, l)
        BY <1>1 DEF DamageInv, CountInv, MemoryInv
      <4> HIDE DEF x, y, l
      <4> QED
        BY <1>3, <2>2, <4>1, <4>2, <4>3 DEF Numbered
    <3> QED
      BY <2>3, <3>1, <3>2
  <2>5. ASSUME NEW k \in Trips PROVE TripInv(k)'
    <3>1. CASE k = Current
      <4>1. /\ idx'[k] = y /\ log'[k] = l /\ rows'[k].end = 0 /\ accepted'[k] = accepted[k]
            /\ (k \notin files' => accepted'[k] = 0) /\ IndexedRecords(y) <= accepted[k]
        BY <1>1, <1>2, <1>3, <1>4, <2>1, <2>2, <3>1 DEF CountInv, TripInv
      <4> HIDE DEF x, y, l
      <4> QED
        BY <2>4, <4>1 DEF TripInv
    <3>2. CASE k # Current
      BY <1>1, <2>1, <3>2 DEF CountInv, TripInv
    <3> QED
      BY <3>1, <3>2
  <2>6. MemoryInv'
    <3>1. IndexedRecords(idx'[Current]) = total' /\ total' \in Nat
      BY <1>2, <1>4, <2>1, <2>2
    <3>2. ("diskfull" \notin Faults) => ~logBad
      BY DEF CountInv, MemoryInv
    <3> QED
      BY <1>1, <1>2, <1>3, <1>4, <1>6, <3>1, <3>2 DEF FlushIdx, MemoryInv, HasTrip
  <2> QED
    BY <2>5, <2>6 DEF CountInv
<1> QED
  BY <1>1, <1>5, <1>6 DEF FlushIdx, CountInv, MemoryInv

\* A record is taken into the buffer.
LEMMA CountAppend ==
    ASSUME TypeInv, TypeInv', NewTripInv, CountInv, NEW size \in Sizes, AppendRecord(size)
    PROVE  CountInv'
<1> USE DEF TypeInv
<1> DEFINE r == [n |-> accepted[Current] + 1, ts |-> now]
<1>1. /\ Current \in Trips /\ Current' = Current /\ HasTrip /\ HasTrip'
      /\ pc = "run" /\ pc' \in {"run", "flushLog"}
      /\ UNCHANGED <<files, log, idx, rows, total, tie, logBad, idxBad>>
      /\ accepted' = [accepted EXCEPT ![Current] = @ + 1]
      /\ buf' = Append(buf, r)
  BY CurrentIsTrip DEF AppendRecord, HasTrip, Current, disk
<1>2. /\ accepted'[Current] = accepted[Current] + 1 /\ accepted[Current] \in Nat
      /\ \A k \in Trips \ {Current} : accepted'[k] = accepted[k]
      /\ buf \in Seq(Record) /\ now \in Time /\ total \in Nat
  BY <1>1 DEF TypeOK
<1>3. ASSUME NEW k \in Trips PROVE TripInv(k)'
  <2>1. TripInv(k) /\ accepted'[k] \in Nat /\ accepted'[k] >= accepted[k] /\ TripHeader \in Item
    BY <1>1, <1>2 DEF CountInv, TypeOK, TripHeader, Item
  <2>2. (k \notin files') => accepted'[k] = 0
    BY <1>1, <1>2, <2>1 DEF TripInv, NewTripInv
  <2> QED
    BY <1>1, <2>1, <2>2, TripFrame
<1>4. /\ rows[Current].end = 0 /\ total + Len(buf) = accepted[Current]
      /\ \A j \in 1..Len(buf) : buf[j].n = total + j
      /\ IndexedRecords(idx[Current]) <= total
      /\ ~idxBad => IndexedRecords(idx[Current]) = total
      /\ ("diskfull" \notin Faults) => ~logBad /\ ~idxBad
  BY <1>1 DEF CountInv, MemoryInv
<1>5. r \in Record /\ r.n = accepted[Current] + 1
  BY <1>2, SMTT(30) DEF Record
<1> HIDE DEF r
<1>6. /\ Len(buf) \in Nat /\ Len(buf') = Len(buf) + 1
      /\ \A j \in 1..Len(buf) : buf'[j] = buf[j]
      /\ buf'[Len(buf) + 1] = r
  BY <1>1, <1>2, <1>5, AppendProperties
<1>7. ASSUME NEW j \in 1..Len(buf') PROVE buf'[j].n = total + j
  <2>1. j \in 1..Len(buf) \/ j = Len(buf) + 1
    BY <1>6
  <2>2. CASE j \in 1..Len(buf)
    BY <1>4, <1>6, <2>2
  <2>3. CASE j = Len(buf) + 1
    <3>1. total + j = accepted[Current] + 1
      BY <1>2, <1>4, <1>6, <2>3
    <3> QED
      BY <1>5, <1>6, <2>3, <3>1
  <2> QED
    BY <2>1, <2>2, <2>3
<1>8. total + Len(buf') = accepted'[Current]
  BY <1>2, <1>4, <1>6
<1>9. MemoryInv'
  BY <1>1, <1>4, <1>7, <1>8 DEF MemoryInv
<1> QED
  BY <1>3, <1>9 DEF CountInv

\* The row of a trip gets an end: from its index, or from the memory of the
\* process that ends it.
LEMMA CountRow ==
    ASSUME TypeInv, CountInv, UNCHANGED <<files, log, idx, accepted>>,
           NEW k \in Trips, NEW end, NEW n, rows' = rows \/ rows' = WithEnd(k, end, n),
           IndexedRecords(idx[k]) <= n, n <= accepted[k],
           ("diskfull" \notin Faults) => n = IndexedRecords(idx[k])
    PROVE  \A m \in Trips : TripInv(m)'
<1> SUFFICES ASSUME NEW m \in Trips PROVE TripInv(m)'
  OBVIOUS
<1>1. TripInv(m)
  BY DEF CountInv
<1>2. CASE rows'[m] = rows[m]
  BY <1>1, <1>2 DEF TripInv
<1>3. CASE m = k /\ rows'[m].records = n
  BY <1>1, <1>3 DEF TripInv
<1> QED
  BY <1>2, <1>3 DEF WithEnd, TypeInv, TypeOK

\* Every step keeps that, under every fault.
LEMMA CountNext ==
    ASSUME TypeInv, TypeInv', NewTripInv, DamageInv, CountInv, [Next]_vars
    PROVE  CountInv'
<1> USE DEF TypeInv
<1>0. /\ \A k \in Trips : TripInv(k) /\ accepted[k] \in Nat
      /\ MemoryInv
      /\ TripHeader \in Item /\ Torn \in Item
  BY DEF CountInv, TypeOK, TripHeader, Torn, Item
<1>1. ASSUME UNCHANGED <<files, log, idx, rows, accepted>>
      PROVE  \A k \in Trips : TripInv(k)'
  BY <1>0, <1>1 DEF TripInv
<1>2. CASE StartNode
  BY <1>0, <1>1, <1>2 DEF StartNode, CountInv, MemoryInv, HasTrip, Current
<1>3. CASE \E k \in Trips : RecoverGlobalRow(k)
  <2>1. PICK k \in Trips : RecoverGlobalRow(k)
    BY <1>3
  <2>2. /\ UNCHANGED <<files, log, idx, accepted, pc, buf, total, tie, logBad, idxBad>>
        /\ pc = "recover"
        /\ rows' = rows \/ rows' = WithEnd(k, SummaryEnd(idx[k]), IndexedRecords(idx[k]))
    BY <2>1 DEF RecoverGlobalRow
  <2>3. IndexedRecords(idx[k]) \in Nat /\ IndexedRecords(idx[k]) <= accepted[k]
    BY <1>0, IndexedRecordsType DEF TripInv, TypeOK
  <2>4. \A m \in Trips : TripInv(m)'
    BY <2>2, <2>3, CountRow
  <2>5. MemoryInv'
    BY <1>0, <2>2 DEF MemoryInv, HasTrip
  <2> QED
    BY <2>4, <2>5 DEF CountInv
<1>4. CASE GetTripId
  BY <1>0, <1>1, <1>4 DEF GetTripId, CountInv, MemoryInv, HasTrip
<1>5. CASE OpenTripFiles
  <2>1. /\ Current \in Trips \ files /\ Current' = Current
        /\ UNCHANGED <<log, idx, rows, accepted, buf, total, logBad, idxBad>>
        /\ files' = files \cup {Current} /\ pc = "open" /\ pc' = "header"
    BY <1>5, OpenIsNew DEF OpenTripFiles, memory, Current
  <2>2. accepted[Current] = 0
    BY <1>0, <2>1 DEF TripInv
  <2>3. ASSUME NEW k \in Trips PROVE TripInv(k)'
    BY <1>0, <2>1 DEF TripInv
  <2>4. MemoryInv'
    BY <1>0, <2>1, <2>2 DEF MemoryInv, HasTrip
  <2> QED
    BY <2>3, <2>4 DEF CountInv
<1>6. CASE OpenTripFilesFails
  <2>1. ToDown /\ UNCHANGED <<log, idx, rows, accepted>> /\ files \subseteq files'
    BY <1>6 DEF OpenTripFilesFails
  <2>2. \A k \in Trips : TripInv(k)'
    BY <1>0, <2>1 DEF TripInv
  <2> QED
    BY <2>1, <2>2, CountDown
<1>7. CASE WriteTripHeader
  <2>1. /\ Current \in Trips /\ Current' = Current /\ idx[Current] = <<>> /\ WriteLog(TripHeader)
        /\ UNCHANGED <<files, idx, rows, accepted, buf, total, tie, idxBad>>
        /\ pc = "header" /\ pc' = "insert"
    BY <1>7, CurrentIsTrip DEF WriteTripHeader, Current, NewTripInv
  <2>2. ASSUME NEW k \in Trips PROVE TripInv(k)'
    <3>1. /\ TripInv(k) /\ accepted'[k] \in Nat /\ accepted'[k] >= accepted[k]
          /\ (k \notin files' => accepted'[k] = 0)
      BY <1>0, <2>1 DEF TripInv
    <3>2. CASE log'[k] = log[k]
      BY <1>0, <2>1, <3>1, <3>2, TripFrame
    <3>3. CASE k = Current /\ log'[k] = Append(log[k], TripHeader)
      BY <1>0, <2>1, <3>1, <3>3, TripFrame
    <3>4. CASE k = Current /\ log'[k] = Append(log[k], Torn)
      BY <1>0, <2>1, <3>1, <3>4, TripFrame
    <3> QED
      BY <2>1, <3>2, <3>3, <3>4 DEF WriteLog, TypeOK
  <2>3. MemoryInv'
    BY <1>0, <2>1 DEF MemoryInv, HasTrip, WriteLog
  <2> QED
    BY <2>2, <2>3 DEF CountInv
<1>8. CASE InsertGlobalRow
  <2>1. /\ Current \in Trips /\ Current' = Current /\ idx[Current] = <<>>
        /\ rows'[Current].end = 0 /\ \A k \in Trips \ {Current} : rows'[k] = rows[k]
        /\ UNCHANGED <<files, log, idx, accepted, buf, total, tie, logBad, idxBad>>
        /\ pc = "insert" /\ pc' = "run"
    BY <1>8, CurrentIsTrip DEF InsertGlobalRow, disk, memory, Current, NewTripInv, TypeOK
  <2>2. /\ IndexedRecords(idx[Current]) = 0 /\ Len(buf) = 0 /\ total = 0 /\ accepted[Current] = 0
    BY <1>0, <2>1, IndexedRecordsEmpty DEF MemoryInv, HasTrip
  <2>3. ASSUME NEW k \in Trips PROVE TripInv(k)'
    BY <1>0, <2>1 DEF TripInv
  <2>4. MemoryInv'
    BY <1>0, <2>1, <2>2 DEF MemoryInv, HasTrip
  <2> QED
    BY <2>3, <2>4 DEF CountInv
<1>9. CASE InsertGlobalRowFails
  BY <1>1, <1>9, CountDown DEF InsertGlobalRowFails, disk
<1>10. CASE \E size \in Sizes : AppendRecord(size)
  BY <1>10, CountAppend
<1>11. CASE FlushLog
  BY <1>11, CountFlushLog
<1>12. CASE FlushIdx
  BY <1>12, CountFlushIdx
<1>13. CASE EndTrip
  BY <1>0, <1>1, <1>13 DEF EndTrip, disk, CountInv, MemoryInv, HasTrip, Current
<1>14. CASE UpdateGlobalRowEnd
  <2>1. /\ Current \in Trips /\ HasTrip /\ pc = "update" /\ ToDown
        /\ UNCHANGED <<files, log, idx, accepted>>
        /\ rows' = rows \/ rows' = WithEnd(Current, endTs, total)
    BY <1>14, CurrentIsTrip DEF UpdateGlobalRowEnd, HasTrip, disk
  <2>2. /\ IndexedRecords(idx[Current]) <= total /\ total <= accepted[Current]
        /\ ("diskfull" \notin Faults) => total = IndexedRecords(idx[Current])
    BY <1>0, <2>1 DEF MemoryInv, TypeOK
  <2>3. \A m \in Trips : TripInv(m)'
    BY <2>1, <2>2, CountRow
  <2> QED
    BY <2>1, <2>3, CountDown
<1>15. CASE Crash
  <2>1. UNCHANGED <<files, idx, rows, accepted>> /\ ToDown
    BY <1>15 DEF Crash
  <2>2. ASSUME NEW k \in Trips PROVE TripInv(k)'
    <3>1. /\ TripInv(k) /\ accepted'[k] \in Nat /\ accepted'[k] >= accepted[k]
          /\ (k \notin files' => accepted'[k] = 0)
      BY <1>0, <2>1 DEF TripInv
    <3>2. CASE log'[k] = log[k]
      BY <1>0, <2>1, <3>1, <3>2, TripFrame
    <3>3. CASE log'[k] # log[k]
      <4>1. k = Current /\ pc = "flushLog" /\ ~logBad /\ log'[k] = Append(log[k], Torn)
        BY <1>15, <3>3 DEF Crash, TypeOK
      <4>2. \A i \in 1..Len(idx[k]) : Locates(idx[k][i], log[k])
        BY <4>1 DEF DamageInv, HasTrip
      <4> QED
        BY <1>0, <2>1, <3>1, <4>1, <4>2, TripFrame
    <3> QED
      BY <3>2, <3>3
  <2> QED
    BY <2>1, <2>2, CountDown
<1>16. CASE Tick
  BY <1>0, <1>1, <1>16 DEF Tick, disk, memory, CountInv, MemoryInv, HasTrip, Current
<1>17. CASE UNCHANGED vars
  BY <1>0, <1>1, <1>17 DEF vars, CountInv, MemoryInv, HasTrip, Current
<1> QED
  BY <1>2, <1>3, <1>4, <1>5, <1>6, <1>7, <1>8, <1>9, <1>10, <1>11, <1>12, <1>13,
     <1>14, <1>15, <1>16, <1>17 DEF Next, ThreadStep

\* It holds in every reachable state.
LEMMA CountCorrect == Spec => [](TypeInv /\ NewTripInv /\ DamageInv /\ CountInv)
<1>1. TypeInv /\ NewTripInv /\ DamageInv /\ CountInv /\ TypeInv' /\ [Next]_vars => CountInv'
  BY CountNext
<1> QED
  BY <1>1, CountInit, DamageCorrect, PTL DEF Spec

\* Whatever fails, the records an index reaches are the first ones its trip
\* accepted, each once and in order: a write that failed leaves nothing behind
\* that a reader would take for records, and counts go on behind it.
THEOREM StoredIsPrefixHolds == Spec => []StoredIsPrefix
<1>1. CountInv => StoredIsPrefix
  <2> SUFFICES ASSUME CountInv PROVE StoredIsPrefix
    OBVIOUS
  <2>1. /\ \A k \in Trips : \A i \in 1..Len(idx[k]) :
              Locates(idx[k][i], log[k]) => Numbered(idx[k], i, log[k])
        /\ \A k \in Trips : IndexedRecords(idx[k]) <= accepted[k]
    BY DEF CountInv, TripInv
  <2>2. (HasTrip /\ ~idxBad) => IndexedRecords(idx[Current]) + Len(buf) = accepted[Current]
    BY DEF CountInv, MemoryInv
  <2> QED
    BY <2>1, <2>2 DEF Numbered, HasTrip, StoredIsPrefix
<1> QED
  BY <1>1, CountCorrect, PTL

\* Whatever fails, a row with an end counts at least what the index of its trip
\* reaches and at most what the trip accepted: a write that failed can make a
\* row promise more than a reader finds, never the other way.
THEOREM RowCountsBetween ==
    Spec => [](\A k \in Trips : rows[k].end # 0 =>
                  IndexedRecords(idx[k]) <= rows[k].records /\ rows[k].records <= accepted[k])
<1>1. CountInv => \A k \in Trips : rows[k].end # 0 =>
                  IndexedRecords(idx[k]) <= rows[k].records /\ rows[k].records <= accepted[k]
  BY DEF CountInv, TripInv
<1> QED
  BY <1>1, CountCorrect, PTL

-----------------------------------------------------------------------------
(* The storage invariant, without failing stream writes: what is left of   *)
(* the parts above when damage cannot happen.                              *)

\* What disk and catalog hold of the trip k, at any step of any process.
DiskInv(k) ==
    /\ (k \notin files) => /\ log[k] = <<>> /\ idx[k] = <<>>
                           /\ rows[k] = NoRow /\ accepted[k] = 0
    /\ \A i \in 1..Len(idx[k]) : Locates(idx[k][i], log[k]) /\ Numbered(idx[k], i, log[k])
    /\ IndexedRecords(idx[k]) <= accepted[k]
    /\ (rows[k].end # 0) => rows[k].records = IndexedRecords(idx[k])

\* What the memory of the process adds to the disk state of its trip.
ThreadInv ==
    /\ (pc = "open") => {i \in TripIds : <<day, i>> \in files} = 0..(id - 1)
    /\ (pc \in {"header", "insert"}) => /\ Current \in files /\ idx[Current] = <<>>
                                       /\ rows[Current] = NoRow /\ accepted[Current] = 0
    /\ ~HasTrip => buf = <<>> /\ total = 0
    /\ HasTrip => /\ Current \in files
                  /\ HasRow(Current)
                  /\ rows[Current].end = 0
                  /\ total = IndexedRecords(idx[Current])
                  /\ IndexedRecords(idx[Current]) + Len(buf) = accepted[Current]
                  /\ \A j \in 1..Len(buf) : buf[j].n = IndexedRecords(idx[Current]) + j
    /\ (pc = "update") => buf = <<>>
    /\ (pc = "flushIdx") => /\ Locates(tie, log[Current])
                            /\ log[Current][tie.offset + 1].recs = buf
                            /\ tie.count = Len(buf)
    /\ ~logBad /\ ~idxBad

StorageInv == (\A k \in Trips : DiskInv(k)) /\ FilesInv /\ ThreadInv

\* Without damage, counts and files agree.
LEMMA StorageFromCounts ==
    ASSUME "diskfull" \notin Faults, NewTripInv, DamageInv, CountInv
    PROVE  StorageInv
<1>1. ASSUME NEW k \in Trips PROVE DiskInv(k)
  BY DEF NewTripInv, CountInv, TripInv, DiskInv
<1>2. ~logBad /\ ~idxBad
  BY DEF CountInv, MemoryInv
<1>3. ThreadInv
  <2>1. HasTrip => /\ Current \in files /\ HasRow(Current) /\ rows[Current].end = 0
                   /\ total = IndexedRecords(idx[Current])
                   /\ total + Len(buf) = accepted[Current]
                   /\ \A j \in 1..Len(buf) : buf[j].n = total + j
    BY <1>2 DEF NewTripInv, CountInv, MemoryInv
  <2>2. (pc = "flushIdx") => /\ Locates(tie, log[Current])
                             /\ log[Current][tie.offset + 1].recs = buf
                             /\ tie.count = Len(buf)
    BY <1>2 DEF DamageInv, CountInv, MemoryInv
  <2>3. /\ (pc \in {"header", "insert"}) => accepted[Current] = 0
        /\ ~HasTrip => buf = <<>> /\ total = 0
        /\ (pc = "update") => buf = <<>>
    BY DEF CountInv, MemoryInv
  <2>4. /\ (pc = "open") => {i \in TripIds : <<day, i>> \in files} = 0..(id - 1)
        /\ (pc \in {"header", "insert"}) => Current \in files /\ idx[Current] = <<>> /\ rows[Current] = NoRow
    BY DEF NewTripInv
  <2> QED
    BY <1>2, <2>1, <2>2, <2>3, <2>4 DEF ThreadInv
<1> QED
  BY <1>1, <1>3 DEF StorageInv, NewTripInv

\* The storage invariant holds in every reachable state.
LEMMA StorageCorrect ==
    ASSUME "diskfull" \notin Faults
    PROVE  Spec => [](TypeInv /\ StorageInv)
<1>1. TypeInv /\ NewTripInv /\ DamageInv /\ CountInv => TypeInv /\ StorageInv
  BY StorageFromCounts
<1> QED
  BY <1>1, CountCorrect, PTL

\* While no stream write fails, a reader finds a whole chunk of the log behind
\* every index entry: between the two writes of a flush, and after a crash
\* at any step.
THEOREM IndexPointsAtChunkHolds ==
    ASSUME "diskfull" \notin Faults
    PROVE  Spec => []IndexPointsAtChunk
<1>1. TypeInv /\ StorageInv => IndexPointsAtChunk
  BY DEF StorageInv, DiskInv, IndexPointsAtChunk
<1> QED
  BY <1>1, StorageCorrect, PTL

\* While no stream write fails, a catalog row with an end, written by endTrip
\* or by a later recovery, counts exactly the records its index reaches.
THEOREM RowMatchesIndexHolds ==
    ASSUME "diskfull" \notin Faults
    PROVE  Spec => []RowMatchesIndex
<1>1. TypeInv /\ StorageInv => RowMatchesIndex
  BY DEF StorageInv, DiskInv, RowMatchesIndex
<1> QED
  BY <1>1, StorageCorrect, PTL

-----------------------------------------------------------------------------
(* The loss of a crash.                                                    *)

\* The first n buffered records are within the time target of the first one.
Within(n) == \A i \in 1..n : buf[1].ts <= buf[i].ts /\ buf[i].ts - buf[1].ts < ChunkNs

\* Between callbacks the whole buffer is below both targets; while a chunk is
\* written, the buffer without its newest record is.
LossInv ==
    /\ (pc \notin {"run", "flushLog", "flushIdx"}) => buf = <<>>
    /\ (buf = <<>>) => bufBytes = 0
    /\ (pc = "run") => bufBytes < ChunkBytes /\ Within(Len(buf))
    /\ Within(Len(buf) - 1)
    /\ \E size \in Sizes \cup {0} : bufBytes - size < ChunkBytes

\* A buffer just emptied loses nothing.
LEMMA EmptyLoss ==
    ASSUME buf = <<>>, bufBytes = 0
    PROVE  /\ bufBytes < ChunkBytes /\ Within(Len(buf)) /\ Within(Len(buf) - 1)
           /\ \E size \in Sizes \cup {0} : bufBytes - size < ChunkBytes
<1>1. ChunkBytes \in Nat \ {0} /\ 0 \in Sizes \cup {0} /\ 0 - 0 < ChunkBytes /\ Len(<<>>) = 0
  BY ConstantsAssumption
<1> QED
  BY <1>1 DEF Within

\* Steps that empty the buffer keep the loss invariant.
LEMMA EmptiedLoss ==
    ASSUME buf' = <<>>, bufBytes' = 0
    PROVE  LossInv'
<1>1. ChunkBytes \in Nat \ {0} /\ 0 \in Sizes \cup {0} /\ 0 - 0 < ChunkBytes /\ Len(<<>>) = 0
  BY ConstantsAssumption
<1>2. Len(buf') = 0 /\ \E size \in Sizes \cup {0} : bufBytes' - size < ChunkBytes
  BY <1>1
<1>3. Within(Len(buf))' /\ Within(Len(buf) - 1)'
  BY <1>2 DEF Within
<1> QED
  BY <1>1, <1>2, <1>3 DEF LossInv

\* Every step keeps the loss invariant.
LEMMA LossNext ==
    ASSUME TypeInv, LossInv, [Next]_vars
    PROVE  LossInv'
<1> USE DEF TypeInv
<1>1. CASE \E size \in Sizes : AppendRecord(size)
  <2>1. PICK size \in Sizes : AppendRecord(size)
    BY <1>1
  <2>2. size \in Nat /\ ChunkBytes \in Nat \ {0} /\ ChunkNs \in Nat \ {0} /\ bufBytes \in Nat
    BY ConstantsAssumption DEF TypeOK
  <2>3. pc = "run" /\ bufBytes < ChunkBytes /\ Within(Len(buf)) /\ bufBytes' = bufBytes + size
    BY <2>1 DEF AppendRecord, LossInv
  <2> DEFINE r == [n |-> accepted[Current] + 1, ts |-> now]
  <2>4. buf \in Seq(Record) /\ r \in Record /\ buf' = Append(buf, r) /\ r.ts = now /\ now \in Nat
    BY <2>1, CurrentIsTrip, ConstantsAssumption DEF AppendRecord, TypeOK, Record, Time
  <2> HIDE DEF r
  <2>5. /\ buf' # <<>> /\ Len(buf') = Len(buf) + 1 /\ Len(buf) \in Nat
        /\ \A i \in 1..Len(buf) : buf'[i] = buf[i]
        /\ buf'[Len(buf')] = r
    BY <2>4, AppendProperties
  <2>6. Within(Len(buf) - 1)' /\ Within(Len(buf') - 1)
    BY <2>3, <2>5 DEF Within
  <2>7. ASSUME pc' = "run" PROVE bufBytes' < ChunkBytes /\ Within(Len(buf))'
    <3>1. ~Exceeded(buf', bufBytes')
      BY <2>1, <2>7 DEF AppendRecord
    <3>2. /\ ~(bufBytes' >= ChunkBytes) /\ ~(r.ts < buf'[1].ts)
          /\ ~(r.ts - buf'[1].ts >= ChunkNs)
      BY <2>5, <3>1 DEF Exceeded
    <3>3. buf'[1].ts \in Nat
      <4>1. buf' \in Seq(Record) /\ buf'[1] \in Record
        BY <2>4, <2>5, AppendProperties
      <4> QED
        BY <4>1, ConstantsAssumption DEF Record, Time
    <3>4. ASSUME NEW i \in 1..Len(buf')
          PROVE  buf'[1].ts <= buf'[i].ts /\ buf'[i].ts - buf'[1].ts < ChunkNs
      <4>1. CASE i = Len(buf')
        BY <2>2, <2>4, <2>5, <3>2, <3>3, <4>1
      <4>2. CASE i \in 1..Len(buf)
        <5>1. buf'[i] = buf[i] /\ buf'[1] = buf[1]
          BY <2>5, <4>2
        <5> QED
          BY <2>3, <4>2, <5>1 DEF Within
      <4> QED
        BY <2>5, <4>1, <4>2
    <3> QED
      BY <2>2, <2>3, <3>2, <3>4 DEF Within
  <2>8. \E s \in Sizes \cup {0} : bufBytes' - s < ChunkBytes
    <3>1. bufBytes' - size < ChunkBytes
      BY <2>2, <2>3
    <3> QED
      BY <3>1
  <2>9. pc' \in {"run", "flushLog"}
    BY <2>1 DEF AppendRecord
  <2> QED
    BY <2>5, <2>6, <2>7, <2>8, <2>9 DEF LossInv
<1>2. CASE FlushIdx
  <2>1. buf' = <<>> /\ bufBytes' = 0
    BY <1>2 DEF FlushIdx, ClearBuffer
  <2> QED
    BY <2>1, EmptiedLoss
<1>3. CASE ToDown
  <2>1. buf' = <<>> /\ bufBytes' = 0
    BY <1>3 DEF ToDown
  <2> QED
    BY <2>1, EmptiedLoss
<1>4. ASSUME UNCHANGED <<buf, bufBytes>>,
             (pc' \notin {"run", "flushLog", "flushIdx"}) => buf = <<>>,
             (pc' = "run") => (pc = "run" \/ buf = <<>>)
      PROVE  LossInv'
  <2>1. (buf = <<>>) => bufBytes < ChunkBytes /\ Within(Len(buf))
    BY EmptyLoss DEF LossInv
  <2> QED
    BY <1>4, <2>1 DEF LossInv, Within
<1>5. CASE StartNode \/ GetTripId \/ OpenTripFiles \/ WriteTripHeader \/ InsertGlobalRow
  BY <1>4, <1>5 DEF StartNode, GetTripId, OpenTripFiles, WriteTripHeader, InsertGlobalRow,
     memory, LossInv
<1>6. CASE \E k \in Trips : RecoverGlobalRow(k)
  BY <1>4, <1>6 DEF RecoverGlobalRow, LossInv
<1>7. CASE FlushLog \/ EndTrip
  BY <1>4, <1>7 DEF FlushLog, EndTrip, LossInv
<1>8. CASE OpenTripFilesFails \/ InsertGlobalRowFails \/ UpdateGlobalRowEnd \/ Crash
  BY <1>3, <1>8 DEF OpenTripFilesFails, InsertGlobalRowFails, UpdateGlobalRowEnd, Crash
<1>9. CASE Tick \/ UNCHANGED vars
  BY <1>4, <1>9 DEF Tick, memory, vars, LossInv
<1> QED
  BY <1>1, <1>2, <1>5, <1>6, <1>7, <1>8, <1>9 DEF Next, ThreadStep

\* The loss invariant holds in every reachable state.
LEMMA LossCorrect == Spec => [](TypeInv /\ LossInv)
<1>1. Init => TypeInv /\ LossInv
  <2> SUFFICES ASSUME Init PROVE LossInv
    BY TypeInit
  <2>1. buf = <<>> /\ bufBytes = 0 /\ pc = "down"
    BY DEF Init
  <2> QED
    BY <2>1, EmptyLoss DEF LossInv
<1>2. TypeInv /\ LossInv /\ [Next]_vars => (TypeInv /\ LossInv)'
  BY TypeNext, LossNext
<1> QED
  BY <1>1, <1>2, PTL DEF Spec

\* What a crash can lose of a trip is one chunk: at any step all buffered
\* records but the newest are within the byte and the time target, also when
\* the clock is set back and when writes fail.
THEOREM LossIsOneChunkHolds == Spec => []LossIsOneChunk
<1>1. TypeInv /\ LossInv => LossIsOneChunk
  <2> SUFFICES ASSUME TypeInv, LossInv PROVE LossIsOneChunk
    OBVIOUS
  <2> DEFINE older == SubSeq(buf, 1, Len(buf) - 1)
  <2>1. buf \in Seq(Record) /\ Len(buf) \in Nat /\ ChunkNs \in Nat
    BY ConstantsAssumption DEF TypeInv, TypeOK
  <2>2. ASSUME NEW i \in 1..Len(older)
        PROVE  /\ older[i] = buf[i] /\ i \in 1..(Len(buf) - 1)
               /\ buf[i].ts \in Int /\ buf[1].ts \in Int
    <3>1. older[i] = buf[i] /\ i \in 1..(Len(buf) - 1)
      BY <2>1
    <3>2. buf[i] \in Record /\ buf[1] \in Record
      BY <2>1, <3>1
    <3> QED
      BY <3>1, <3>2, ConstantsAssumption DEF Record, Time
  <2>3. \A i, j \in 1..Len(older) : older[j].ts - older[i].ts < ChunkNs
    <3>1. SUFFICES ASSUME NEW i \in 1..Len(older), NEW j \in 1..Len(older)
                   PROVE  older[j].ts - older[i].ts < ChunkNs
      OBVIOUS
    <3>2. /\ buf[1].ts <= buf[i].ts /\ buf[j].ts - buf[1].ts < ChunkNs
      BY <2>2 DEF LossInv, Within
    <3>3. /\ older[i] = buf[i] /\ older[j] = buf[j]
          /\ buf[1].ts \in Int /\ buf[i].ts \in Int /\ buf[j].ts \in Int
      BY <2>2
    <3> HIDE DEF older
    <3> QED
      BY <2>1, <3>2, <3>3
  <2> QED
    BY <2>3 DEF LossIsOneChunk, LossInv
<1> QED
  BY <1>1, LossCorrect, PTL

=============================================================================
