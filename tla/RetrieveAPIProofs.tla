-------------------------- MODULE RetrieveAPIProofs --------------------------
(* Theorems about RetrieveAPI, for every value of its constants.           *)
EXTENDS RetrieveAPI, FiniteSetTheorems, SequenceTheorems, TLAPS

-----------------------------------------------------------------------------
(* Types.                                                                  *)

\* A log has one chunk for each entry of its index, in the same order, and one
\* more between the two writes of a flush or after a crash between them.
IndexInv ==
    \A f \in Inodes :
        /\ Len(log[f]) \in {Len(idx[f]), Len(idx[f]) + 1}
        /\ \A n \in 1..Len(idx[f]) : idx[f][n].at = n

\* Types, the correspondence of logs and indexes, and finitely many references.
TypeInv == TypeOK /\ IndexInv /\ IsFiniteSet(refs)

\* Times, days and trips as numbers and pairs.
LEMMA Basics ==
    /\ MaxTime \in Nat /\ MaxTrips \in Nat /\ MaxFiles \in Nat
    /\ 1 \in Time
    /\ \A t \in Time : DayOf[t] \in Days /\ t \in Nat /\ t # 0
    /\ \A d \in Days : d \in Nat /\ d # 0
    /\ \A k \in Trips : k[1] \in Days /\ k[2] \in TripIds /\ k = <<k[1], k[2]>> /\ k # NoTrip
    /\ \A f \in Inodes : f \in Nat /\ f # 0
  BY RetrieveAssumption DEF Time, Days, Trips, NoTrip, TripIds, Inodes

\* A file that a name leads to is an inode.
LEMMA HereType ==
    ASSUME TypeOK, NEW k \in Trips, path[k] # 0
    PROVE  path[k] \in Inodes
  BY Basics DEF TypeOK, Inodes

\* The chunk of an index entry, and its records, are there.
LEMMA ChunkType ==
    ASSUME TypeInv, NEW f \in Inodes, NEW n \in 1..Len(log[f])
    PROVE  /\ log[f] \in Seq(Seq(Time)) /\ log[f][n] \in Seq(Time)
           /\ Len(log[f][n]) \in Nat
           /\ \A i \in 1..Len(log[f][n]) : log[f][n][i] \in Time
<1>1. log[f] \in Seq(Seq(Time))
  BY DEF TypeInv, TypeOK
<1>2. log[f][n] \in Seq(Time)
  BY <1>1
<1> QED
  BY <1>1, <1>2

\* An index entry is the entry of the chunk with its number.
LEMMA EntryType ==
    ASSUME TypeInv, NEW f \in Inodes, NEW n \in 1..Len(idx[f])
    PROVE  /\ idx[f] \in Seq(Entry) /\ idx[f][n] \in Entry /\ idx[f][n].at = n
           /\ n \in 1..Len(log[f])
           /\ idx[f][n].start \in Time /\ idx[f][n].end \in Time
<1>1. idx[f] \in Seq(Entry) /\ log[f] \in Seq(Seq(Time))
  BY DEF TypeInv, TypeOK
<1>2. idx[f][n] \in Entry
  BY <1>1
<1>3. Len(log[f]) \in {Len(idx[f]), Len(idx[f]) + 1} /\ idx[f][n].at = n
  BY DEF TypeInv, IndexInv
<1>4. n \in 1..Len(log[f])
  BY <1>1, <1>3
<1> QED
  BY <1>1, <1>2, <1>3, <1>4 DEF Entry

\* The references an entry adds are of the trip that is read and of its chunk,
\* and finite in number.
LEMMA MatchingType ==
    ASSUME TypeInv, rpc = "scan", NEW n \in 1..Len(idx[fd])
    PROVE  /\ Matching(idx[fd][n]) \subseteq Ref
           /\ IsFiniteSet(Matching(idx[fd][n]))
           /\ \A r \in Matching(idx[fd][n]) :
                 /\ r.trip = cur /\ r.file = fd /\ r.at = n
                 /\ r.i \in InRange(r.file, r.at, range[1], range[2])
<1> DEFINE J == InRange(fd, n, range[1], range[2])
           h == [i \in J |-> [trip |-> cur, at |-> n, i |-> i, file |-> fd]]
<1>1. cur \in Trips /\ fd \in Inodes
  BY DEF TypeInv, TypeOK
<1>2. n \in Nat /\ n \in 1..Len(log[fd]) /\ idx[fd][n].at = n
  BY <1>1, EntryType
<1>3. Len(log[fd][n]) \in Nat
  BY <1>1, <1>2, ChunkType
<1>4. IsFiniteSet(J) /\ J \subseteq Nat
  <2>1. IsFiniteSet(1..Len(log[fd][n]))
    BY <1>3, FS_Interval
  <2>2. J \in SUBSET (1..Len(log[fd][n]))
    BY DEF InRange
  <2> QED
    BY <1>3, <2>1, <2>2, FS_Subset
<1>5. Matching(idx[fd][n]) = {h[i] : i \in J}
  BY <1>2 DEF Matching
<1>6. h \in Surjection(J, Matching(idx[fd][n]))
  BY <1>5 DEF Surjection
<1>7. IsFiniteSet(Matching(idx[fd][n]))
  BY <1>4, <1>6, FS_Surjection
<1> QED
  BY <1>1, <1>2, <1>4, <1>5, <1>7 DEF Ref

\* Before anything has run, every variable has its type.
LEMMA TypeInit == Init => TypeInv
<1> SUFFICES ASSUME Init PROVE TypeInv
  OBVIOUS
<1>1. /\ path \in [Trips -> 0..MaxFiles] /\ log \in [Inodes -> Seq(Seq(Time))]
      /\ idx \in [Inodes -> Seq(Entry)]
      /\ rows \in [Trips -> [start : 0..MaxTime, end : 0..MaxTime]]
  BY Basics DEF Init, NoRow
<1>2. now \in Time /\ range \in Time \X Time /\ files \in 0..MaxFiles /\ buf \in Seq(Time)
  BY Basics DEF Init
<1>3. TypeOK
  BY <1>1, <1>2, Basics DEF Init, TypeOK
<1>4. IndexInv /\ IsFiniteSet(refs)
  BY FS_EmptySet DEF Init, IndexInv
<1> QED
  BY <1>3, <1>4 DEF TypeInv

\* Every step of the ingest node keeps the types.
LEMMA TypeIngest ==
    ASSUME TypeInv,
           \/ \E k \in Trips : RecoverRow(k)
           \/ BeginTrip \/ AppendRecord \/ FlushLog \/ FlushIdx \/ EndTrip \/ Crash \/ Tick
    PROVE  TypeInv'
<1>1. CASE \E k \in Trips : RecoverRow(k)
  <2>1. PICK k \in Trips : RecoverRow(k)
    BY <1>1
  <2>2. path[k] \in Inodes
    BY <2>1, HereType DEF RecoverRow, TypeInv
  <2>3. Len(idx[path[k]]) \in 1..Len(idx[path[k]])
    BY <2>1, <2>2 DEF RecoverRow, TypeInv, TypeOK
  <2>4. idx[path[k]][Len(idx[path[k]])].end \in 0..MaxTime
    BY <2>2, <2>3, EntryType, Basics, SMTT(30) DEF Time
  <2>5. rows' \in [Trips -> [start : 0..MaxTime, end : 0..MaxTime]]
    BY <2>1, <2>4 DEF RecoverRow, TypeInv, TypeOK
  <2> QED
    BY <2>1, <2>5 DEF RecoverRow, TypeInv, TypeOK, IndexInv, reader
<1>2. CASE BeginTrip
  <2>1. now \in 0..MaxTime
    BY Basics DEF TypeInv, TypeOK, Time
  <2>2. rows' \in [Trips -> [start : 0..MaxTime, end : 0..MaxTime]] /\ active' \in Trips
    BY <1>2, <2>1, Basics DEF BeginTrip, TypeInv, TypeOK
  <2>3. files' \in 0..MaxFiles /\ path' \in [Trips -> 0..MaxFiles]
    <3>1. files \in 0..MaxFiles /\ files < MaxFiles /\ MaxFiles \in Nat
      BY <1>2, Basics, Zenon DEF BeginTrip, TypeInv, TypeOK
    <3>2. files + 1 \in 0..MaxFiles
      BY <3>1
    <3> QED
      BY <1>2, <3>2 DEF BeginTrip, TypeInv, TypeOK
  <2> QED
    BY <1>2, <2>2, <2>3 DEF BeginTrip, TypeInv, TypeOK, IndexInv, reader
<1>3. CASE AppendRecord
  <2>1. buf' \in Seq(Time)
    BY <1>3 DEF AppendRecord, TypeInv, TypeOK
  <2> QED
    BY <1>3, <2>1 DEF AppendRecord, TypeInv, TypeOK, IndexInv, reader
<1>4. CASE FlushLog
  <2>1. Here \in Inodes /\ active \in Trips
    BY <1>4, HereType DEF FlushLog, Here, TypeInv, TypeOK
  <2>2. /\ log' \in [Inodes -> Seq(Seq(Time))]
        /\ Len(log'[Here]) = Len(log[Here]) + 1
        /\ \A f \in Inodes \ {Here} : log'[f] = log[f]
    BY <1>4, <2>1 DEF FlushLog, TypeInv, TypeOK
  <2>3. Len(log[Here]) = Len(idx[Here])
    BY <1>4, <2>1 DEF FlushLog, Pending, TypeInv, TypeOK, IndexInv
  <2>4. IndexInv'
    BY <1>4, <2>1, <2>2, <2>3 DEF FlushLog, IndexInv, TypeInv
  <2> QED
    BY <1>4, <2>2, <2>4 DEF FlushLog, TypeInv, TypeOK, reader
<1>5. CASE FlushIdx
  <2>1. Here \in Inodes /\ active \in Trips
    BY <1>5, HereType DEF FlushIdx, Here, TypeInv, TypeOK
  <2> DEFINE x == [start |-> buf[1], end |-> buf[Len(buf)], at |-> Len(log[Here])]
  <2>2. buf[1] \in Time /\ buf[Len(buf)] \in Time /\ Len(log[Here]) \in Nat
    BY <1>5, <2>1 DEF FlushIdx, TypeInv, TypeOK
  <2>3. x \in Entry
    BY <2>2 DEF Entry
  <2>4. idx' = [idx EXCEPT ![Here] = Append(@, x)]
    BY <1>5 DEF FlushIdx
  <2>5. Len(log[Here]) = Len(idx[Here]) + 1 /\ idx[Here] \in Seq(Entry)
    BY <1>5, <2>1 DEF FlushIdx, Pending, TypeInv, TypeOK, IndexInv
  <2> HIDE DEF x
  <2>6. /\ idx' \in [Inodes -> Seq(Entry)]
        /\ idx'[Here] = Append(idx[Here], x)
        /\ \A f \in Inodes \ {Here} : idx'[f] = idx[f]
    BY <2>1, <2>3, <2>4 DEF TypeInv, TypeOK
  <2>7. x.at = Len(idx[Here]) + 1
    BY <2>5 DEF x
  <2>8. Len(idx'[Here]) = Len(log[Here]) /\ \A n \in 1..Len(idx'[Here]) : idx'[Here][n].at = n
    BY <2>1, <2>3, <2>5, <2>6, <2>7 DEF TypeInv, IndexInv
  <2>9. IndexInv'
    BY <1>5, <2>6, <2>8 DEF FlushIdx, IndexInv, TypeInv
  <2> QED
    <3>1. buf' \in Seq(Time)
      BY <1>5 DEF FlushIdx
    <3> QED
      BY <1>5, <2>6, <2>9, <3>1 DEF FlushIdx, TypeInv, TypeOK, reader
<1>6. CASE EndTrip
  <2>1. now \in 0..MaxTime
    BY Basics DEF TypeInv, TypeOK, Time
  <2>2. rows' \in [Trips -> [start : 0..MaxTime, end : 0..MaxTime]]
    BY <1>6, <2>1 DEF EndTrip, TypeInv, TypeOK
  <2> QED
    BY <1>6, <2>2 DEF EndTrip, TypeInv, TypeOK, IndexInv, reader
<1>7. CASE Crash
  BY <1>7, SMTT(30) DEF Crash, TypeInv, TypeOK, IndexInv, reader
<1>8. CASE Tick
  <2>1. now' \in Time
    <3>1. now \in 1..MaxTime /\ now < MaxTime /\ now' = now + 1 /\ MaxTime \in Nat
      <4>1. now \in Time
        BY DEF TypeInv, TypeOK
      <4> QED
        BY <1>8, <4>1, Basics DEF Tick, Time
    <3> QED
      BY <3>1 DEF Time
  <2> QED
    BY <1>8, <2>1 DEF Tick, TypeInv, TypeOK, IndexInv, reader
<1> QED
  BY <1>1, <1>2, <1>3, <1>4, <1>5, <1>6, <1>7, <1>8

\* Every step of the archiver keeps the types.
LEMMA TypeArchive ==
    ASSUME TypeInv,
           \/ \E k \in Trips : RemoveTrip(k)
           \/ \E d \in Days : DeleteRows(d) \/ RemoveFolder(d)
    PROVE  TypeInv'
<1>1. CASE \E k \in Trips : RemoveTrip(k)
  <2>1. path' \in [Trips -> 0..MaxFiles]
    BY <1>1, Basics DEF RemoveTrip, TypeInv, TypeOK
  <2> QED
    BY <1>1, <2>1 DEF RemoveTrip, TypeInv, TypeOK, IndexInv, reader
<1>2. CASE \E d \in Days : DeleteRows(d)
  <2>1. rows' \in [Trips -> [start : 0..MaxTime, end : 0..MaxTime]]
    BY <1>2, Basics DEF DeleteRows, NoRow, TypeInv, TypeOK
  <2> QED
    BY <1>2, <2>1 DEF DeleteRows, TypeInv, TypeOK, IndexInv, reader
<1>3. CASE \E d \in Days : RemoveFolder(d)
  BY <1>3 DEF RemoveFolder, TypeInv, TypeOK, IndexInv, reader
<1> QED
  BY <1>1, <1>2, <1>3

\* What a query of the range s..e can reach are chunks of inodes.
LEMMA StoredType ==
    ASSUME TypeInv, NEW s \in Time, NEW e \in Time, NEW x \in Stored(s, e)
    PROVE  \E k \in Trips :
              /\ path[k] # 0 /\ path[k] \in Inodes /\ rows[k] # NoRow
              /\ \E n \in 1..Len(idx[path[k]]) :
                    \E i \in InRange(path[k], n, s, e) : x = <<path[k], n, i>> /\ i \in Nat /\ n \in Nat
<1>1. PICK k \in Trips : path[k] # 0 /\ rows[k] # NoRow /\ x \in RecordsOf(path[k], s, e)
  BY DEF Stored
<1>2. path[k] \in Inodes
  BY <1>1, HereType DEF TypeInv
<1>3. PICK n \in 1..Len(idx[path[k]]) :
          x \in {<<path[k], idx[path[k]][n].at, i>> : i \in InRange(path[k], idx[path[k]][n].at, s, e)}
  BY <1>1 DEF RecordsOf
<1>4. idx[path[k]][n].at = n /\ n \in 1..Len(log[path[k]])
  BY <1>2, EntryType
<1>5. Len(log[path[k]][n]) \in Nat
  BY <1>2, <1>4, ChunkType
<1> QED
  BY <1>1, <1>2, <1>3, <1>4, <1>5, SMTT(30) DEF InRange

\* Every step of the reader keeps the types.
LEMMA TypeReader ==
    ASSUME TypeInv,
           \/ \E s, e \in Time : Query(s, e) \/ QueryBusy(s, e)
           \/ SkipTrip \/ OpenTrip \/ ReadEntry \/ EndOfIndex \/ Finish
    PROVE  TypeInv'
<1>1. CASE \E s, e \in Time : Query(s, e)
  <2>1. PICK s \in Time, e \in Time : Query(s, e)
    BY <1>1
  <2>2. due' \subseteq Inodes \X Nat \X Nat
    BY <2>1, StoredType DEF Query
  <2>3. range' \in Time \X Time /\ todo' \subseteq Trips /\ found' \in Nat /\ refs' = {}
    BY <2>1 DEF Query
  <2> QED
    BY <2>1, <2>2, <2>3, FS_EmptySet DEF Query, TypeInv, TypeOK, IndexInv, store
<1>2. CASE SkipTrip
  BY <1>2 DEF SkipTrip, TypeInv, TypeOK, IndexInv, store
<1>3. CASE OpenTrip
  <2>1. PICK k \in todo : Opens(k) /\ todo' = todo \ {k} /\ cur' = k /\ fd' = path[k]
    BY <1>3 DEF OpenTrip
  <2>2. k \in Trips /\ path[k] \in Inodes /\ path[k] \in 0..MaxFiles
    BY <2>1, HereType DEF Opens, TypeInv, TypeOK
  <2> QED
    BY <1>3, <2>1, <2>2 DEF OpenTrip, TypeInv, TypeOK, IndexInv, store
<1>4. CASE ReadEntry
  <2> DEFINE x == idx[fd][pos + 1]
             new == IF EntryMatches(x, range[1], range[2]) THEN Matching(x) ELSE {}
  <2>1. pos \in Nat /\ fd \in Inodes /\ rpc = "scan" /\ pos < Len(idx[fd])
    BY <1>4 DEF ReadEntry, TypeInv, TypeOK
  <2>2. pos + 1 \in 1..Len(idx[fd])
    BY <2>1 DEF TypeInv, TypeOK
  <2>3. new \subseteq Ref /\ IsFiniteSet(new)
    BY <2>1, <2>2, MatchingType, FS_EmptySet
  <2>4. refs' = refs \cup new /\ found' = found + Cardinality(new) /\ pos' = pos + 1
    BY <1>4 DEF ReadEntry, NextEntry
  <2> HIDE DEF new
  <2>5. IsFiniteSet(refs') /\ Cardinality(new) \in Nat
    BY <2>3, <2>4, FS_Union, FS_CardinalityType DEF TypeInv
  <2>6. refs' \subseteq Ref /\ found' \in Nat /\ pos' \in Nat
    BY <2>1, <2>3, <2>4, <2>5 DEF TypeInv, TypeOK
  <2> QED
    BY <1>4, <2>5, <2>6 DEF ReadEntry, TypeInv, TypeOK, IndexInv, store
<1>5. CASE EndOfIndex
  <2>1. fd' \in 0..MaxFiles /\ cur' \in Trips \cup {NoTrip} /\ pos' \in Nat
    BY <1>5, Basics DEF EndOfIndex
  <2> QED
    BY <1>5, <2>1 DEF EndOfIndex, TypeInv, TypeOK, IndexInv, store
<1>6. CASE Finish
  BY <1>6 DEF Finish, TypeInv, TypeOK, IndexInv, store
<1>7. CASE \E s, e \in Time : QueryBusy(s, e)
  BY <1>7, FS_EmptySet DEF QueryBusy, TypeInv, TypeOK, IndexInv, store
<1> QED
  BY <1>1, <1>2, <1>3, <1>4, <1>5, <1>6, <1>7

\* No step, and no stutter, breaks a type.
LEMMA TypeNext == TypeInv /\ [Next]_vars => TypeInv'
<1>1. CASE UNCHANGED vars
  BY <1>1 DEF TypeInv, TypeOK, IndexInv, vars
<1> QED
  BY <1>1, TypeIngest, TypeArchive, TypeReader DEF Next

\* Every variable keeps its type, and logs and indexes correspond.
LEMMA TypesHold == Spec => []TypeInv
  BY TypeInit, TypeNext, PTL DEF Spec

\* Every variable keeps its type.
THEOREM RetrieveTypeCorrect == Spec => []TypeOK
<1>1. TypeInv => TypeOK
  BY DEF TypeInv
<1> QED
  BY <1>1, TypesHold, PTL

-----------------------------------------------------------------------------
(* A reference reads its own record.                                       *)

\* Logs and indexes only grow.
LEMMA FilesGrow ==
    ASSUME TypeInv, [Next]_vars, NEW f \in Inodes
    PROVE  /\ Len(log[f]) <= Len(log'[f])
           /\ \A n \in 1..Len(log[f]) : log'[f][n] = log[f][n]
           /\ Len(idx[f]) <= Len(idx'[f])
           /\ \A n \in 1..Len(idx[f]) : idx'[f][n] = idx[f][n]
<1>1. log[f] \in Seq(Seq(Time)) /\ idx[f] \in Seq(Entry)
  BY DEF TypeInv, TypeOK
<1>2. CASE FlushLog
  <2>1. log'[f] = log[f] \/ log'[f] = Append(log[f], buf)
    BY <1>2 DEF FlushLog, TypeInv, TypeOK
  <2>2. buf \in Seq(Time) /\ idx' = idx
    BY <1>2 DEF FlushLog, TypeInv, TypeOK
  <2> QED
    BY <1>1, <2>1, <2>2
<1>3. CASE FlushIdx
  <2> DEFINE x == [start |-> buf[1], end |-> buf[Len(buf)], at |-> Len(log[Here])]
  <2>1. idx'[f] = idx[f] \/ idx'[f] = Append(idx[f], x)
    BY <1>3 DEF FlushIdx, TypeInv, TypeOK
  <2>2. log' = log
    BY <1>3 DEF FlushIdx
  <2> HIDE DEF x
  <2> QED
    BY <1>1, <2>1, <2>2
<1>4. CASE ~FlushLog /\ ~FlushIdx
  <2>1. UNCHANGED <<log, idx>>
    BY <1>4 DEF Next, vars, store, RecoverRow, RemoveTrip, BeginTrip, AppendRecord, EndTrip, Crash,
                Tick, DeleteRows, RemoveFolder, Query, QueryBusy, SkipTrip, OpenTrip, ReadEntry,
                EndOfIndex, Finish
  <2> QED
    BY <1>1, <2>1
<1> QED
  BY <1>2, <1>3, <1>4

\* A chunk keeps its records.
LEMMA ChunkStays ==
    ASSUME TypeInv, [Next]_vars, NEW f \in Inodes, NEW n \in 1..Len(log[f]), NEW s, NEW e
    PROVE  InRange(f, n, s, e)' = InRange(f, n, s, e)
  BY FilesGrow DEF InRange

\* Names that lead nowhere any more are of days that are over, and no trip
\* begins in a day that is over.
NameInv ==
    /\ \A d \in leaving : d < DayOf[now]
    /\ \A r \in refs : path[r.trip] = r.file \/ (path[r.trip] = 0 /\ r.trip[1] < DayOf[now])
    /\ (rpc = "scan") => path[cur] = fd \/ (path[cur] = 0 /\ cur[1] < DayOf[now])

\* Every step keeps names and inodes together.
LEMMA NameNext ==
    ASSUME TypeInv, NameInv, [Next]_vars
    PROVE  NameInv'
<1> USE DEF NameInv
<1>1. /\ \A r \in refs : r.trip \in Trips /\ r.file \in Inodes /\ r.file # 0
      /\ (rpc = "scan") => cur \in Trips /\ fd # 0
      /\ \A k \in Trips : k[1] \in Nat
      /\ DayOf[now] \in Nat
  BY Basics DEF TypeInv, TypeOK, Ref
<1>2. CASE BeginTrip
  <2>1. PICK k \in Trips :
            /\ k[1] = DayOf[now]
            /\ \A j \in Trips : j # k => path'[j] = path[j]
            /\ path[k] # 0 => path'[k] = path[k]
    BY <1>2, <1>1 DEF BeginTrip, TypeInv, TypeOK
  <2>2. UNCHANGED <<now, leaving, refs, rpc, cur, fd>>
    BY <1>2 DEF BeginTrip, reader
  <2>3. \A j \in Trips : j[1] < DayOf[now] \/ path[j] # 0 => path'[j] = path[j]
    BY <1>1, <2>1
  <2> QED
    BY <1>1, <2>2, <2>3
<1>3. CASE Tick
  <2>1. /\ now \in Time /\ now' \in Time /\ now <= now'
        /\ UNCHANGED <<leaving, refs, rpc, cur, fd, path>>
    <3>1. now \in Time /\ now < MaxTime /\ now' = now + 1
      BY <1>3 DEF Tick, TypeInv, TypeOK
    <3>2. now' \in Time /\ now <= now'
      BY <3>1, Basics DEF Time
    <3> QED
      BY <1>3, <3>1, <3>2 DEF Tick, reader
  <2>2. DayOf[now] <= DayOf[now'] /\ DayOf[now'] \in Nat
    BY <2>1, Basics, RetrieveAssumption
  <2>3. \A d \in leaving : d \in Nat
    BY Basics DEF TypeInv, TypeOK
  <2> QED
    BY <1>1, <2>1, <2>2, <2>3
<1>4. CASE \E d \in Days : DeleteRows(d)
  BY <1>4 DEF DeleteRows, PastDays, reader
<1>5. CASE \E k \in Trips : RemoveTrip(k)
  <2>1. PICK k \in Trips : k[1] \in leaving /\ path' = [path EXCEPT ![k] = 0]
    BY <1>5 DEF RemoveTrip
  <2>2. k[1] < DayOf[now] /\ \A j \in Trips : path'[j] = IF j = k THEN 0 ELSE path[j]
    BY <2>1 DEF TypeInv, TypeOK
  <2> QED
    BY <1>1, <1>5, <2>2 DEF RemoveTrip, reader
<1>6. CASE \E d \in Days : RemoveFolder(d)
  BY <1>6 DEF RemoveFolder, reader
<1>7. CASE \/ \E k \in Trips : RecoverRow(k)
           \/ AppendRecord \/ FlushLog \/ FlushIdx \/ EndTrip \/ Crash
  BY <1>7 DEF RecoverRow, AppendRecord, FlushLog, FlushIdx, EndTrip, Crash, reader
<1>8. CASE OpenTrip
  BY <1>8 DEF OpenTrip, store
<1>9. CASE ReadEntry
  <2>1. pos + 1 \in 1..Len(idx[fd]) /\ rpc = "scan"
    BY <1>9 DEF ReadEntry, TypeInv, TypeOK
  <2>2. \A r \in refs' \ refs : r.trip = cur /\ r.file = fd
    BY <1>9, <2>1, MatchingType DEF ReadEntry
  <2> QED
    BY <1>9, <2>1, <2>2 DEF ReadEntry, store
<1>10. CASE (\E s, e \in Time : Query(s, e) \/ QueryBusy(s, e)) \/ SkipTrip \/ EndOfIndex \/ Finish
  BY <1>10 DEF Query, QueryBusy, SkipTrip, EndOfIndex, Finish, store
<1>11. CASE UNCHANGED vars
  BY <1>11 DEF vars
<1> QED
  BY <1>2, <1>3, <1>4, <1>5, <1>6, <1>7, <1>8, <1>9, <1>10, <1>11 DEF Next

\* Names and inodes always belong together.
LEMMA NameHolds == Spec => []NameInv
<1>1. Init => NameInv
  BY DEF Init, NameInv
<1>2. TypeInv /\ NameInv /\ [Next]_vars => NameInv'
  BY NameNext
<1> QED
  BY <1>1, <1>2, TypesHold, PTL DEF Spec

\* A reference that is used late, after its trip was archived and others
\* began, reads the record it was made for or nothing.
THEOREM LoadsItsRecordHolds == Spec => []LoadsItsRecord
<1>1. NameInv => LoadsItsRecord
  <2> SUFFICES ASSUME NameInv, NEW r \in refs
               PROVE  LoadPayload(r) \in {ReadFails, <<r.file, r.at, r.i>>}
    BY DEF LoadsItsRecord
  <2>1. path[r.trip] = r.file \/ path[r.trip] = 0
    BY DEF NameInv
  <2> QED
    BY <2>1 DEF LoadPayload
<1> QED
  BY <1>1, NameHolds, PTL

-----------------------------------------------------------------------------
(* No record twice.                                                        *)

\* The references are counted by the length of the vector. Those of the trip
\* that is read are of the entries already read, and no trip is read again.
ScanInv ==
    /\ NoRecordTwice
    /\ (rpc = "scan") => cur \notin todo /\ pos <= Len(idx[fd])
    /\ \A r \in refs :
          /\ r.trip \notin todo
          /\ r.at \in 1..Len(idx[r.file])
          /\ (rpc = "scan" /\ r.trip = cur) => r.at <= pos

\* Every step keeps the scan in order.
LEMMA ScanNext ==
    ASSUME TypeInv, ScanInv, [Next]_vars
    PROVE  ScanInv'
<1> USE DEF ScanInv
<1>1. \A f \in Inodes : /\ Len(idx[f]) <= Len(idx'[f])
                        /\ Len(idx[f]) \in Nat /\ Len(idx'[f]) \in Nat
  <2>1. TypeInv'
    BY TypeNext
  <2>2. ASSUME NEW f \in Inodes
        PROVE  Len(idx[f]) \in Nat /\ Len(idx'[f]) \in Nat
    <3>1. idx[f] \in Seq(Entry) /\ idx'[f] \in Seq(Entry)
      BY <2>1 DEF TypeInv, TypeOK
    <3> QED
      BY <3>1
  <2> QED
    BY <2>2, FilesGrow
<1>2. /\ \A r \in refs : r.file \in Inodes /\ r.at \in 1..Len(idx'[r.file])
      /\ (rpc = "scan") => fd \in Inodes /\ pos \in Nat /\ pos <= Len(idx'[fd])
  <2>1. \A r \in refs : r.file \in Inodes /\ r.at \in 1..Len(idx[r.file])
    BY DEF TypeInv, TypeOK, Ref
  <2> QED
    BY <1>1, <2>1 DEF TypeInv, TypeOK
<1>3. CASE UNCHANGED reader
  BY <1>2, <1>3 DEF reader, NoRecordTwice
<1>4. CASE \E s, e \in Time : Query(s, e) \/ QueryBusy(s, e)
  BY <1>4, FS_EmptySet DEF Query, QueryBusy, NoRecordTwice
<1>5. CASE SkipTrip
  BY <1>2, <1>5 DEF SkipTrip, NoRecordTwice, store
<1>6. CASE OpenTrip
  <2>1. PICK k \in todo : Opens(k) /\ todo' = todo \ {k} /\ cur' = k /\ fd' = path[k]
    BY <1>6 DEF OpenTrip
  <2>2. path[k] \in Inodes
    BY <2>1, HereType DEF Opens, TypeInv, TypeOK
  <2> QED
    BY <1>1, <1>2, <1>6, <2>1, <2>2 DEF OpenTrip, NoRecordTwice
<1>7. CASE ReadEntry
  <2> DEFINE x == idx[fd][pos + 1]
             new == IF EntryMatches(x, range[1], range[2]) THEN Matching(x) ELSE {}
  <2>1. pos \in Nat /\ fd \in Inodes /\ rpc = "scan" /\ pos + 1 \in 1..Len(idx[fd])
    BY <1>7 DEF ReadEntry, TypeInv, TypeOK
  <2>2. IsFiniteSet(new) /\ \A r \in new : r.trip = cur /\ r.file = fd /\ r.at = pos + 1
    BY <2>1, MatchingType, FS_EmptySet
  <2>3. /\ refs' = refs \cup new /\ found' = found + Cardinality(new) /\ pos' = pos + 1
        /\ UNCHANGED <<idx, todo, cur, fd, rpc>>
    BY <1>7 DEF ReadEntry, NextEntry, store
  <2> HIDE DEF new
  <2>4. refs \cap new = {}
    <3> SUFFICES ASSUME NEW r \in refs, r \in new PROVE FALSE
      OBVIOUS
    <3>1. r.at <= pos /\ r.at = pos + 1
      BY <2>1, <2>2
    <3> QED
      BY <2>1, <3>1
  <2>5. Cardinality(refs \cup new) = Cardinality(refs) + Cardinality(new)
    <3>1. /\ Cardinality(refs \cup new) = Cardinality(refs) + Cardinality(new) - Cardinality(refs \cap new)
          /\ Cardinality(refs) \in Nat /\ Cardinality(new) \in Nat
      BY <2>2, FS_Union, FS_CardinalityType DEF TypeInv
    <3>2. Cardinality(refs \cap new) = 0
      BY <2>4, FS_EmptySet, Zenon
    <3> QED
      BY <3>1, <3>2
  <2>6. \A r \in refs' : r.trip \notin todo /\ r.at \in 1..Len(idx[r.file]) /\ (r.trip = cur => r.at <= pos + 1)
    BY <1>2, <2>1, <2>2, <2>3
  <2> QED
    BY <2>1, <2>3, <2>5, <2>6 DEF NoRecordTwice, TypeInv, TypeOK
<1>8. CASE EndOfIndex \/ Finish
  BY <1>2, <1>8 DEF EndOfIndex, Finish, NoRecordTwice, store
<1> QED
  BY <1>3, <1>4, <1>5, <1>6, <1>7, <1>8
  DEF Next, vars, reader, RecoverRow, RemoveTrip, BeginTrip, AppendRecord, FlushLog, FlushIdx,
      EndTrip, Crash, Tick, DeleteRows, RemoveFolder

\* The scan is always in order.
LEMMA ScanHolds == Spec => []ScanInv
<1>1. Init => ScanInv
  BY FS_EmptySet DEF Init, ScanInv, NoRecordTwice
<1>2. TypeInv /\ ScanInv /\ [Next]_vars => ScanInv'
  BY ScanNext
<1> QED
  BY <1>1, <1>2, TypesHold, PTL DEF Spec

\* No record is returned twice, however the indexes grow under the scan.
THEOREM NoRecordTwiceHolds == Spec => []NoRecordTwice
<1>1. ScanInv => NoRecordTwice
  BY DEF ScanInv
<1> QED
  BY <1>1, ScanHolds, PTL

-----------------------------------------------------------------------------
(* Without a gap.                                                          *)

\* The node's buffer is in the order of time, not before any entry of the index
\* it is for, and between the two writes of a flush the last chunk of the log.
BufInv ==
    /\ (active = NoTrip) => buf = <<>>
    /\ \A i \in 1..Len(buf) : buf[i] <= now
    /\ \A i, j \in 1..Len(buf) : i <= j => buf[i] <= buf[j]
    /\ (active # NoTrip /\ Here # 0 /\ Pending /\ buf # <<>>) => log[Here][Len(log[Here])] = buf
    /\ (active # NoTrip /\ Here # 0 /\ buf # <<>>) =>
           \A n \in 1..Len(idx[Here]) : idx[Here][n].end <= buf[Len(buf)]

\* An entry covers its chunk, and the ends of an index are in the order of time.
EntryInv ==
    \A f \in Inodes : \A n \in 1..Len(idx[f]) :
        /\ \A i \in 1..Len(log[f][n]) :
              idx[f][n].start <= log[f][n][i] /\ log[f][n][i] <= idx[f][n].end
        /\ idx[f][n].end <= now
        /\ \A m \in 1..n : idx[f][m].end <= idx[f][n].end

TimeInv == BufInv /\ EntryInv

\* The buffer stays ordered.
LEMMA BufNext ==
    ASSUME TypeInv, TimeInv, [Next]_vars
    PROVE  BufInv'
<1> USE DEF TimeInv, BufInv
<1>1. buf \in Seq(Time) /\ now \in Nat /\ Len(buf) \in Nat /\ \A i \in 1..Len(buf) : buf[i] \in Nat
  <2>1. buf \in Seq(Time) /\ now \in Time /\ \A i \in 1..Len(buf) : buf[i] \in Time
    BY DEF TypeInv, TypeOK
  <2> QED
    BY <2>1, Basics
<1>2. CASE BeginTrip
  BY <1>2 DEF BeginTrip
<1>3. CASE AppendRecord
  <2>1. active \in Trips /\ active # NoTrip /\ Here \in Inodes /\ ~Pending
    BY <1>3, HereType DEF AppendRecord, Here, TypeInv, TypeOK
  <2>2. /\ buf' = Append(buf, now) /\ now \in Time
        /\ UNCHANGED <<now, active, path, log, idx>>
    BY <1>3 DEF AppendRecord, TypeInv, TypeOK
  <2>3. Len(buf') = Len(buf) + 1 /\ buf'[Len(buf')] = now /\ \A i \in 1..Len(buf) : buf'[i] = buf[i]
    BY <1>1, <2>2
  <2>4. \A n \in 1..Len(idx[Here]) : idx[Here][n].end <= now
    BY <2>1 DEF EntryInv
  <2>5. \A i \in 1..Len(buf') : buf'[i] <= now
    BY <1>1, <2>3
  <2>6. \A i, j \in 1..Len(buf') : i <= j => buf'[i] <= buf'[j]
    <3> SUFFICES ASSUME NEW i \in 1..Len(buf'), NEW j \in 1..Len(buf'), i <= j
                 PROVE  buf'[i] <= buf'[j]
      OBVIOUS
    <3>1. CASE j = Len(buf')
      BY <2>3, <2>5, <3>1
    <3>2. CASE j # Len(buf')
      <4>1. i \in 1..Len(buf) /\ j \in 1..Len(buf)
        BY <1>1, <2>3, <3>2
      <4> QED
        BY <2>3, <4>1
    <3> QED
      BY <3>1, <3>2
  <2>7. Here' = Here /\ Pending' = Pending
    BY <2>2 DEF Here, Pending
  <2>8. \A n \in 1..Len(idx'[Here']) : idx'[Here'][n].end <= buf'[Len(buf')]
    BY <2>2, <2>3, <2>4, <2>7
  <2>9. (active' # NoTrip) /\ ~Pending' /\ now' = now
    BY <2>1, <2>2, <2>7
  <2> QED
    BY <2>5, <2>6, <2>8, <2>9
<1>4. CASE FlushLog
  <2>1. active \in Trips /\ Here \in Inodes
    BY <1>4, HereType DEF FlushLog, Here, TypeInv, TypeOK
  <2>2. /\ log'[Here] = Append(log[Here], buf)
        /\ Here' = Here
        /\ UNCHANGED <<now, active, buf, idx>>
    BY <1>4, <2>1 DEF FlushLog, Here, TypeInv, TypeOK
  <2>3. log'[Here][Len(log'[Here])] = buf
    BY <1>1, <2>1, <2>2 DEF TypeInv, TypeOK
  <2> QED
    BY <2>2, <2>3
<1>5. CASE FlushIdx \/ EndTrip \/ Crash
  <2>1. buf' = <<>> /\ now' = now
    BY <1>5 DEF FlushIdx, EndTrip, Crash
  <2> QED
    BY <2>1
<1>6. CASE \E k \in Trips : RemoveTrip(k)
  <2>1. PICK k \in Trips : path' = [path EXCEPT ![k] = 0]
    BY <1>6 DEF RemoveTrip
  <2>2. UNCHANGED <<now, active, buf, log, idx>>
    BY <1>6 DEF RemoveTrip
  <2>3. active \in Trips => Here' = 0 \/ Here' = Here
    BY <2>1, <2>2 DEF Here, TypeInv, TypeOK
  <2> QED
    BY <2>2, <2>3 DEF Pending, TypeInv, TypeOK
<1>7. CASE Tick
  <2>1. now <= now' /\ now' \in Nat /\ UNCHANGED <<active, buf, path, log, idx>>
    BY <1>1, <1>7 DEF Tick
  <2> QED
    BY <1>1, <2>1 DEF Here, Pending
<1>8. CASE \/ \E k \in Trips : RecoverRow(k)
           \/ \E d \in Days : DeleteRows(d) \/ RemoveFolder(d)
           \/ UNCHANGED store
  <2>1. UNCHANGED <<now, active, buf, path, log, idx>>
    BY <1>8 DEF RecoverRow, DeleteRows, RemoveFolder, store
  <2> QED
    BY <2>1 DEF Here, Pending
<1> QED
  BY <1>2, <1>3, <1>4, <1>5, <1>6, <1>7, <1>8
  DEF Next, vars, store, Query, QueryBusy, SkipTrip, OpenTrip, ReadEntry, EndOfIndex, Finish

\* Entries go on covering their chunks.
LEMMA EntryNext ==
    ASSUME TypeInv, TimeInv, [Next]_vars
    PROVE  EntryInv'
<1> USE DEF TimeInv, EntryInv
<1>1. now <= now' /\ now \in Nat /\ now' \in Nat
  <2>1. now' = now \/ now' = now + 1
    BY DEF Next, vars, store, RecoverRow, RemoveTrip, BeginTrip, AppendRecord, FlushLog, FlushIdx,
           EndTrip, Crash, Tick, DeleteRows, RemoveFolder, Query, QueryBusy, SkipTrip, OpenTrip,
           ReadEntry, EndOfIndex, Finish
  <2> QED
    BY <2>1, Basics DEF TypeInv, TypeOK
<1>2. ASSUME NEW f \in Inodes, NEW n \in 1..Len(idx[f])
      PROVE  /\ idx'[f][n] = idx[f][n] /\ log'[f][n] = log[f][n]
             /\ idx[f][n].end \in Nat /\ idx[f][n].end <= now'
             /\ \A m \in 1..n : m \in 1..Len(idx[f])
  <2>1. idx[f] \in Seq(Entry) /\ n \in 1..Len(log[f]) /\ idx[f][n].end \in Time
    BY EntryType
  <2>2. idx[f][n].end <= now /\ idx[f][n].end \in Nat
    BY <2>1, Basics
  <2> QED
    BY <1>1, <2>1, <2>2, FilesGrow
<1>3. CASE idx' = idx
  BY <1>2, <1>3
<1>4. CASE FlushIdx
  <2> DEFINE x == [start |-> buf[1], end |-> buf[Len(buf)], at |-> Len(log[Here])]
             l == Len(idx[Here]) + 1
  <2>1. active \in Trips /\ Here \in Inodes /\ Here # 0 /\ Pending /\ buf # <<>>
    BY <1>4, HereType DEF FlushIdx, Here, TypeInv, TypeOK
  <2>2. idx'[Here] = Append(idx[Here], x) /\ log' = log /\ \A f \in Inodes \ {Here} : idx'[f] = idx[f]
    BY <1>4, <2>1 DEF FlushIdx, TypeInv, TypeOK
  <2>3. idx[Here] \in Seq(Entry) /\ Len(idx[Here]) \in Nat /\ Len(log[Here]) = l
    BY <2>1 DEF Pending, TypeInv, TypeOK, IndexInv
  <2>4. log[Here][l] = buf /\ active # NoTrip
    BY <2>1, <2>3, Basics DEF BufInv
  <2>5. buf \in Seq(Time) /\ Len(buf) \in Nat /\ 1 \in 1..Len(buf) /\ Len(buf) \in 1..Len(buf)
    BY <2>1 DEF TypeInv, TypeOK
  <2>6. /\ \A i \in 1..Len(buf) : x.start <= buf[i] /\ buf[i] <= x.end
        /\ x.end <= now /\ x.end \in Nat
        /\ \A m \in 1..Len(idx[Here]) : idx[Here][m].end <= x.end
    <3>1. x.start = buf[1] /\ x.end = buf[Len(buf)]
      OBVIOUS
    <3>2. x.end \in Nat
      BY <2>5, <3>1, Basics
    <3>3. \A i \in 1..Len(buf) : 1 <= i /\ i <= Len(buf)
      BY <2>5
    <3> HIDE DEF x
    <3> QED
      BY <2>1, <2>4, <2>5, <3>1, <3>2, <3>3 DEF BufInv
  <2> HIDE DEF x
  <2>7. /\ Len(idx'[Here]) = l /\ idx'[Here][l] = x
        /\ \A n \in 1..Len(idx[Here]) : idx'[Here][n] = idx[Here][n]
    BY <2>2, <2>3
  <2>8. ASSUME NEW n \in 1..Len(idx'[Here])
        PROVE  /\ \A i \in 1..Len(log'[Here][n]) :
                     idx'[Here][n].start <= log'[Here][n][i] /\ log'[Here][n][i] <= idx'[Here][n].end
               /\ idx'[Here][n].end <= now'
               /\ \A m \in 1..n : idx'[Here][m].end <= idx'[Here][n].end
    <3>1. CASE n \in 1..Len(idx[Here])
      BY <1>2, <2>1, <2>7, <3>1
    <3>2. CASE n = l
      <4>1. \A m \in 1..n : m = l \/ m \in 1..Len(idx[Here])
        BY <2>3, <3>2
      <4> QED
        BY <1>1, <2>2, <2>4, <2>6, <2>7, <3>2, <4>1
    <3> QED
      BY <2>3, <2>7, <3>1, <3>2
  <2> QED
    BY <1>2, <2>2, <2>8
<1> QED
  BY <1>3, <1>4
  DEF Next, vars, store, RecoverRow, RemoveTrip, BeginTrip, AppendRecord, FlushLog, EndTrip, Crash,
      Tick, DeleteRows, RemoveFolder, Query, QueryBusy, SkipTrip, OpenTrip, ReadEntry,
      EndOfIndex, Finish

\* Buffers and indexes are always in the order of time.
LEMMA TimeHolds == Spec => []TimeInv
<1>1. Init => TimeInv
  BY DEF Init, TimeInv, BufInv, EntryInv
<1>2. TypeInv /\ TimeInv /\ [Next]_vars => TimeInv'
  BY BufNext, EntryNext DEF TimeInv
<1> QED
  BY <1>1, <1>2, TypesHold, PTL DEF Spec

\* The references that reading an entry adds: none if its interval is outside.
New(n) == IF EntryMatches(idx[fd][n], range[1], range[2]) THEN Matching(idx[fd][n]) ELSE {}

\* An entry that is not looked into has no record of the range.
LEMMA EntryScan ==
    ASSUME TypeInv, EntryInv, rpc = "scan", NEW n \in 1..Len(idx[fd]),
           NEW i \in InRange(fd, n, range[1], range[2])
    PROVE  \E r \in New(n) : <<r.file, r.at, r.i>> = <<fd, n, i>>
<1> DEFINE r == [trip |-> cur, at |-> n, i |-> i, file |-> fd]
<1>1. fd \in Inodes /\ range[1] \in Nat /\ range[2] \in Nat
  BY Basics DEF TypeInv, TypeOK
<1>2. /\ idx[fd][n].at = n /\ n \in 1..Len(log[fd])
      /\ idx[fd][n].start \in Nat /\ idx[fd][n].end \in Nat
  BY <1>1, EntryType, Basics
<1>3. i \in 1..Len(log[fd][n]) /\ log[fd][n][i] \in range[1]..range[2]
  BY DEF InRange
<1>4. idx[fd][n].start <= log[fd][n][i] /\ log[fd][n][i] <= idx[fd][n].end
  BY <1>1, <1>3 DEF EntryInv
<1>5. EntryMatches(idx[fd][n], range[1], range[2])
  BY <1>1, <1>2, <1>3, <1>4 DEF EntryMatches
<1>6. r \in Matching(idx[fd][n])
  BY <1>2 DEF Matching
<1> QED
  BY <1>5, <1>6 DEF New

\* The chunks read so far are read completely.
PrefixInv ==
    /\ TripsAreReadFromTheStart
    /\ (rpc = "scan") => \A at \in 1..pos : \A i \in InRange(fd, at, range[1], range[2]) :
                             <<fd, at, i>> \in Reached

\* Every step leaves nothing out.
LEMMA PrefixNext ==
    ASSUME TypeInv, TimeInv, ScanInv, PrefixInv, [Next]_vars
    PROVE  PrefixInv'
<1> USE DEF PrefixInv
<1>1. \A r \in refs : r.file \in Inodes /\ \A at \in 1..r.at : at \in 1..Len(log[r.file])
  <2> SUFFICES ASSUME NEW r \in refs, NEW at \in 1..r.at
               PROVE  r.file \in Inodes /\ at \in 1..Len(log[r.file])
    BY DEF TypeInv, TypeOK, Ref
  <2>1. r.file \in Inodes /\ r.at \in Nat /\ r.at \in 1..Len(idx[r.file])
    BY DEF TypeInv, TypeOK, Ref, ScanInv
  <2>2. r.at \in 1..Len(log[r.file]) /\ log[r.file] \in Seq(Seq(Time))
    BY <2>1, EntryType DEF TypeInv, TypeOK
  <2> QED
    BY <2>1, <2>2
<1>2. (rpc = "scan") => /\ fd \in Inodes /\ pos \in Nat
                        /\ \A at \in 1..pos : at \in 1..Len(idx[fd]) /\ at \in 1..Len(log[fd])
  <2> SUFFICES ASSUME rpc = "scan"
               PROVE  /\ fd \in Inodes /\ pos \in Nat
                      /\ \A at \in 1..pos : at \in 1..Len(idx[fd]) /\ at \in 1..Len(log[fd])
    OBVIOUS
  <2>1. fd \in Inodes /\ pos \in Nat /\ idx[fd] \in Seq(Entry) /\ pos <= Len(idx[fd])
    BY DEF TypeInv, TypeOK, ScanInv
  <2>2. \A at \in 1..pos : at \in 1..Len(idx[fd])
    BY <2>1
  <2> QED
    BY <2>1, <2>2, EntryType
<1>3. \A f \in Inodes : \A at \in 1..Len(log[f]) : \A s, e :
          InRange(f, at, s, e)' = InRange(f, at, s, e)
  BY ChunkStays
<1>4. CASE UNCHANGED reader
  <2>1. UNCHANGED <<range, refs, rpc, fd, pos>> /\ Reached' = Reached
    BY <1>4 DEF reader, Reached
  <2>2. TripsAreReadFromTheStart'
    BY <1>1, <1>3, <2>1 DEF TripsAreReadFromTheStart
  <2> QED
    BY <1>2, <1>3, <2>1, <2>2
<1>5. CASE \E s, e \in Time : Query(s, e) \/ QueryBusy(s, e)
  BY <1>5 DEF Query, QueryBusy, TripsAreReadFromTheStart
<1>6. CASE SkipTrip \/ OpenTrip \/ EndOfIndex \/ Finish
  <2>1. /\ UNCHANGED <<range, refs, log>> /\ Reached' = Reached
        /\ (rpc' = "scan") => pos' = 0
    BY <1>6 DEF SkipTrip, OpenTrip, EndOfIndex, Finish, store, Reached
  <2>2. \A f, at, s, e : InRange(f, at, s, e)' = InRange(f, at, s, e)
    BY <2>1 DEF InRange
  <2>3. (rpc' = "scan") => 1..pos' = {}
    BY <2>1
  <2> QED
    BY <2>1, <2>2, <2>3 DEF TripsAreReadFromTheStart
<1>7. CASE ReadEntry
  <2>1. /\ rpc = "scan" /\ rpc' = "scan" /\ pos \in Nat /\ pos' = pos + 1
        /\ refs' = refs \cup New(pos + 1) /\ UNCHANGED <<range, fd, log>>
    BY <1>7 DEF ReadEntry, NextEntry, New, store, TypeInv, TypeOK
  <2>2. fd \in Inodes /\ pos + 1 \in 1..Len(idx[fd])
    BY <1>7 DEF ReadEntry, TypeInv, TypeOK
  <2>3. \A x \in Reached : x \in Reached'
    BY <2>1 DEF Reached
  <2>4. \A f, at, s, e : InRange(f, at, s, e)' = InRange(f, at, s, e)
    BY <2>1 DEF InRange
  <2>5. \A i \in InRange(fd, pos + 1, range[1], range[2]) : <<fd, pos + 1, i>> \in Reached'
    BY <2>1, <2>2, EntryScan DEF Reached, TimeInv
  <2>6. \A at \in 1..(pos + 1) : \A i \in InRange(fd, at, range[1], range[2]) : <<fd, at, i>> \in Reached'
    <3>1. \A at \in 1..(pos + 1) : at = pos + 1 \/ at \in 1..pos
      BY <2>1
    <3> QED
      BY <2>1, <2>3, <2>5, <3>1
  <2>7. ASSUME NEW r \in New(pos + 1)
        PROVE  r.file = fd /\ r.at = pos + 1
    BY <2>1, <2>2, <2>7, MatchingType DEF New
  <2>8. \A r \in refs' : \A at \in 1..r.at : \A i \in InRange(r.file, at, range[1], range[2]) :
            <<r.file, at, i>> \in Reached'
    BY <2>1, <2>3, <2>6, <2>7 DEF TripsAreReadFromTheStart
  <2> QED
    BY <2>1, <2>4, <2>6, <2>8 DEF TripsAreReadFromTheStart
<1> QED
  BY <1>4, <1>5, <1>6, <1>7
  DEF Next, vars, reader, RecoverRow, RemoveTrip, BeginTrip, AppendRecord, FlushLog, FlushIdx,
      EndTrip, Crash, Tick, DeleteRows, RemoveFolder

\* What has been read is read completely.
LEMMA PrefixHolds == Spec => []PrefixInv
<1>1. Init => PrefixInv
  BY DEF Init, PrefixInv, TripsAreReadFromTheStart
<1>2. TypeInv /\ TimeInv /\ ScanInv /\ PrefixInv /\ [Next]_vars => PrefixInv'
  BY PrefixNext
<1> QED
  BY <1>1, <1>2, TypesHold, TimeHolds, ScanHolds, PTL DEF Spec

\* A query never returns a record of a trip without all earlier ones of its
\* range, though chunks are added while it reads.
THEOREM ReadFromTheStartHolds == Spec => []TripsAreReadFromTheStart
<1>1. PrefixInv => TripsAreReadFromTheStart
  BY DEF PrefixInv
<1> QED
  BY <1>1, PrefixHolds, PTL

-----------------------------------------------------------------------------
(* A query is complete.                                                    *)

\* The ids of the trips of a day that have files.
Ids(d) == {i \in TripIds : path[<<d, i>>] # 0}

\* Every inode has one name at most; one that is not in use is empty. Trips
\* have the ids 0..c-1 until the archiver removes their day.
PlaceInv ==
    /\ \A k \in Trips : path[k] <= files
    /\ \A j, k \in Trips : path[j] = path[k] => j = k \/ path[j] = 0
    /\ \A f \in Inodes : f > files => Len(idx[f]) = 0
    /\ \A d \in Days \ leaving : \E c \in 0..MaxTrips : Ids(d) = 0..(c - 1)

\* There are n integers from 0 to n - 1: the trip ids of a day.
LEMMA CountIds ==
    ASSUME NEW n \in Nat
    PROVE  Cardinality(0..(n - 1)) = n
<1>1. 0 \in Int /\ n - 1 \in Int
  OBVIOUS
<1>2. Cardinality(0..(n - 1)) = IF 0 > n - 1 THEN 0 ELSE (n - 1) - 0 + 1
  BY <1>1, FS_Interval, Zenon
<1> QED
  BY <1>2

\* A trip begins with new files.
LEMMA BeginsNew ==
    ASSUME TypeInv, NameInv, PlaceInv, BeginTrip
    PROVE  \E k \in Trips :
              /\ path[k] = 0 /\ k[1] = DayOf[now] /\ k[2] + 1 \in 0..MaxTrips
              /\ Ids(k[1]) = 0..(k[2] - 1)
              /\ files + 1 \in Inodes /\ files' = files + 1
              /\ path' = [path EXCEPT ![k] = files + 1]
              /\ active = NoTrip /\ active' = k
              /\ rows' = [rows EXCEPT ![k] = [start |-> now, end |-> 0]]
              /\ UNCHANGED <<now, buf, log, idx, leaving, reader>>
<1> DEFINE d == DayOf[now]
           k == <<d, CountTripLogs(d)>>
<1>1. d \in Days /\ d \in Nat
  BY Basics DEF TypeInv, TypeOK
<1>2. d \notin leaving
  BY <1>1 DEF NameInv
<1>3. PICK c \in 0..MaxTrips : Ids(d) = 0..(c - 1)
  BY <1>1, <1>2 DEF PlaceInv
<1>4. CountTripLogs(d) = c
  <2>1. c \in Nat
    BY Basics
  <2>2. CountTripLogs(d) = Cardinality(Ids(d))
    BY DEF CountTripLogs, Ids
  <2> QED
    BY <1>3, <2>1, <2>2, CountIds
<1>5. k \in Trips /\ files < MaxFiles /\ active = NoTrip
  BY Zenon DEF BeginTrip
<1>6. c \in TripIds /\ c \notin 0..(c - 1) /\ c + 1 \in 0..MaxTrips
  BY <1>4, <1>5, Basics DEF Trips, TripIds
<1>7. path[k] = 0
  BY <1>3, <1>4, <1>6 DEF Ids
<1>8. files + 1 \in Inodes
  <2>1. files \in 0..MaxFiles /\ MaxFiles \in Nat
    BY Basics DEF TypeInv, TypeOK
  <2> QED
    BY <1>5, <2>1 DEF Inodes
<1>9. k[1] = d /\ k[2] = c
  BY <1>4
<1>10. /\ files' = files + 1 /\ path' = [path EXCEPT ![k] = files + 1]
       /\ active' = k /\ rows' = [rows EXCEPT ![k] = [start |-> now, end |-> 0]]
       /\ UNCHANGED <<now, buf, log, idx, leaving, reader>>
  BY <1>7, Zenon DEF BeginTrip
<1> HIDE DEF d, k
<1> QED
  BY <1>3, <1>5, <1>6, <1>7, <1>8, <1>9, <1>10 DEF d

\* Every step keeps inodes and ids in their places.
LEMMA PlaceNext ==
    ASSUME TypeInv, NameInv, PlaceInv, [Next]_vars
    PROVE  PlaceInv'
<1> USE DEF PlaceInv
<1>1. files \in Nat /\ \A k \in Trips : path[k] \in Nat
  BY Basics DEF TypeInv, TypeOK
<1>2. CASE BeginTrip
  <2>1. PICK k \in Trips :
              /\ path[k] = 0 /\ k[1] = DayOf[now] /\ k[2] + 1 \in 0..MaxTrips
              /\ Ids(k[1]) = 0..(k[2] - 1)
              /\ files' = files + 1 /\ path' = [path EXCEPT ![k] = files + 1]
              /\ UNCHANGED <<idx, leaving>>
    BY <1>2, BeginsNew
  <2>2. \A j \in Trips : path'[j] = IF j = k THEN files + 1 ELSE path[j]
    BY <2>1 DEF TypeInv, TypeOK
  <2>3. /\ \A j \in Trips : path'[j] <= files'
        /\ \A i, j \in Trips : path'[i] = path'[j] => i = j \/ path'[i] = 0
        /\ \A f \in Inodes : f > files' => Len(idx'[f]) = 0
    BY <1>1, <2>1, <2>2, Basics
  <2>4. k = <<k[1], k[2]>> /\ k[2] \in TripIds /\ k[2] \in Nat
    BY Basics DEF TripIds
  <2>5. \A e \in Days, i \in TripIds : <<e, i>> \in Trips
    BY DEF Trips
  <2>6. ASSUME NEW e \in Days \ leaving
        PROVE  \E c \in 0..MaxTrips : Ids(e)' = 0..(c - 1)
    <3>1. CASE e = k[1]
      <4>1. Ids(e)' = Ids(e) \cup {k[2]}
        BY <1>1, <2>2, <2>4, <2>5, <3>1 DEF Ids
      <4>2. Ids(e)' = 0..((k[2] + 1) - 1)
        BY <2>1, <2>4, <3>1, <4>1
      <4> QED
        BY <2>1, <4>2
    <3>2. CASE e # k[1]
      <4>1. \A i \in TripIds : <<e, i>> # k
        BY <2>4, <3>2
      <4>2. Ids(e)' = Ids(e)
        BY <2>2, <2>5, <4>1 DEF Ids
      <4> QED
        BY <4>2
    <3> QED
      BY <3>1, <3>2
  <2> QED
    BY <2>1, <2>3, <2>6
<1>3. CASE \E k \in Trips : RemoveTrip(k)
  <2>1. PICK k \in Trips : /\ k[1] \in leaving /\ path' = [path EXCEPT ![k] = 0]
                           /\ UNCHANGED <<files, idx, leaving>>
    BY <1>3 DEF RemoveTrip
  <2>2. \A j \in Trips : path'[j] = IF j = k THEN 0 ELSE path[j]
    BY <2>1 DEF TypeInv, TypeOK
  <2>3. \A e \in Days \ leaving, i \in TripIds : <<e, i>> \in Trips /\ <<e, i>> # k
    BY <2>1, Basics DEF Trips
  <2>4. \A e \in Days \ leaving : Ids(e)' = Ids(e)
    BY <2>2, <2>3 DEF Ids
  <2> QED
    BY <1>1, <2>1, <2>2, <2>4
<1>4. CASE \E d \in Days : RemoveFolder(d)
  <2>1. PICK d \in Days : /\ \A k \in Trips : k[1] = d => path[k] = 0
                          /\ leaving' = leaving \ {d} /\ UNCHANGED <<files, path, idx>>
    BY <1>4 DEF RemoveFolder
  <2>2. \A e : Ids(e)' = Ids(e)
    BY <2>1 DEF Ids
  <2>3. Ids(d) = 0..(0 - 1) /\ 0 \in 0..MaxTrips
    <3>1. \A i \in TripIds : path[<<d, i>>] = 0
      BY <2>1 DEF Trips
    <3> QED
      BY <3>1, Basics DEF Ids
  <2> QED
    BY <2>1, <2>2, <2>3
<1>5. CASE \E d \in Days : DeleteRows(d)
  <2>1. UNCHANGED <<files, path, idx>> /\ leaving \subseteq leaving'
    BY <1>5 DEF DeleteRows
  <2>2. \A e : Ids(e)' = Ids(e)
    BY <2>1 DEF Ids
  <2> QED
    BY <2>1, <2>2
<1>6. CASE FlushIdx
  <2>1. active \in Trips /\ Here \in Inodes /\ Here <= files
    BY <1>6, HereType DEF FlushIdx, Here, TypeInv, TypeOK
  <2>2. UNCHANGED <<files, path, leaving>> /\ \A f \in Inodes \ {Here} : idx'[f] = idx[f]
    BY <1>6, <2>1 DEF FlushIdx, TypeInv, TypeOK
  <2>3. \A e : Ids(e)' = Ids(e)
    BY <2>2 DEF Ids
  <2> QED
    BY <1>1, <2>1, <2>2, <2>3, Basics
<1>7. CASE UNCHANGED <<files, path, idx, leaving>>
  <2>1. \A e : Ids(e)' = Ids(e)
    BY <1>7 DEF Ids
  <2> QED
    BY <1>7, <2>1
<1> QED
  BY <1>2, <1>3, <1>4, <1>5, <1>6, <1>7
  DEF Next, vars, store, RecoverRow, AppendRecord, FlushLog, EndTrip, Crash, Tick,
      Query, QueryBusy, SkipTrip, OpenTrip, ReadEntry, EndOfIndex, Finish

\* The interval r of a row covers the first n entries of the index x: an end
\* that is not known covers everything.
Covers(r, x, n) == r.start <= x[n].start /\ (r.end # 0 => x[n].end <= r.end)

\* Whatever the row of a trip says, it does not hide what the index reaches.
RowInv ==
    /\ \A k \in Trips : rows[k] # NoRow =>
          /\ rows[k].start # 0 /\ rows[k].start <= now
          /\ path[k] # 0 => \A n \in 1..Len(idx[path[k]]) : Covers(rows[k], idx[path[k]], n)
    /\ (active # NoTrip /\ rows[active] # NoRow) =>
          /\ rows[active].end = 0
          /\ buf # <<>> => rows[active].start <= buf[1]

\* Every step keeps rows and indexes together.
LEMMA RowNext ==
    ASSUME TypeInv, NameInv, TimeInv, PlaceInv, RowInv, [Next]_vars
    PROVE  RowInv'
<1> USE DEF RowInv
<1>1. /\ now \in Nat /\ now # 0
      /\ \A k \in Trips : rows[k].start \in Nat /\ rows[k].end \in Nat /\ k # NoTrip
      /\ \A k \in Trips : path[k] # 0 => path[k] \in Inodes
  <2>1. now \in Nat /\ now # 0
    BY Basics DEF TypeInv, TypeOK
  <2>2. \A k \in Trips : rows[k] \in [start : 0..MaxTime, end : 0..MaxTime] /\ k # NoTrip
    BY Basics DEF TypeInv, TypeOK
  <2>3. \A k \in Trips : rows[k].start \in Nat /\ rows[k].end \in Nat /\ k # NoTrip
    BY <2>2, Basics
  <2> QED
    BY <2>1, <2>3, HereType DEF TypeInv
<1>2. CASE \E k \in Trips : RecoverRow(k)
  <2>1. PICK k \in Trips : RecoverRow(k)
    BY <1>2
  <2> DEFINE l == Len(idx[path[k]])
             e == idx[path[k]][l].end
  <2>2. path[k] \in Inodes /\ path[k] # 0
    BY <1>1, <2>1 DEF RecoverRow
  <2>3. l \in Nat /\ l \in 1..l
    BY <2>1, <2>2 DEF RecoverRow, TypeInv, TypeOK
  <2>4. \A n \in 1..l : idx[path[k]][n].end <= e
    BY <2>2, <2>3 DEF TimeInv, EntryInv
  <2>5. /\ rows[k] # NoRow /\ rows'[k].start = rows[k].start /\ rows'[k].end = e
        /\ \A j \in Trips : j # k => rows'[j] = rows[j]
        /\ active = NoTrip /\ UNCHANGED <<now, active, path, idx>>
    BY <2>1 DEF RecoverRow, TypeInv, TypeOK
  <2> HIDE DEF e
  <2>6. ASSUME NEW n \in 1..l
        PROVE  Covers(rows'[k], idx[path[k]], n)
    BY <2>2, <2>4, <2>5 DEF Covers
  <2> QED
    BY <2>5, <2>6
<1>3. CASE BeginTrip
  <2>1. PICK k \in Trips :
            /\ path[k] = 0 /\ files + 1 \in Inodes
            /\ path' = [path EXCEPT ![k] = files + 1]
            /\ active = NoTrip /\ active' = k
            /\ rows' = [rows EXCEPT ![k] = [start |-> now, end |-> 0]]
            /\ UNCHANGED <<now, buf, idx>>
    BY <1>3, BeginsNew
  <2>2. Len(idx[files + 1]) = 0 /\ buf = <<>>
    <3>1. files \in Nat /\ files + 1 > files
      BY DEF TypeInv, TypeOK
    <3> QED
      BY <2>1, <3>1 DEF PlaceInv, TimeInv, BufInv
  <2>3. \A j \in Trips : /\ path'[j] = IF j = k THEN files + 1 ELSE path[j]
                         /\ rows'[j] = IF j = k THEN [start |-> now, end |-> 0] ELSE rows[j]
    BY <2>1 DEF TypeInv, TypeOK
  <2>4. \A n \in 1..Len(idx[files + 1]) : FALSE
    BY <2>2
  <2> QED
    BY <1>1, <2>1, <2>2, <2>3, <2>4
<1>4. CASE AppendRecord
  <2>1. active \in Trips /\ buf' = Append(buf, now) /\ UNCHANGED <<now, active, path, idx, rows>>
    BY <1>4 DEF AppendRecord, TypeInv, TypeOK
  <2>2. buf \in Seq(Time) /\ now \in Time
    BY DEF TypeInv, TypeOK
  <2>3. buf'[1] = IF buf = <<>> THEN now ELSE buf[1]
    BY <2>1, <2>2
  <2> QED
    BY <2>1, <2>3
<1>5. CASE FlushIdx
  <2> DEFINE x == [start |-> buf[1], end |-> buf[Len(buf)], at |-> Len(log[Here])]
  <2>1. active \in Trips /\ Here \in Inodes /\ Here # 0 /\ buf # <<>> /\ Here = path[active]
    BY <1>5, HereType DEF FlushIdx, Here, TypeInv, TypeOK
  <2>2. /\ idx'[Here] = Append(idx[Here], x) /\ x.start = buf[1]
        /\ \A f \in Inodes \ {Here} : idx'[f] = idx[f]
        /\ buf' = <<>> /\ UNCHANGED <<now, active, path, rows>>
    BY <1>5, <2>1 DEF FlushIdx, TypeInv, TypeOK
  <2> HIDE DEF x
  <2>3. \A j \in Trips : path[j] = Here => j = active
    BY <2>1 DEF PlaceInv
  <2>4. idx[Here] \in Seq(Entry)
    BY <2>1 DEF TypeInv, TypeOK
  <2>5. ASSUME rows[active] # NoRow, NEW n \in 1..Len(idx'[Here])
        PROVE  Covers(rows[active], idx'[Here], n)
    <3>1. CASE n \in 1..Len(idx[Here])
      BY <2>1, <2>2, <2>4, <2>5, <3>1 DEF Covers
    <3>2. CASE n \notin 1..Len(idx[Here])
      <4>1. idx'[Here][n] = x
        BY <2>2, <2>4, <3>2
      <4>2. active # NoTrip
        BY <1>1, <2>1
      <4> QED
        BY <2>1, <2>2, <2>5, <4>1, <4>2 DEF Covers
    <3> QED
      BY <3>1, <3>2
  <2>6. \A k \in Trips : rows[k] # NoRow /\ path[k] # 0 =>
            \A n \in 1..Len(idx'[path[k]]) : Covers(rows[k], idx'[path[k]], n)
    BY <1>1, <2>1, <2>2, <2>3, <2>5
  <2> QED
    BY <2>2, <2>6
<1>6. CASE EndTrip
  <2>1. active \in Trips /\ active' = NoTrip /\ UNCHANGED <<now, path, idx>>
    BY <1>6 DEF EndTrip, TypeInv, TypeOK
  <2>2. \A k \in Trips : \/ rows'[k] = rows[k]
                         \/ /\ rows[k] # NoRow /\ rows'[k].start = rows[k].start
                            /\ rows'[k].end = now
    BY <1>6 DEF EndTrip, TypeInv, TypeOK
  <2>3. ASSUME NEW k \in Trips, rows'[k] # NoRow, path[k] # 0, NEW n \in 1..Len(idx[path[k]])
        PROVE  Covers(rows'[k], idx[path[k]], n)
    <3>1. idx[path[k]][n].end <= now
      BY <1>1, <2>3 DEF TimeInv, EntryInv
    <3>2. CASE rows'[k] = rows[k]
      BY <2>3, <3>2
    <3>3. CASE rows'[k] # rows[k]
      BY <2>2, <2>3, <3>1, <3>3 DEF Covers
    <3> QED
      BY <3>2, <3>3
  <2> QED
    BY <2>1, <2>2, <2>3
<1>7. CASE Crash
  BY <1>7 DEF Crash
<1>8. CASE Tick
  BY <1>1, <1>8 DEF Tick
<1>9. CASE \E d \in Days : DeleteRows(d)
  <2>1. /\ \A k \in Trips : rows'[k] = rows[k] \/ rows'[k] = NoRow
        /\ UNCHANGED <<now, active, buf, path, idx>>
    BY <1>9 DEF DeleteRows
  <2>2. active \in Trips \cup {NoTrip}
    BY DEF TypeInv, TypeOK
  <2> QED
    BY <2>1, <2>2
<1>10. CASE \E k \in Trips : RemoveTrip(k)
  <2>1. /\ \A k \in Trips : path'[k] = path[k] \/ path'[k] = 0
        /\ UNCHANGED <<now, active, buf, rows, idx>>
    BY <1>10 DEF RemoveTrip, TypeInv, TypeOK
  <2> QED
    BY <2>1
<1>11. CASE UNCHANGED <<now, active, buf, path, idx, rows>>
  BY <1>11
<1> QED
  BY <1>2, <1>3, <1>4, <1>5, <1>6, <1>7, <1>8, <1>9, <1>10, <1>11
  DEF Next, vars, store, FlushLog, RemoveFolder, Query, QueryBusy, SkipTrip, OpenTrip, ReadEntry,
      EndOfIndex, Finish

\* Inodes, ids and rows are always in their places.
LEMMA CatalogHolds == Spec => [](PlaceInv /\ RowInv)
<1>1. Init => PlaceInv /\ RowInv
  <2> SUFFICES ASSUME Init PROVE PlaceInv /\ RowInv
    OBVIOUS
  <2>1. \A d \in Days : Ids(d) = 0..(0 - 1)
    BY DEF Init, Ids, Trips
  <2>2. 0 \in 0..MaxTrips
    BY Basics
  <2>3. \A d \in Days \ leaving : \E c \in 0..MaxTrips : Ids(d) = 0..(c - 1)
    BY <2>1, <2>2
  <2>4. \A k \in Trips : path[k] = 0 /\ rows[k] = NoRow
    BY DEF Init
  <2>5. \A f \in Inodes : Len(idx[f]) = 0
    BY DEF Init
  <2> QED
    BY <2>3, <2>4, <2>5 DEF Init, PlaceInv, RowInv
<1>2. TypeInv /\ NameInv /\ TimeInv /\ PlaceInv /\ RowInv /\ [Next]_vars => PlaceInv' /\ RowInv'
  BY PlaceNext, RowNext
<1> QED
  BY <1>1, <1>2, TypesHold, NameHolds, TimeHolds, PTL DEF Spec

\* The references of a file are of one trip, and no later trip gets the file
\* or, while the archiver removes its day, its row back.
OwnerInv ==
    /\ \A k \in Trips : k[1] \in leaving => rows[k] = NoRow
    /\ \A r \in refs :
          /\ r.i \in InRange(r.file, r.at, range[1], range[2])
          /\ \A k \in Trips : path[k] = r.file => k = r.trip
          /\ \A q \in refs : q.file = r.file => q.trip = r.trip
    /\ (rpc = "scan") =>
          /\ fd <= files
          /\ \A k \in Trips : path[k] = fd => k = cur
          /\ \A r \in refs : r.file = fd => r.trip = cur

\* A reference is of a file that is in use.
LEMMA RefFile ==
    ASSUME TypeInv, ScanInv, PlaceInv, NEW r \in refs
    PROVE  /\ r.file \in Inodes /\ r.file # 0 /\ r.file <= files
           /\ r.at \in 1..Len(idx[r.file]) /\ r.at \in 1..Len(log[r.file]) /\ r.trip \in Trips
<1>1. r.file \in Inodes /\ r.at \in 1..Len(idx[r.file]) /\ r.trip \in Trips
  BY DEF TypeInv, TypeOK, Ref, ScanInv
<1>2. r.file \in Nat /\ r.file # 0 /\ files \in Nat /\ Len(idx[r.file]) # 0
  <2>1. idx[r.file] \in Seq(Entry)
    BY <1>1 DEF TypeInv, TypeOK
  <2> QED
    BY <1>1, <2>1, Basics DEF TypeInv, TypeOK
<1>3. r.at \in 1..Len(log[r.file])
  BY <1>1, EntryType
<1> QED
  BY <1>1, <1>2, <1>3 DEF PlaceInv

\* Steps of the node and the archiver leave files with their trips.
LEMMA OwnerStore ==
    ASSUME TypeInv, NameInv, PlaceInv, ScanInv, OwnerInv, [Next]_vars, UNCHANGED reader
    PROVE  OwnerInv'
<1> USE DEF OwnerInv
<1>1. UNCHANGED <<refs, range, rpc, cur, fd>>
  BY DEF reader
<1>2. \A r \in refs : /\ r.i \in InRange(r.file, r.at, range[1], range[2])'
                      /\ r.file # 0 /\ r.file <= files /\ r.file \in Nat
  <2> SUFFICES ASSUME NEW r \in refs
               PROVE  /\ r.i \in InRange(r.file, r.at, range[1], range[2])'
                      /\ r.file # 0 /\ r.file <= files /\ r.file \in Nat
    OBVIOUS
  <2>1. r.file \in Inodes /\ r.at \in 1..Len(log[r.file]) /\ r.file # 0 /\ r.file <= files
    BY RefFile
  <2>2. InRange(r.file, r.at, range[1], range[2])' = InRange(r.file, r.at, range[1], range[2])
    BY <1>1, <2>1, FilesGrow DEF InRange
  <2> QED
    BY <2>1, <2>2, Basics
<1>3. (rpc = "scan") => fd # 0 /\ fd \in Nat /\ fd <= files
  BY Basics DEF TypeInv, TypeOK
<1>4. files \in Nat
  BY DEF TypeInv, TypeOK
<1>5. CASE BeginTrip
  <2>1. PICK k \in Trips :
            /\ k[1] = DayOf[now] /\ path[k] = 0
            /\ files' = files + 1 /\ path' = [path EXCEPT ![k] = files + 1]
            /\ rows' = [rows EXCEPT ![k] = [start |-> now, end |-> 0]]
            /\ UNCHANGED leaving
    BY <1>5, BeginsNew
  <2>2. \A j \in Trips : /\ path'[j] = IF j = k THEN files + 1 ELSE path[j]
                         /\ j # k => rows'[j] = rows[j]
    BY <2>1 DEF TypeInv, TypeOK
  <2>3. k[1] \notin leaving
    <3>1. DayOf[now] \in Nat
      BY Basics DEF TypeInv, TypeOK
    <3> QED
      BY <2>1, <3>1 DEF NameInv
  <2> QED
    BY <1>1, <1>2, <1>3, <1>4, <2>1, <2>2, <2>3
<1>6. CASE \E k \in Trips : RemoveTrip(k)
  <2>1. PICK k \in Trips : path' = [path EXCEPT ![k] = 0]
    BY <1>6 DEF RemoveTrip
  <2>2. \A j \in Trips : path'[j] = IF j = k THEN 0 ELSE path[j]
    BY <2>1 DEF TypeInv, TypeOK
  <2> QED
    BY <1>1, <1>2, <1>3, <1>6, <2>2 DEF RemoveTrip
<1>7. CASE UNCHANGED <<path, files>> /\ \A k \in Trips : k[1] \in leaving' => rows'[k] = NoRow
  BY <1>1, <1>2, <1>7
<1>8. CASE \E d \in Days : DeleteRows(d) \/ RemoveFolder(d)
  BY <1>7, <1>8 DEF DeleteRows, RemoveFolder
<1>9. CASE \E k \in Trips : RecoverRow(k)
  <2>1. PICK k \in Trips : RecoverRow(k)
    BY <1>9
  <2>2. \A j \in Trips : rows[j] = NoRow => rows'[j] = NoRow
    BY <2>1 DEF RecoverRow, TypeInv, TypeOK
  <2> QED
    BY <1>7, <2>1, <2>2 DEF RecoverRow
<1>10. CASE EndTrip
  <2>1. \A j \in Trips : rows[j] = NoRow => rows'[j] = NoRow
    BY <1>10 DEF EndTrip, TypeInv, TypeOK
  <2> QED
    BY <1>7, <1>10, <2>1 DEF EndTrip
<1>11. CASE UNCHANGED <<path, files, rows, leaving>>
  BY <1>7, <1>11
<1> QED
  BY <1>5, <1>6, <1>8, <1>9, <1>10, <1>11
  DEF Next, vars, store, AppendRecord, FlushLog, FlushIdx, Crash, Tick,
      Query, QueryBusy, SkipTrip, OpenTrip, ReadEntry, EndOfIndex, Finish

\* Every step leaves files with their trips.
LEMMA OwnerNext ==
    ASSUME TypeInv, NameInv, PlaceInv, ScanInv, OwnerInv, [Next]_vars
    PROVE  OwnerInv'
<1> USE DEF OwnerInv
<1>1. CASE UNCHANGED reader
  BY <1>1, OwnerStore
<1>2. CASE UNCHANGED store
  <2>1. /\ UNCHANGED <<files, path, rows, leaving>>
        /\ \A f, n, a, b : InRange(f, n, a, b)' = InRange(f, n, a, b)
    BY <1>2 DEF store, InRange
  <2>2. CASE \E s, e \in Time : Query(s, e) \/ QueryBusy(s, e)
    BY <2>1, <2>2 DEF Query, QueryBusy
  <2>3. CASE SkipTrip \/ EndOfIndex \/ Finish
    BY <2>1, <2>3 DEF SkipTrip, EndOfIndex, Finish
  <2>4. CASE OpenTrip
    <3>1. PICK k \in todo : path[k] # 0 /\ cur' = k /\ fd' = path[k]
      BY <2>4 DEF OpenTrip, Opens
    <3>2. k \in Trips /\ UNCHANGED <<refs, range>>
      BY <2>4 DEF OpenTrip, TypeInv, TypeOK
    <3>3. \A r \in refs : r.file # path[k]
      BY <3>1, <3>2 DEF ScanInv
    <3> QED
      BY <2>1, <3>1, <3>2, <3>3 DEF PlaceInv
  <2>5. CASE ReadEntry
    <3>1. /\ rpc = "scan" /\ rpc' = "scan" /\ pos + 1 \in 1..Len(idx[fd])
          /\ refs' = refs \cup New(pos + 1) /\ UNCHANGED <<range, cur, fd>>
      BY <2>5 DEF ReadEntry, New, TypeInv, TypeOK
    <3>2. \A r \in New(pos + 1) : /\ r.trip = cur /\ r.file = fd
                                  /\ r.i \in InRange(r.file, r.at, range[1], range[2])
      BY <3>1, MatchingType DEF New
    <3> QED
      BY <2>1, <3>1, <3>2
  <2> QED
    BY <1>1, <1>2, <2>2, <2>3, <2>4, <2>5
    DEF Next, vars, reader, RecoverRow, RemoveTrip, BeginTrip, AppendRecord, FlushLog, FlushIdx,
        EndTrip, Crash, Tick, DeleteRows, RemoveFolder
<1> QED
  BY <1>1, <1>2
  DEF Next, vars, reader, store, RecoverRow, RemoveTrip, BeginTrip, AppendRecord, FlushLog, FlushIdx,
      EndTrip, Crash, Tick, DeleteRows, RemoveFolder, Query, QueryBusy, SkipTrip, OpenTrip, ReadEntry,
      EndOfIndex, Finish

\* Files always belong to their trips.
LEMMA OwnerHolds == Spec => []OwnerInv
<1>1. Init => OwnerInv
  BY DEF Init, OwnerInv
<1>2. TypeInv /\ NameInv /\ (PlaceInv /\ RowInv) /\ ScanInv /\ OwnerInv /\ [Next]_vars => OwnerInv'
  BY OwnerNext
<1> QED
  BY <1>1, <1>2, TypesHold, NameHolds, CatalogHolds, ScanHolds, PTL DEF Spec

\* No record of the file has been returned, and it is not being read.
Untouched(f) == (\A r \in refs : r.file # f) /\ (rpc = "scan" => fd # f)

\* What could be reached when the query began has been returned, has left the
\* SSD before its file was opened, or is still ahead: in a trip to be read or an
\* entry to be read.
DueInv ==
    /\ \A x \in due :
          /\ x[1] <= files /\ x[2] \in 1..Len(idx[x[1]])
          /\ x[3] \in InRange(x[1], x[2], range[1], range[2])
    /\ \A x \in due :
          \/ x \in Reached
          \/ x[1] \notin Linked /\ Untouched(x[1])
          \/ \E k \in todo : path[k] = x[1]
          \/ rpc = "scan" /\ fd = x[1] /\ x[2] > pos

\* The catalog query selects every trip that has a record of the range.
LEMMA QuerySelects ==
    ASSUME TypeInv, TimeInv, PlaceInv, RowInv, NEW s \in Time, NEW e \in Time, NEW x \in Stored(s, e)
    PROVE  /\ x[1] <= files /\ x[2] \in 1..Len(idx[x[1]]) /\ x[3] \in InRange(x[1], x[2], s, e)
           /\ \E k \in Trips : RowMatches(rows[k], s, e) /\ path[k] = x[1]
<1>1. PICK k \in Trips :
              /\ path[k] # 0 /\ path[k] \in Inodes /\ rows[k] # NoRow
              /\ \E n \in 1..Len(idx[path[k]]) :
                    \E i \in InRange(path[k], n, s, e) : x = <<path[k], n, i>>
  BY StoredType
<1>2. PICK n \in 1..Len(idx[path[k]]) :
          \E i \in InRange(path[k], n, s, e) : x = <<path[k], n, i>>
  BY <1>1
<1>3. PICK i \in InRange(path[k], n, s, e) : x = <<path[k], n, i>>
  BY <1>2
<1> DEFINE f == path[k]
           t == log[f][n][i]
<1>4. /\ n \in 1..Len(log[f]) /\ idx[f][n].start \in Nat /\ idx[f][n].end \in Nat
      /\ s \in Nat /\ e \in Nat
  BY <1>1, EntryType, Basics
<1>5. i \in 1..Len(log[f][n]) /\ t \in s..e
  BY DEF InRange
<1>6. idx[f][n].start <= t /\ t <= idx[f][n].end
  BY <1>1, <1>5 DEF TimeInv, EntryInv
<1>7. rows[k].start # 0 /\ Covers(rows[k], idx[f], n)
  BY <1>1 DEF RowInv
<1>8. rows[k].start \in Nat /\ rows[k].end \in Nat
  <2>1. rows[k] \in [start : 0..MaxTime, end : 0..MaxTime]
    BY DEF TypeInv, TypeOK
  <2> QED
    BY <2>1, Basics
<1>9. t \in Nat
  BY <1>1, <1>4, <1>5, ChunkType, Basics
<1> HIDE DEF t
<1>10. RowMatches(rows[k], s, e)
  <2>1. /\ rows[k].start <= idx[f][n].start
        /\ rows[k].end # 0 => idx[f][n].end <= rows[k].end
    BY <1>7, Zenon DEF Covers
  <2>2. s <= t /\ t <= e
    BY <1>4, <1>5, <1>9
  <2>3. rows[k].start <= e /\ (rows[k].end # 0 => rows[k].end >= s)
    BY <1>4, <1>6, <1>8, <1>9, <2>1, <2>2
  <2> QED
    BY <1>7, <2>3 DEF RowMatches
<1> QED
  BY <1>1, <1>3, <1>10 DEF PlaceInv

\* Every step leaves nothing behind.
LEMMA DueNext ==
    ASSUME TypeInv, NameInv, TimeInv, ScanInv, PlaceInv, RowInv, OwnerInv, DueInv, [Next]_vars
    PROVE  DueInv'
<1> USE DEF DueInv
<1>1. ASSUME NEW x \in due
      PROVE  /\ x[1] \in Inodes /\ x[2] \in Nat /\ x[1] # 0
             /\ x[2] \in 1..Len(log[x[1]]) /\ x[2] \in 1..Len(idx'[x[1]])
             /\ \A s, e : InRange(x[1], x[2], s, e)' = InRange(x[1], x[2], s, e)
  <2>1. x[1] \in Inodes /\ x[2] \in Nat /\ x[2] \in 1..Len(idx[x[1]])
    BY DEF TypeInv, TypeOK
  <2>2. x[2] \in 1..Len(log[x[1]])
    BY <2>1, EntryType
  <2>3. Len(idx[x[1]]) <= Len(idx'[x[1]]) /\ Len(idx[x[1]]) \in Nat /\ Len(idx'[x[1]]) \in Nat
    <3>1. TypeInv'
      BY TypeNext
    <3>2. idx[x[1]] \in Seq(Entry) /\ idx'[x[1]] \in Seq(Entry)
      BY <2>1, <3>1 DEF TypeInv, TypeOK
    <3> QED
      BY <2>1, <3>2, FilesGrow
  <2> QED
    BY <2>1, <2>2, <2>3, ChunkStays, Basics
<1>2. CASE UNCHANGED reader
  <2>1. /\ UNCHANGED <<due, range, todo, rpc, fd, pos>> /\ Reached' = Reached
        /\ \A f : Untouched(f)' = Untouched(f)
    BY <1>2 DEF reader, Reached, Untouched
  <2>2. ASSUME NEW x \in due
        PROVE  x[1] <= files' /\ (x[1] \in Linked' <=> \E k \in Trips : path'[k] = x[1])
    <3>1. files' = files \/ (files' = files + 1 /\ files \in Nat)
      BY DEF Next, vars, store, RecoverRow, RemoveTrip, BeginTrip, AppendRecord, FlushLog, FlushIdx,
             EndTrip, Crash, Tick, DeleteRows, RemoveFolder, Query, QueryBusy, SkipTrip, OpenTrip,
             ReadEntry, EndOfIndex, Finish, TypeInv, TypeOK
    <3>2. x[1] <= files /\ x[1] \in Nat
      BY <1>1, Basics
    <3>3. x[1] \in Linked' <=> \E k \in Trips : path'[k] = x[1]
      BY DEF Linked
    <3> QED
      BY <3>1, <3>2, <3>3
  <2>3. ASSUME NEW x \in due
        PROVE  \/ x \in Reached
               \/ x[1] \notin Linked' /\ Untouched(x[1])
               \/ \E k \in todo : path'[k] = x[1]
               \/ rpc = "scan" /\ fd = x[1] /\ x[2] > pos
    <3>1. CASE BeginTrip
      <4>1. PICK k \in Trips : path[k] = 0 /\ path' = [path EXCEPT ![k] = files + 1] /\ files \in Nat
        BY <3>1, BeginsNew DEF TypeInv, TypeOK
      <4>2. x[1] <= files /\ x[1] \in Nat /\ x[1] # 0
        BY <1>1, Basics
      <4>3. \A j \in Trips : path'[j] = x[1] <=> path[j] = x[1]
        <5>1. \A j \in Trips : path'[j] = IF j = k THEN files + 1 ELSE path[j]
          BY <4>1 DEF TypeInv, TypeOK
        <5>2. x[1] # files + 1
          BY <4>1, <4>2
        <5> QED
          BY <4>1, <4>2, <5>1, <5>2
      <4> QED
        BY <2>2, <4>3 DEF Linked, TypeInv, TypeOK
    <3>2. CASE \E k \in Trips : RemoveTrip(k)
      <4>1. PICK k \in Trips : path' = [path EXCEPT ![k] = 0]
        BY <3>2 DEF RemoveTrip
      <4>2. \A j \in Trips : path'[j] = IF j = k THEN 0 ELSE path[j]
        BY <4>1 DEF TypeInv, TypeOK
      <4>3. x[1] # 0 /\ todo \subseteq Trips
        BY <1>1 DEF TypeInv, TypeOK
      <4>4. CASE path[k] = x[1]
        <5>1. x[1] \notin Linked'
          BY <2>2, <4>2, <4>3, <4>4 DEF PlaceInv
        <5>2. CASE k \in todo
          <6>1. \A r \in refs : r.file # x[1]
            BY <4>4, <5>2 DEF OwnerInv, ScanInv
          <6>2. rpc = "scan" => fd # x[1]
            BY <4>4, <5>2 DEF OwnerInv, ScanInv
          <6> QED
            BY <5>1, <6>1, <6>2 DEF Untouched
        <5>3. CASE k \notin todo
          <6>1. ~(\E j \in todo : path[j] = x[1]) /\ x[1] \in Linked
            BY <4>3, <4>4, <5>3 DEF PlaceInv, Linked
          <6> QED
            BY <6>1
        <5> QED
          BY <5>2, <5>3
      <4>5. CASE path[k] # x[1]
        <5>1. \A j \in Trips : path'[j] = x[1] <=> path[j] = x[1]
          BY <4>2, <4>3, <4>5
        <5> QED
          BY <2>2, <4>3, <5>1 DEF Linked
      <4> QED
        BY <4>4, <4>5
    <3>3. CASE UNCHANGED path
      BY <3>3 DEF Linked
    <3> QED
      BY <3>1, <3>2, <3>3
      DEF Next, vars, store, RecoverRow, AppendRecord, FlushLog, FlushIdx, EndTrip, Crash,
          Tick, DeleteRows, RemoveFolder, Query, QueryBusy, SkipTrip, OpenTrip, ReadEntry,
      EndOfIndex, Finish
  <2> QED
    BY <1>1, <2>1, <2>2, <2>3
<1>3. CASE \E s, e \in Time : Query(s, e)
  <2>1. PICK s \in Time, e \in Time : Query(s, e)
    BY <1>3
  <2>2. /\ range' = <<s, e>> /\ due' = Stored(s, e)
        /\ todo' = {k \in Trips : RowMatches(rows[k], s, e)}
        /\ UNCHANGED <<files, path, log, idx>>
    BY <2>1 DEF Query, store
  <2>3. \A f, n, a, b : InRange(f, n, a, b)' = InRange(f, n, a, b)
    BY <2>2 DEF InRange
  <2> QED
    BY <2>2, <2>3, QuerySelects
<1>4. CASE \E s, e \in Time : QueryBusy(s, e)
  BY <1>4 DEF QueryBusy
<1>5. CASE UNCHANGED store
  <2>1. /\ UNCHANGED <<files, path, log, idx>> /\ Linked' = Linked
        /\ \A f, n, a, b : InRange(f, n, a, b)' = InRange(f, n, a, b)
    BY <1>5 DEF store, Linked, InRange
  <2>2. CASE SkipTrip
    <3>1. PICK k \in todo : path[k] = 0 /\ todo' = todo \ {k}
      BY <2>2 DEF SkipTrip, Opens
    <3>2. /\ UNCHANGED <<range, due, rpc, fd, pos>> /\ Reached' = Reached
          /\ \A f : Untouched(f)' = Untouched(f)
      BY <2>2 DEF SkipTrip, Reached, Untouched
    <3> QED
      BY <1>1, <2>1, <3>1, <3>2
  <2>3. CASE OpenTrip
    <3>1. PICK k \in todo : todo' = todo \ {k} /\ fd' = path[k]
      BY <2>3 DEF OpenTrip
    <3>2. /\ UNCHANGED <<range, due>> /\ Reached' = Reached
          /\ rpc = "trips" /\ rpc' = "scan" /\ pos' = 0
      BY <2>3 DEF OpenTrip, Reached
    <3>3. \A x \in due : x[2] > 0
      BY <1>1
    <3>4. \A f : f \notin Linked /\ Untouched(f) => Untouched(f)'
      BY <2>3, <3>1 DEF OpenTrip, Untouched, Linked, TypeInv, TypeOK
    <3> QED
      BY <2>1, <3>1, <3>2, <3>3, <3>4
  <2>4. CASE ReadEntry
    <3>1. /\ rpc = "scan" /\ pos \in Nat /\ pos' = pos + 1 /\ pos + 1 \in 1..Len(idx[fd])
          /\ refs' = refs \cup New(pos + 1) /\ UNCHANGED <<range, due, rpc, fd, todo>>
      BY <2>4 DEF ReadEntry, NextEntry, New, TypeInv, TypeOK
    <3>2. \A x \in Reached : x \in Reached'
      BY <3>1 DEF Reached
    <3>3. ASSUME NEW x \in due, fd = x[1], x[2] > pos
          PROVE  x \in Reached' \/ x[2] > pos + 1
      <4>1. CASE x[2] = pos + 1
        <5>1. x[3] \in InRange(fd, pos + 1, range[1], range[2]) /\ x = <<fd, pos + 1, x[3]>>
          BY <3>3, <4>1 DEF TypeInv, TypeOK
        <5>2. PICK r \in New(pos + 1) : <<r.file, r.at, r.i>> = <<fd, pos + 1, x[3]>>
          BY <3>1, <5>1, EntryScan DEF TimeInv
        <5> QED
          BY <3>1, <5>1, <5>2 DEF Reached
      <4>2. CASE x[2] # pos + 1
        BY <1>1, <3>1, <3>3, <4>2
      <4> QED
        BY <4>1, <4>2
    <3>4. \A f : Untouched(f) => Untouched(f)'
      <4>1. \A r \in New(pos + 1) : r.file = fd
        BY <3>1, MatchingType DEF New
      <4> QED
        BY <2>4, <3>1, <4>1 DEF ReadEntry, Untouched
    <3> QED
      BY <2>1, <3>1, <3>2, <3>3, <3>4
  <2>5. CASE EndOfIndex
    <3>1. /\ UNCHANGED <<range, due, todo>> /\ Reached' = Reached
          /\ pos = Len(idx[fd])
          /\ \A f : Untouched(f) => Untouched(f)'
      BY <2>5 DEF EndOfIndex, Reached, Untouched
    <3>2. ASSUME NEW x \in due, fd = x[1]
          PROVE  ~(x[2] > pos)
      <4>1. x[1] \in Inodes /\ x[2] \in 1..Len(idx[x[1]])
        BY <1>1
      <4>2. Len(idx[x[1]]) \in Nat
        BY <4>1 DEF TypeInv, TypeOK
      <4> QED
        BY <3>1, <3>2, <4>1, <4>2
    <3> QED
      BY <2>1, <3>1, <3>2
  <2>6. CASE Finish
    BY <2>6 DEF Finish
  <2> QED
    BY <1>2, <1>3, <1>4, <1>5, <2>2, <2>3, <2>4, <2>5, <2>6
    DEF Next, vars, reader, RecoverRow, RemoveTrip, BeginTrip, AppendRecord, FlushLog, FlushIdx,
        EndTrip, Crash, Tick, DeleteRows, RemoveFolder
<1> QED
  BY <1>2, <1>3, <1>4, <1>5
  DEF Next, vars, reader, store, RecoverRow, RemoveTrip, BeginTrip, AppendRecord, FlushLog, FlushIdx,
      EndTrip, Crash, Tick, DeleteRows, RemoveFolder, QueryBusy, SkipTrip, OpenTrip, ReadEntry,
      EndOfIndex, Finish

\* Nothing is ever left behind.
LEMMA DueHolds == Spec => []DueInv
<1>1. Init => DueInv
  BY DEF Init, DueInv
<1>2. TypeInv /\ NameInv /\ TimeInv /\ ScanInv /\ (PlaceInv /\ RowInv) /\ OwnerInv /\ DueInv /\ [Next]_vars
          => DueInv'
  BY DueNext
<1> QED
  BY <1>1, <1>2, TypesHold, NameHolds, TimeHolds, ScanHolds, CatalogHolds, OwnerHolds, PTL DEF Spec

\* A query that has read all matching trips returns every record of its range
\* that could be reached when it began and is still on the SSD.
THEOREM QueryIsCompleteHolds == Spec => []QueryIsComplete
<1>1. DueInv => QueryIsComplete
  BY DEF DueInv, QueryIsComplete
<1> QED
  BY <1>1, DueHolds, PTL

-----------------------------------------------------------------------------
(* A query shows one question and one answer.                              *)

\* What can be reached of a file are the chunks its index has.
LEMMA ContentChunks ==
    ASSUME TypeInv, NEW f \in Inodes
    PROVE  /\ Content[f] = SubSeq(log[f], 1, Len(idx[f]))
           /\ Len(Content[f]) = Len(idx[f]) /\ Len(idx[f]) \in Nat
           /\ \A n \in 1..Len(idx[f]) : Content[f][n] = log[f][n]
<1>1. log[f] \in Seq(Seq(Time)) /\ Len(idx[f]) \in Nat /\ Len(log[f]) \in Nat
  <2>1. log[f] \in Seq(Seq(Time)) /\ idx[f] \in Seq(Entry)
    BY DEF TypeInv, TypeOK
  <2> QED
    BY <2>1
<1>2. Len(idx[f]) <= Len(log[f])
  BY <1>1 DEF TypeInv, IndexInv
<1>3. \A i \in 1..Len(idx[f]) : log[f][i] \in Seq(Time)
  BY <1>1, <1>2
<1>4. /\ Len(SubSeq(log[f], 1, Len(idx[f]))) = Len(idx[f])
      /\ \A i \in 1..Len(idx[f]) : SubSeq(log[f], 1, Len(idx[f]))[i] = log[f][i]
  BY <1>1, <1>2
<1> QED
  BY <1>1, <1>4 DEF Content

\* The records of a range, through the chunks that can be reached.
LEMMA ReachIs ==
    ASSUME TypeInv, NEW F \in SUBSET Inodes, NEW s, NEW e
    PROVE  Store!Reach(F, <<s, e>>) = UNION {RecordsOf(f, s, e) : f \in F}
<1>1. ASSUME NEW f \in F
      PROVE  UNION {{<<f, n, i>> : i \in {j \in 1..Len(Content[f][n]) :
                                             Content[f][n][j] \in <<s, e>>[1]..<<s, e>>[2]}} :
                    n \in 1..Len(Content[f])} = RecordsOf(f, s, e)
  <2>1. Len(Content[f]) = Len(idx[f]) /\ \A n \in 1..Len(idx[f]) : Content[f][n] = log[f][n]
    BY ContentChunks
  <2>2. \A n \in 1..Len(idx[f]) : idx[f][n].at = n
    BY EntryType
  <2>3. \A n \in 1..Len(idx[f]) :
          {j \in 1..Len(Content[f][n]) : Content[f][n][j] \in <<s, e>>[1]..<<s, e>>[2]}
            = InRange(f, n, s, e)
    BY <2>1 DEF InRange
  <2>4. \A n \in 1..Len(idx[f]) :
          {<<f, n, i>> : i \in {j \in 1..Len(Content[f][n]) :
                                   Content[f][n][j] \in <<s, e>>[1]..<<s, e>>[2]}}
            = {<<f, idx[f][n].at, i>> : i \in InRange(f, idx[f][n].at, s, e)}
    BY <2>2, <2>3
  <2> QED
    BY <2>1, <2>4 DEF RecordsOf
<1> QED
  BY <1>1 DEF Store!Reach

\* A record is in a range of a file when its chunk has an index entry.
LEMMA RecordIs ==
    ASSUME TypeInv, NEW f \in Inodes, NEW s, NEW e, NEW x
    PROVE  x \in RecordsOf(f, s, e) <=>
               \E n \in 1..Len(idx[f]) : \E i \in InRange(f, n, s, e) : x = <<f, n, i>>
<1>1. \A n \in 1..Len(idx[f]) : idx[f][n].at = n
  BY EntryType
<1> QED
  BY <1>1 DEF RecordsOf

\* What the catalog lists is what a query can reach.
LEMMA StoredIs ==
    ASSUME TypeInv, NEW s, NEW e
    PROVE  Store!Reach(Listed, <<s, e>>) = Stored(s, e)
<1>1. Listed \in SUBSET Inodes
  BY HereType DEF Listed, TypeInv
<1>2. UNION {RecordsOf(f, s, e) : f \in Listed} = Stored(s, e)
  BY DEF Listed, Stored
<1> QED
  BY <1>1, <1>2, ReachIs

\* Initially nothing is stored, asked or answered.
LEMMA StoreInit == Init => Store!Init
<1> SUFFICES ASSUME Init PROVE Store!Init
  OBVIOUS
<1>1. TypeInv
  BY TypeInit
<1>2. \A f \in Inodes : SubSeq(log[f], 1, Len(idx[f])) = <<>>
  <2>1. \A f \in Inodes : Len(idx[f]) = 0
    BY DEF Init
  <2> QED
    BY <2>1, SubSeqEmpty
<1>3. Content = [f \in Inodes |-> <<>>]
  BY <1>2 DEF Content
<1>4. Linked \ {0} = {} /\ Listed = {}
  BY DEF Init, Linked, Listed
<1>5. Asked = <<>> /\ Answered = [records |-> {}, count |-> 0] /\ due = {}
  BY DEF Init, Asked, Answered
<1> QED
  BY <1>3, <1>4, <1>5 DEF Store!Init, Store!NoAnswer

\* What is stored is unchanged by a step that changes neither the names nor the
\* indexes, nor the end of what a log has under its index, nor which trips have
\* a row.
LEMMA StoreSame ==
    ASSUME TypeInv, [Next]_vars, UNCHANGED <<path, idx>>,
           \A k \in Trips : (rows'[k] = NoRow) <=> (rows[k] = NoRow)
    PROVE  UNCHANGED <<Content, Linked, Listed>>
<1>1. TypeInv'
  BY TypeNext
<1>2. ASSUME NEW f \in Inodes
      PROVE  SubSeq(log'[f], 1, Len(idx'[f])) = SubSeq(log[f], 1, Len(idx[f]))
  <2>1. /\ log[f] \in Seq(Seq(Time)) /\ log'[f] \in Seq(Seq(Time)) /\ Len(idx[f]) \in Nat
        /\ idx'[f] = idx[f]
    <3>1. log[f] \in Seq(Seq(Time)) /\ log'[f] \in Seq(Seq(Time)) /\ idx[f] \in Seq(Entry)
      BY <1>1 DEF TypeInv, TypeOK
    <3> QED
      BY <3>1
  <2>2. Len(idx[f]) <= Len(log[f]) /\ Len(log[f]) <= Len(log'[f])
    BY <2>1, FilesGrow DEF TypeInv, IndexInv
  <2>3. \A n \in 1..Len(idx[f]) : log'[f][n] = log[f][n]
    BY <2>1, <2>2, FilesGrow
  <2> QED
    BY <2>1, <2>2, <2>3
<1>3. Content' = Content
  BY <1>2 DEF Content
<1>4. Linked' = Linked /\ Listed' = Listed
  BY DEF Linked, Listed
<1> QED
  BY <1>3, <1>4

\* A trip that begins is a new, empty and listed file.
LEMMA StepBegin ==
    ASSUME TypeInv, NameInv, PlaceInv, BeginTrip
    PROVE  \E f \in Inodes : Store!Begin(f)
<1>1. PICK k \in Trips :
          /\ path[k] = 0 /\ files + 1 \in Inodes
          /\ path' = [path EXCEPT ![k] = files + 1]
          /\ rows' = [rows EXCEPT ![k] = [start |-> now, end |-> 0]]
          /\ UNCHANGED <<log, idx, reader>>
  BY BeginsNew
<1> DEFINE f == files + 1
<1>2. files \in Nat /\ now # 0 /\ f # 0 /\ ~(f <= files)
  BY Basics DEF TypeInv, TypeOK
<1>3. \A j \in Trips : /\ path'[j] = IF j = k THEN f ELSE path[j]
                       /\ rows'[j] = IF j = k THEN [start |-> now, end |-> 0] ELSE rows[j]
                       /\ path[j] # f
  BY <1>1, <1>2 DEF TypeInv, TypeOK, PlaceInv
<1>4. rows'[k] # NoRow
  BY <1>2, <1>3 DEF NoRow
<1>5. Linked' \ {0} = (Linked \ {0}) \cup {f} /\ f \notin Linked
  BY <1>1, <1>2, <1>3 DEF Linked
<1>6. Listed' = Listed \cup {f}
  BY <1>1, <1>2, <1>3, <1>4 DEF Listed
<1>7. Content[f] = <<>>
  <2>1. Len(idx[f]) = 0
    BY <1>1, <1>2 DEF PlaceInv
  <2>2. Content[f] = SubSeq(log[f], 1, 0)
    BY <1>1, <2>1 DEF Content
  <2> QED
    BY <2>2, SubSeqEmpty
<1>8. UNCHANGED <<Content, Asked, due, Answered>>
  BY <1>1 DEF Content, Asked, Answered, Reached, reader
<1> QED
  BY <1>1, <1>5, <1>6, <1>7, <1>8 DEF Store!Begin

\* The second write of a flush shows one chunk more of the file.
LEMMA StepExtend ==
    ASSUME TypeInv, [Next]_vars, FlushIdx
    PROVE  \E f \in Inodes : Store!Extend(f)
<1>1. TypeInv'
  BY TypeNext
<1>2. active \in Trips /\ Here \in Inodes /\ Here # 0 /\ Pending
  BY HereType DEF FlushIdx, Here, TypeInv, TypeOK
<1> DEFINE x == [start |-> buf[1], end |-> buf[Len(buf)], at |-> Len(log[Here])]
<1>3. /\ idx' = [idx EXCEPT ![Here] = Append(@, x)]
      /\ UNCHANGED <<path, log, rows, reader>>
  BY DEF FlushIdx
<1> HIDE DEF x
<1>4. idx[Here] \in Seq(Entry) /\ idx'[Here] = Append(idx[Here], x) /\ \A f \in Inodes \ {Here} : idx'[f] = idx[f]
  BY <1>2, <1>3 DEF TypeInv, TypeOK
<1>5. Len(idx'[Here]) = Len(idx[Here]) + 1 /\ Len(idx[Here]) \in Nat
  BY <1>4
<1>6. \A f \in Inodes \ {Here} : Content'[f] = Content[f]
  BY <1>3, <1>4 DEF Content
<1>7. /\ Len(Content[Here]) = Len(idx[Here])
      /\ \A n \in 1..Len(idx[Here]) : Content[Here][n] = log[Here][n]
  BY <1>2, ContentChunks
<1>8. /\ Len(Content'[Here]) = Len(idx'[Here])
      /\ \A n \in 1..Len(idx'[Here]) : Content'[Here][n] = log'[Here][n]
  <2>1. /\ Content'[Here] = SubSeq(log'[Here], 1, Len(idx'[Here]))
        /\ log'[Here] \in Seq(Seq(Time))
    BY <1>1, <1>2 DEF Content, TypeInv, TypeOK
  <2>2. Len(idx'[Here]) <= Len(log'[Here]) /\ Len(idx'[Here]) \in Nat /\ Len(log'[Here]) \in Nat
    <3>1. Len(log'[Here]) = Len(idx'[Here]) \/ Len(log'[Here]) = Len(idx'[Here]) + 1
      BY <1>1, <1>2 DEF TypeInv, IndexInv
    <3> QED
      BY <1>5, <2>1, <3>1
  <2> QED
    BY <2>1, <2>2
<1>9. \A n \in 1..Len(Content[Here]) : Content'[Here][n] = Content[Here][n]
  BY <1>3, <1>5, <1>7, <1>8
<1>10. Content' = [Content EXCEPT ![Here] = Content'[Here]]
  BY <1>6 DEF Content
<1>11. Here \in Linked \ {0} /\ UNCHANGED <<Linked, Listed, Asked, due, Answered>>
  BY <1>2, <1>3 DEF Linked, Listed, Here, Asked, Answered, Reached, reader
<1> QED
  BY <1>2, <1>5, <1>7, <1>8, <1>9, <1>10, <1>11 DEF Store!Extend

\* A trip leaves the SSD after the catalog.
LEMMA StepRemove ==
    ASSUME TypeInv, PlaceInv, OwnerInv, NEW k \in Trips, RemoveTrip(k)
    PROVE  \E f \in Inodes : Store!Remove(f)
<1>1. /\ path' = [path EXCEPT ![k] = 0] /\ rows[k] = NoRow /\ path[k] # 0
      /\ UNCHANGED <<log, idx, rows, reader>>
  BY DEF RemoveTrip, OwnerInv
<1> DEFINE f == path[k]
<1>2. f \in Inodes
  BY <1>1, HereType DEF TypeInv
<1>3. \A j \in Trips : path'[j] = IF j = k THEN 0 ELSE path[j]
  BY <1>1 DEF TypeInv, TypeOK
<1>4. \A j \in Trips : path[j] = f => j = k
  BY <1>1 DEF PlaceInv
<1>5. f \in Linked \ {0} /\ f \notin Listed
  BY <1>1, <1>4 DEF Linked, Listed
<1>6. Linked' \ {0} = (Linked \ {0}) \ {f}
  BY <1>3, <1>4 DEF Linked
<1>7. Listed' = Listed
  BY <1>1, <1>3 DEF Listed
<1>8. UNCHANGED <<Content, Asked, due, Answered>>
  BY <1>1 DEF Content, Asked, Answered, Reached, reader
<1> QED
  BY <1>2, <1>5, <1>6, <1>7, <1>8 DEF Store!Remove

\* The catalog gives up the trips of a day.
LEMMA StepUnlist ==
    ASSUME TypeInv, NEW d \in Days, DeleteRows(d)
    PROVE  Store!Unlist
<1>1. /\ \A k \in Trips : rows'[k] = rows[k] \/ rows'[k] = NoRow
      /\ UNCHANGED <<path, log, idx, reader>>
  BY DEF DeleteRows
<1>2. Listed' \subseteq Listed
  BY <1>1 DEF Listed
<1>3. UNCHANGED <<Content, Linked, Asked, due, Answered>>
  BY <1>1 DEF Content, Linked, Asked, Answered, Reached, reader
<1> QED
  BY <1>2, <1>3 DEF Store!Unlist

\* A query takes what it can reach of the catalog as the question.
LEMMA StepAsk ==
    ASSUME TypeInv, NEW s \in Time, NEW e \in Time, Query(s, e)
    PROVE  Store!Ask(s, e)
<1>1. UNCHANGED <<Content, Linked, Listed>>
  BY DEF Query, store, Content, Linked, Listed
<1>2. Asked = <<>> /\ Asked' = <<s, e>> /\ s <= e
  BY DEF Query, Asked
<1>3. due' = Store!Reach(Listed, <<s, e>>)
  BY StoredIs DEF Query
<1>4. Answered' = [records |-> {}, count |-> 0]
  BY DEF Query, Answered
<1> QED
  BY <1>1, <1>2, <1>3, <1>4 DEF Store!Ask, Store!NoAnswer

\* A query that met a busy catalog is answered with nothing.
LEMMA StepNothing ==
    ASSUME NEW s \in Time, NEW e \in Time, QueryBusy(s, e)
    PROVE  Store!AnswerNothing
<1>1. UNCHANGED <<Content, Linked, Listed>>
  BY DEF QueryBusy, store, Content, Linked, Listed
<1>2. Asked = <<>> /\ Asked' = <<>> /\ due' = {}
  BY DEF QueryBusy, Asked
<1>3. Answered' = [records |-> {}, count |-> 0]
  BY DEF QueryBusy, Answered, Reached
<1> QED
  BY <1>1, <1>2, <1>3 DEF Store!AnswerNothing, Store!NoAnswer

\* The references are as many as the records they lead to.
LEMMA CountReached ==
    ASSUME TypeInv, ScanInv, OwnerInv
    PROVE  Cardinality(Reached) = found
<1> DEFINE g == [r \in refs |-> <<r.file, r.at, r.i>>]
<1>1. ASSUME NEW r \in refs, NEW q \in refs, g[r] = g[q]
      PROVE  r = q
  <2>1. r.trip = q.trip /\ r.file = q.file /\ r.at = q.at /\ r.i = q.i
    BY <1>1 DEF OwnerInv
  <2>2. r \in Ref /\ q \in Ref
    BY DEF TypeInv, TypeOK
  <2> QED
    BY <2>1, <2>2 DEF Ref
<1>2. g \in Bijection(refs, Reached)
  <2>1. g \in [refs -> Reached] /\ \A y \in Reached : \E r \in refs : g[r] = y
    BY DEF Reached
  <2> QED
    BY <1>1, <2>1 DEF Bijection, Injection, Surjection, IsInjective
<1>3. IsFiniteSet(refs) /\ found = Cardinality(refs)
  BY DEF TypeInv, ScanInv, NoRecordTwice
<1> HIDE DEF g
<1> QED
  BY <1>2, <1>3, FS_Bijection DEF ExistsBijection

\* The end of a query is the answer.
LEMMA StepAnswer ==
    ASSUME TypeInv, ScanInv, PlaceInv, OwnerInv, PrefixInv, DueInv, Finish
    PROVE  Store!Answer
<1>1. rpc = "trips" /\ todo = {} /\ rpc' = "done" /\ due' = {} /\ UNCHANGED <<store, range, refs, found>>
  BY DEF Finish
<1>2. Asked = <<range[1], range[2]>> /\ Asked # <<>> /\ Asked' = <<>>
  <2>1. Asked = range /\ range \in Time \X Time /\ Asked' = <<>>
    BY <1>1 DEF Asked, TypeInv, TypeOK
  <2>2. range = <<range[1], range[2]>> /\ <<range[1], range[2]>> # <<>>
    BY <2>1
  <2> QED
    BY <2>1, <2>2
<1>3. Answered' = [records |-> Reached, count |-> Cardinality(Reached)]
  BY <1>1, CountReached DEF Answered, Reached
<1>4. UNCHANGED <<Content, Linked, Listed>>
  BY <1>1 DEF store, Content, Linked, Listed
<1> DEFINE s == range[1]
           e == range[2]
<1>5. Reached \subseteq Store!Reach(Inodes, Asked)
  <2> SUFFICES ASSUME NEW r \in refs
               PROVE  <<r.file, r.at, r.i>> \in Store!Reach(Inodes, <<s, e>>)
    BY <1>2 DEF Reached
  <2>1. r.file \in Inodes /\ r.at \in 1..Len(idx[r.file]) /\ r.i \in InRange(r.file, r.at, s, e)
    BY RefFile DEF OwnerInv
  <2>2. <<r.file, r.at, r.i>> \in RecordsOf(r.file, s, e)
    BY <2>1, RecordIs
  <2> QED
    BY <2>1, <2>2, ReachIs
<1>6. \A x \in due : \/ x \in Reached
                     \/ x[1] \notin Linked \ {0} /\ \A y \in Reached : y[1] # x[1]
  BY <1>1 DEF DueInv, Untouched, Reached
<1>7. ASSUME NEW y \in Reached, NEW x \in Store!Reach({y[1]}, Asked), x[2] <= y[2]
      PROVE  x \in Reached
  <2>1. PICK r \in refs : y = <<r.file, r.at, r.i>>
    BY DEF Reached
  <2>2. r.file \in Inodes /\ r.at \in 1..Len(idx[r.file])
    BY RefFile
  <2>3. x \in RecordsOf(r.file, s, e)
    BY <1>2, <2>1, <2>2, ReachIs
  <2>4. PICK n \in 1..Len(idx[r.file]) : \E i \in InRange(r.file, n, s, e) : x = <<r.file, n, i>>
    BY <2>2, <2>3, RecordIs
  <2>5. n <= r.at /\ n \in 1..r.at
    <3>1. Len(idx[r.file]) \in Nat
      BY <2>2, ContentChunks
    <3> QED
      BY <1>7, <2>1, <2>2, <2>4, <3>1
  <2> QED
    BY <2>4, <2>5 DEF PrefixInv, TripsAreReadFromTheStart
<1>8. Store!Answers(Reached)
  BY <1>5, <1>6, <1>7 DEF Store!Answers
<1>9. Cardinality(Reached) = Store!Cardinality(Reached)
  BY Zenon DEF Cardinality, Store!Cardinality
<1> QED
  BY <1>1, <1>2, <1>3, <1>4, <1>8, <1>9 DEF Store!Answer

\* Every step of the model is a step of the promise, or changes nothing of it.
LEMMA StoreNext ==
    ASSUME TypeInv, NameInv, TimeInv, ScanInv, PrefixInv, PlaceInv, RowInv, OwnerInv, DueInv,
           [Next]_vars
    PROVE  [Store!Next]_(Store!rvars)
<1>1. ASSUME UNCHANGED reader, UNCHANGED <<path, idx>>,
             \A k \in Trips : (rows'[k] = NoRow) <=> (rows[k] = NoRow)
      PROVE  UNCHANGED Store!rvars
  <2>1. UNCHANGED <<Content, Linked, Listed>>
    BY <1>1, StoreSame
  <2>2. UNCHANGED <<Asked, due, Answered>>
    BY <1>1 DEF Asked, Answered, Reached, reader
  <2> QED
    BY <2>1, <2>2 DEF Store!rvars
<1>2. CASE \E k \in Trips : RecoverRow(k)
  <2>1. PICK k \in Trips : RecoverRow(k)
    BY <1>2
  <2>2. /\ rows[k] # NoRow /\ rows'[k].start = rows[k].start
        /\ \A j \in Trips : j # k => rows'[j] = rows[j]
    BY <2>1 DEF RecoverRow, TypeInv, TypeOK
  <2>3. rows[k].start # 0 /\ NoRow.start = 0
    BY <2>2 DEF RowInv, NoRow
  <2> QED
    BY <1>1, <2>1, <2>2, <2>3 DEF RecoverRow
<1>3. CASE EndTrip
  <2>1. \A k \in Trips : \/ rows'[k] = rows[k]
                         \/ rows[k] # NoRow /\ rows'[k].start = rows[k].start
    BY <1>3 DEF EndTrip, TypeInv, TypeOK
  <2>2. \A k \in Trips : rows[k] # NoRow => rows[k].start # NoRow.start
    BY DEF RowInv, NoRow
  <2> QED
    BY <1>1, <1>3, <2>1, <2>2 DEF EndTrip
<1>4. CASE AppendRecord \/ FlushLog \/ Crash \/ Tick \/ \E d \in Days : RemoveFolder(d)
  BY <1>1, <1>4 DEF AppendRecord, FlushLog, Crash, Tick, RemoveFolder
<1>5. CASE BeginTrip
  BY <1>5, StepBegin DEF Store!Next
<1>6. CASE FlushIdx
  BY <1>6, StepExtend DEF Store!Next
<1>7. CASE \E k \in Trips : RemoveTrip(k)
  BY <1>7, StepRemove DEF Store!Next
<1>8. CASE \E d \in Days : DeleteRows(d)
  BY <1>8, StepUnlist DEF Store!Next
<1>9. CASE \E s, e \in Time : Query(s, e)
  BY <1>9, StepAsk DEF Store!Next
<1>10. CASE \E s, e \in Time : QueryBusy(s, e)
  BY <1>10, StepNothing DEF Store!Next
<1>11. CASE SkipTrip \/ OpenTrip \/ ReadEntry \/ EndOfIndex
  <2>1. UNCHANGED <<Content, Linked, Listed>>
    BY <1>11 DEF SkipTrip, OpenTrip, ReadEntry, EndOfIndex, store, Content, Linked, Listed
  <2>2. /\ rpc \in {"trips", "scan"} /\ rpc' \in {"trips", "scan"}
        /\ UNCHANGED <<range, due>>
    BY <1>11 DEF SkipTrip, OpenTrip, ReadEntry, EndOfIndex
  <2>3. UNCHANGED <<Asked, Answered>>
    BY <2>2 DEF Asked, Answered
  <2> QED
    BY <2>1, <2>2, <2>3 DEF Store!rvars
<1>12. CASE Finish
  BY <1>12, StepAnswer DEF Store!Next
<1>13. CASE UNCHANGED vars
  BY <1>1, <1>13 DEF vars, reader
<1> QED
  BY <1>2, <1>3, <1>4, <1>5, <1>6, <1>7, <1>8, <1>9, <1>10, <1>11, <1>12, <1>13 DEF Next

\* A query, for all its steps among those of the node and the archiver, shows
\* its caller one question and one answer: of each trip a part without a gap
\* and with all that was stored when it began, and of a trip that was archived
\* meanwhile either that or nothing.
THEOREM QueryImplementsRecordStore == Spec => ImplementsRecordStore
<1>1. Init => Store!Init
  BY StoreInit
<1>2. TypeInv /\ NameInv /\ TimeInv /\ ScanInv /\ PrefixInv /\ (PlaceInv /\ RowInv) /\ OwnerInv
          /\ DueInv /\ [Next]_vars => [Store!Next]_(Store!rvars)
  BY StoreNext
<1> QED
  BY <1>1, <1>2, TypesHold, NameHolds, TimeHolds, ScanHolds, PrefixHolds, CatalogHolds, OwnerHolds,
     DueHolds, PTL DEF Spec, ImplementsRecordStore, Store!Spec

=============================================================================
