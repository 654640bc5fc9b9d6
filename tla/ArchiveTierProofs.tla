-------------------------- MODULE ArchiveTierProofs --------------------------
(* Theorems about ArchiveTier, for every value of its constants.           *)
EXTENDS ArchiveTier, FunctionTheorems, FiniteSetTheorems, TLAPS

-----------------------------------------------------------------------------
(* Types.                                                                  *)

\* Before any node or archiver has run, every variable has its type.
LEMMA TypeInit == Init => TypeOK
  BY ArchiveAssumption DEF Init, TypeOK, Days, APCs, NPCs, NoTrip, States

\* The trips of a day can be counted.
LEMMA TripsFinite ==
    ASSUME NEW S \in SUBSET Trips, NEW d \in Days
    PROVE  IsFiniteSet(S \cap TripsOf(d)) /\ Cardinality(S \cap TripsOf(d)) \in Nat
<1>1. IsFiniteSet(0..(MaxTrips - 1))
  BY ArchiveAssumption, FS_Interval
<1>2. IsFiniteSet({d} \X (0..(MaxTrips - 1)))
  BY <1>1, FS_Singleton, FS_Product
<1>3. S \cap TripsOf(d) \subseteq {d} \X (0..(MaxTrips - 1))
  BY DEF TripsOf, Trips
<1>4. IsFiniteSet(S \cap TripsOf(d))
  BY <1>2, <1>3, FS_Subset
<1> QED
  BY <1>4, FS_CardinalityType

\* A node in its constructor finds an id that is left: the archiver only makes
\* the logs fewer.
RoomInv == (npc = "start") => Cardinality(linked \cap TripsOf(day)) < MaxTrips

\* A node that has opened its trip has the day of the trip.
LEMMA NodeTrip ==
    ASSUME TypeOK, npc \in {"insert", "run"}
    PROVE  active \in Trips /\ active # NoTrip /\ active[1] = day /\ day \in Days
<1>1. active \in Trips /\ active # NoTrip /\ active[1] = day
  BY DEF TypeOK
<1>2. LastDay \in Nat /\ today \in 1..LastDay /\ day \in 0..today /\ day # 0
  BY ArchiveAssumption DEF TypeOK, Days
<1> QED
  BY <1>1, <1>2 DEF Days

\* Every step of the ingest node keeps the types.
LEMMA TypeIngest ==
    ASSUME TypeOK, RoomInv, IngestStep \/ Midnight
    PROVE  TypeOK'
<1>0. today \in Nat \ {0} /\ Days = 1..LastDay /\ LastDay \in Nat
  BY ArchiveAssumption DEF TypeOK, Days
<1>1. CASE StartNode
  BY <1>0, <1>1 DEF TypeOK, StartNode, archive, hdd, NPCs
<1>2. CASE \E k \in Trips : RecoverRow(k)
  BY <1>2 DEF TypeOK, RecoverRow, ingest, archive, hdd, States
<1>3. CASE OpenTripFiles
  <2> DEFINE k == <<day, Cardinality(linked \cap TripsOf(day))>>
  <2>1. npc = "start" /\ day \in Days
    BY <1>0, <1>3 DEF OpenTripFiles, TypeOK
  <2>2. Cardinality(linked \cap TripsOf(day)) \in 0..(MaxTrips - 1)
    <3>1. Cardinality(linked \cap TripsOf(day)) \in Nat
      BY <2>1, TripsFinite DEF TypeOK
    <3>2. Cardinality(linked \cap TripsOf(day)) < MaxTrips
      BY <2>1 DEF RoomInv
    <3> QED
      BY <3>1, <3>2, ArchiveAssumption
  <2>3. k \in Trips /\ k # NoTrip /\ k[1] = day
    BY <1>0, <2>1, <2>2 DEF Trips, NoTrip
  <2>4. /\ active' = k /\ npc' = "insert" /\ linked' = linked \cup {k}
        /\ UNCHANGED <<today, day, logN, idxN, rows, archive, hdd>>
    BY <1>3 DEF OpenTripFiles
  <2> HIDE DEF k
  <2> QED
    BY <2>1, <2>3, <2>4 DEF TypeOK, archive, hdd, NPCs
<1>4. CASE InsertGlobalRow
  BY <1>4 DEF TypeOK, InsertGlobalRow, archive, hdd, States, NPCs
<1>5. CASE FlushLog
  BY <1>5 DEF TypeOK, FlushLog, node, archive, hdd
<1>6. CASE FlushIdx
  BY <1>6 DEF TypeOK, FlushIdx, node, archive, hdd
<1>7. CASE EndTrip \/ IngestCrash
  <2>1. /\ NodeEnds /\ UNCHANGED <<today, linked, logN, idxN, archive, hdd>>
        /\ rows' \in [Trips -> States]
    BY <1>7 DEF EndTrip, IngestCrash, TypeOK, States
  <2> QED
    BY <1>0, <2>1 DEF TypeOK, NodeEnds, archive, hdd, NPCs
<1>8. CASE Midnight
  BY <1>0, <1>8 DEF TypeOK, Midnight, node, archive, hdd
<1> QED
  BY <1>1, <1>2, <1>3, <1>4, <1>5, <1>6, <1>7, <1>8 DEF IngestStep

\* Every step of the archiver keeps the types.
LEMMA TypeArchive ==
    ASSUME TypeOK, ArchiveStep \/ ArchiveCrash \/ \E cutoff \in Days : StartArchive(cutoff)
    PROVE  TypeOK'
<1>1. CASE \E cutoff \in Days : StartArchive(cutoff)
  BY <1>1 DEF TypeOK, StartArchive, Candidates, ingest, hdd, APCs
<1>2. CASE PickDay
  <2>1. \A S \in SUBSET Trips : FilesOf(S) \subseteq Files
    BY DEF FilesOf, Files
  <2>2. PICK d \in todo : /\ linked \cap TripsOf(d) # {}
                          /\ cur' = d /\ todo' = todo \ {d}
                          /\ left' = FilesOf(linked \cap TripsOf(d))
    BY <1>2 DEF PickDay
  <2>3. PICK k \in linked \cap TripsOf(d) : TRUE
    BY <2>2
  <2>4. <<k, "idx">> \in left'
    BY <2>2, <2>3 DEF FilesOf
  <2>5. linked \cap TripsOf(d) \in SUBSET Trips
    BY DEF TypeOK
  <2>6. left' # {} /\ left' \subseteq Files
    BY <2>1, <2>2, <2>4, <2>5
  <2> QED
    BY <1>2, <2>2, <2>6 DEF TypeOK, PickDay, ingest, hdd, APCs
<1>3. CASE RefuseDay \/ FinishRun \/ RunFails
  BY <1>3 DEF TypeOK, RefuseDay, FinishRun, RunFails, Exit, SyncRows, ingest, APCs
<1>4. CASE CopyFile
  <2>1. PICK f \in left : /\ members' = members \cup {<<f, Size(f)>>}
                          /\ left' = left \ {f}
    BY <1>4 DEF CopyFile
  <2>2. f \in Files /\ Size(f) \in Nat
    BY <2>1 DEF TypeOK, Files, Size
  <2>3. members' \subseteq Files \X Nat /\ members' # {} /\ left' \subseteq Files
    <3>1. <<f, Size(f)>> \in Files \X Nat
      BY <2>2, Zenon
    <3>2. members \subseteq Files \X Nat /\ left \subseteq Files
      BY DEF TypeOK
    <3> QED
      BY <2>1, <3>1, <3>2
  <2>4. /\ apc' \in APCs /\ apc' \notin {"idle", "next"}
        /\ (apc' = "copy") => left' # {}
    BY <1>4 DEF CopyFile, AfterFile, APCs
  <2>5. cur' \in Days
    BY <1>4 DEF CopyFile, TypeOK
  <2> QED
    BY <1>4, <2>3, <2>4, <2>5 DEF TypeOK, CopyFile, ingest, hdd
<1>5. CASE RenameTar
  BY <1>5 DEF TypeOK, RenameTar, ingest, APCs
<1>6. CASE RenameIdx
  BY <1>6 DEF TypeOK, RenameIdx, ingest, APCs
<1>7. CASE FsyncParentDir
  <2>1. FsyncedNames \in SUBSET {"tar", "idx", "rows"}
    BY DEF FsyncedNames
  <2>2. synced' \in [Days -> SUBSET {"tar", "idx", "rows"}]
    BY <1>7, <2>1 DEF TypeOK, FsyncParentDir
  <2> QED
    BY <1>7, <2>2 DEF TypeOK, FsyncParentDir, ingest, APCs
<1>8. CASE CopyRows
  BY <1>8 DEF TypeOK, CopyRows, CopiedRow, ingest, APCs
<1>9. CASE DeleteRows
  BY <1>9 DEF TypeOK, DeleteRows, ingest, hdd, APCs, States
<1>10. CASE \E k \in Trips : RemoveTrip(k)
  BY <1>10 DEF TypeOK, RemoveTrip, ingest, archive, hdd
<1>11. CASE RemoveFolder
  BY <1>11 DEF TypeOK, RemoveFolder, ingest, hdd, APCs
<1>12. CASE ArchiveCrash
  BY <1>12 DEF TypeOK, ArchiveCrash, Exit, ingest, hdd, APCs
<1> QED
  BY <1>1, <1>2, <1>3, <1>4, <1>5, <1>6, <1>7, <1>8, <1>9, <1>10, <1>11, <1>12 DEF ArchiveStep

\* Nothing but the node itself makes the logs of its day more.
LEMMA RoomNext ==
    ASSUME TypeOK, RoomInv, [Next]_vars
    PROVE  RoomInv'
<1>0. UNCHANGED TripsOf(day) \/ day' # day
  BY DEF TripsOf
<1>1. CASE StartNode
  BY <1>1 DEF StartNode, RoomInv, TripsOf
<1>2. CASE (\E k \in Trips : RecoverRow(k)) \/ Midnight \/ UNCHANGED vars
  BY <1>0, <1>2 DEF RecoverRow, Midnight, vars, ingest, node, RoomInv
<1>3. CASE OpenTripFiles \/ InsertGlobalRow \/ FlushLog \/ FlushIdx \/ EndTrip \/ IngestCrash
  BY <1>3 DEF OpenTripFiles, InsertGlobalRow, FlushLog, FlushIdx, EndTrip, IngestCrash,
              NodeEnds, node, RoomInv
<1>4. CASE (\E cutoff \in Days : StartArchive(cutoff)) \/ ArchiveStep \/ ArchiveCrash
  <2>1. linked' \subseteq linked /\ UNCHANGED <<npc, day>>
    BY <1>4 DEF StartArchive, ArchiveStep, PickDay, RefuseDay, FinishRun, CopyFile, RenameTar,
                RenameIdx, FsyncParentDir, CopyRows, DeleteRows, RunFails, RemoveTrip,
                RemoveFolder, ArchiveCrash, ingest
  <2>2. SUFFICES ASSUME npc = "start"
                 PROVE  Cardinality(linked' \cap TripsOf(day)) < MaxTrips
    BY <1>0, <2>1 DEF RoomInv
  <2>3. day \in Days
    BY <2>2, ArchiveAssumption DEF TypeOK, Days
  <2>4. /\ IsFiniteSet(linked \cap TripsOf(day)) /\ Cardinality(linked \cap TripsOf(day)) \in Nat
        /\ Cardinality(linked' \cap TripsOf(day)) \in Nat
    BY <2>1, <2>3, TripsFinite DEF TypeOK
  <2>5. Cardinality(linked' \cap TripsOf(day)) <= Cardinality(linked \cap TripsOf(day))
    BY <2>1, <2>4, FS_Subset
  <2> QED
    BY <2>2, <2>4, <2>5, ArchiveAssumption DEF RoomInv
<1> QED
  BY <1>1, <1>2, <1>3, <1>4 DEF Next, IngestStep

\* Every variable keeps its type, and a node that starts finds an id.
THEOREM ArchiveTypeCorrect == Spec => []TypeOK
<1>1. Init => TypeOK /\ RoomInv
  BY TypeInit DEF Init, RoomInv
<1>2. TypeOK /\ RoomInv /\ [Next]_vars => (TypeOK /\ RoomInv)'
  <2>1. CASE UNCHANGED vars
    BY <2>1, RoomNext DEF TypeOK, vars
  <2> QED
    BY <2>1, TypeIngest, TypeArchive, RoomNext DEF Next
<1> QED
  BY <1>1, <1>2, PTL DEF Spec

-----------------------------------------------------------------------------
(* A tar is written once, and its indexes stay within its logs.            *)

\* The archiver makes a tar only where there is none.
FreshInv == (apc \in {"copy", "renameTar"}) => tar[cur] = {}

\* Every step keeps a tar where it is, and the archiver's plan fresh.
LEMMA FreshNext ==
    ASSUME TypeOK, FreshInv, [Next]_vars
    PROVE  FreshInv' /\ \A d \in Days : tar[d] # {} => tar'[d] = tar[d]
<1>1. CASE UNCHANGED vars
  BY <1>1 DEF FreshInv, vars
<1>2. CASE IngestStep \/ Midnight
  BY <1>2 DEF IngestStep, StartNode, OpenTripFiles, InsertGlobalRow, FlushLog, FlushIdx, EndTrip,
              IngestCrash, RecoverRow, Midnight, archive, hdd, FreshInv
<1>3. CASE \E cutoff \in Days : StartArchive(cutoff)
  BY <1>3 DEF StartArchive, hdd, FreshInv
<1>4. CASE PickDay
  BY <1>4 DEF PickDay, TarExists, hdd, FreshInv
<1>5. CASE RefuseDay \/ FinishRun \/ RunFails \/ ArchiveCrash
  BY <1>5 DEF RefuseDay, FinishRun, RunFails, ArchiveCrash, Exit, hdd, FreshInv
<1>6. CASE CopyFile
  BY <1>6 DEF CopyFile, hdd, FreshInv
<1>7. CASE RenameTar
  BY <1>7 DEF RenameTar, FreshInv, TypeOK
<1>8. CASE RenameIdx \/ FsyncParentDir \/ CopyRows \/ DeleteRows \/ RemoveFolder
           \/ \E k \in Trips : RemoveTrip(k)
  BY <1>8 DEF RenameIdx, FsyncParentDir, CopyRows, DeleteRows, RemoveFolder, RemoveTrip,
              archive, hdd, FreshInv
<1> QED
  BY <1>1, <1>2, <1>3, <1>4, <1>5, <1>6, <1>7, <1>8 DEF Next, ArchiveStep

\* No run, however earlier ones ended, changes a tar that has its name.
THEOREM TarNeverRewrittenHolds == Spec => TarNeverRewritten
<1>1. Init => FreshInv
  BY DEF Init, FreshInv
<1>2. TypeOK /\ FreshInv /\ [Next]_vars => FreshInv'
  BY FreshNext
<1>3. TypeOK /\ FreshInv /\ [Next]_vars
        => [\A d \in Days : tar[d] # {} => tar'[d] = tar[d]]_vars
  BY FreshNext
<1> QED
  BY <1>1, <1>2, <1>3, ArchiveTypeCorrect, PTL DEF Spec, TarNeverRewritten

\* In the members M, no index leads past its log.
IndexWithinLog(M) ==
    \A m, n \in M :
        (m[1][1] = n[1][1] /\ m[1][2] = "idx" /\ n[1][2] = "log") => m[2] <= n[2]

\* Why the order of ListTripFiles matters: a copied index is no longer than
\* the index is now, and is copied before its log.
CopyOrderInv ==
    /\ \A k \in Trips : idxN[k] <= logN[k]
    /\ \A m \in members :
          /\ m[1] \notin left
          /\ (m[1][2] = "idx") => m[2] <= idxN[m[1][1]]
          /\ (m[1][2] = "log") => <<m[1][1], "idx">> \notin left
    /\ IndexWithinLog(members)
    /\ \A d \in Days : IndexWithinLog(tar[d])

\* Every step keeps the copied indexes within the copied logs.
LEMMA CopyOrderNext ==
    ASSUME TypeOK, CopyOrderInv, [Next]_vars
    PROVE  CopyOrderInv'
<1>1. CASE UNCHANGED vars
  BY <1>1 DEF CopyOrderInv, IndexWithinLog, vars
<1>2. CASE StartNode \/ OpenTripFiles \/ InsertGlobalRow \/ EndTrip \/ IngestCrash \/ Midnight
           \/ \E k \in Trips : RecoverRow(k)
  BY <1>2 DEF StartNode, OpenTripFiles, InsertGlobalRow, EndTrip, IngestCrash, RecoverRow, Midnight,
              ingest, archive, hdd, CopyOrderInv, IndexWithinLog
<1>3. CASE FlushLog
  <2>1. \A k \in Trips : idxN'[k] <= logN'[k]
    BY <1>3, NodeTrip DEF FlushLog, TypeOK, CopyOrderInv
  <2> QED
    BY <1>3, <2>1 DEF FlushLog, archive, hdd, CopyOrderInv, IndexWithinLog
<1>4. CASE FlushIdx
  <2>1. \A k \in Trips : idxN'[k] <= logN'[k] /\ idxN[k] <= idxN'[k] /\ idxN'[k] \in Nat
    BY <1>4, NodeTrip DEF FlushIdx, TypeOK, CopyOrderInv
  <2>2. \A m \in members : m[1][1] \in Trips /\ m[2] \in Nat
    BY DEF TypeOK, Files
  <2>3. ASSUME NEW m \in members, m[1][2] = "idx"
        PROVE  m[2] <= idxN'[m[1][1]]
    <3>1. m[2] <= idxN[m[1][1]]
      BY <2>3 DEF CopyOrderInv
    <3>2. idxN[m[1][1]] <= idxN'[m[1][1]] /\ idxN'[m[1][1]] \in Nat /\ idxN[m[1][1]] \in Nat
      BY <2>1, <2>2 DEF TypeOK
    <3> QED
      BY <2>2, <3>1, <3>2
  <2> QED
    BY <1>4, <2>1, <2>3 DEF FlushIdx, archive, hdd, CopyOrderInv, IndexWithinLog
<1>5. CASE \E cutoff \in Days : StartArchive(cutoff)
  BY <1>5 DEF StartArchive, ingest, hdd, CopyOrderInv, IndexWithinLog
<1>6. CASE PickDay
  BY <1>6 DEF PickDay, ingest, hdd, CopyOrderInv, IndexWithinLog
<1>7. CASE RefuseDay \/ FinishRun \/ RunFails \/ ArchiveCrash
  BY <1>7 DEF RefuseDay, FinishRun, RunFails, ArchiveCrash, Exit, ingest, hdd,
              CopyOrderInv, IndexWithinLog
<1>8. CASE CopyFile
  <2>1. PICK f \in left : /\ \A g \in left : ~SortsBefore(g, f)
                          /\ members' = members \cup {<<f, Size(f)>>}
                          /\ left' = left \ {f}
    BY <1>8 DEF CopyFile
  <2>2. /\ UNCHANGED <<idxN, logN, tar>>
        /\ f \in Files /\ f[1] \in Trips /\ f[2] \in {"idx", "log"} /\ f = <<f[1], f[2]>>
    BY <1>8, <2>1 DEF CopyFile, ingest, hdd, TypeOK, Files
  <2>3. (f[2] = "log") => <<f[1], "idx">> \notin left
    BY <2>1, <2>2 DEF SortsBefore
  <2>4. \A m \in members' :
          /\ m[1] \notin left'
          /\ (m[1][2] = "idx") => m[2] <= idxN[m[1][1]]
          /\ (m[1][2] = "log") => <<m[1][1], "idx">> \notin left'
    <3> SUFFICES ASSUME NEW m \in members'
                 PROVE  /\ m[1] \notin left'
                        /\ (m[1][2] = "idx") => m[2] <= idxN[m[1][1]]
                        /\ (m[1][2] = "log") => <<m[1][1], "idx">> \notin left'
      OBVIOUS
    <3>1. CASE m \in members
      BY <2>1, <3>1 DEF CopyOrderInv
    <3>2. CASE m = <<f, Size(f)>>
      BY <2>1, <2>2, <2>3, <3>2 DEF Size, TypeOK
    <3> QED
      BY <2>1, <3>1, <3>2
  <2>5. IndexWithinLog(members')
    <3> SUFFICES ASSUME NEW m \in members', NEW n \in members',
                        m[1][1] = n[1][1], m[1][2] = "idx", n[1][2] = "log"
                 PROVE  m[2] <= n[2]
      BY DEF IndexWithinLog
    <3>1. CASE m \in members /\ n \in members
      BY <3>1 DEF CopyOrderInv, IndexWithinLog
    <3>2. CASE m \in members /\ n = <<f, Size(f)>>
      <4>1. m[2] <= idxN[m[1][1]] /\ idxN[f[1]] <= logN[f[1]] /\ m[2] \in Nat
        BY <2>2, <3>2 DEF CopyOrderInv, TypeOK
      <4>2. n[2] = logN[f[1]] /\ m[1][1] = f[1]
        BY <3>2 DEF Size
      <4> QED
        BY <2>2, <4>1, <4>2 DEF TypeOK
    <3>3. CASE m = <<f, Size(f)>> /\ n \in members
      <4>1. <<n[1][1], "idx">> \notin left /\ f[1] = n[1][1] /\ f[2] = "idx"
        BY <3>3 DEF CopyOrderInv
      <4> QED
        BY <2>1, <2>2, <4>1
    <3>4. CASE m = <<f, Size(f)>> /\ n = <<f, Size(f)>>
      BY <3>4
    <3> QED
      BY <2>1, <3>1, <3>2, <3>3, <3>4
  <2> QED
    BY <2>2, <2>4, <2>5 DEF CopyOrderInv
<1>9. CASE RenameTar
  <2>1. \A d \in Days : tar'[d] = tar[d] \/ tar'[d] = members
    BY <1>9 DEF RenameTar, TypeOK
  <2>2. \A d \in Days : IndexWithinLog(tar'[d])
    BY <2>1 DEF CopyOrderInv
  <2> QED
    BY <1>9, <2>2 DEF RenameTar, ingest, CopyOrderInv, IndexWithinLog
<1>10. CASE RenameIdx \/ FsyncParentDir \/ CopyRows \/ DeleteRows \/ RemoveFolder
           \/ \E k \in Trips : RemoveTrip(k)
  BY <1>10 DEF RenameIdx, FsyncParentDir, CopyRows, DeleteRows, RemoveFolder, RemoveTrip,
               ingest, archive, hdd, CopyOrderInv, IndexWithinLog
<1> QED
  BY <1>1, <1>2, <1>3, <1>4, <1>5, <1>6, <1>7, <1>8, <1>9, <1>10
     DEF Next, IngestStep, ArchiveStep

\* An index inside a tar never leads past the log next to it, also when the
\* trip was written while its files were copied.
THEOREM TarIndexWithinLogHolds == Spec => []TarIndexWithinLog
<1>1. Init => CopyOrderInv
  BY DEF Init, CopyOrderInv, IndexWithinLog
<1>2. TypeOK /\ CopyOrderInv /\ [Next]_vars => CopyOrderInv'
  BY CopyOrderNext
<1>3. CopyOrderInv => TarIndexWithinLog
  BY DEF CopyOrderInv, IndexWithinLog, TarIndexWithinLog
<1> QED
  BY <1>1, <1>2, <1>3, ArchiveTypeCorrect, PTL DEF Spec

-----------------------------------------------------------------------------
(* What strict mode has on the disk before it removes files.               *)

\* Files of a trip that was begun are gone only after tar and index of its day
\* are synced, or could not be; the trip may still be written.
SyncInv ==
    /\ (apc \in {"copyRows", "deleteRows", "remove"}) => Secured(cur)
    /\ \A k \in Trips : ((k = active \/ idxN[k] > 0) /\ k \notin linked) => Secured(k[1])

\* Nothing that was synced is forgotten.
LEMMA SyncFrame ==
    ASSUME TypeOK, SyncInv, \A d \in Days : Secured(d) => Secured(d)',
           linked \subseteq linked', active' \in {active, NoTrip}, idxN' = idxN,
           (apc' \in {"copyRows", "deleteRows", "remove"}) =>
               cur' \in Days /\ Secured(cur)'
    PROVE  SyncInv'
<1>1. \A k \in Trips : k[1] \in Days /\ k # NoTrip
  BY DEF Trips, Days, NoTrip
<1> QED
  BY <1>1 DEF SyncInv, Secured

\* Every step keeps that in strict mode, also while a day that is archived has
\* a trip being written.
LEMMA SyncNext ==
    ASSUME Strict, TypeOK, SyncInv, [Next]_vars
    PROVE  SyncInv'
<1>1. \A k \in Trips : k[1] \in Days /\ k # NoTrip
  BY DEF Trips, Days, NoTrip
<1>2. CASE OpenTripFiles
  <2>1. PICK k : active' = k /\ linked' = linked \cup {k} /\ UNCHANGED <<idxN, apc, cur, synced, unopened>>
    BY <1>2 DEF OpenTripFiles, archive, hdd
  <2> QED
    BY <2>1 DEF SyncInv, Secured
<1>3. CASE FlushIdx
  <2>1. active \in Trips /\ UNCHANGED <<active, linked, apc, cur, synced, unopened>>
        /\ \A k \in Trips : idxN'[k] = idxN[k] \/ k = active
    BY <1>3, NodeTrip DEF FlushIdx, TypeOK, node, archive, hdd
  <2> QED
    BY <2>1 DEF SyncInv, Secured
<1>4. CASE StartNode \/ (\E k \in Trips : RecoverRow(k)) \/ InsertGlobalRow \/ FlushLog
           \/ EndTrip \/ IngestCrash \/ Midnight \/ UNCHANGED vars
  <2>1. active' \in {active, NoTrip} /\ UNCHANGED <<linked, idxN, apc, cur, synced, unopened>>
    BY <1>4 DEF StartNode, InsertGlobalRow, FlushLog, EndTrip, IngestCrash, RecoverRow, Midnight,
                NodeEnds, node, ingest, archive, hdd, vars
  <2> QED
    BY <1>1, <2>1 DEF SyncInv, Secured
<1>5. CASE (\E cutoff \in Days : StartArchive(cutoff)) \/ PickDay \/ CopyFile \/ RenameTar
           \/ RenameIdx
  <2>1. /\ apc' \in {"next", "copy", "renameTar", "renameIdx", "fsync"}
        /\ UNCHANGED <<active, linked, idxN, synced, unopened>>
    BY <1>5 DEF StartArchive, PickDay, CopyFile, AfterFile, RenameTar, RenameIdx, ingest, hdd
  <2> QED
    BY <2>1, SyncFrame DEF Secured
<1>6. CASE RefuseDay \/ FinishRun \/ RunFails \/ ArchiveCrash
  <2>1. apc' = "idle" /\ UNCHANGED <<active, linked, idxN>>
    BY <1>6 DEF RefuseDay, FinishRun, RunFails, ArchiveCrash, Exit, ingest
  <2>2. \A d \in Days : Secured(d) => Secured(d)'
    BY <1>6 DEF RefuseDay, FinishRun, RunFails, ArchiveCrash, SyncRows, hdd, Secured
  <2> QED
    BY <2>1, <2>2, SyncFrame
<1>7. CASE FsyncParentDir
  <2>1. /\ cur' = cur /\ cur \in Days /\ UNCHANGED <<active, linked, idxN>>
        /\ \/ /\ synced' = [synced EXCEPT ![cur] = @ \cup {"tar", "idx"}]
              /\ unopened' = unopened
           \/ synced' = synced /\ unopened' = unopened \cup {cur}
    BY <1>7 DEF FsyncParentDir, FsyncedNames, ingest, TypeOK
  <2>2. Secured(cur)' /\ \A d \in Days : Secured(d) => Secured(d)'
    BY <2>1 DEF TypeOK, Secured
  <2> QED
    BY <2>1, <2>2, SyncFrame
<1>8. CASE CopyRows \/ DeleteRows \/ RemoveFolder
  <2>1. /\ apc \in {"copyRows", "deleteRows", "remove"} /\ cur' = cur /\ cur \in Days
        /\ UNCHANGED <<active, linked, idxN, synced, unopened>>
    BY <1>8 DEF CopyRows, DeleteRows, RemoveFolder, ingest, hdd, TypeOK
  <2> QED
    BY <2>1, SyncFrame DEF SyncInv, Secured
<1>9. CASE \E k \in Trips : RemoveTrip(k)
  <2>1. PICK k \in linked \cap TripsOf(cur) : linked' = linked \ {k} /\ apc = "remove"
                                              /\ UNCHANGED <<active, idxN, apc, cur, synced, unopened>>
    BY <1>9 DEF RemoveTrip, ingest, archive, hdd
  <2>2. k[1] = cur /\ Secured(cur)
    BY <2>1 DEF TripsOf, SyncInv
  <2> QED
    BY <2>1, <2>2 DEF SyncInv, Secured
<1> QED
  BY <1>2, <1>3, <1>4, <1>5, <1>6, <1>7, <1>8, <1>9 DEF Next, IngestStep, ArchiveStep

\* In strict mode tar and index are on the disk, with their names, before the
\* first file of their day is removed, whatever stops earlier runs: the only
\* exception is a day whose directory could not be opened to sync it.
THEOREM StrictRemovesAfterSyncHolds == ASSUME Strict PROVE Spec => []StrictRemovesAfterSync
<1>1. Init => SyncInv
  BY DEF Init, SyncInv, NoTrip, Trips, Days
<1>2. TypeOK /\ SyncInv /\ [Next]_vars => SyncInv'
  BY SyncNext
<1>3. SyncInv => StrictRemovesAfterSync
  BY DEF SyncInv, StrictRemovesAfterSync
<1> QED
  BY <1>1, <1>2, <1>3, ArchiveTypeCorrect, PTL DEF Spec

-----------------------------------------------------------------------------
(* Nothing is lost when no archived day has a trip being written.          *)

\* Steps of a run after the rename of the tar.
Renamed == apc \in {"renameIdx", "fsync", "copyRows", "deleteRows", "remove"}

\* No trip is begun or written, now or later, in a day a run still has to do
\* with.
ClosedDays ==
    /\ \A d \in todo : d < today /\ day # d
    /\ (apc \notin {"idle", "next"}) => cur < today /\ day # cur

\* What the SSD holds: files for every row, and files and a row for the trip
\* being written.
HotInv ==
    /\ (npc \in {"insert", "run"}) => active \in linked
    /\ (npc = "run") => rows[active] # "none"
    /\ \A k \in Trips : rows[k] # "none" => k \in linked
    /\ \A k \in Trips : idxN[k] <= logN[k]

\* What a run has put into the tar of the files that are still on the SSD.
CopyInv ==
    /\ (apc \in {"copy", "renameTar"}) =>
          /\ tar[cur] = {}
          /\ \A f \in FilesOf(linked \cap TripsOf(cur)) :
                f \in left \/ <<f, Size(f)>> \in members
    /\ (apc = "renameTar") => left = {}
    /\ Renamed => \A f \in FilesOf(linked \cap TripsOf(cur)) : <<f, Size(f)>> \in tar[cur]

\* How far the catalogs and the tar index are.
MoveInv ==
    /\ (apc \in {"fsync", "copyRows", "deleteRows", "remove"}) => cur \in tarIdx
    /\ (apc = "deleteRows") => \A k \in TripsOf(cur) : rows[k] # "none" => cold[k] # "none"
    /\ (apc = "remove") => \A k \in TripsOf(cur) : rows[k] = "none"

SafeInv == ClosedDays /\ HotInv /\ CopyInv /\ MoveInv /\ NothingLost /\ FoundInATier

\* Steps that leave the run and its tar alone, and in the day being archived
\* at most remove files.
LEMMA CopyFrame ==
    ASSUME CopyInv, UNCHANGED <<archive, tar>>,
           (apc \notin {"idle", "next"}) =>
               \A k \in TripsOf(cur) : /\ k \in linked' => k \in linked
                                       /\ idxN'[k] = idxN[k] /\ logN'[k] = logN[k]
    PROVE  CopyInv'
<1>1. ASSUME apc \notin {"idle", "next"}, NEW f \in FilesOf(linked' \cap TripsOf(cur))
      PROVE  f \in FilesOf(linked \cap TripsOf(cur)) /\ Size(f)' = Size(f)
  <2>1. PICK k \in linked' \cap TripsOf(cur), e \in {"idx", "log"} : f = <<k, e>>
    BY DEF FilesOf
  <2>2. k \in linked /\ idxN'[k] = idxN[k] /\ logN'[k] = logN[k]
    BY <1>1, <2>1
  <2> QED
    BY <2>1, <2>2 DEF FilesOf, Size
<1>2. cur' = cur /\ apc' = apc /\ left' = left /\ members' = members /\ TripsOf(cur)' = TripsOf(cur)
  BY DEF archive, TripsOf
<1>3. (apc \in {"copy", "renameTar"}) =>
          \A f \in FilesOf(linked' \cap TripsOf(cur)) : f \in left \/ <<f, Size(f)'>> \in members
  BY <1>1 DEF CopyInv
<1>4. Renamed => \A f \in FilesOf(linked' \cap TripsOf(cur)) : <<f, Size(f)'>> \in tar[cur]
  BY <1>1 DEF CopyInv, Renamed
<1>5. FilesOf(linked \cap TripsOf(cur))' = FilesOf(linked' \cap TripsOf(cur)) /\ Renamed' = Renamed
  BY <1>2 DEF FilesOf, Renamed
<1> QED
  BY <1>2, <1>3, <1>4, <1>5 DEF CopyInv

\* What is in a tar stays there while the tars, and the trip's index, do.
LEMMA InTarFrame ==
    ASSUME NEW k, UNCHANGED tar, idxN'[k] = idxN[k]
    PROVE  InTar(k)' <=> InTar(k)
  BY DEF InTar

\* Steps that keep the tars and the files, and the index of unlinked trips.
LEMMA LostFrame ==
    ASSUME TypeOK, NothingLost, UNCHANGED tar,
           \A k \in Trips : k \in linked => k \in linked',
           \A k \in Trips : k \notin linked => idxN'[k] = idxN[k]
    PROVE  NothingLost'
<1> SUFFICES ASSUME NEW k \in Trips, idxN'[k] > 0, k \notin linked' PROVE InTar(k)'
  BY DEF NothingLost
<1>1. k \notin linked /\ idxN'[k] = idxN[k]
  OBVIOUS
<1>2. InTar(k)
  BY <1>1 DEF NothingLost
<1> QED
  BY <1>1, <1>2, InTarFrame

\* The same for the two catalogs: a row that was found is still found.
LEMMA FoundFrame ==
    ASSUME TypeOK, FoundInATier, UNCHANGED <<tar, cold, tarIdx>>,
           \A k \in Trips : HotFinds(k) => HotFinds(k)',
           \A k \in Trips : idxN'[k] = idxN[k] \/ HotFinds(k)'
    PROVE  FoundInATier'
<1> SUFFICES ASSUME NEW k \in Trips, idxN'[k] > 0, cold[k] # "open", ~HotFinds(k)'
             PROVE ColdFinds(k)'
  BY DEF FoundInATier
<1>1. idxN'[k] = idxN[k] /\ ~HotFinds(k)
  OBVIOUS
<1>2. ColdFinds(k)
  BY <1>1 DEF FoundInATier
<1> QED
  BY <1>1, <1>2, InTarFrame DEF ColdFinds

\* The steps of the ingest node and of the calendar.
LEMMA SafeIngest ==
    ASSUME TypeOK, TypeOK', SafeInv, IngestStep \/ Midnight
    PROVE  SafeInv'
<1> USE DEF SafeInv
<1>a. /\ UNCHANGED <<archive, tar, cold, tarIdx, hdd>>
      /\ UNCHANGED <<apc, todo, cur, left, members, synced>>
  BY DEF IngestStep, StartNode, OpenTripFiles, InsertGlobalRow, FlushLog, FlushIdx, EndTrip,
         IngestCrash, RecoverRow, Midnight, archive, hdd
<1>1. CASE OpenTripFiles
  <2>1. PICK k \in Trips : /\ k[1] = day /\ active' = k /\ linked' = linked \cup {k}
                           /\ npc' = "insert" /\ UNCHANGED <<today, day, logN, idxN, rows>>
    <3>1. npc' = "insert" /\ day' = day
      BY <1>1 DEF OpenTripFiles
    <3>2. active' \in Trips /\ active'[1] = day
      BY <3>1 DEF TypeOK
    <3> QED
      BY <1>1, <3>1, <3>2 DEF OpenTripFiles
  <2>2. ClosedDays'
    BY <1>a, <2>1 DEF ClosedDays
  <2>3. (apc \notin {"idle", "next"}) => k \notin TripsOf(cur)
    BY <2>1 DEF ClosedDays, TripsOf
  <2>4. HotInv'
    BY <2>1 DEF HotInv
  <2>5. CopyInv'
    BY <1>a, <2>1, <2>3, CopyFrame
  <2>6. MoveInv'
    BY <1>a, <2>1 DEF MoveInv, TripsOf
  <2>7. NothingLost'
    BY <1>a, <2>1, LostFrame
  <2>8. \A m \in Trips : HotFinds(m) => HotFinds(m)'
    BY <2>1 DEF HotFinds
  <2>9. FoundInATier'
    BY <1>a, <2>1, <2>8, FoundFrame
  <2> QED
    BY <2>2, <2>4, <2>5, <2>6, <2>7, <2>9
<1>10. CASE InsertGlobalRow
  <2>1. /\ active \in Trips /\ active[1] = day /\ active \in linked /\ npc = "insert" /\ npc' = "run"
        /\ rows'[active] = "open" /\ \A k \in Trips \ {active} : rows'[k] = rows[k]
        /\ UNCHANGED <<today, day, active, linked, logN, idxN>>
    BY <1>10, NodeTrip DEF InsertGlobalRow, HotInv, TypeOK
  <2>2. ClosedDays'
    BY <1>a, <2>1 DEF ClosedDays
  <2>3. (apc \notin {"idle", "next"}) => active \notin TripsOf(cur)
    BY <2>1 DEF ClosedDays, TripsOf
  <2>4. HotInv'
    BY <2>1 DEF HotInv
  <2>5. CopyInv'
    BY <1>a, <2>1, CopyFrame
  <2>6. MoveInv'
    BY <1>a, <2>1, <2>3 DEF MoveInv, TripsOf
  <2>7. NothingLost'
    BY <1>a, <2>1, LostFrame
  <2>8. \A m \in Trips : HotFinds(m) => HotFinds(m)'
    BY <2>1 DEF HotFinds
  <2>9. FoundInATier'
    BY <1>a, <2>1, <2>8, FoundFrame
  <2> QED
    BY <2>2, <2>4, <2>5, <2>6, <2>7, <2>9
<1>2. CASE FlushLog
  <2>1. /\ UNCHANGED <<today, npc, day, active, linked, idxN, rows>>
        /\ active \in Trips /\ active[1] = day
        /\ logN' = [logN EXCEPT ![active] = @ + 1]
    BY <1>2, NodeTrip DEF FlushLog, node
  <2>2. (apc \notin {"idle", "next"}) => \A k \in TripsOf(cur) : logN'[k] = logN[k]
    BY <2>1 DEF ClosedDays, TripsOf, TypeOK
  <2>3. HotInv'
    BY <2>1 DEF HotInv, TypeOK
  <2>4. CopyInv'
    BY <1>a, <2>1, <2>2, CopyFrame
  <2>5. NothingLost' /\ FoundInATier'
    BY <1>a, <2>1, LostFrame, FoundFrame DEF HotFinds
  <2> QED
    BY <1>a, <2>1, <2>3, <2>4, <2>5 DEF ClosedDays, MoveInv, TripsOf
<1>3. CASE FlushIdx
  <2>1. /\ UNCHANGED <<today, npc, day, active, linked, logN, rows>>
        /\ active \in Trips /\ active[1] = day /\ npc = "run"
        /\ idxN' = [idxN EXCEPT ![active] = logN[active]]
    BY <1>3, NodeTrip DEF FlushIdx, node
  <2>2. (apc \notin {"idle", "next"}) => \A k \in TripsOf(cur) : idxN'[k] = idxN[k]
    BY <2>1 DEF ClosedDays, TripsOf, TypeOK
  <2>3. HotInv'
    BY <2>1 DEF HotInv, TypeOK
  <2>4. CopyInv'
    BY <1>a, <2>1, <2>2, CopyFrame
  <2>5. active \in linked /\ HotFinds(active)'
    BY <2>1 DEF HotInv, HotFinds
  <2>6. NothingLost'
    BY <1>a, <2>1, <2>5, LostFrame DEF TypeOK
  <2>7. \A k \in Trips : idxN'[k] = idxN[k] \/ k = active
    BY <2>1 DEF TypeOK
  <2>8. FoundInATier'
    BY <1>a, <2>1, <2>5, <2>7, FoundFrame DEF HotFinds
  <2> QED
    BY <1>a, <2>1, <2>3, <2>4, <2>6, <2>8 DEF ClosedDays, MoveInv, TripsOf
<1>4. CASE StartNode \/ EndTrip \/ IngestCrash \/ \E k \in Trips : RecoverRow(k)
  <2>1. /\ UNCHANGED <<today, linked, logN, idxN>>
        /\ \A k \in Trips : rows'[k] = "none" <=> rows[k] = "none"
        /\ npc' \in {"start", "down"}
        /\ day' \in {day, 0, today}
    BY <1>4 DEF StartNode, EndTrip, IngestCrash, NodeEnds, RecoverRow, ingest, TypeOK
  <2>2. ClosedDays'
    BY <1>a, <2>1 DEF ClosedDays, TypeOK, Days
  <2>3. HotInv'
    BY <2>1 DEF HotInv
  <2>4. CopyInv'
    BY <1>a, <2>1, CopyFrame
  <2>5. MoveInv'
    BY <1>a, <2>1 DEF MoveInv, TripsOf
  <2>6. NothingLost' /\ FoundInATier'
    BY <1>a, <2>1, LostFrame, FoundFrame DEF HotFinds
  <2> QED
    BY <2>2, <2>3, <2>4, <2>5, <2>6
<1>5. CASE Midnight
  <2>1. UNCHANGED <<npc, day, active, linked, logN, idxN, rows>> /\ today' = today + 1
    BY <1>5 DEF Midnight, node
  <2>2. ClosedDays'
    BY <1>a, <2>1 DEF ClosedDays, TypeOK, Days
  <2>3. CopyInv'
    BY <1>a, <2>1, CopyFrame
  <2>4. NothingLost' /\ FoundInATier'
    BY <1>a, <2>1, LostFrame, FoundFrame DEF HotFinds
  <2> QED
    BY <1>a, <2>1, <2>2, <2>3, <2>4 DEF HotInv, MoveInv, TripsOf
<1> QED
  BY <1>1, <1>2, <1>3, <1>4, <1>5, <1>10 DEF IngestStep

\* The steps of the program up to the copies: nothing moves yet.
LEMMA SafeCopying ==
    ASSUME TypeOK, SafeInv, Careful,
           \/ \E cutoff \in Days : StartArchive(cutoff)
           \/ PickDay \/ RefuseDay \/ FinishRun \/ RunFails \/ ArchiveCrash \/ CopyFile
    PROVE  SafeInv'
<1> USE DEF SafeInv
<1>a. UNCHANGED <<today, npc, day, active, logN, idxN, linked, rows, tar, tarIdx, cold>>
  BY DEF StartArchive, PickDay, RefuseDay, FinishRun, RunFails, ArchiveCrash, CopyFile,
         ingest, hdd
<1>b. HotInv' /\ NothingLost' /\ FoundInATier'
  BY <1>a, LostFrame, FoundFrame DEF HotInv, HotFinds
<1>1. CASE \E cutoff \in Days : StartArchive(cutoff)
  <2>1. PICK cutoff \in Days : StartArchive(cutoff)
    BY <1>1
  <2>2. apc' = "next" /\ \A d \in todo' : d < today /\ day # d /\ d \in Days
    BY <2>1 DEF StartArchive, Candidates, TypeOK, Days
  <2>3. ClosedDays'
    BY <1>a, <2>2 DEF ClosedDays
  <2> QED
    BY <1>b, <2>2, <2>3 DEF CopyInv, MoveInv, Renamed
<1>2. CASE PickDay
  <2>1. /\ cur' \in todo /\ todo' = todo \ {cur'} /\ tar[cur'] = {}
        /\ left' = FilesOf(linked \cap TripsOf(cur')) /\ apc' = "copy"
    BY <1>2 DEF PickDay, TarExists
  <2>2. ClosedDays'
    BY <1>a, <2>1 DEF ClosedDays
  <2>3. FilesOf(linked \cap TripsOf(cur))' = left'
    BY <1>a, <2>1 DEF FilesOf, TripsOf
  <2>4. CopyInv'
    BY <1>a, <2>1, <2>3 DEF CopyInv, Renamed
  <2> QED
    BY <1>b, <2>1, <2>2, <2>4 DEF MoveInv
<1>3. CASE RefuseDay \/ FinishRun \/ RunFails \/ ArchiveCrash
  <2>1. apc' = "idle" /\ todo' = {}
    BY <1>3 DEF RefuseDay, FinishRun, RunFails, ArchiveCrash, Exit
  <2> QED
    BY <1>b, <2>1 DEF ClosedDays, CopyInv, MoveInv, Renamed
<1>4. CASE CopyFile
  <2>1. PICK f \in left : members' = members \cup {<<f, Size(f)>>} /\ left' = left \ {f}
    BY <1>4 DEF CopyFile
  <2>2. /\ apc = "copy" /\ apc' \in {"copy", "renameTar"}
        /\ apc' = "renameTar" => left' = {}
        /\ UNCHANGED <<cur, todo>>
    BY <1>4 DEF CopyFile, AfterFile
  <2>3. ClosedDays'
    BY <1>a, <2>2 DEF ClosedDays
  <2>4. FilesOf(linked \cap TripsOf(cur))' = FilesOf(linked \cap TripsOf(cur))
    BY <1>a, <2>2 DEF FilesOf, TripsOf
  <2>5. \A g : Size(g)' = Size(g)
    BY <1>a DEF Size
  <2>6. \A g \in FilesOf(linked \cap TripsOf(cur)) : g \in left' \/ <<g, Size(g)>> \in members'
    BY <2>1, <2>2 DEF CopyInv
  <2>7. CopyInv'
    BY <1>a, <2>2, <2>4, <2>5, <2>6 DEF CopyInv, Renamed
  <2> QED
    BY <1>b, <2>2, <2>3, <2>7 DEF MoveInv
<1> QED
  BY <1>1, <1>2, <1>3, <1>4

\* After the rename, the tar has what the SSD still has of its day.
LEMMA RenamedInTar ==
    ASSUME TypeOK, SafeInv, Renamed, NEW k \in TripsOf(cur), k \in linked
    PROVE  InTar(k)
<1>1. k \in Trips /\ k[1] = cur /\ <<k, "idx">> \in FilesOf(linked \cap TripsOf(cur))
      /\ <<k, "log">> \in FilesOf(linked \cap TripsOf(cur))
  BY DEF TripsOf, FilesOf
<1>2. <<<<k, "idx">>, idxN[k]>> \in tar[cur] /\ <<<<k, "log">>, logN[k]>> \in tar[cur]
  BY <1>1 DEF SafeInv, CopyInv, Size
<1>3. logN[k] >= idxN[k]
  BY <1>1 DEF SafeInv, HotInv, TypeOK
<1> QED
  BY <1>1, <1>2, <1>3 DEF InTar

\* The steps that give a finished tar its name.
LEMMA SafeRenaming ==
    ASSUME TypeOK, SafeInv, RenameTar \/ RenameIdx \/ FsyncParentDir
    PROVE  SafeInv'
<1> USE DEF SafeInv
<1>a. /\ UNCHANGED <<today, npc, day, active, logN, idxN, linked, rows, todo, cur, left, members, cold>>
      /\ cur \in Days
  BY DEF RenameTar, RenameIdx, FsyncParentDir, ingest, TypeOK
<1>b. /\ FilesOf(linked \cap TripsOf(cur))' = FilesOf(linked \cap TripsOf(cur))
      /\ \A f : Size(f)' = Size(f)
  BY <1>a DEF FilesOf, TripsOf, Size
<1>c. HotInv' /\ ClosedDays'
  BY <1>a DEF HotInv, ClosedDays, RenameTar, RenameIdx, FsyncParentDir
<1>1. CASE RenameTar
  <2>1. tar' = [tar EXCEPT ![cur] = members] /\ apc = "renameTar" /\ apc' = "renameIdx"
        /\ tarIdx' = tarIdx
    BY <1>1 DEF RenameTar
  <2>2. tar[cur] = {} /\ tar'[cur] = members
    BY <1>a, <2>1 DEF CopyInv, TypeOK
  <2>3. \A k \in Trips : InTar(k) => InTar(k)'
    <3> SUFFICES ASSUME NEW k \in Trips, InTar(k) PROVE InTar(k)'
      OBVIOUS
    <3>1. k[1] # cur
      BY <2>2 DEF InTar
    <3>2. tar'[k[1]] = tar[k[1]]
      BY <2>1, <3>1 DEF TypeOK, Trips
    <3> QED
      BY <1>a, <3>2 DEF InTar
  <2>4. NothingLost'
    BY <1>a, <2>3 DEF NothingLost
  <2>5. FoundInATier'
    BY <1>a, <2>1, <2>3 DEF FoundInATier, HotFinds, ColdFinds
  <2>6. CopyInv'
    BY <1>a, <1>b, <2>1, <2>2 DEF CopyInv, Renamed
  <2> QED
    BY <1>c, <2>1, <2>4, <2>5, <2>6 DEF MoveInv
<1>2. CASE RenameIdx \/ FsyncParentDir
  <2>1. /\ UNCHANGED tar /\ tarIdx \subseteq tarIdx'
        /\ apc \in {"renameIdx", "fsync"} /\ apc' \in {"fsync", "copyRows"}
        /\ cur \in tarIdx'
    BY <1>2 DEF RenameIdx, FsyncParentDir, MoveInv
  <2>2. NothingLost'
    BY <1>a, <2>1, LostFrame
  <2>3. FoundInATier'
    BY <1>a, <2>1, InTarFrame DEF FoundInATier, HotFinds, ColdFinds
  <2>4. CopyInv'
    BY <1>a, <1>b, <2>1 DEF CopyInv, Renamed
  <2> QED
    BY <1>c, <1>a, <2>1, <2>2, <2>3, <2>4 DEF MoveInv
<1> QED
  BY <1>1, <1>2

\* The steps that move the rows and remove the files.
LEMMA SafeMoving ==
    ASSUME TypeOK, SafeInv,
           CopyRows \/ DeleteRows \/ RemoveFolder \/ \E k \in Trips : RemoveTrip(k)
    PROVE  SafeInv'
<1> USE DEF SafeInv
<1>a. /\ UNCHANGED <<today, npc, day, active, logN, idxN, todo, cur, left, members, tar, tarIdx>>
      /\ linked' \subseteq linked
      /\ apc \in {"copyRows", "deleteRows", "remove"}
      /\ apc' \in {"deleteRows", "remove", "next"}
      /\ cur \in Days /\ cur < today /\ day # cur /\ cur \in tarIdx
  BY DEF CopyRows, DeleteRows, RemoveFolder, RemoveTrip, ingest, archive, hdd, TypeOK,
         ClosedDays, MoveInv
<1>b. /\ FilesOf(linked \cap TripsOf(cur))' \subseteq FilesOf(linked \cap TripsOf(cur))
      /\ \A f : Size(f)' = Size(f)
  BY <1>a DEF FilesOf, TripsOf, Size
<1>c. ClosedDays'
  BY <1>a DEF ClosedDays
<1>d. CopyInv'
  BY <1>a, <1>b DEF CopyInv, Renamed
<1>1. CASE CopyRows
  <2>1. /\ UNCHANGED <<linked, rows>> /\ apc' = "deleteRows"
        /\ \A k \in Trips : cold'[k] = IF k[1] = cur /\ rows[k] # "none" THEN rows[k] ELSE cold[k]
    BY <1>1 DEF CopyRows, CopiedRow
  <2>2. HotInv' /\ NothingLost'
    BY <1>a, <2>1, LostFrame DEF HotInv
  <2>3. MoveInv'
    BY <1>a, <2>1 DEF MoveInv, TripsOf
  <2>4. FoundInATier'
    <3> SUFFICES ASSUME NEW k \in Trips, idxN'[k] > 0, cold'[k] # "open", ~HotFinds(k)'
                 PROVE  ColdFinds(k)'
      BY DEF FoundInATier
    <3>1. rows[k] = "none" /\ ~HotFinds(k)
      BY <2>1 DEF HotFinds, HotInv
    <3>2. cold'[k] = cold[k]
      BY <2>1, <3>1
    <3> QED
      BY <1>a, <3>1, <3>2, InTarFrame DEF FoundInATier, ColdFinds
  <2> QED
    BY <1>c, <1>d, <2>2, <2>3, <2>4
<1>2. CASE DeleteRows
  <2>1. /\ UNCHANGED <<linked, cold>> /\ apc = "deleteRows" /\ apc' = "remove"
        /\ \A k \in Trips : rows'[k] = IF k[1] = cur THEN "none" ELSE rows[k]
    BY <1>2 DEF DeleteRows, hdd
  <2>2. (npc \in {"insert", "run"}) => active \in Trips /\ active[1] # cur
    BY <1>a, NodeTrip
  <2>3. HotInv'
    BY <1>a, <2>1, <2>2 DEF HotInv
  <2>4. NothingLost'
    BY <1>a, <2>1, LostFrame
  <2>5. MoveInv'
    BY <1>a, <2>1 DEF MoveInv, TripsOf
  <2>6. FoundInATier'
    <3> SUFFICES ASSUME NEW k \in Trips, idxN'[k] > 0, cold'[k] # "open", ~HotFinds(k)'
                 PROVE  ColdFinds(k)'
      BY DEF FoundInATier
    <3>1. HotFinds(k) \/ ColdFinds(k)
      BY <1>a, <2>1 DEF FoundInATier
    <3>2. CASE ColdFinds(k)
      BY <1>a, <2>1, <3>2, InTarFrame DEF ColdFinds
    <3>3. CASE HotFinds(k)
      <4>1. k[1] = cur /\ k \in TripsOf(cur) /\ k \in linked /\ rows[k] # "none"
        BY <2>1, <3>3 DEF HotFinds, TripsOf
      <4>2. cold[k] = "closed"
        BY <2>1, <4>1 DEF MoveInv, TypeOK, States
      <4>3. InTar(k)
        BY <1>a, <4>1, RenamedInTar DEF Renamed
      <4> QED
        BY <1>a, <2>1, <4>1, <4>2, <4>3, InTarFrame DEF ColdFinds
    <3> QED
      BY <3>1, <3>2, <3>3
  <2> QED
    BY <1>c, <1>d, <2>3, <2>4, <2>5, <2>6
<1>3. CASE RemoveFolder
  <2>1. UNCHANGED <<linked, rows, cold>> /\ apc' = "next"
    BY <1>3 DEF RemoveFolder, hdd
  <2>2. NothingLost' /\ FoundInATier'
    BY <1>a, <2>1, LostFrame, FoundFrame DEF HotFinds
  <2> QED
    BY <1>a, <1>c, <1>d, <2>1, <2>2 DEF HotInv, MoveInv
<1>4. CASE \E k \in Trips : RemoveTrip(k)
  <2>1. PICK k \in linked \cap TripsOf(cur) : linked' = linked \ {k} /\ apc = "remove"
                                              /\ UNCHANGED <<rows, cold, apc>>
    BY <1>4 DEF RemoveTrip, archive, hdd
  <2>2. rows[k] = "none" /\ k \in Trips /\ k[1] = cur
    BY <2>1 DEF MoveInv, TripsOf
  <2>3. HotInv'
    <3>1. (npc \in {"insert", "run"}) => active # k
      BY <1>a, <2>2, NodeTrip
    <3> QED
      BY <1>a, <2>1, <2>2, <3>1 DEF HotInv
  <2>4. InTar(k)
    BY <2>1, RenamedInTar DEF Renamed
  <2>5. NothingLost'
    BY <1>a, <2>1, <2>4, InTarFrame DEF NothingLost
  <2>6. \A m \in Trips : HotFinds(m) => HotFinds(m)'
    BY <2>1, <2>2 DEF HotFinds
  <2>7. FoundInATier'
    BY <1>a, <2>1, <2>6, FoundFrame
  <2>8. MoveInv'
    BY <1>a, <2>1 DEF MoveInv, TripsOf
  <2> QED
    BY <1>c, <1>d, <2>3, <2>5, <2>7, <2>8
<1> QED
  BY <1>1, <1>2, <1>3, <1>4

\* Every step of a node and of a carefully run archiver keeps the invariant.
LEMMA SafeNext ==
    ASSUME TypeOK, TypeOK', SafeInv, Careful, [Next]_vars
    PROVE  SafeInv'
<1>1. CASE UNCHANGED vars
  <2>1. HotInv' /\ ClosedDays' /\ CopyInv' /\ MoveInv'
    BY <1>1 DEF SafeInv, HotInv, ClosedDays, CopyInv, MoveInv, Renamed, FilesOf, TripsOf, Size, vars
  <2>2. NothingLost' /\ FoundInATier'
    BY <1>1, LostFrame, FoundFrame DEF SafeInv, HotFinds, vars
  <2> QED
    BY <2>1, <2>2 DEF SafeInv
<1>2. CASE IngestStep \/ Midnight
  BY <1>2, SafeIngest
<1>3. CASE \/ \E cutoff \in Days : StartArchive(cutoff)
           \/ PickDay \/ RefuseDay \/ FinishRun \/ RunFails \/ ArchiveCrash \/ CopyFile
  BY <1>3, SafeCopying
<1>4. CASE RenameTar \/ RenameIdx \/ FsyncParentDir
  BY <1>4, SafeRenaming
<1>5. CASE CopyRows \/ DeleteRows \/ RemoveFolder \/ \E k \in Trips : RemoveTrip(k)
  BY <1>5, SafeMoving
<1> QED
  BY <1>1, <1>2, <1>3, <1>4, <1>5 DEF Next, ArchiveStep

\* SafeInv holds from the start.
LEMMA SafeInit == Init => SafeInv
  BY DEF Init, SafeInv, HotInv, ClosedDays, CopyInv, MoveInv, Renamed, NothingLost, FoundInATier,
         NoTrip

\* No crash of the archiver or the node, and no busy catalog, loses a record,
\* if the program is only run when no trip of its days is open.
THEOREM NothingLostHolds == ASSUME Careful PROVE Spec => []NothingLost
<1>1. TypeOK /\ TypeOK' /\ SafeInv /\ [Next]_vars => SafeInv'
  BY SafeNext
<1>2. SafeInv => NothingLost
  BY DEF SafeInv
<1> QED
  BY <1>1, <1>2, SafeInit, ArchiveTypeCorrect, PTL DEF Spec

\* Under the same assumption, a stored trip is found in a tier at every moment
\* of a run, unless its row had no end when it was archived.
THEOREM FoundInATierHolds == ASSUME Careful PROVE Spec => []FoundInATier
<1>1. TypeOK /\ TypeOK' /\ SafeInv /\ [Next]_vars => SafeInv'
  BY SafeNext
<1>2. SafeInv => FoundInATier
  BY DEF SafeInv
<1> QED
  BY <1>1, <1>2, SafeInit, ArchiveTypeCorrect, PTL DEF Spec

-----------------------------------------------------------------------------
(* The two tiers are one store whose days move at once.                    *)

\* Nothing is known of the trip k but, perhaps, its files.
Blank(k) == rows[k] = "none" /\ cold[k] = "none" /\ logN[k] = 0 /\ idxN[k] = 0

\* The next id of the day d is one that was never used.
NewIds(d) ==
    /\ \E c \in 0..MaxTrips : {i \in 0..(MaxTrips - 1) : <<d, i>> \in linked} = 0..(c - 1)
    /\ \A k \in Trips \ linked : k[1] = d => Blank(k)

\* What the node finds and does, and what the catalog of the HDD presupposes.
\* The archiver frees ids, by removing logs, but of no day a node still counts.
TierInv ==
    /\ \A d \in Days : (d >= today \/ d = day) => NewIds(d)
    /\ (npc = "insert") => Blank(active)
    /\ (npc = "run") => /\ rows[active] = "open"
                        /\ logN[active] \in {idxN[active], idxN[active] + 1}
    /\ \A k \in Trips : cold[k] # "none" => k[1] \in tarIdx
    /\ \A d \in tarIdx : tar[d] # {}
    /\ (apc = "renameIdx") => tar[cur] # {} /\ cur \notin tarIdx

\* The logs of a day are counted, whoever counts them.
LEMMA PrefixSize ==
    ASSUME TypeOK, NEW d \in Days, NEW c \in 0..MaxTrips,
           {i \in 0..(MaxTrips - 1) : <<d, i>> \in linked} = 0..(c - 1)
    PROVE  Cardinality(linked \cap TripsOf(d)) = c
<1> DEFINE S == 0..(c - 1)
           T == linked \cap TripsOf(d)
           f == [i \in S |-> <<d, i>>]
<1>1. T = {k \in linked : k[1] = d} /\ linked \subseteq Days \X (0..(MaxTrips - 1))
  BY DEF TripsOf, TypeOK, Trips
<1>2. \A k \in T : k[2] \in S /\ k = <<d, k[2]>>
  BY <1>1
<1>3. \A i \in S : <<d, i>> \in T
  BY <1>1
<1>4. f \in Bijection(S, T)
  <2> HIDE DEF S, T
  <2>1. f \in [S -> T]
    BY <1>3
  <2>2. \A i, j \in S : f[i] = f[j] => i = j
    OBVIOUS
  <2>3. \A k \in T : \E i \in S : f[i] = k
    BY <1>2
  <2> QED
    BY <2>1, <2>2, <2>3, Fun_IsBij
<1>5. IsFiniteSet(S) /\ Cardinality(S) = c
  <2>1. 0 \in Int /\ c - 1 \in Int
    BY ArchiveAssumption
  <2>2. IsFiniteSet(S) /\ Cardinality(S) = IF 0 > c - 1 THEN 0 ELSE (c - 1) - 0 + 1
    BY <2>1, FS_Interval, Zenon
  <2>3. (IF 0 > c - 1 THEN 0 ELSE (c - 1) - 0 + 1) = c
    BY ArchiveAssumption
  <2> QED
    BY <2>2, <2>3
<1>6. Cardinality(T) = Cardinality(S)
  <2> HIDE DEF S, T, f
  <2> QED
    BY <1>4, <1>5, FS_Bijection DEF ExistsBijection
<1> QED
  BY <1>5, <1>6

\* Steps that keep the files of a day, and what is not known of the others.
LEMMA NewIdsFrame ==
    ASSUME NEW d \in Days, NewIds(d),
           \A k \in Trips : k[1] = d => (k \in linked' <=> k \in linked),
           \A k \in Trips \ linked : k[1] = d => Blank(k)'
    PROVE  NewIds(d)'
<1>1. \A i \in 0..(MaxTrips - 1) : <<d, i>> \in Trips /\ <<d, i>>[1] = d
  BY DEF Trips
<1>2. {i \in 0..(MaxTrips - 1) : <<d, i>> \in linked'} = {i \in 0..(MaxTrips - 1) : <<d, i>> \in linked}
  BY <1>1
<1>3. \A k \in Trips \ linked' : k[1] = d => Blank(k)'
  OBVIOUS
<1> QED
  BY <1>2, <1>3 DEF NewIds

\* The id a node counts is new, and stays so until it has inserted its row.
LEMMA NewIdsOpened ==
    ASSUME TypeOK, RoomInv, TierInv, OpenTripFiles
    PROVE  /\ Blank(active')
           /\ \A d \in Days : NewIds(d) => NewIds(d)'
<1> DEFINE n == Cardinality(linked \cap TripsOf(day))
<1>0. /\ npc = "start" /\ active' = <<day, n>> /\ linked' = linked \cup {<<day, n>>}
      /\ UNCHANGED <<logN, idxN, rows, cold>>
  BY DEF OpenTripFiles, hdd
<1>1. day \in Days /\ n < MaxTrips
  <2>1. LastDay \in Nat /\ today \in 1..LastDay /\ day \in 0..today /\ day # 0
    BY <1>0, ArchiveAssumption DEF TypeOK, Days
  <2> QED
    BY <1>0, <2>1 DEF RoomInv, Days
<1>2. NewIds(day)
  BY <1>1 DEF TierInv
<1>3. PICK c \in 0..MaxTrips : {i \in 0..(MaxTrips - 1) : <<day, i>> \in linked} = 0..(c - 1)
  BY <1>2 DEF NewIds
<1>4. n = c
  BY <1>1, <1>3, PrefixSize
<1> HIDE DEF n
<1>5. n \in 0..(MaxTrips - 1)
  BY <1>1, <1>4, ArchiveAssumption
<1>6. <<day, n>> \in Trips \ linked
  <2>1. <<day, n>> \in Trips
    BY <1>1, <1>5 DEF Trips
  <2>2. n \notin 0..(c - 1)
    BY <1>4, <1>5
  <2> QED
    BY <1>3, <1>5, <2>1, <2>2
<1>7. Blank(active')
  BY <1>0, <1>2, <1>6 DEF NewIds
<1>8. \A k \in Trips : Blank(k)' <=> Blank(k)
  BY <1>0 DEF Blank
<1>9. ASSUME NEW d \in Days, NewIds(d) PROVE NewIds(d)'
  <2>1. CASE d = day
    <3>1. {i \in 0..(MaxTrips - 1) : <<d, i>> \in linked'}
              = {i \in 0..(MaxTrips - 1) : <<day, i>> \in linked} \cup {n}
      BY <1>0, <1>5, <2>1
    <3>2. (0..(c - 1)) \cup {n} = 0..((c + 1) - 1) /\ c + 1 \in 0..MaxTrips
      BY <1>4, <1>5, ArchiveAssumption
    <3>3. \A k \in Trips \ linked' : k[1] = d => Blank(k)'
      BY <1>0, <1>8, <1>9 DEF NewIds
    <3> QED
      BY <1>3, <3>1, <3>2, <3>3 DEF NewIds
  <2>2. CASE d # day
    <3>1. \A k \in Trips : k[1] = d => (k \in linked' <=> k \in linked)
      BY <1>0, <2>2
    <3> QED
      BY <1>8, <1>9, <3>1, NewIdsFrame DEF NewIds
  <2> QED
    BY <2>1, <2>2
<1> QED
  BY <1>7, <1>9

\* Every step keeps new ids new and the node's counts.
LEMMA TierNext ==
    ASSUME TypeOK, TypeOK', RoomInv, SafeInv, TierInv, [Next]_vars
    PROVE  TierInv'
<1> DEFINE Counted(d) == d >= today \/ d = day
<1>a. /\ (apc \notin {"idle", "next"}) => cur < today /\ day # cur /\ cur \in Days
      /\ today \in Nat /\ Days \subseteq Nat
  BY ArchiveAssumption DEF SafeInv, ClosedDays, TypeOK, Days
<1>b. (npc \in {"insert", "run"}) => active \in linked /\ active \in Trips /\ active[1] = day
  BY NodeTrip DEF SafeInv, HotInv
<1>c. \A d \in Days : Counted(d) => NewIds(d)
  BY DEF TierInv
<1>1. CASE StartNode
  <2>1. npc' = "start" /\ day' = today /\ UNCHANGED <<today, linked, logN, idxN, rows, apc, cur, tar, tarIdx, cold>>
    BY <1>1 DEF StartNode, archive, hdd
  <2>2. \A d \in Days : (d >= today \/ d = day') => NewIds(d)'
    BY <1>a, <1>c, <2>1 DEF NewIds, Blank
  <2> QED
    BY <2>1, <2>2 DEF TierInv
<1>2. CASE OpenTripFiles
  <2>1. npc' = "insert" /\ UNCHANGED <<today, day, logN, idxN, rows, apc, cur, tar, tarIdx, cold>>
    BY <1>2 DEF OpenTripFiles, archive, hdd
  <2>2. Blank(active)' /\ \A d \in Days : NewIds(d) => NewIds(d)'
    BY <1>2, <2>1, NewIdsOpened DEF Blank
  <2> QED
    BY <1>c, <2>1, <2>2 DEF TierInv
<1>3. CASE InsertGlobalRow \/ FlushLog \/ FlushIdx \/ EndTrip \/ IngestCrash
           \/ \E k \in Trips : RecoverRow(k)
  <2>1. /\ UNCHANGED <<today, linked, apc, cur, tar, tarIdx, cold>> /\ day' \in {day, 0}
        /\ \A k \in Trips \ linked : rows'[k] = rows[k] /\ logN'[k] = logN[k] /\ idxN'[k] = idxN[k]
    BY <1>3, <1>b DEF InsertGlobalRow, FlushLog, FlushIdx, EndTrip, IngestCrash, NodeEnds, RecoverRow,
       ingest, node, archive, hdd, TypeOK
  <2>2. \A d \in Days : Counted(d)' => Counted(d)
    BY <1>a, <2>1 DEF Days
  <2>3. ASSUME NEW d \in Days, Counted(d)' PROVE NewIds(d)'
    <3>1. NewIds(d) /\ \A k \in Trips \ linked : k[1] = d => Blank(k)'
      BY <1>c, <2>1, <2>2, <2>3 DEF NewIds, Blank
    <3> QED
      BY <2>1, <3>1, NewIdsFrame
  <2>4. (npc' = "insert") => Blank(active)'
    BY <1>3 DEF InsertGlobalRow, FlushLog, FlushIdx, EndTrip, IngestCrash, NodeEnds, RecoverRow,
       ingest, node
  <2>5. (npc' = "run") => /\ rows'[active'] = "open"
                          /\ logN'[active'] \in {idxN'[active'], idxN'[active'] + 1}
    <3>1. CASE InsertGlobalRow
      BY <1>b, <3>1 DEF InsertGlobalRow, TierInv, Blank, TypeOK
    <3>2. CASE FlushLog
      BY <1>b, <3>2 DEF FlushLog, node, TierInv, TypeOK
    <3>3. CASE FlushIdx
      BY <1>b, <3>3 DEF FlushIdx, node, TierInv, TypeOK
    <3>4. CASE EndTrip \/ IngestCrash \/ \E k \in Trips : RecoverRow(k)
      BY <3>4 DEF EndTrip, IngestCrash, NodeEnds, RecoverRow, ingest
    <3> QED
      BY <1>3, <3>1, <3>2, <3>3, <3>4
  <2> QED
    BY <2>1, <2>3, <2>4, <2>5 DEF TierInv
<1>4. CASE Midnight \/ UNCHANGED vars
  <2>1. /\ UNCHANGED <<npc, day, active, linked, logN, idxN, rows, apc, cur, tar, tarIdx, cold>>
        /\ today' \in {today, today + 1}
    BY <1>4 DEF Midnight, node, archive, hdd, vars
  <2>2. \A d \in Days : Counted(d)' => Counted(d)
    BY <1>a, <2>1
  <2>3. \A d \in Days : NewIds(d) => NewIds(d)'
    BY <2>1 DEF NewIds, Blank
  <2>4. \A d \in Days : Counted(d)' => NewIds(d)'
    BY <1>c, <2>2, <2>3
  <2> QED
    BY <2>1, <2>4 DEF TierInv, Blank
<1>5. CASE \/ \E cutoff \in Days : StartArchive(cutoff)
           \/ PickDay \/ RefuseDay \/ FinishRun \/ RunFails \/ ArchiveCrash \/ CopyFile
           \/ FsyncParentDir \/ RemoveFolder \/ RenameTar \/ RenameIdx
  <2>1. UNCHANGED <<today, npc, day, active, linked, logN, idxN, rows, cold>>
    BY <1>5 DEF StartArchive, PickDay, RefuseDay, FinishRun, RunFails, ArchiveCrash, CopyFile,
       FsyncParentDir, RemoveFolder, RenameTar, RenameIdx, ingest, hdd
  <2>2. \A d \in Days : Counted(d)' => NewIds(d)'
    BY <1>c, <2>1 DEF NewIds, Blank
  <2>3. tarIdx \subseteq tarIdx' /\ (\A d \in tarIdx' : tar'[d] # {}) /\ (apc' = "renameIdx" => tar'[cur'] # {} /\ cur' \notin tarIdx')
    <3>1. CASE RenameTar
      <4>1. tar[cur] = {} /\ cur \in Days /\ members # {}
        BY <1>a, <3>1 DEF RenameTar, SafeInv, CopyInv, TypeOK
      <4>2. tar' = [tar EXCEPT ![cur] = members] /\ UNCHANGED <<cur, tarIdx>>
        BY <3>1 DEF RenameTar
      <4> QED
        BY <4>1, <4>2 DEF TierInv, TypeOK
    <3>2. CASE RenameIdx
      BY <3>2 DEF RenameIdx, TierInv
    <3>3. CASE ~RenameTar /\ ~RenameIdx
      <4>1. UNCHANGED <<tar, tarIdx>> /\ apc' # "renameIdx"
        BY <1>5, <3>3 DEF StartArchive, PickDay, RefuseDay, FinishRun, RunFails, ArchiveCrash,
           CopyFile, AfterFile, FsyncParentDir, RemoveFolder, Exit, hdd
      <4> QED
        BY <4>1 DEF TierInv
    <3> QED
      BY <3>1, <3>2, <3>3
  <2> QED
    BY <2>1, <2>2, <2>3 DEF TierInv, Blank
<1>6. CASE CopyRows \/ DeleteRows \/ \E k \in Trips : RemoveTrip(k)
  <2>1. /\ UNCHANGED <<today, npc, day, active, logN, idxN, tar, tarIdx, cur>>
        /\ cur < today /\ day # cur /\ cur \in Days /\ cur \in tarIdx /\ apc' # "renameIdx"
    BY <1>6, <1>a DEF CopyRows, DeleteRows, RemoveTrip, ingest, archive, hdd, SafeInv, MoveInv
  <2>2. \A k \in Trips : k[1] # cur =>
            rows'[k] = rows[k] /\ cold'[k] = cold[k] /\ (k \in linked' <=> k \in linked)
    BY <1>6 DEF CopyRows, DeleteRows, RemoveTrip, TripsOf, hdd
  <2>3. ASSUME NEW d \in Days, Counted(d) PROVE NewIds(d)'
    <3>1. d # cur
      BY <1>a, <2>1, <2>3
    <3>2. NewIds(d) /\ \A k \in Trips \ linked : k[1] = d => Blank(k)'
      BY <1>c, <2>1, <2>2, <2>3, <3>1 DEF NewIds, Blank
    <3> QED
      BY <2>2, <3>1, <3>2, NewIdsFrame
  <2>4. (npc \in {"insert", "run"}) => rows'[active] = rows[active] /\ cold'[active] = cold[active]
    BY <1>b, <2>1, <2>2
  <2>5. \A k \in Trips : cold'[k] # "none" => k[1] \in tarIdx
    BY <1>6, <2>1, <2>2 DEF TierInv
  <2> QED
    BY <2>1, <2>3, <2>4, <2>5 DEF TierInv, Blank
<1> QED
  BY <1>1, <1>2, <1>3, <1>4, <1>5, <1>6 DEF Next, IngestStep, ArchiveStep

\* The mapping of the tier, named.
tiers == [k \in Trips |-> Tier(k)]

\* A trip is read from the SSD when its catalog has a row of it.
LEMMA SsdHasRow ==
    ASSUME SafeInv
    PROVE  /\ \A k \in Trips : Tier(k) = "ssd" <=> rows[k] # "none"
           /\ \A d : Tiers!OnSsd(d) = {k \in Trips : k[1] = d /\ rows[k] # "none"}
<1>1. \A k \in Trips : Tier(k) = "ssd" <=> rows[k] # "none"
  BY DEF Tier, HotFinds, SafeInv, HotInv
<1> QED
  BY <1>1 DEF Tiers!OnSsd

\* A trip stays in its tier when nothing that a reader looks at changes.
LEMMA TierFrame ==
    ASSUME NEW k \in Trips, HotFinds(k)' <=> HotFinds(k),
           \/ HotFinds(k)
           \/ cold'[k] = "none" /\ cold[k] = "none"
           \/ /\ cold'[k] = cold[k] /\ (k[1] \in tarIdx' <=> k[1] \in tarIdx)
              /\ InTar(k)' <=> InTar(k)
    PROVE  Tier(k)' = Tier(k)
  BY DEF Tier

\* Steps no reader notices.
LEMMA TiersStutter ==
    ASSUME UNCHANGED <<rows, idxN, cold>>, \A k \in Trips : Tier(k)' = Tier(k)
    PROVE  UNCHANGED Tiers!svars
<1>1. tiers' = tiers
  BY DEF tiers
<1> QED
  BY <1>1 DEF Tiers!svars, tiers

\* The actions of the store, in the words of the mapping: a trip begins.
LEMMA TierBegins ==
    ASSUME NEW k \in Trips, Tier(k) = "none", idxN[k] = 0, cold[k] = "none",
           tiers' = [tiers EXCEPT ![k] = "ssd"], rows' = [rows EXCEPT ![k] = "open"],
           UNCHANGED <<idxN, cold>>
    PROVE  Tiers!Next
<1>1. Tiers!Begin(k)
  BY DEF Tiers!Begin, tiers
<1> QED
  BY <1>1 DEF Tiers!Next

\* It grows.
LEMMA TierStores ==
    ASSUME NEW k \in Trips, Tier(k) = "ssd", rows[k] = "open",
           idxN' = [idxN EXCEPT ![k] = @ + 1], tiers' = tiers, UNCHANGED <<rows, cold>>
    PROVE  Tiers!Next
<1>1. Tiers!Store(k)
  BY DEF Tiers!Store, tiers
<1> QED
  BY <1>1 DEF Tiers!Next

\* It gets its end.
LEMMA TierCloses ==
    ASSUME NEW k \in Trips, Tier(k) = "ssd", rows[k] = "open",
           rows' = [rows EXCEPT ![k] = "closed"], tiers' = tiers, UNCHANGED <<idxN, cold>>
    PROVE  Tiers!Next
<1>1. Tiers!Close(k)
  BY DEF Tiers!Close, tiers
<1> QED
  BY <1>1 DEF Tiers!Next

\* A step of node or archiver is one of the store or is not noticed.
LEMMA TiersNext ==
    ASSUME TypeOK, TypeOK', SafeInv, TierInv, [Next]_vars
    PROVE  [Tiers!Next]_(Tiers!svars)
<1>a. \A k \in Trips : Tier(k) = "ssd" <=> rows[k] # "none"
  BY SsdHasRow
<1>b. (npc \in {"insert", "run"}) => active \in linked /\ active \in Trips
  BY NodeTrip DEF SafeInv, HotInv
<1>c. \A k \in Trips : rows[k] # "none" => k \in linked
  BY DEF SafeInv, HotInv
<1>1. CASE \/ StartNode \/ IngestCrash \/ FlushLog \/ Midnight
           \/ \E cutoff \in Days : StartArchive(cutoff)
           \/ PickDay \/ RefuseDay \/ FinishRun \/ RunFails \/ ArchiveCrash \/ CopyFile
           \/ FsyncParentDir \/ RemoveFolder \/ UNCHANGED vars
  <2>1. UNCHANGED <<linked, rows, idxN, cold, tar, tarIdx>>
    BY <1>1 DEF StartNode, IngestCrash, FlushLog, Midnight, StartArchive, PickDay, RefuseDay,
       FinishRun, RunFails, ArchiveCrash, CopyFile, FsyncParentDir, RemoveFolder,
       vars, ingest, archive, hdd, node
  <2>2. \A k \in Trips : Tier(k)' = Tier(k)
    BY <2>1 DEF Tier, HotFinds, InTar
  <2> QED
    BY <2>1, <2>2, TiersStutter
<1>2. CASE OpenTripFiles \/ \E k \in Trips : RemoveTrip(k)
  <2>1. UNCHANGED <<rows, idxN, cold, tar, tarIdx>>
    BY <1>2 DEF OpenTripFiles, RemoveTrip, ingest, archive, hdd
  <2>2. \A k \in Trips : rows[k] # "none" => k \in linked'
    BY <1>2, <1>c DEF OpenTripFiles, RemoveTrip, SafeInv, MoveInv, TripsOf
  <2>3. \A k \in Trips : Tier(k)' = Tier(k)
    BY <1>c, <2>1, <2>2 DEF Tier, HotFinds, InTar
  <2> QED
    BY <2>1, <2>3, TiersStutter
<1>3. CASE RenameTar \/ RenameIdx
  <2>1. /\ UNCHANGED <<linked, rows, idxN, cold, cur>> /\ cur \in Days
        /\ \A d \in Days : d # cur => tar'[d] = tar[d] /\ (d \in tarIdx' <=> d \in tarIdx)
    BY <1>3 DEF RenameTar, RenameIdx, ingest, TypeOK
  <2>2. cur \notin tarIdx
    BY <1>3 DEF RenameTar, RenameIdx, SafeInv, CopyInv, TierInv
  <2>3. \A k \in Trips : k[1] = cur => cold[k] = "none"
    BY <2>2 DEF TierInv
  <2>4. ASSUME NEW k \in Trips PROVE Tier(k)' = Tier(k)
    <3>1. HotFinds(k)' <=> HotFinds(k)
      BY <2>1 DEF HotFinds
    <3>2. CASE k[1] = cur
      BY <2>1, <2>3, <3>1, <3>2, TierFrame
    <3>3. CASE k[1] # cur
      <4>1. k[1] \in Days
        BY DEF Trips
      <4>2. InTar(k)' <=> InTar(k)
        BY <2>1, <3>3, <4>1 DEF InTar
      <4> QED
        BY <2>1, <3>1, <3>3, <4>1, <4>2, TierFrame
    <3> QED
      BY <3>2, <3>3
  <2> QED
    BY <2>1, <2>4, TiersStutter
<1>4. CASE InsertGlobalRow
  <2>1. /\ active \in Trips /\ active \in linked /\ Blank(active)
        /\ rows' = [rows EXCEPT ![active] = "open"]
        /\ UNCHANGED <<active, linked, idxN, cold, tar, tarIdx>>
    BY <1>4, <1>b DEF InsertGlobalRow, TierInv, hdd
  <2>2. Tier(active) = "none"
    BY <2>1 DEF Tier, HotFinds, Blank
  <2>3. \A k \in Trips : Tier(k)' = IF k = active THEN "ssd" ELSE Tier(k)
    BY <2>1 DEF Tier, HotFinds, InTar, TypeOK
  <2>4. tiers' = [tiers EXCEPT ![active] = "ssd"]
    BY <2>3 DEF tiers
  <2>5. PICK k \in Trips : k = active
    BY <2>1
  <2> QED
    BY <2>1, <2>2, <2>4, <2>5, TierBegins DEF Blank
<1>5. CASE FlushIdx
  <2>1. /\ active \in Trips /\ npc = "run" /\ idxN[active] < logN[active]
        /\ idxN' = [idxN EXCEPT ![active] = logN[active]]
        /\ UNCHANGED <<linked, rows, cold, tar, tarIdx>>
    BY <1>5, <1>b DEF FlushIdx, hdd
  <2>2. rows[active] = "open" /\ logN[active] = idxN[active] + 1
    BY <2>1 DEF TierInv, TypeOK
  <2>3. \A k \in Trips : Tier(k)' = Tier(k)
    <3> SUFFICES ASSUME NEW k \in Trips PROVE Tier(k)' = Tier(k)
      OBVIOUS
    <3>1. HotFinds(k)' <=> HotFinds(k)
      BY <2>1 DEF HotFinds
    <3>2. CASE k = active
      BY <2>2, <1>c, <3>1, <3>2, TierFrame DEF HotFinds
    <3>3. CASE k # active
      BY <2>1, <3>1, <3>3, InTarFrame, TierFrame
    <3> QED
      BY <3>2, <3>3
  <2>4. tiers' = tiers
    BY <2>3 DEF tiers
  <2>5. PICK k \in Trips : k = active
    BY <2>1
  <2>6. idxN' = [idxN EXCEPT ![k] = @ + 1]
    BY <2>1, <2>2, <2>5
  <2> QED
    BY <1>a, <2>1, <2>2, <2>4, <2>5, <2>6, TierStores
<1>6. CASE EndTrip \/ \E k \in Trips : RecoverRow(k)
  <2>1. PICK k \in Trips : /\ rows[k] = "open" /\ rows' = [rows EXCEPT ![k] = "closed"]
                           /\ UNCHANGED <<linked, idxN, cold, tar, tarIdx>>
    <3>1. CASE EndTrip
      <4>1. active \in Trips /\ rows[active] = "open"
        BY <1>b, <3>1 DEF EndTrip, TierInv
      <4> QED
        BY <3>1, <4>1 DEF EndTrip, hdd
    <3>2. CASE \E k \in Trips : RecoverRow(k)
      BY <3>2 DEF RecoverRow, ingest, hdd
    <3> QED
      BY <1>6, <3>1, <3>2
  <2>2. \A m \in Trips : rows'[m] # "none" <=> rows[m] # "none"
    BY <2>1 DEF TypeOK
  <2>3. \A m \in Trips : Tier(m)' = Tier(m)
    BY <2>1, <2>2 DEF Tier, HotFinds, InTar
  <2>4. tiers' = tiers
    BY <2>3 DEF tiers
  <2> QED
    BY <1>a, <2>1, <2>4, TierCloses
<1>7. CASE CopyRows
  <2>1. /\ UNCHANGED <<linked, rows, idxN, tar, tarIdx>> /\ cur \in Days
        /\ cold' = [k \in Trips |-> IF k[1] = cur THEN CopiedRow(k) ELSE cold[k]]
    BY <1>7 DEF CopyRows, ingest, TypeOK
  <2>2. cold' = [k \in Trips |-> IF k \in Tiers!OnSsd(cur) THEN rows[k] ELSE cold[k]]
    BY <2>1, SsdHasRow DEF CopiedRow
  <2>3. ASSUME NEW k \in Trips PROVE Tier(k)' = Tier(k)
    <3>1. HotFinds(k)' <=> HotFinds(k)
      BY <2>1 DEF HotFinds
    <3>2. InTar(k)' <=> InTar(k)
      BY <2>1, InTarFrame
    <3>3. HotFinds(k) \/ cold'[k] = cold[k]
      BY <1>c, <2>1 DEF CopiedRow, HotFinds
    <3> QED
      BY <2>1, <3>1, <3>2, <3>3, TierFrame
  <2>4. tiers' = tiers
    BY <2>3 DEF tiers
  <2>5. Tiers!Copy(cur)
    BY <2>1, <2>2, <2>4 DEF Tiers!Copy, tiers
  <2> QED
    BY <2>1, <2>5 DEF Tiers!Next
<1>8. CASE DeleteRows
  <2>1. /\ UNCHANGED <<linked, idxN, cold, tar, tarIdx>> /\ cur \in Days /\ cur \in tarIdx
        /\ rows' = [k \in Trips |-> IF k[1] = cur THEN "none" ELSE rows[k]]
        /\ apc = "deleteRows"
    BY <1>8 DEF DeleteRows, ingest, hdd, TypeOK, SafeInv, MoveInv
  <2>2. \A k \in Tiers!OnSsd(cur) : k \in TripsOf(cur) /\ rows[k] # "none" /\ k \in linked
    BY <1>c, SsdHasRow DEF TripsOf
  <2>3. \A k \in Tiers!OnSsd(cur) : cold[k] # "none"
    BY <2>1, <2>2 DEF SafeInv, MoveInv
  <2>4. \A k \in Tiers!OnSsd(cur) : InTar(k)
    BY <2>1, <2>2, RenamedInTar DEF Renamed
  <2>5. rows' = [k \in Trips |-> IF k \in Tiers!OnSsd(cur) THEN "none" ELSE rows[k]]
    BY <2>1, SsdHasRow
  <2>6. ASSUME NEW k \in Trips PROVE Tier(k)' = IF k \in Tiers!OnSsd(cur) THEN "hdd" ELSE Tier(k)
    <3>1. InTar(k)' <=> InTar(k)
      BY <2>1, InTarFrame
    <3>2. CASE k \in Tiers!OnSsd(cur)
      <4>1. k[1] = cur
        BY <3>2, SsdHasRow
      <4> QED
        BY <2>1, <2>3, <2>4, <3>1, <3>2, <4>1 DEF Tier, HotFinds
    <3>3. CASE k \notin Tiers!OnSsd(cur)
      BY <2>1, <2>5, <3>1, <3>3 DEF Tier, HotFinds
    <3> QED
      BY <3>2, <3>3
  <2>7. tiers' = [k \in Trips |-> IF k \in Tiers!OnSsd(cur) THEN "hdd" ELSE Tier(k)]
    BY <2>6 DEF tiers
  <2>8. Tiers!Move(cur)
    BY <2>1, <2>3, <2>5, <2>7 DEF Tiers!Move, tiers
  <2> QED
    BY <2>1, <2>8 DEF Tiers!Next
<1> QED
  BY <1>1, <1>2, <1>3, <1>4, <1>5, <1>6, <1>7, <1>8 DEF Next, IngestStep, ArchiveStep

\* Nothing is in a tier at the beginning.
LEMMA TierInit == Init => TierInv /\ Tiers!Init
<1> SUFFICES ASSUME Init PROVE TierInv /\ Tiers!Init
  OBVIOUS
<1>1. \A d \in Days : NewIds(d)
  <2>1. \A d \in Days : {i \in 0..(MaxTrips - 1) : <<d, i>> \in linked} = 0..(0 - 1)
    BY DEF Init
  <2>2. 0 \in 0..MaxTrips
    BY ArchiveAssumption
  <2>3. \A k \in Trips : Blank(k)
    BY DEF Init, Blank
  <2> QED
    BY <2>1, <2>2, <2>3 DEF NewIds
<1>2. TierInv
  BY <1>1 DEF Init, TierInv
<1>3. \A k \in Trips : Tier(k) = "none"
  BY DEF Init, Tier, HotFinds
<1>4. tiers = [k \in Trips |-> "none"]
  BY <1>3 DEF tiers
<1> QED
  BY <1>2, <1>4 DEF Init, Tiers!Init, tiers

\* The invariants hold together, if the program is only run when no trip of its
\* days is open.
LEMMA TierCorrect ==
    ASSUME Careful
    PROVE  Spec => [](TypeOK /\ RoomInv /\ SafeInv /\ TierInv)
<1>1. Init => TierInv /\ RoomInv
  BY TierInit DEF Init, RoomInv
<1>2. TypeOK /\ TypeOK' /\ SafeInv /\ [Next]_vars => SafeInv'
  BY SafeNext
<1>3. TypeOK /\ RoomInv /\ [Next]_vars => RoomInv'
  BY RoomNext
<1>4. TypeOK /\ TypeOK' /\ RoomInv /\ SafeInv /\ TierInv /\ [Next]_vars => TierInv'
  BY TierNext
<1> QED
  BY <1>1, <1>2, <1>3, <1>4, SafeInit, ArchiveTypeCorrect, PTL DEF Spec

\* Although ids are counted from the logs and the archiver removes logs, a trip
\* is never given an id under which a catalog or a file knows another one.
THEOREM ArchivedIdNotReused ==
    ASSUME Careful
    PROVE  Spec => []((npc = "insert") => Blank(active))
<1>1. TierInv => ((npc = "insert") => Blank(active))
  BY DEF TierInv
<1> QED
  BY <1>1, TierCorrect, PTL

\* Run when no trip of the days it takes is open, the archiver keeps the
\* promise of TierStore, for every number of days, trips and runs, whatever is
\* killed or busy: a day moves to the HDD at once, complete, and stays there.
THEOREM ImplementsTierStoreHolds == ASSUME Careful PROVE Spec => ImplementsTierStore
<1>1. Init => Tiers!Init
  BY TierInit
<1>2. TypeOK /\ TypeOK' /\ SafeInv /\ TierInv /\ [Next]_vars => [Tiers!Next]_(Tiers!svars)
  BY TiersNext
<1> QED
  BY <1>1, <1>2, TierCorrect, PTL DEF Spec, ImplementsTierStore, Tiers!Spec

=============================================================================
