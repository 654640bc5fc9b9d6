----------------------------- MODULE RetrieveAPI -----------------------------
(***************************************************************************)
(* A query of the hot tier: QueryRefs reads the catalog once, then the     *)
(* index of each matching trip entry by entry, and its caller loads the    *)
(* payloads through the references later. Nothing is locked: meanwhile the *)
(* ingest node stores chunks, starts and ends trips, and the archiver      *)
(* removes past days.                                                      *)
(*                                                                         *)
(* A record is its time. The two files of a trip are one inode, so that a  *)
(* file that is open or referenced can be told from a later one with the   *)
(* same name. One topic, one ingest process, one query at a time.          *)
(***************************************************************************)
EXTENDS Integers, Sequences, FiniteSets

CONSTANTS
    MaxTime,     \* bound: the system clock stays in 1..MaxTime
    DayOf,       \* the day folder of each time
    MaxTrips,    \* bound: trips of one day
    MaxFiles,    \* bound: trips ever begun
    MaxRecords,  \* bound: chunks and buffered records of one trip
    Faults       \* "crash": the node is killed; "busy": a query finds the catalog locked

Time    == 1..MaxTime

ASSUME RetrieveAssumption ==
    /\ MaxTime \in Nat \ {0}
    /\ DayOf \in [Time -> Nat \ {0}]
    /\ \A s, t \in Time : s <= t => DayOf[s] <= DayOf[t]
    /\ MaxTrips \in Nat \ {0}
    /\ MaxFiles \in Nat
    /\ MaxRecords \in Nat
    /\ Faults \subseteq {"crash", "busy"}

Days    == {DayOf[t] : t \in Time}
TripIds == 0..(MaxTrips - 1)
Trips   == Days \X TripIds
NoTrip  == <<0, 0>>
Inodes  == 1..MaxFiles

Entry == [start : Time, end : Time, at : Nat]        \* at: which chunk of the log
Ref   == [trip : Trips, at : Nat, i : Nat, file : Inodes]
         \* log_path and payload_offset; file is what the scan had open, for the properties

VARIABLES
    now,
    active,      \* the trip the node writes, or NoTrip
    buf,         \* its chunk buffer
    files,       \* inodes in use: 1..files
    path,        \* the inode a trip's file names lead to, 0: no such file
    log, idx,    \* contents by inode
    rows,        \* catalog: start and end, end = 0 while open, start = 0: no row
    leaving,     \* days the archiver has in the HDD catalog and is removing
    rpc,         \* where the reader is
    range,       \* <<start_ns, end_ns>>
    todo,        \* matching trips still to be read
    cur, fd,     \* trip being read, and its open files
    pos,         \* entries read from its index
    refs, found, \* the vector of references: its elements and its length
    due          \* history: while a query runs, what could be reached when it began

store  == <<now, active, buf, files, path, log, idx, rows, leaving>>
reader == <<rpc, range, todo, cur, fd, pos, refs, found, due>>
vars   == <<now, active, buf, files, path, log, idx, rows, leaving,
            rpc, range, todo, cur, fd, pos, refs, found, due>>

NoRow   == [start |-> 0, end |-> 0]
Here    == path[active]
Pending == Len(log[Here]) > Len(idx[Here])     \* between the two writes of a flush

-----------------------------------------------------------------------------
(* Pure parts.                                                             *)

\* The WHERE of FindMatchingTrips. (Mutation: rows without an end are left out.)
RowMatchesClosed(r, s, e) == r.start # 0 /\ r.start <= e /\ r.end >= s
RowMatches(r, s, e) == r.start # 0 /\ r.start <= e /\ (r.end = 0 \/ r.end >= s)

\* The overlap test of an entry. (Mutation: it must begin within the range.)
EntryBeginsIn(x, s, e) == x.start >= s /\ x.start <= e
EntryMatches(x, s, e)  == x.end >= s /\ x.start <= e

\* The offset after an entry.
NextEntry == pos + 1

CountTripLogs(d) == Cardinality({i \in TripIds : path[<<d, i>>] # 0})

\* Days the archiver may take. (Mutation: the present one, too.)
DaysUpToToday == {d \in Days : d <= DayOf[now]}
PastDays      == {d \in Days : d < DayOf[now]}

\* Whether the files of a trip can be opened. (Mutation: not tested.)
OpensUnchecked(k) == TRUE
Opens(k)          == path[k] # 0

\* The scan of a chunk: its records of the time s to e.
InRange(f, at, s, e) == {i \in 1..Len(log[f][at]) : log[f][at][i] \in s..e}

\* References to the records of the range in the chunk of the entry x.
Matching(x) ==
    {[trip |-> cur, at |-> x.at, i |-> i, file |-> fd] :
        i \in InRange(fd, x.at, range[1], range[2])}

\* The record LoadPayload reads: where the path leads to now, at the offset.
ReadFails == <<>>
LoadPayload(r) ==
    LET f == path[r.trip]
    IN  IF f # 0 /\ r.at <= Len(log[f]) THEN <<f, r.at, r.i>> ELSE ReadFails

\* Records of the time s to e a reader can reach now, as <<inode, chunk, number>>.
RecordsOf(f, s, e) ==
    UNION {{<<f, idx[f][n].at, i>> : i \in InRange(f, idx[f][n].at, s, e)} :
           n \in 1..Len(idx[f])}
Stored(s, e) ==
    UNION {RecordsOf(path[k], s, e) : k \in {t \in Trips : path[t] # 0 /\ rows[t] # NoRow}}

-----------------------------------------------------------------------------
Init ==
    /\ now = 1
    /\ active = NoTrip /\ buf = <<>>
    /\ files = 0 /\ path = [k \in Trips |-> 0]
    /\ log = [f \in Inodes |-> <<>>] /\ idx = [f \in Inodes |-> <<>>]
    /\ rows = [k \in Trips |-> NoRow]
    /\ leaving = {}
    /\ rpc = "idle" /\ range = <<1, 1>> /\ todo = {}
    /\ cur = NoTrip /\ fd = 0 /\ pos = 0
    /\ refs = {} /\ found = 0 /\ due = {}

-----------------------------------------------------------------------------
(* The ingest node.                                                        *)

\* The row of a trip that was not ended gets the end of its last entry.
RecoverRow(k) ==
    /\ active = NoTrip
    /\ rows[k] # NoRow /\ rows[k].end = 0
    /\ path[k] # 0 /\ idx[path[k]] # <<>>
    /\ rows' = [rows EXCEPT ![k].end = idx[path[k]][Len(idx[path[k]])].end]
    /\ UNCHANGED <<now, active, buf, files, path, log, idx, leaving, reader>>

\* The trip id is the number of logs in the folder. A file that has the name
\* already is opened for appending.
BeginTrip ==
    LET d == DayOf[now]
        k == <<d, CountTripLogs(d)>>
    IN  /\ active = NoTrip
        /\ k \in Trips /\ files < MaxFiles                          \* bounds
        /\ active' = k
        /\ IF path[k] = 0
           THEN files' = files + 1 /\ path' = [path EXCEPT ![k] = files + 1]
           ELSE UNCHANGED <<files, path>>
        /\ rows' = [rows EXCEPT ![k] = [start |-> now, end |-> 0]]
        /\ UNCHANGED <<now, buf, log, idx, leaving, reader>>

AppendRecord ==
    /\ active # NoTrip /\ Here # 0 /\ ~Pending
    /\ Len(log[Here]) + Len(buf) < MaxRecords                       \* bound
    /\ buf' = Append(buf, now)
    /\ UNCHANGED <<now, active, files, path, log, idx, rows, leaving, reader>>

\* Which records share a chunk is left open.
FlushLog ==
    /\ active # NoTrip /\ Here # 0 /\ ~Pending
    /\ buf # <<>>
    /\ log' = [log EXCEPT ![Here] = Append(@, buf)]
    /\ UNCHANGED <<now, active, buf, files, path, idx, rows, leaving, reader>>

FlushIdx ==
    /\ active # NoTrip /\ Here # 0 /\ Pending
    /\ buf # <<>>
    /\ idx' = [idx EXCEPT ![Here] =
                  Append(@, [start |-> buf[1], end |-> buf[Len(buf)], at |-> Len(log[Here])])]
    /\ buf' = <<>>
    /\ UNCHANGED <<now, active, files, path, log, rows, leaving, reader>>

EndTrip ==
    /\ active # NoTrip
    /\ buf = <<>>
    /\ rows' = [rows EXCEPT ![active] = IF @ = NoRow THEN @ ELSE [@ EXCEPT !.end = now]]
    /\ active' = NoTrip
    /\ UNCHANGED <<now, buf, files, path, log, idx, leaving, reader>>

Crash ==
    /\ "crash" \in Faults
    /\ active # NoTrip
    /\ active' = NoTrip /\ buf' = <<>>
    /\ UNCHANGED <<now, files, path, log, idx, rows, leaving, reader>>

Tick ==
    /\ now < MaxTime
    /\ now' = now + 1
    /\ UNCHANGED <<active, buf, files, path, log, idx, rows, leaving, reader>>

-----------------------------------------------------------------------------
(* The archiver, from the end of its copies on. No trip of a day it takes  *)
(* is being written (Careful in ArchiveTier).                              *)

DeleteRows(d) ==
    /\ d \in PastDays
    /\ active[1] # d
    /\ \E k \in Trips : k[1] = d /\ rows[k] # NoRow
    /\ rows' = [k \in Trips |-> IF k[1] = d THEN NoRow ELSE rows[k]]
    /\ leaving' = leaving \cup {d}
    /\ UNCHANGED <<now, active, buf, files, path, log, idx, reader>>

RemoveTrip(k) ==
    /\ k[1] \in leaving
    /\ path[k] # 0
    /\ path' = [path EXCEPT ![k] = 0]
    /\ UNCHANGED <<now, active, buf, files, log, idx, rows, leaving, reader>>

RemoveFolder(d) ==
    /\ d \in leaving
    /\ \A k \in Trips : k[1] = d => path[k] = 0
    /\ leaving' = leaving \ {d}
    /\ UNCHANGED <<now, active, buf, files, path, log, idx, rows, reader>>

-----------------------------------------------------------------------------
(* The reader.                                                             *)

\* QueryRefs up to FindMatchingTrips. References of the query before are used
\* until then.
Query(s, e) ==
    /\ rpc \in {"idle", "done"}
    /\ s <= e
    /\ range' = <<s, e>>
    /\ todo' = {k \in Trips : RowMatches(rows[k], s, e)}
    /\ refs' = {} /\ found' = 0
    /\ due' = Stored(s, e)
    /\ rpc' = "trips"
    /\ UNCHANGED <<store, cur, fd, pos>>

\* The SELECT finds the catalog busy: its loop ends as after the last row, and
\* the result is that of a query without a matching trip.
QueryBusy(s, e) ==
    /\ "busy" \in Faults
    /\ rpc \in {"idle", "done"}
    /\ s <= e
    /\ range' = <<s, e>>
    /\ refs' = {} /\ found' = 0 /\ due' = {}
    /\ rpc' = "done"
    /\ UNCHANGED <<store, todo, cur, fd, pos>>

\* A trip whose files are gone is passed over without an error.
SkipTrip ==
    /\ rpc = "trips"
    /\ \E k \in todo : ~Opens(k) /\ todo' = todo \ {k}
    /\ UNCHANGED <<store, rpc, range, cur, fd, pos, refs, found, due>>

OpenTrip ==
    /\ rpc = "trips"
    /\ \E k \in todo :
          /\ Opens(k)
          /\ todo' = todo \ {k}
          /\ cur' = k
          /\ fd' = path[k]
    /\ pos' = 0
    /\ rpc' = "scan"
    /\ UNCHANGED <<store, range, refs, found, due>>

\* One entry with the records of its chunk.
ReadEntry ==
    LET x   == idx[fd][pos + 1]
        new == IF EntryMatches(x, range[1], range[2]) THEN Matching(x) ELSE {}
    IN  /\ rpc = "scan"
        /\ pos < Len(idx[fd])
        /\ refs' = refs \cup new
        /\ found' = found + Cardinality(new)
        /\ pos' = NextEntry
        /\ UNCHANGED <<store, rpc, range, todo, cur, fd, due>>

EndOfIndex ==
    /\ rpc = "scan"
    /\ pos = Len(idx[fd])
    /\ rpc' = "trips"
    /\ cur' = NoTrip /\ fd' = 0 /\ pos' = 0
    /\ UNCHANGED <<store, range, todo, refs, found, due>>

\* (Mutation: an error of one trip ends the query as if it were the last.)
FinishEarly ==
    /\ rpc = "trips"
    /\ rpc' = "done"
    /\ due' = {}
    /\ UNCHANGED <<store, range, todo, cur, fd, pos, refs, found>>

\* The vector is sorted by time, which a set does not show.
Finish ==
    /\ rpc = "trips"
    /\ todo = {}
    /\ rpc' = "done"
    /\ due' = {}
    /\ UNCHANGED <<store, range, todo, cur, fd, pos, refs, found>>

Next ==
    \/ \E k \in Trips : RecoverRow(k) \/ RemoveTrip(k)
    \/ BeginTrip \/ AppendRecord \/ FlushLog \/ FlushIdx \/ EndTrip \/ Crash \/ Tick
    \/ \E d \in Days : DeleteRows(d) \/ RemoveFolder(d)
    \/ \E s, e \in Time : Query(s, e) \/ QueryBusy(s, e)
    \/ SkipTrip \/ OpenTrip \/ ReadEntry \/ EndOfIndex \/ Finish

Spec == Init /\ [][Next]_vars

-----------------------------------------------------------------------------
(* Properties.                                                             *)

TypeOK ==
    /\ now \in Time
    /\ active \in Trips \cup {NoTrip}
    /\ buf \in Seq(Time)
    /\ files \in 0..MaxFiles
    /\ path \in [Trips -> 0..MaxFiles]
    /\ log \in [Inodes -> Seq(Seq(Time))]
    /\ idx \in [Inodes -> Seq(Entry)]
    /\ rows \in [Trips -> [start : 0..MaxTime, end : 0..MaxTime]]
    /\ leaving \subseteq Days
    /\ rpc \in {"idle", "trips", "scan", "done"}
    /\ range \in Time \X Time
    /\ todo \subseteq Trips
    /\ cur \in Trips \cup {NoTrip}
    /\ fd \in 0..MaxFiles
    /\ (rpc = "scan") => cur \in Trips /\ fd \in Inodes
    /\ pos \in Nat
    /\ refs \subseteq Ref
    /\ found \in Nat
    /\ due \subseteq Inodes \X Nat \X Nat

Reached == {<<r.file, r.at, r.i>> : r \in refs}
Linked  == {path[k] : k \in Trips}

\* A query that got its trips from the catalog ends with every record of the
\* range that could be reached when it began, whatever was stored, ended,
\* recovered or archived while it ran; only files the archiver has removed
\* meanwhile may be missing.
QueryIsComplete ==
    (rpc = "trips" /\ todo = {}) => \A x \in due : x \in Reached \/ x[1] \notin Linked

\* No record is returned twice, though indexes grow under the scan.
NoRecordTwice == found = Cardinality(refs)

\* LoadPayload opens the log by name again, at any time after the query. What
\* it reads, if it reads anything, is the record the reference was made for.
LoadsItsRecord ==
    \A r \in refs : LoadPayload(r) \in {ReadFails, <<r.file, r.at, r.i>>}

\* What a query returns of one trip is all that matches in a prefix of its
\* stored chunks: a record is never returned without the earlier ones.
TripsAreReadFromTheStart ==
    \A r \in refs : \A at \in 1..r.at : \A i \in InRange(r.file, at, range[1], range[2]) :
        <<r.file, at, i>> \in Reached

\* The steps of a query, its catalog read and the scan of one trip after the
\* other, show the caller one question and one answer (RecordStore): each trip
\* is returned without a gap and with all that was stored when the query began,
\* also when it was archived meanwhile, or, then only, not at all.
Content  == [f \in Inodes |-> SubSeq(log[f], 1, Len(idx[f]))]
Listed   == {path[k] : k \in {t \in Trips : path[t] # 0 /\ rows[t] # NoRow}}
Asked    == IF rpc \in {"trips", "scan"} THEN range ELSE <<>>
Answered == IF rpc = "done" THEN [records |-> Reached, count |-> found]
            ELSE [records |-> {}, count |-> 0]

Store == INSTANCE RecordStore WITH
    Files  <- Inodes,  content <- Content,
    kept   <- Linked \ {0},  listed <- Listed,
    asked  <- Asked,  answer <- Answered

ImplementsRecordStore == Store!Spec

=============================================================================
