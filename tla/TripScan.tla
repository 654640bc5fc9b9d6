------------------------------ MODULE TripScan ------------------------------
(***************************************************************************)
(* What the readers of a trip find in the files AppendLogger leaves: the   *)
(* hot scan (QueryRefs) reads every entry of the index and skips those     *)
(* that do not overlap the range; the cold scan, over the same two files   *)
(* inside a tar, starts at the first entry that reaches the range and      *)
(* returns at the first one that begins after it. Both trust the two times *)
(* of an entry, which are those of its first and its last record.          *)
(*                                                                         *)
(* Records are pairs of an entry's and a record's number.                  *)
(***************************************************************************)
EXTENDS AppendLogger

Recs(k, i) == log[k][idx[k][i].offset + 1].recs

\* The entries that lead to a whole chunk. After a failed write there are
\* others: both scans get as far as the end of the log and go on.
Located(k) == {i \in 1..Len(idx[k]) : Locates(idx[k][i], log[k])}

\* The records of the entries ns of the trip k that have a time of s to e.
RecordsIn(k, ns, s, e) ==
    UNION {{<<i, j>> : j \in {n \in 1..Len(Recs(k, i)) : Recs(k, i)[n].ts \in s..e}}
               : i \in ns \cap Located(k)}

StoredIn(k, s, e) == RecordsIn(k, 1..Len(idx[k]), s, e)

-----------------------------------------------------------------------------
(* The hot scan.                                                           *)

\* FindMatchingTrips.
HotRow(r, s, e) == r.start # 0 /\ r.start <= e /\ (r.end = 0 \/ r.end >= s)

\* An entry that is not skipped.
Overlaps(x, s, e) == x.end >= s /\ x.start <= e

HotScan(k, s, e) ==
    IF HotRow(rows[k], s, e)
    THEN RecordsIn(k, {i \in 1..Len(idx[k]) : Overlaps(idx[k][i], s, e)}, s, e)
    ELSE {}

-----------------------------------------------------------------------------
(* The cold scan.                                                          *)

\* load_closed_trips_overlapping: a row without an end never matches.
ColdRow(r, s, e) == r.start # 0 /\ r.start <= e /\ r.end >= s

\* It has started at the entry n or before it.
Started(x, n, s) == \E m \in 1..n : x[m].end >= s

\* The entry i is read: the scan has started and not returned since.
\* (Mutation: it returns at the first entry that ends after the range.)
ColdReadsUntilEnd(x, i, s, e) ==
    Started(x, i, s) /\ \A n \in 1..i : Started(x, n, s) => x[n].end <= e
ColdReads(x, i, s, e) ==
    Started(x, i, s) /\ \A n \in 1..i : Started(x, n, s) => x[n].start <= e

ColdScan(k, s, e) ==
    IF ColdRow(rows[k], s, e)
    THEN RecordsIn(k, {i \in 1..Len(idx[k]) : ColdReads(idx[k], i, s, e)}, s, e)
    ELSE {}

-----------------------------------------------------------------------------
(* Properties.                                                             *)

\* While the clock is not set back, the hot scan of any range finds every
\* stored record of the range, and so does the cold scan of a closed trip,
\* although it stops early: whatever crashed and whoever wrote the row's end.
ScansFindAll ==
    \A k \in Trips : \A s \in Time : \A e \in s..MaxTime :
        /\ HotScan(k, s, e) = StoredIn(k, s, e)
        /\ rows[k].end # 0 => ColdScan(k, s, e) = StoredIn(k, s, e)

\* A time outside the interval of the row.
OutsideRow(r, t) == t < r.start \/ (r.end # 0 /\ t > r.end)

\* A record newer than the last one of its chunk; or the last, older than the
\* first.
OutOfOrder(recs, j) ==
    \/ recs[j].ts > recs[Len(recs)].ts
    \/ j = Len(recs) /\ recs[j].ts < recs[1].ts

\* A chunk stored before that of the entry i begins after the time t.
AfterNewerChunk(x, i, t) == \E n \in 1..(i - 1) : x[n].start > t

\* What a scan of a range may miss when the clock is set back, and no more,
\* under every fault: the hot scan only a record outside the interval of its
\* row or out of order in its chunk; the cold scan of a closed trip, which
\* returns early, also one stored after a chunk that begins later. No record
\* but the last of a chunk is older than the first, because a clock that goes
\* back before the first flushes the chunk at once.
MissedAreOutOfOrder ==
    \A k \in Trips : \A s \in Time : \A e \in s..MaxTime : \A x \in StoredIn(k, s, e) :
        LET i   == x[1]
            j   == x[2]
            t   == Recs(k, i)[j].ts
            odd == OutsideRow(rows[k], t) \/ OutOfOrder(Recs(k, i), j)
        IN  /\ x \in HotScan(k, s, e) \/ odd
            /\ rows[k].end # 0 =>
                  x \in ColdScan(k, s, e) \/ odd \/ AfterNewerChunk(idx[k], i, t)

=============================================================================
