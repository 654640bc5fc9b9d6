------------------------------- MODULE Offload -------------------------------
(***************************************************************************)
(* The offload client: one query of the SSD, then several runs that each   *)
(* open a connection and stream the records the query returned, packed     *)
(* into batches, between a Start and an End frame, and wait for the        *)
(* acknowledgement of the server.                                          *)
(*                                                                         *)
(* The references are those of one QueryRefs, while the archiver goes on   *)
(* removing files: a record is loaded, or not, at the moment its turn      *)
(* comes, in every run again. `wire' is what the kernel took of the        *)
(* present run, frame by frame. The server is not in the repository; it    *)
(* is modelled from what the client expects: it takes the frames in order, *)
(* answers once, after End, and can be gone at any moment.                 *)
(***************************************************************************)
EXTENDS Integers, Sequences, FiniteSets

CONSTANTS
    MaxRefs,      \* bound: references the query returns
    Sizes,        \* payload sizes of records
    Limits,       \* values of the argument max_records, 0: all
    Runs,         \* the argument runs
    EntryBytes,   \* sizeof(RecEntryHdr)
    TooLarge,     \* an entry above this is not batched (16 MiB)
    MaxTarget,    \* kMaxBatchBytes
    Targets,      \* targets the running average of the sizes leads to
    MaxIov,       \* IOV_MAX
    Faults        \* the faults this instance considers

\* "refused": connect fails.                   "reset": the connection is lost.
\* "transient": a send fails and the connection lives (no buffers, no memory).
\* "archived": the archiver removes files.
FaultKinds == {"refused", "reset", "transient", "archived"}

ASSUME OffloadAssumption ==
    /\ MaxRefs \in Nat
    /\ Sizes \subseteq Nat
    /\ Limits \subseteq Nat
    /\ Runs \in Nat \ {0}
    /\ EntryBytes \in Nat \ {0}
    /\ TooLarge \in Nat
    /\ MaxTarget \in Nat
    /\ Targets \subseteq 0..MaxTarget
    /\ MaxIov \in Nat /\ MaxIov >= 3
    /\ Faults \subseteq FaultKinds

RefIds == 1..MaxRefs

\* count: planned_records of Start, sent_records_ok of End.
\* torn: sendmsg failed when a part of the frame was gone.
Frame == [kind : {"start", "rec", "end"}, seq : Nat, recs : Seq(RefIds),
          count : Nat, torn : BOOLEAN]

PCs == {"query", "connect", "start", "next", "push", "full", "final", "end",
        "ack", "done"}

VARIABLES
    pc,          \* where main() is
    refs,        \* payload size of each reference, in the order of the query
    limit,       \* max_records
    gone,        \* references whose file can no longer be read
    run,         \* runs begun
    okRuns,      \* v_latency_ms.size(): the runs reported as ok
    exit,        \* exit status, -1 while running
    pos,         \* the next reference of the loop
    held,        \* the reference loaded and not yet in the batch, or 0
    target,      \* target_batch_bytes
    batch,       \* batch_hdrs and batch_payloads
    batchBytes,  \* batch_bytes_used
    batchIov,    \* batch_iov_used
    sent,        \* sent_records, records_sent_ok
    seq,         \* seq, frames_sent
    wire,        \* frames of this run, in order
    conn,        \* the connection: "up" or "reset"
    read,        \* how many frames the server took
    reply,       \* the acknowledgement: "none", "ok", "failed" (status), "bad" (header)
    skipped,     \* history: references this run passed over
    broken       \* history: a send of this run failed

job     == <<refs, limit>>
packing == <<pos, held, target, batch, batchBytes, batchIov, sent, skipped>>
stream  == <<seq, wire, conn, broken>>
server  == <<read, reply>>
totals  == <<run, okRuns, exit>>
vars    == <<pc, job, gone, totals, packing, stream, server>>

Planned == IF limit > 0 /\ Len(refs) > limit THEN limit ELSE Len(refs)

Need(r)     == EntryBytes + refs[r]
IovOf(r)    == IF refs[r] = 0 THEN 1 ELSE 2
MaxPerBatch == IF MaxIov > 3 THEN (MaxIov - 1) \div 2 ELSE 1

Readable(r) == r \notin gone /\ Need(r) <= TooLarge

\* Another turn of the loop. (Mutation: the limit is on references tried.)
MoreByPosition == pos <= Len(refs) /\ ~(limit > 0 /\ pos > limit)
More           == pos <= Len(refs) /\ ~(limit > 0 /\ sent >= limit)

\* (Mutation: only the number of records is looked at.)
WouldExceedByCount ==
    /\ batch # <<>>
    /\ Len(batch) >= MaxPerBatch
WouldExceed ==
    /\ batch # <<>>
    /\ \/ Len(batch) >= MaxPerBatch
       \/ batchBytes + Need(held) > target
       \/ 1 + batchIov + IovOf(held) > MaxIov

-----------------------------------------------------------------------------
(* Sending a frame.                                                        *)

FrameOf(k, rs, n) == [kind |-> k, seq |-> seq, recs |-> rs, count |-> n, torn |-> FALSE]

\* The kernel took the whole frame. It may do so after the server is gone.
Sent(f) ==
    /\ wire' = Append(wire, f)
    /\ seq' = seq + 1
    /\ UNCHANGED <<conn, broken>>

\* sendmsg_full returned false, with nothing or a part of the frame gone.
SendFails(f) ==
    /\ \/ conn = "reset" /\ conn' = conn
       \/ "reset" \in Faults /\ conn' = "reset"
       \/ "transient" \in Faults /\ conn' = conn
    /\ wire' \in {wire, Append(wire, [f EXCEPT !.torn = TRUE])}
    /\ broken' = TRUE
    /\ UNCHANGED seq

\* The batch as a frame, and the end of flush_batch().
\* (Mutation: only the sizes are reset.)
BatchFrame == FrameOf("rec", batch, 0)
ClearSizes == UNCHANGED batch /\ batchBytes' = 0 /\ batchIov' = 0
ClearBatch == batch' = <<>> /\ batchBytes' = 0 /\ batchIov' = 0

-----------------------------------------------------------------------------
Init ==
    /\ pc = "query"
    /\ refs = <<>> /\ limit = 0 /\ gone = {}
    /\ run = 0 /\ okRuns = 0 /\ exit = -1
    /\ pos = 1 /\ held = 0 /\ target = 0
    /\ batch = <<>> /\ batchBytes = 0 /\ batchIov = 0
    /\ sent = 0 /\ skipped = {}
    /\ seq = 0 /\ wire = <<>> /\ conn = "up" /\ broken = FALSE
    /\ read = 0 /\ reply = "none"

\* The arguments and the only query; an empty answer is warned about.
QueryRefs ==
    /\ pc = "query"
    /\ \E n \in 0..MaxRefs : refs' \in [1..n -> Sizes]
    /\ limit' \in Limits
    /\ pc' = "connect"
    /\ UNCHANGED <<gone, totals, packing, stream, server>>

\* The top of the loop over the runs: a new connection, all counters at zero.
Connect ==
    /\ pc = "connect"
    /\ run < Runs
    /\ run' = run + 1
    /\ pos' = 1 /\ held' = 0 /\ target' = 0
    /\ batch' = <<>> /\ batchBytes' = 0 /\ batchIov' = 0
    /\ sent' = 0 /\ skipped' = {}
    /\ seq' = 0 /\ wire' = <<>> /\ conn' = "up" /\ broken' = FALSE
    /\ read' = 0 /\ reply' = "none"
    /\ pc' = "start"
    /\ UNCHANGED <<job, gone, okRuns, exit>>

ConnectFails ==
    /\ pc = "connect"
    /\ run < Runs
    /\ "refused" \in Faults
    /\ pc' = "done"
    /\ exit' = 1
    /\ UNCHANGED <<job, gone, run, okRuns, packing, stream, server>>

Finish ==
    /\ pc = "connect"
    /\ run = Runs
    /\ pc' = "done"
    /\ exit' = 0
    /\ UNCHANGED <<job, gone, run, okRuns, packing, stream, server>>

\* Start announces how many records are planned, from the query alone.
SendStart ==
    /\ pc = "start"
    /\ Sent(FrameOf("start", <<>>, Planned))
    /\ pc' = "next"
    /\ UNCHANGED <<job, gone, totals, packing, server>>

SendStartFails ==
    /\ pc = "start"
    /\ SendFails(FrameOf("start", <<>>, Planned))
    /\ pc' = "done"
    /\ exit' = 1
    /\ UNCHANGED <<job, gone, run, okRuns, packing, server>>

-----------------------------------------------------------------------------
(* The loop over the references.                                           *)

\* A payload that cannot be loaded, or is too large, is passed over.
SkipRecord ==
    /\ pc = "next"
    /\ More
    /\ ~Readable(pos)
    /\ skipped' = skipped \cup {pos}
    /\ pos' = pos + 1
    /\ UNCHANGED <<pc, job, gone, totals, held, target, batch, batchBytes, batchIov,
                   sent, stream, server>>

LoadRecord ==
    /\ pc = "next"
    /\ More
    /\ Readable(pos)
    /\ held' = pos
    /\ pos' = pos + 1
    /\ target' \in Targets
    /\ pc' = "push"
    /\ UNCHANGED <<job, gone, totals, batch, batchBytes, batchIov, sent, skipped,
                   stream, server>>

\* The batch goes out before the record joins the next one.
\* (Mutation: the loaded record goes with it.)
FlushBeforeLosing ==
    /\ pc = "push"
    /\ WouldExceed
    /\ Sent(BatchFrame)
    /\ ClearBatch
    /\ held' = 0
    /\ UNCHANGED <<pc, job, gone, totals, pos, target, sent, skipped, server>>
FlushBefore ==
    /\ pc = "push"
    /\ WouldExceed
    /\ Sent(BatchFrame)
    /\ ClearBatch
    /\ UNCHANGED <<pc, job, gone, totals, pos, held, target, sent, skipped, server>>

\* The loop is left with the batch kept and the loaded record dropped.
\* (Mutation: the batch is dropped with it.)
FlushBeforeFailsDropping ==
    /\ pc = "push"
    /\ WouldExceed
    /\ SendFails(BatchFrame)
    /\ held' = 0
    /\ ClearBatch
    /\ pc' = "final"
    /\ UNCHANGED <<job, gone, totals, pos, target, sent, skipped, server>>
FlushBeforeFails ==
    /\ pc = "push"
    /\ WouldExceed
    /\ SendFails(BatchFrame)
    /\ held' = 0
    /\ pc' = "final"
    /\ UNCHANGED <<job, gone, totals, pos, target, batch, batchBytes, batchIov, sent,
                   skipped, server>>

\* The record joins the batch and is counted as sent.
PushRecord ==
    /\ pc = "push"
    /\ ~WouldExceed
    /\ batch' = Append(batch, held)
    /\ batchBytes' = batchBytes + Need(held)
    /\ batchIov' = batchIov + IovOf(held)
    /\ sent' = sent + 1
    /\ held' = 0
    /\ pc' = IF Len(batch') >= MaxPerBatch \/ batchBytes' >= target THEN "full" ELSE "next"
    /\ UNCHANGED <<job, gone, totals, pos, target, skipped, stream, server>>

FlushFull ==
    /\ pc = "full"
    /\ Sent(BatchFrame)
    /\ ClearBatch
    /\ pc' = "next"
    /\ UNCHANGED <<job, gone, totals, pos, held, target, sent, skipped, server>>

FlushFullFails ==
    /\ pc = "full"
    /\ SendFails(BatchFrame)
    /\ pc' = "final"
    /\ UNCHANGED <<job, gone, totals, packing, server>>

LoopEnds ==
    /\ pc = "next"
    /\ ~More
    /\ pc' = "final"
    /\ UNCHANGED <<job, gone, totals, packing, stream, server>>

-----------------------------------------------------------------------------
(* The end of a run.                                                       *)

\* What is left in the batch, also after a failed flush, is sent.
FlushFinal ==
    /\ pc = "final"
    /\ \/ batch = <<>> /\ UNCHANGED <<batch, batchBytes, batchIov, stream>>
       \/ batch # <<>> /\ Sent(BatchFrame) /\ ClearBatch
    /\ pc' = "end"
    /\ UNCHANGED <<job, gone, totals, pos, held, target, sent, skipped, server>>

FlushFinalFails ==
    /\ pc = "final"
    /\ batch # <<>>
    /\ SendFails(BatchFrame)
    /\ pc' = "done"
    /\ exit' = 1
    /\ UNCHANGED <<job, gone, run, okRuns, packing, server>>

\* Whether End could be sent is not looked at.
SendEnd ==
    /\ pc = "end"
    /\ Sent(FrameOf("end", <<>>, sent)) \/ SendFails(FrameOf("end", <<>>, sent))
    /\ pc' = "ack"
    /\ UNCHANGED <<job, gone, totals, packing, server>>

\* A status of 0 makes the run count; the server's own counts are printed only.
CountReply == okRuns' = IF reply = "ok" THEN okRuns + 1 ELSE okRuns
RecvAck ==
    /\ pc = "ack"
    /\ reply \in {"ok", "failed"}
    /\ CountReply
    /\ pc' = "connect"
    /\ UNCHANGED <<job, gone, run, exit, packing, stream, server>>

\* The connection ended first, or the header is not that of an answer.
\* (Mutation: the end of the connection is read as "nothing yet".)
RecvAckFailsOnHeader ==
    /\ pc = "ack"
    /\ reply = "bad"
    /\ pc' = "done"
    /\ exit' = 1
    /\ UNCHANGED <<job, gone, run, okRuns, packing, stream, server>>
RecvAckFails ==
    /\ pc = "ack"
    /\ conn = "reset" \/ reply = "bad"
    /\ pc' = "done"
    /\ exit' = 1
    /\ UNCHANGED <<job, gone, run, okRuns, packing, stream, server>>

-----------------------------------------------------------------------------
(* The server and the rest of the environment.                             *)

Connected == pc \notin {"query", "connect", "done"} /\ conn = "up" /\ reply = "none"

ServerReads ==
    /\ Connected
    /\ read < Len(wire)
    /\ ~wire[read + 1].torn
    /\ read' = read + 1
    /\ UNCHANGED <<pc, job, gone, totals, packing, stream, reply>>

\* A whole End was the last frame: the only answer. A status other than 0 is
\* for a stream the server did not accept.
ServerAcks ==
    /\ Connected
    /\ read > 0
    /\ wire[read].kind = "end"
    /\ reply' \in {"ok", "failed", "bad"}
    /\ UNCHANGED <<pc, job, gone, totals, packing, stream, read>>

\* The bytes after a torn frame are not where the server looks for them.
ServerGivesUp ==
    /\ Connected
    /\ read + 1 < Len(wire)
    /\ wire[read + 1].torn
    /\ conn' = "reset"
    /\ UNCHANGED <<pc, job, gone, totals, packing, seq, wire, broken, server>>

ConnectionLost ==
    /\ "reset" \in Faults
    /\ pc \notin {"query", "connect", "done"}
    /\ conn = "up"
    /\ conn' = "reset"
    /\ UNCHANGED <<pc, job, gone, totals, packing, seq, wire, broken, server>>

Archived(r) ==
    /\ "archived" \in Faults
    /\ r \in (1..Len(refs)) \ gone
    /\ gone' = gone \cup {r}
    /\ UNCHANGED <<pc, job, totals, packing, stream, server>>

ClientStep ==
    \/ QueryRefs \/ Connect \/ ConnectFails \/ Finish
    \/ SendStart \/ SendStartFails
    \/ SkipRecord \/ LoadRecord \/ FlushBefore \/ FlushBeforeFails \/ PushRecord
    \/ FlushFull \/ FlushFullFails \/ LoopEnds
    \/ FlushFinal \/ FlushFinalFails \/ SendEnd \/ RecvAck \/ RecvAckFails

ServerStep == ServerReads \/ ServerAcks \/ ServerGivesUp

Next ==
    \/ ClientStep
    \/ ServerStep
    \/ ConnectionLost
    \/ \E r \in RefIds : Archived(r)

Spec     == Init /\ [][Next]_vars
FairSpec == Spec /\ WF_vars(ClientStep) /\ WF_vars(ServerStep)

-----------------------------------------------------------------------------
(* Properties.                                                             *)

\* Every variable has its type.
JobTypes ==
    /\ refs \in Seq(Sizes) /\ Len(refs) <= MaxRefs
    /\ limit \in Nat
    /\ gone \subseteq RefIds
RunTypes ==
    /\ pc \in PCs
    /\ run \in 0..Runs
    /\ okRuns \in 0..Runs
    /\ exit \in {-1, 0, 1}
PackTypes ==
    /\ pos \in 1..(Len(refs) + 1)
    /\ held \in 0..Len(refs)
    /\ (pc = "push") => held # 0
    /\ target \in 0..MaxTarget
    /\ batch \in Seq(RefIds)
    /\ batchBytes \in Nat
    /\ batchIov \in Nat
    /\ sent \in Nat
    /\ skipped \subseteq RefIds
StreamTypes ==
    /\ seq \in Nat
    /\ wire \in Seq(Frame)
    /\ conn \in {"up", "reset"}
    /\ broken \in BOOLEAN
    /\ read \in 0..Len(wire)
    /\ reply \in {"none", "ok", "failed", "bad"}
TypeOK == JobTypes /\ RunTypes /\ PackTypes /\ StreamTypes

Elems(s)    == {s[i] : i \in DOMAIN s}
Whole       == {i \in DOMAIN wire : ~wire[i].torn}
Delivered   == UNION {Elems(wire[i].recs) : i \in Whole}
Increasing(s) == \A i, j \in DOMAIN s : i < j => s[i] < s[j]
EndsSent    == {i \in Whole : wire[i].kind = "end"}

\* The server is sent each record at most once and in the order of time:
\* within a frame and from frame to frame, also when a flush failed and its
\* batch was sent again by the final flush.
StreamInOrder ==
    /\ \A i \in Whole : Increasing(wire[i].recs)
    /\ \A i, j \in Whole : i < j =>
          \A a \in Elems(wire[i].recs), b \in Elems(wire[j].recs) : a < b

\* What End says is what went before it: the number of records in the frames,
\* although they are counted when packed; never more than Start announced,
\* although some are skipped and others take their place; and one sequence
\* number for each whole frame, failed ones not counted.
EndTellsTheStream ==
    /\ \A i \in EndsSent :
          /\ wire[i].count = Cardinality(Delivered)
          /\ wire[i].count <= Planned
          /\ i = Len(wire)
    /\ \A i \in Whole : wire[i].seq = Cardinality({j \in Whole : j < i})

\* A frame fits the vectors of one sendmsg and its length the 32 bits of
\* body_len, although a batch is filled before it is measured again.
FrameFits ==
    /\ 1 + batchIov <= MaxIov
    /\ batchBytes <= MaxTarget \/ batchBytes <= TooLarge

\* A run is reported ok only when a whole End was sent on an undamaged stream,
\* and then every reference up to the limit was sent or could not be read at
\* its turn, unless a send failed on the way: a run cut short by a failed send
\* can be reported ok.
CountedRunIsComplete ==
    [][okRuns' # okRuns =>
          /\ EndsSent # {} /\ Whole = DOMAIN wire
          /\ broken \/ /\ Delivered \cup skipped = 1..(pos - 1)
                       /\ pos > Len(refs) \/ sent = limit
      ]_vars

\* The program ends, whatever happens to its connections, except when End
\* could not be sent on a connection that lives: the failure is ignored, no
\* timeout is set, and client and server then wait for each other.
WaitsForLostEnd  == pc = "ack" /\ conn = "up" /\ reply = "none" /\ EndsSent = {}
EndsOrWaitsForLostEnd == <>[](pc = "done" \/ WaitsForLostEnd)

=============================================================================
