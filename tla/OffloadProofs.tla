---------------------------- MODULE OffloadProofs ----------------------------
(* Theorems about Offload, for every value of its constants.               *)
EXTENDS Offload, FiniteSetTheorems, TLAPS

-----------------------------------------------------------------------------
(* The inductive invariant.                                                *)

\* The records of this run that are in a whole frame or in the batch.
Pending == Delivered \cup Elems(batch)

\* Before the query there is nothing of a run, and each run counts once.
RunInv ==
    /\ pc = "query" => pos = 1 /\ held = 0 /\ sent = 0
    /\ okRuns <= run
    /\ pc \notin {"query", "connect", "done"} => okRuns < run

\* An empty batch has no size, and a loaded record is no larger than an entry
\* may be.
PackInv ==
    /\ batch = <<>> => batchIov = 0 /\ batchBytes = 0
    /\ FrameFits
    /\ pc = "push" => Need(held) <= TooLarge

\* Frames, then the batch, then the loaded record, then the references to come.
OrderInv ==
    /\ StreamInOrder
    /\ Increasing(batch)
    /\ \A a \in Delivered, b \in Elems(batch) : a < b
    /\ \A a \in Pending : a < pos
    /\ pc = "push" => held = pos - 1 /\ \A a \in Pending : a < held

\* The counter of sent records counts those in frames and those in the batch.
CountInv ==
    /\ IsFiniteSet(Pending)
    /\ sent = Cardinality(Pending)
    /\ limit > 0 => sent <= limit
    /\ pc = "push" /\ limit > 0 => sent < limit

\* End is the last frame, of an empty batch.
EndInv ==
    /\ \A i \in EndsSent :
          /\ wire[i].count = Cardinality(Delivered)
          /\ wire[i].count <= Planned
          /\ i = Len(wire)
    /\ EndsSent # {} => pc \in {"ack", "connect", "done"}
    /\ pc \in {"query", "start", "end", "ack"} => batch = <<>>

\* seq counts the whole frames, and each has the number of those before it.
SeqInv ==
    /\ IsFiniteSet(Whole)
    /\ seq = Cardinality(Whole)
    /\ \A i \in Whole : wire[i].seq = Cardinality({j \in Whole : j < i})

\* While no send failed, what is behind the loop is sent, in the batch, loaded
\* or passed over.
CompleteInv ==
    ~broken =>
       /\ Whole = DOMAIN wire
       /\ pc = "start" => wire = <<>> /\ pos = 1 /\ skipped = {}
       /\ pc \in {"next", "full", "final", "end", "ack"} => Pending \cup skipped = 1..(pos - 1)
       /\ pc = "push" => Pending \cup skipped = 1..(pos - 2)
       /\ pc \in {"final", "end", "ack"} => ~More

\* The server took whole frames, and answered after End.
ServerInv ==
    /\ \A i \in 1..read : i \in Whole
    /\ reply # "none" => read > 0 /\ wire[read].kind = "end"

IInv == TypeOK /\ RunInv /\ PackInv /\ OrderInv /\ CountInv /\ EndInv /\ SeqInv /\ CompleteInv /\ ServerInv

-----------------------------------------------------------------------------
(* Numbers, frames and batches.                                            *)

\* The constants as numbers.
LEMMA Basics ==
    /\ MaxRefs \in Nat /\ Runs \in Nat /\ Runs > 0
    /\ EntryBytes \in Nat /\ EntryBytes > 0
    /\ TooLarge \in Nat /\ MaxTarget \in Nat /\ MaxIov \in Nat /\ MaxIov >= 3
    /\ \A s \in Sizes : s \in Nat
    /\ \A l \in Limits : l \in Nat
    /\ \A t \in Targets : t \in 0..MaxTarget
    /\ \A r \in RefIds : r \in Nat /\ r >= 1
  BY OffloadAssumption DEF RefIds

\* The size of a reference of the query.
LEMMA NeedType ==
    ASSUME TypeOK, NEW r \in 1..Len(refs)
    PROVE  Need(r) \in Nat /\ IovOf(r) \in 1..2
<1>1. refs[r] \in Sizes
  BY DEF TypeOK, JobTypes
<1> QED
  BY <1>1, Basics DEF Need, IovOf

\* What is put into a frame makes a frame.
LEMMA FrameType ==
    ASSUME TypeOK, NEW k \in {"start", "rec", "end"}, NEW rs \in Seq(RefIds), NEW n \in Nat
    PROVE  /\ FrameOf(k, rs, n) \in Frame /\ ~FrameOf(k, rs, n).torn
           /\ FrameOf(k, rs, n).recs = rs /\ FrameOf(k, rs, n).kind = k
           /\ FrameOf(k, rs, n).count = n /\ FrameOf(k, rs, n).seq = seq
<1>1. seq \in Nat
  BY DEF TypeOK, StreamTypes
<1> QED
  BY <1>1 DEF FrameOf, Frame

\* What is planned is a number of references.
LEMMA PlannedType ==
    ASSUME TypeOK
    PROVE  Planned \in 0..Len(refs)
  BY DEF TypeOK, JobTypes, Planned

\* The frames that are sent.
LEMMA FrameTypes ==
    ASSUME TypeOK
    PROVE  /\ \A f \in {FrameOf("start", <<>>, Planned), FrameOf("end", <<>>, sent), BatchFrame} :
                 f \in Frame /\ ~f.torn /\ f.seq = seq
           /\ FrameOf("start", <<>>, Planned).recs = <<>> /\ FrameOf("start", <<>>, Planned).kind = "start"
           /\ FrameOf("end", <<>>, sent).recs = <<>> /\ FrameOf("end", <<>>, sent).kind = "end"
           /\ FrameOf("end", <<>>, sent).count = sent
           /\ BatchFrame.recs = batch /\ BatchFrame.kind = "rec"
<1>1. <<>> \in Seq(RefIds) /\ batch \in Seq(RefIds) /\ sent \in Nat /\ Planned \in Nat
  BY PlannedType DEF TypeOK, PackTypes, JobTypes
<1>2. \A k \in {"start", "rec", "end"} : \A rs \in Seq(RefIds) : \A n \in Nat :
         /\ FrameOf(k, rs, n) \in Frame /\ ~FrameOf(k, rs, n).torn /\ FrameOf(k, rs, n).seq = seq
         /\ FrameOf(k, rs, n).recs = rs /\ FrameOf(k, rs, n).kind = k /\ FrameOf(k, rs, n).count = n
  BY FrameType
<1> DEFINE s == FrameOf("start", <<>>, Planned)
           e == FrameOf("end", <<>>, sent)
<1>3. /\ s \in Frame /\ ~s.torn /\ s.seq = seq /\ s.recs = <<>> /\ s.kind = "start"
      /\ e \in Frame /\ ~e.torn /\ e.seq = seq /\ e.recs = <<>> /\ e.kind = "end" /\ e.count = sent
  <2>1. seq \in Nat
    BY DEF TypeOK, StreamTypes
  <2>2. s \in Frame
    BY <1>1, <2>1 DEF Frame, FrameOf
  <2>3. e \in Frame
    BY <1>1, <2>1 DEF Frame, FrameOf
  <2> QED
    BY <2>2, <2>3 DEF FrameOf
<1>4. /\ BatchFrame \in Frame /\ ~BatchFrame.torn /\ BatchFrame.seq = seq
      /\ BatchFrame.recs = batch /\ BatchFrame.kind = "rec"
  BY <1>1, <1>2 DEF BatchFrame
<1> QED
  BY <1>1, <1>3, <1>4

\* The elements of sequences.
LEMMA ElemsFacts ==
    ASSUME NEW s \in Seq(RefIds)
    PROVE  /\ Elems(s) \subseteq RefIds
           /\ \A x \in RefIds : Elems(Append(s, x)) = Elems(s) \cup {x}
<1>1. Elems(s) \subseteq RefIds
  BY DEF Elems
<1>2. ASSUME NEW x \in RefIds PROVE Elems(Append(s, x)) = Elems(s) \cup {x}
  <2>1. DOMAIN Append(s, x) = DOMAIN s \cup {Len(s) + 1}
    OBVIOUS
  <2>2. \A i \in DOMAIN s : Append(s, x)[i] = s[i]
    OBVIOUS
  <2>3. Append(s, x)[Len(s) + 1] = x
    OBVIOUS
  <2> QED
    BY <2>1, <2>2, <2>3 DEF Elems
<1> QED
  BY <1>1, <1>2

\* The empty batch.
LEMMA ElemsEmpty == Elems(<<>>) = {} /\ Increasing(<<>>)
  BY DEF Elems, Increasing

\* The whole frames are among the frames, and hold references.
LEMMA WholeFacts ==
    ASSUME TypeOK
    PROVE  /\ Whole \subseteq 1..Len(wire) /\ Len(wire) \in Nat
           /\ \A i \in 1..Len(wire) : wire[i] \in Frame /\ wire[i].recs \in Seq(RefIds)
           /\ Delivered \subseteq RefIds
           /\ Pending \subseteq RefIds
           /\ EndsSent \subseteq Whole
<1>1. Whole \subseteq 1..Len(wire) /\ Len(wire) \in Nat
  BY DEF TypeOK, StreamTypes, Whole
<1>2. \A i \in 1..Len(wire) : wire[i] \in Frame /\ wire[i].recs \in Seq(RefIds)
  <2>1. \A i \in 1..Len(wire) : wire[i] \in Frame
    BY DEF TypeOK, StreamTypes
  <2>2. \A f \in Frame : f.recs \in Seq(RefIds)
    BY DEF Frame
  <2> QED
    BY <2>1, <2>2
<1>3. \A i \in Whole : Elems(wire[i].recs) \subseteq RefIds
  BY <1>1, <1>2, ElemsFacts
<1>4. Delivered \subseteq RefIds
  BY <1>3 DEF Delivered
<1>5. batch \in Seq(RefIds)
  BY DEF TypeOK, PackTypes
<1>6. Elems(batch) \subseteq RefIds
  BY <1>5, ElemsFacts
<1> QED
  BY <1>1, <1>2, <1>4, <1>6 DEF Pending, EndsSent

-----------------------------------------------------------------------------
(* Sending a frame.                                                        *)

\* A frame that was sent is a whole frame more.
LEMMA SentFacts ==
    ASSUME TypeOK, NEW f \in Frame, ~f.torn, Sent(f)
    PROVE  /\ wire' \in Seq(Frame) /\ Len(wire') = Len(wire) + 1
           /\ wire'[Len(wire) + 1] = f
           /\ \A i \in 1..Len(wire) : wire'[i] = wire[i]
           /\ Whole' = Whole \cup {Len(wire) + 1} /\ Len(wire) + 1 \notin Whole
           /\ Delivered' = Delivered \cup Elems(f.recs)
           /\ EndsSent' = IF f.kind = "end" THEN EndsSent \cup {Len(wire) + 1} ELSE EndsSent
           /\ seq' = seq + 1 /\ broken' = broken /\ conn' = conn
<1> DEFINE n == Len(wire) + 1
<1>1. wire \in Seq(Frame) /\ wire' = Append(wire, f) /\ Len(wire) \in Nat
  BY DEF TypeOK, StreamTypes, Sent
<1>2. /\ wire' \in Seq(Frame) /\ Len(wire') = n /\ wire'[n] = f
      /\ \A i \in 1..Len(wire) : wire'[i] = wire[i]
      /\ DOMAIN wire' = DOMAIN wire \cup {n} /\ n \notin DOMAIN wire
      /\ DOMAIN wire = 1..Len(wire)
  BY <1>1
<1>3. Whole' = Whole \cup {n} /\ n \notin Whole
  BY <1>2 DEF Whole
<1>4. \A i \in Whole : wire'[i] = wire[i]
  BY <1>2 DEF Whole
<1>5. Delivered' = UNION {Elems(wire'[i].recs) : i \in Whole'}
  BY DEF Delivered, Elems
<1>6. Delivered' = Delivered \cup Elems(f.recs)
  BY <1>2, <1>3, <1>4, <1>5 DEF Delivered
<1>7. EndsSent' = {i \in Whole' : wire'[i].kind = "end"}
  BY DEF EndsSent
<1>8. EndsSent' = IF f.kind = "end" THEN EndsSent \cup {n} ELSE EndsSent
  BY <1>2, <1>3, <1>4, <1>7 DEF EndsSent
<1> QED
  BY <1>2, <1>3, <1>6, <1>8 DEF Sent

\* A failed send leaves the whole frames as they are.
LEMMA SendFailsFacts ==
    ASSUME TypeOK, NEW f \in Frame, SendFails(f)
    PROVE  /\ wire' \in Seq(Frame) /\ Len(wire') \in {Len(wire), Len(wire) + 1}
           /\ \A i \in 1..Len(wire) : wire'[i] = wire[i]
           /\ Whole' = Whole /\ Delivered' = Delivered /\ EndsSent' = EndsSent
           /\ seq' = seq /\ broken' = TRUE /\ conn' \in {"up", "reset"}
<1> DEFINE g == [f EXCEPT !.torn = TRUE]
           n == Len(wire) + 1
<1>1. g \in Frame /\ g.torn
  BY DEF Frame
<1>2. wire \in Seq(Frame) /\ wire' \in {wire, Append(wire, g)} /\ Len(wire) \in Nat
  BY DEF TypeOK, StreamTypes, SendFails
<1>3. /\ wire' \in Seq(Frame) /\ Len(wire') \in {Len(wire), n}
      /\ \A i \in 1..Len(wire) : wire'[i] = wire[i]
      /\ DOMAIN wire = 1..Len(wire)
      /\ \/ DOMAIN wire' = DOMAIN wire
         \/ DOMAIN wire' = DOMAIN wire \cup {n} /\ wire'[n] = g
  <2> HIDE DEF g
  <2>1. CASE wire' = wire
    BY <1>2, <2>1
  <2>2. CASE wire' = Append(wire, g)
    BY <1>1, <1>2, <2>2
  <2> QED
    BY <1>2, <2>1, <2>2
<1>4. Whole' = Whole
  BY <1>1, <1>3 DEF Whole
<1>5. \A i \in Whole : wire'[i] = wire[i]
  BY <1>3 DEF Whole
<1>6. Delivered' = UNION {Elems(wire'[i].recs) : i \in Whole'}
  BY DEF Delivered, Elems
<1>7. Delivered' = Delivered
  BY <1>4, <1>5, <1>6 DEF Delivered
<1>8. EndsSent' = EndsSent
  BY <1>4, <1>5 DEF EndsSent
<1>9. conn' \in {"up", "reset"}
  BY DEF TypeOK, StreamTypes, SendFails
<1> QED
  BY <1>3, <1>4, <1>7, <1>8, <1>9 DEF SendFails

\* Without a change of the frames nothing that is said of them changes.
LEMMA SameWire ==
    ASSUME wire' = wire
    PROVE  Whole' = Whole /\ Delivered' = Delivered /\ EndsSent' = EndsSent
  BY DEF Whole, Delivered, EndsSent, Elems

-----------------------------------------------------------------------------
(* Types.                                                                  *)

\* Sending keeps the types of the stream, and so does what leaves it alone.
LEMMA SentTypes ==
    ASSUME TypeOK, NEW f \in Frame, ~f.torn, Sent(f), UNCHANGED server
    PROVE  StreamTypes'
<1>1. wire' \in Seq(Frame) /\ Len(wire') = Len(wire) + 1 /\ seq' = seq + 1 /\ broken' = broken /\ conn' = conn
  BY SentFacts
<1>2. Len(wire) \in Nat
  BY DEF TypeOK, StreamTypes
<1> QED
  BY <1>1, <1>2 DEF TypeOK, StreamTypes, server

LEMMA SendFailsTypes ==
    ASSUME TypeOK, NEW f \in Frame, SendFails(f), UNCHANGED server
    PROVE  StreamTypes'
<1>1. /\ wire' \in Seq(Frame) /\ Len(wire') \in {Len(wire), Len(wire) + 1} /\ seq' = seq
      /\ broken' = TRUE /\ conn' \in {"up", "reset"}
  BY SendFailsFacts
<1>2. Len(wire) \in Nat
  BY DEF TypeOK, StreamTypes
<1> QED
  BY <1>1, <1>2 DEF TypeOK, StreamTypes, server

LEMMA TypeInit == Init => TypeOK /\ RunInv
<1> SUFFICES ASSUME Init PROVE TypeOK /\ RunInv
  OBVIOUS
<1>1. RunInv
  BY Basics DEF Init, RunInv
<1>2. JobTypes
  BY Basics DEF Init, JobTypes
<1>3. RunTypes
  BY Basics DEF Init, RunTypes, PCs
<1>4. PackTypes
  BY Basics DEF Init, PackTypes
<1>5. StreamTypes
  <2>1. wire = <<>> /\ wire \in Seq(Frame) /\ Len(wire) = 0
    BY DEF Init
  <2> QED
    <3>1. seq \in Nat /\ conn \in {"up", "reset"} /\ reply \in {"none", "ok", "failed", "bad"}
      BY DEF Init
    <3>2. broken \in BOOLEAN
      BY Zenon DEF Init
    <3>3. read \in 0..Len(wire)
      BY <2>1 DEF Init
    <3> QED
      BY <2>1, <3>1, <3>2, <3>3, Zenon DEF StreamTypes
<1> QED
  BY <1>1, <1>2, <1>3, <1>4, <1>5 DEF TypeOK

\* The query and its arguments are of their types in each step.
LEMMA JobStep ==
    ASSUME TypeOK, [Next]_vars
    PROVE  JobTypes'
<1>1. CASE QueryRefs
  <2>1. PICK n \in 0..MaxRefs : refs' \in [1..n -> Sizes]
    BY <1>1 DEF QueryRefs
  <2>2. refs' \in Seq(Sizes) /\ Len(refs') = n /\ n <= MaxRefs
    BY <2>1, Basics
  <2>3. limit' \in Nat /\ gone' = gone
    BY <1>1, Basics DEF QueryRefs
  <2> QED
    BY <2>2, <2>3 DEF TypeOK, JobTypes
<1>2. CASE \E r \in RefIds : Archived(r)
  BY <1>2 DEF Archived, job, TypeOK, JobTypes
<1>3. CASE UNCHANGED <<job, gone>>
  BY <1>3 DEF job, TypeOK, JobTypes
<1>4. ClientStep => QueryRefs \/ UNCHANGED <<job, gone>>
  BY DEF ClientStep, Connect, ConnectFails, Finish, SendStart, SendStartFails, SkipRecord,
         LoadRecord,
         FlushBefore, FlushBeforeFails, PushRecord, FlushFull, FlushFullFails, LoopEnds, FlushFinal,
         FlushFinalFails, SendEnd, RecvAck, RecvAckFails
<1>5. ServerStep \/ ConnectionLost => UNCHANGED <<job, gone>>
  BY DEF ServerStep, ServerReads, ServerAcks, ServerGivesUp, ConnectionLost
<1>6. UNCHANGED vars => UNCHANGED <<job, gone>>
  BY DEF vars
<1> QED
  BY <1>1, <1>2, <1>3, <1>4, <1>5, <1>6 DEF Next

\* The program counter and the runs.
LEMMA RunStep ==
    ASSUME TypeOK, RunInv, [Next]_vars
    PROVE  RunTypes' /\ RunInv'
<1> USE DEF PCs, TypeOK, RunTypes, RunInv
<1>1. CASE QueryRefs \/ LoopEnds
  BY <1>1 DEF QueryRefs, LoopEnds, totals, packing
<1>2. CASE Connect
  BY <1>2, Basics DEF Connect
<1>3. CASE ConnectFails \/ Finish
  BY <1>3 DEF ConnectFails, Finish
<1>4. CASE SendStart \/ SendStartFails
  BY <1>4 DEF SendStart, SendStartFails, totals
<1>5. CASE SkipRecord \/ LoadRecord
  BY <1>5 DEF SkipRecord, LoadRecord, totals
<1>6. CASE FlushBefore \/ FlushBeforeFails \/ FlushFull \/ FlushFullFails
  BY <1>6 DEF FlushBefore, FlushBeforeFails, FlushFull, FlushFullFails, totals
<1>7. CASE PushRecord
  <2>1. pc' \in {"full", "next"} /\ UNCHANGED totals /\ pc = "push"
    BY <1>7 DEF PushRecord
  <2> QED
    BY <2>1 DEF totals
<1>8. CASE FlushFinal \/ FlushFinalFails \/ SendEnd
  BY <1>8 DEF FlushFinal, FlushFinalFails, SendEnd, totals
<1>9. CASE RecvAck \/ RecvAckFails
  <2>1. CASE RecvAck
    <3>1. okRuns' \in {okRuns, okRuns + 1} /\ pc = "ack" /\ pc' = "connect" /\ run' = run /\ exit' = exit
      BY <2>1 DEF RecvAck, CountReply
    <3> QED
      BY <3>1, Basics
  <2>2. CASE RecvAckFails
    BY <2>2 DEF RecvAckFails
  <2> QED
    BY <1>9, <2>1, <2>2
<1>10. CASE UNCHANGED <<pc, totals, packing>>
  BY <1>10 DEF totals, packing
<1>11. ServerStep \/ ConnectionLost \/ (\E r \in RefIds : Archived(r)) \/ UNCHANGED vars => UNCHANGED <<pc, totals, packing>>
  BY DEF ServerStep, ServerReads, ServerAcks, ServerGivesUp, ConnectionLost, Archived, vars
<1> QED
  BY <1>1, <1>2, <1>3, <1>4, <1>5, <1>6, <1>7, <1>8, <1>9, <1>10, <1>11 DEF Next, ClientStep

\* The loop, the batch and its sizes.
LEMMA PackStep ==
    ASSUME TypeOK, RunInv, [Next]_vars
    PROVE  PackTypes'
<1> USE DEF PackTypes
<1>0. Len(refs) \in Nat /\ PackTypes
  BY DEF TypeOK, JobTypes
<1>1. CASE QueryRefs
  <2>1. Len(refs') \in Nat /\ pos = 1 /\ held = 0
    BY <1>1, JobStep DEF QueryRefs, RunInv, JobTypes
  <2>2. pc' = "connect" /\ UNCHANGED packing
    BY <1>1 DEF QueryRefs
  <2> QED
    BY <1>0, <2>1, <2>2 DEF packing
<1>2. CASE Connect
  BY <1>0, <1>2, Basics DEF Connect, job
<1>3. CASE SkipRecord
  <2>1. pos <= Len(refs) /\ pos \in RefIds
    BY <1>0, <1>3, Basics DEF SkipRecord, More, RefIds, TypeOK, JobTypes
  <2> QED
    BY <1>0, <1>3, <2>1 DEF SkipRecord, job
<1>4. CASE LoadRecord
  <2>1. pos <= Len(refs)
    BY <1>4 DEF LoadRecord, More
  <2>2. target' \in 0..MaxTarget
    BY <1>4, Basics DEF LoadRecord
  <2> QED
    BY <1>0, <1>4, <2>1, <2>2 DEF LoadRecord, job
<1>5. CASE FlushBefore \/ FlushFull
  <2>1. ClearBatch
    BY <1>5 DEF FlushBefore, FlushFull
  <2>2. batch' \in Seq(RefIds) /\ batchBytes' = 0 /\ batchIov' = 0
    BY <2>1 DEF ClearBatch
  <2> QED
    BY <1>0, <1>5, <2>2 DEF FlushBefore, FlushFull, job
<1>6. CASE FlushBeforeFails
  BY <1>0, <1>6 DEF FlushBeforeFails, job
<1>7. CASE PushRecord
  <2>1. held \in RefIds /\ held \in 1..Len(refs)
    BY <1>0, <1>7, Basics DEF PushRecord, RefIds, TypeOK, JobTypes
  <2>2. Need(held) \in Nat /\ IovOf(held) \in Nat
    BY <2>1, NeedType
  <2>3. batch' \in Seq(RefIds)
    BY <1>0, <1>7, <2>1 DEF PushRecord
  <2>4. pc' # "push"
    BY <1>7 DEF PushRecord
  <2> QED
    BY <1>0, <1>7, <2>2, <2>3, <2>4, SMTT(30) DEF PushRecord, job
<1>8. CASE FlushFinal
  <2>1. batch' \in Seq(RefIds) /\ batchBytes' \in Nat /\ batchIov' \in Nat
    <3>1. CASE ClearBatch
      BY <3>1 DEF ClearBatch
    <3>2. CASE UNCHANGED <<batch, batchBytes, batchIov>>
      BY <1>0, <3>2
    <3> QED
      BY <1>8, <3>1, <3>2 DEF FlushFinal
  <2>2. UNCHANGED <<refs, pos, held, target, sent, skipped>> /\ pc' = "end"
    BY <1>8 DEF FlushFinal, job
  <2> QED
    BY <1>0, <2>1, <2>2
<1>9. CASE UNCHANGED <<job, packing>> /\ (pc' = "push" => pc = "push")
  BY <1>0, <1>9 DEF job, packing
<1>10. ClientStep =>
          \/ QueryRefs \/ Connect \/ SkipRecord \/ LoadRecord \/ FlushBefore \/ FlushFull
          \/ FlushBeforeFails \/ PushRecord \/ FlushFinal
          \/ UNCHANGED <<job, packing>> /\ (pc' = "push" => pc = "push")
  BY DEF ClientStep, ConnectFails, Finish, SendStart, SendStartFails, FlushFullFails, LoopEnds,
         FlushFinalFails, SendEnd, RecvAck, RecvAckFails
<1>11. ServerStep \/ ConnectionLost \/ (\E r \in RefIds : Archived(r)) \/ UNCHANGED vars =>
          UNCHANGED <<job, packing>> /\ (pc' = "push" => pc = "push")
  BY DEF ServerStep, ServerReads, ServerAcks, ServerGivesUp, ConnectionLost, Archived, vars
<1> QED
  BY <1>1, <1>2, <1>3, <1>4, <1>5, <1>6, <1>7, <1>8, <1>9, <1>10, <1>11 DEF Next

\* The steps, by what they do to the stream.
SendsBatch ==
    /\ FlushBefore \/ FlushFull \/ FlushFinal
    /\ Sent(BatchFrame) /\ ClearBatch /\ UNCHANGED server
SendsEnd == SendEnd /\ Sent(FrameOf("end", <<>>, sent))
FailsToSend ==
    /\ SendStartFails \/ FlushBeforeFails \/ FlushFullFails \/ FlushFinalFails \/ SendEnd
    /\ \E f \in {FrameOf("start", <<>>, Planned), FrameOf("end", <<>>, sent), BatchFrame} : SendFails(f)
    /\ UNCHANGED <<batch, server>>

LEMMA StreamSplit ==
    ASSUME [Next]_vars
    PROVE  \/ Connect \/ SendStart \/ SendsBatch \/ SendsEnd \/ FailsToSend
           \/ ServerStep \/ ConnectionLost
           \/ UNCHANGED <<stream, server>>
<1>1. FlushBefore \/ FlushFull => SendsBatch
  BY DEF FlushBefore, FlushFull, SendsBatch
<1>2. FlushFinal => SendsBatch \/ UNCHANGED <<stream, server>>
  BY DEF FlushFinal, SendsBatch
<1>3. SendEnd => SendsEnd \/ FailsToSend
  BY DEF SendEnd, SendsEnd, FailsToSend, packing
<1>4. SendStartFails \/ FlushBeforeFails \/ FlushFullFails \/ FlushFinalFails => FailsToSend
  BY DEF SendStartFails, FlushBeforeFails, FlushFullFails, FlushFinalFails, FailsToSend, packing
<1>5. QueryRefs \/ ConnectFails \/ Finish \/ SkipRecord \/ LoadRecord \/ PushRecord \/ LoopEnds
      \/ RecvAck \/ RecvAckFails => UNCHANGED <<stream, server>>
  BY DEF QueryRefs, ConnectFails, Finish, SkipRecord, LoadRecord, PushRecord, LoopEnds, RecvAck,
         RecvAckFails
<1>6. (\E r \in RefIds : Archived(r)) \/ UNCHANGED vars => UNCHANGED <<stream, server>>
  BY DEF Archived, vars
<1> QED
  BY <1>1, <1>2, <1>3, <1>4, <1>5, <1>6 DEF Next, ClientStep

LEMMA StreamStep ==
    ASSUME TypeOK, [Next]_vars
    PROVE  StreamTypes'
<1>1. CASE Connect
  <2>1. wire' = <<>> /\ read' = 0
    BY <1>1 DEF Connect
  <2>2. wire' \in Seq(Frame) /\ Len(wire') = 0
    BY <2>1
  <2> QED
    <3>1. seq' \in Nat /\ conn' \in {"up", "reset"} /\ reply' \in {"none", "ok", "failed", "bad"}
      BY <1>1 DEF Connect
    <3>2. broken' \in BOOLEAN
      BY <1>1, Zenon DEF Connect
    <3>3. read' \in 0..Len(wire')
      BY <2>1, <2>2
    <3> QED
      BY <2>2, <3>1, <3>2, <3>3, Zenon DEF StreamTypes
<1>2. CASE SendStart \/ SendsEnd \/ SendsBatch
  <2>1. PICK f \in {FrameOf("start", <<>>, Planned), FrameOf("end", <<>>, sent), BatchFrame} :
           Sent(f) /\ UNCHANGED server
    BY <1>2 DEF SendStart, SendsEnd, SendEnd, SendsBatch
  <2> QED
    BY <2>1, FrameTypes, SentTypes
<1>3. CASE FailsToSend
  <2>1. PICK f \in {FrameOf("start", <<>>, Planned), FrameOf("end", <<>>, sent), BatchFrame} :
           SendFails(f) /\ UNCHANGED server
    BY <1>3 DEF FailsToSend, server
  <2> QED
    BY <2>1, FrameTypes, SendFailsTypes
<1>4. CASE ServerReads
  BY <1>4 DEF ServerReads, stream, TypeOK, StreamTypes
<1>5. CASE ServerAcks
  BY <1>5 DEF ServerAcks, stream, TypeOK, StreamTypes
<1>6. CASE ServerGivesUp \/ ConnectionLost
  BY <1>6 DEF ServerGivesUp, ConnectionLost, server, TypeOK, StreamTypes
<1>7. CASE UNCHANGED <<stream, server>>
  BY <1>7 DEF stream, server, TypeOK, StreamTypes
<1> QED
  BY <1>1, <1>2, <1>3, <1>4, <1>5, <1>6, <1>7, StreamSplit DEF ServerStep

\* Each step keeps the types.
LEMMA TypeStep ==
    ASSUME TypeOK, RunInv, [Next]_vars
    PROVE  TypeOK' /\ RunInv'
  BY JobStep, RunStep, PackStep, StreamStep DEF TypeOK

\* Every variable keeps its type, in every run and under every fault.
THEOREM TypeCorrect == Spec => []TypeOK
<1>1. Init => TypeOK /\ RunInv
  BY TypeInit
<1>2. TypeOK /\ RunInv /\ [Next]_vars => TypeOK' /\ RunInv'
  BY TypeStep
<1> QED
  BY <1>1, <1>2, PTL DEF Spec

-----------------------------------------------------------------------------
(* The steps, by what they do to the stream and to the batch.              *)

\* A step that leaves both alone: of main(), of the server or of the archiver.
Quiet ==
    /\ UNCHANGED <<job, packing, seq, wire, broken>>
    /\ \/ pc' = pc
       \/ pc = "connect" /\ pc' = "done"
       \/ pc = "next" /\ pc' = "final" /\ ~More
       \/ pc = "final" /\ pc' = "end" /\ batch = <<>>
       \/ pc = "ack" /\ pc' \in {"connect", "done"}

LEMMA StepSplit ==
    ASSUME [Next]_vars
    PROVE  \/ QueryRefs \/ Connect \/ SendStart \/ SendsBatch \/ SendsEnd \/ FailsToSend
           \/ SkipRecord \/ LoadRecord \/ PushRecord \/ Quiet
<1>1. FlushBefore \/ FlushFull => SendsBatch
  BY DEF FlushBefore, FlushFull, SendsBatch
<1>2. FlushFinal => SendsBatch \/ Quiet
  BY DEF FlushFinal, SendsBatch, Quiet, stream, packing
<1>3. SendEnd => SendsEnd \/ FailsToSend
  BY DEF SendEnd, SendsEnd, FailsToSend, packing
<1>4. SendStartFails \/ FlushBeforeFails \/ FlushFullFails \/ FlushFinalFails => FailsToSend
  BY DEF SendStartFails, FlushBeforeFails, FlushFullFails, FlushFinalFails, FailsToSend, packing
<1>5. ConnectFails \/ Finish \/ LoopEnds \/ RecvAck \/ RecvAckFails => Quiet
  BY DEF ConnectFails, Finish, LoopEnds, RecvAck, RecvAckFails, stream, Quiet
<1>6. ServerStep \/ ConnectionLost \/ (\E r \in RefIds : Archived(r)) \/ UNCHANGED vars => Quiet
  BY DEF ServerStep, ServerReads, ServerAcks, ServerGivesUp, ConnectionLost, Archived, vars,
         stream, Quiet
<1> QED
  BY <1>1, <1>2, <1>3, <1>4, <1>5, <1>6 DEF Next, ClientStep

\* What a step does to the records delivered and pending.
LEMMA PendingStep ==
    ASSUME TypeOK
    PROVE  /\ Connect => Delivered' = {} /\ Pending' = {} /\ Whole' = {} /\ EndsSent' = {}
           /\ SendStart \/ SendsEnd \/ FailsToSend \/ Quiet \/ QueryRefs \/ SkipRecord \/ LoadRecord =>
                 Delivered' = Delivered /\ Pending' = Pending
           /\ SendsBatch => Delivered' = Pending /\ Pending' = Pending /\ Elems(batch') = {}
           /\ PushRecord => Delivered' = Delivered /\ Pending' = Pending \cup {held}
           /\ Quiet \/ QueryRefs \/ SkipRecord \/ LoadRecord \/ PushRecord =>
                 wire' = wire /\ Whole' = Whole /\ EndsSent' = EndsSent
<1>0. Pending' = Delivered' \cup Elems(batch')
  BY DEF Pending, Elems
<1>1. ASSUME Connect PROVE Delivered' = {} /\ Pending' = {} /\ Whole' = {} /\ EndsSent' = {}
  <2>1. wire' = <<>> /\ batch' = <<>>
    BY <1>1 DEF Connect
  <2>2. Whole' = {}
    BY <2>1 DEF Whole
  <2>3. Delivered' = {} /\ EndsSent' = {}
    BY <2>2 DEF Delivered, EndsSent
  <2> QED
    BY <1>0, <2>1, <2>2, <2>3, ElemsEmpty
<1>2. ASSUME SendStart \/ SendsEnd PROVE Delivered' = Delivered /\ Pending' = Pending
  <2>1. PICK f \in {FrameOf("start", <<>>, Planned), FrameOf("end", <<>>, sent)} : Sent(f) /\ batch' = batch
    BY <1>2 DEF SendStart, SendsEnd, SendEnd, packing
  <2>2. f \in Frame /\ ~f.torn /\ f.recs = <<>>
    BY FrameTypes
  <2>3. Delivered' = Delivered \cup Elems(f.recs)
    BY <2>1, <2>2, SentFacts
  <2> QED
    BY <1>0, <2>1, <2>2, <2>3, ElemsEmpty DEF Pending
<1>3. ASSUME FailsToSend PROVE Delivered' = Delivered /\ Pending' = Pending
  <2>1. PICK f \in {FrameOf("start", <<>>, Planned), FrameOf("end", <<>>, sent), BatchFrame} :
           SendFails(f) /\ batch' = batch
    BY <1>3 DEF FailsToSend
  <2>2. Delivered' = Delivered
    BY <2>1, FrameTypes, SendFailsFacts
  <2> QED
    BY <1>0, <2>1, <2>2 DEF Pending
<1>4. ASSUME SendsBatch PROVE Delivered' = Pending /\ Pending' = Pending /\ Elems(batch') = {}
  <2>1. Sent(BatchFrame) /\ batch' = <<>>
    BY <1>4 DEF SendsBatch, ClearBatch
  <2>2. BatchFrame \in Frame /\ ~BatchFrame.torn /\ BatchFrame.recs = batch
    BY FrameTypes
  <2>3. Delivered' = Delivered \cup Elems(BatchFrame.recs)
    BY <2>1, <2>2, SentFacts
  <2> QED
    BY <1>0, <2>1, <2>2, <2>3, ElemsEmpty DEF Pending
<1>5. ASSUME Quiet \/ QueryRefs \/ SkipRecord \/ LoadRecord \/ PushRecord
      PROVE  wire' = wire /\ Whole' = Whole /\ EndsSent' = EndsSent /\ Delivered' = Delivered
  <2>1. wire' = wire
    BY <1>5 DEF Quiet, QueryRefs, SkipRecord, LoadRecord, PushRecord, stream
  <2> QED
    BY <2>1, SameWire
<1>6. ASSUME Quiet \/ QueryRefs \/ SkipRecord \/ LoadRecord PROVE Pending' = Pending
  <2>1. batch' = batch
    BY <1>6 DEF Quiet, QueryRefs, SkipRecord, LoadRecord, packing
  <2> QED
    BY <1>0, <1>5, <1>6, <2>1 DEF Pending
<1>7. ASSUME PushRecord PROVE Pending' = Pending \cup {held}
  <2>1. batch' = Append(batch, held) /\ batch \in Seq(RefIds) /\ held \in RefIds
    BY <1>7, Basics DEF PushRecord, TypeOK, PackTypes, JobTypes, RefIds
  <2>2. Elems(batch') = Elems(batch) \cup {held}
    BY <2>1, ElemsFacts
  <2> QED
    BY <1>0, <1>5, <1>7, <2>2 DEF Pending
<1> QED
  BY <1>1, <1>2, <1>3, <1>4, <1>5, <1>6, <1>7

-----------------------------------------------------------------------------
(* Each part of the invariant.                                             *)

LEMMA PackInvStep ==
    ASSUME TypeOK, PackInv, [Next]_vars
    PROVE  PackInv'
<1> USE DEF PackInv, FrameFits
<1>0. batchIov \in Nat /\ batchBytes \in Nat /\ PackTypes
  BY DEF TypeOK, PackTypes
<1>1. CASE QueryRefs
  BY <1>1 DEF QueryRefs, packing
<1>2. CASE Connect
  BY <1>2, Basics DEF Connect
<1>3. CASE SendsBatch
  <2>1. batch' = <<>> /\ batchBytes' = 0 /\ batchIov' = 0
    BY <1>3 DEF SendsBatch, ClearBatch
  <2>2. pc' = "push" => pc = "push" /\ held' = held /\ refs' = refs
    BY <1>3 DEF SendsBatch, FlushBefore, FlushFull, FlushFinal, job
  <2> QED
    BY <2>1, <2>2, Basics DEF Need
<1>4. CASE FailsToSend
  BY <1>4 DEF FailsToSend, SendStartFails, FlushBeforeFails, FlushFullFails, FlushFinalFails,
              SendEnd, packing
<1>5. CASE SendStart \/ SendsEnd
  BY <1>5 DEF SendStart, SendsEnd, SendEnd, packing
<1>6. CASE SkipRecord
  BY <1>6 DEF SkipRecord
<1>7. CASE LoadRecord
  <2>1. Need(held') <= TooLarge /\ refs' = refs
    BY <1>7 DEF LoadRecord, Readable, job
  <2> QED
    BY <1>7, <2>1 DEF LoadRecord, Need
<1>8. CASE PushRecord
  <2>1. held \in 1..Len(refs) /\ Need(held) <= TooLarge
    BY <1>0, <1>8 DEF PushRecord, PackTypes, TypeOK, JobTypes
  <2>2. Need(held) \in Nat /\ IovOf(held) \in 1..2
    BY <2>1, NeedType
  <2>3. batch' # <<>> /\ pc' # "push"
    BY <1>0, <1>8 DEF PushRecord, PackTypes
  <2>4. CASE batch = <<>>
    BY <1>8, <2>1, <2>2, <2>3, <2>4, Basics DEF PushRecord
  <2>5. CASE batch # <<>>
    <3>1. ~(batchBytes + Need(held) > target) /\ ~(1 + batchIov + IovOf(held) > MaxIov)
      BY <1>8, <2>5 DEF PushRecord, WouldExceed
    <3>2. target \in Nat /\ target <= MaxTarget
      BY <1>0, Basics DEF PackTypes
    <3> QED
      BY <1>0, <1>8, <2>2, <2>3, <3>1, <3>2, Basics, SMTT(30) DEF PushRecord
  <2> QED
    BY <2>4, <2>5
<1>9. CASE Quiet
  BY <1>9 DEF Quiet, packing, job, Need
<1> QED
  BY <1>1, <1>2, <1>3, <1>4, <1>5, <1>6, <1>7, <1>8, <1>9, StepSplit

\* The records of a whole frame are delivered.
LEMMA InOrder ==
    ASSUME TypeOK
    PROVE  \A i \in Whole : Elems(wire[i].recs) \subseteq Delivered
  BY DEF Delivered

LEMMA OrderStreamStep ==
    ASSUME TypeOK, OrderInv, [Next]_vars
    PROVE  StreamInOrder'
<1>0. StreamInOrder' <=>
         /\ \A i \in Whole' : Increasing(wire'[i].recs)
         /\ \A i, j \in Whole' : i < j =>
               \A a \in Elems(wire'[i].recs), b \in Elems(wire'[j].recs) : a < b
  BY DEF StreamInOrder, Increasing, Elems
<1>1. CASE Connect
  BY <1>0, <1>1, PendingStep
<1>2. CASE SendStart \/ SendsEnd \/ SendsBatch
  <2>1. PICK f \in {FrameOf("start", <<>>, Planned), FrameOf("end", <<>>, sent), BatchFrame} : Sent(f)
    BY <1>2 DEF SendStart, SendsEnd, SendEnd, SendsBatch
  <2> DEFINE n == Len(wire) + 1
  <2>2. f \in Frame /\ ~f.torn /\ f.recs \in {<<>>, batch}
    BY FrameTypes
  <2>3. /\ Whole' = Whole \cup {n} /\ wire'[n] = f
        /\ \A i \in Whole : wire'[i] = wire[i] /\ i < n
    <3>1. \A i \in 1..Len(wire) : i < n
      BY WholeFacts
    <3> QED
      BY <2>1, <2>2, <3>1, SentFacts, WholeFacts
  <2>4. Increasing(f.recs) /\ \A a \in Delivered, b \in Elems(f.recs) : a < b
    BY <2>2, ElemsEmpty DEF OrderInv
  <2>5. \A i \in Whole' : Increasing(wire'[i].recs)
    BY <2>3, <2>4 DEF OrderInv, StreamInOrder
  <2>6. ASSUME NEW i \in Whole', NEW j \in Whole', i < j,
               NEW a \in Elems(wire'[i].recs), NEW b \in Elems(wire'[j].recs)
        PROVE  a < b
    <3>1. i \in Whole
      <4>1. j < n \/ j = n
        BY <2>3, <2>6
      <4>2. i # n
        BY <2>3, <2>6, <4>1, WholeFacts
      <4> QED
        BY <2>3, <2>6, <4>2
    <3>2. a \in Elems(wire[i].recs) /\ a \in Delivered
      BY <2>3, <2>6, <3>1, InOrder
    <3>3. CASE j \in Whole
      BY <2>3, <2>6, <3>1, <3>2, <3>3 DEF OrderInv, StreamInOrder
    <3>4. CASE j = n
      BY <2>3, <2>4, <2>6, <3>2, <3>4
    <3> QED
      BY <2>3, <3>3, <3>4
  <2> QED
    BY <1>0, <2>5, <2>6
<1>3. CASE FailsToSend
  <2>1. PICK f \in {FrameOf("start", <<>>, Planned), FrameOf("end", <<>>, sent), BatchFrame} : SendFails(f)
    BY <1>3 DEF FailsToSend
  <2>2. Whole' = Whole /\ \A i \in Whole : wire'[i] = wire[i]
    BY <2>1, FrameTypes, SendFailsFacts, WholeFacts
  <2> QED
    BY <1>0, <2>2 DEF OrderInv, StreamInOrder
<1>4. CASE Quiet \/ QueryRefs \/ SkipRecord \/ LoadRecord \/ PushRecord
  <2>1. wire' = wire /\ Whole' = Whole
    BY <1>4, PendingStep
  <2> QED
    BY <1>0, <2>1 DEF OrderInv, StreamInOrder
<1> QED
  BY <1>1, <1>2, <1>3, <1>4, StepSplit

LEMMA OrderStep ==
    ASSUME TypeOK, OrderInv, [Next]_vars
    PROVE  OrderInv'
<1>0. StreamInOrder'
  BY OrderStreamStep
<1>a. /\ pos \in Nat /\ batch \in Seq(RefIds) /\ Len(batch) \in Nat
      /\ Pending \subseteq Nat /\ Delivered \subseteq Pending /\ Elems(batch) \subseteq Pending
  BY WholeFacts, Basics DEF TypeOK, PackTypes, JobTypes, Pending, RefIds
<1>b. OrderInv' <=>
        /\ StreamInOrder'
        /\ Increasing(batch')
        /\ \A a \in Delivered', b \in Elems(batch') : a < b
        /\ \A a \in Pending' : a < pos'
        /\ pc' = "push" => held' = pos' - 1 /\ \A a \in Pending' : a < held'
  BY DEF OrderInv, Increasing, Elems
<1>1. CASE Connect
  <2>1. batch' = <<>> /\ pc' # "push"
    BY <1>1 DEF Connect
  <2> QED
    BY <1>0, <1>b, <1>1, <2>1, PendingStep, ElemsEmpty
<1>2. CASE SendsBatch
  <2>1. batch' = <<>> /\ pos' = pos /\ (pc' = "push" => pc = "push" /\ held' = held)
    BY <1>2 DEF SendsBatch, ClearBatch, FlushBefore, FlushFull, FlushFinal
  <2>2. Elems(batch') = {} /\ Pending' = Pending
    BY <1>2, PendingStep
  <2> QED
    BY <1>0, <1>b, <2>1, <2>2, ElemsEmpty DEF OrderInv
<1>3. CASE SendStart \/ SendsEnd \/ FailsToSend \/ Quiet \/ QueryRefs
  <2>1. UNCHANGED <<batch, pos>> /\ (pc' = "push" => pc = "push" /\ held' = held)
    BY <1>3 DEF SendStart, SendsEnd, SendEnd, FailsToSend, SendStartFails, FlushBeforeFails,
       FlushFullFails, FlushFinalFails, Quiet, QueryRefs, packing
  <2>2. Pending' = Pending /\ Delivered' = Delivered
    BY <1>3, PendingStep
  <2> QED
    BY <1>0, <1>b, <2>1, <2>2 DEF OrderInv
<1>4. CASE SkipRecord
  <2>1. UNCHANGED batch /\ pos' = pos + 1 /\ pc' # "push"
    BY <1>4 DEF SkipRecord
  <2>2. Pending' = Pending /\ Delivered' = Delivered
    BY <1>4, PendingStep
  <2>3. \A a \in Pending' : a < pos'
    BY <1>a, <2>1, <2>2 DEF OrderInv
  <2> QED
    BY <1>0, <1>b, <2>1, <2>2, <2>3 DEF OrderInv
<1>5. CASE LoadRecord
  <2>1. UNCHANGED batch /\ pos' = pos + 1 /\ held' = pos
    BY <1>5 DEF LoadRecord
  <2>2. Pending' = Pending /\ Delivered' = Delivered
    BY <1>5, PendingStep
  <2>3. \A a \in Pending' : a < pos' /\ a < held'
    BY <1>a, <2>1, <2>2 DEF OrderInv
  <2>4. held' = pos' - 1
    BY <1>a, <2>1
  <2> QED
    BY <1>0, <1>b, <2>1, <2>2, <2>3, <2>4 DEF OrderInv
<1>6. CASE PushRecord
  <2>1. batch' = Append(batch, held) /\ pos' = pos /\ pc = "push" /\ pc' # "push"
    BY <1>6 DEF PushRecord
  <2>2. Pending' = Pending \cup {held} /\ Delivered' = Delivered
    BY <1>6, PendingStep
  <2>3. held = pos - 1 /\ \A a \in Pending : a < held
    BY <2>1 DEF OrderInv
  <2>4. held \in RefIds
    BY <1>6, Basics DEF PushRecord, TypeOK, PackTypes, JobTypes, RefIds
  <2>5. Elems(batch') = Elems(batch) \cup {held}
    BY <1>a, <2>1, <2>4, ElemsFacts
  <2>6. Increasing(batch')
    <3>1. \A i \in DOMAIN batch : batch[i] < held
      BY <1>a, <2>3 DEF Elems
    <3>2. \A i, j \in DOMAIN batch : i < j => batch[i] < batch[j]
      BY DEF OrderInv, Increasing
    <3>3. \A i, j \in DOMAIN batch' : i < j => batch'[i] < batch'[j]
      BY <1>a, <2>1, <2>4, <3>1, <3>2
    <3> QED
      BY <3>3 DEF Increasing
  <2>7. \A a \in Delivered', b \in Elems(batch') : a < b
    BY <1>a, <2>2, <2>3, <2>5 DEF OrderInv
  <2>8. \A a \in Pending' : a < pos'
    BY <1>a, <2>1, <2>2, <2>3 DEF OrderInv
  <2> QED
    BY <1>0, <1>b, <2>1, <2>6, <2>7, <2>8
<1> QED
  BY <1>1, <1>2, <1>3, <1>4, <1>5, <1>6, StepSplit

\* The records of this run are finitely many, and counted.
LEMMA CountStep ==
    ASSUME TypeOK, RunInv, OrderInv, CountInv, [Next]_vars
    PROVE  CountInv'
<1>a. sent \in Nat /\ limit \in Nat /\ Len(refs) \in Nat
  BY DEF TypeOK, PackTypes, JobTypes
<1>1. CASE Connect
  <2>1. Pending' = {} /\ sent' = 0 /\ limit' = limit /\ pc' # "push"
    BY <1>1, PendingStep DEF Connect, job
  <2>2. IsFiniteSet(Pending') /\ Cardinality(Pending') = 0
    BY <2>1, FS_EmptySet, Zenon
  <2> QED
    BY <1>a, <2>1, <2>2 DEF CountInv
<1>2. CASE QueryRefs
  <2>1. Pending' = Pending
    BY <1>2, PendingStep
  <2>2. sent' = sent /\ sent = 0 /\ pc' # "push" /\ limit' \in Nat
    BY <1>2, Basics DEF QueryRefs, packing, RunInv
  <2> QED
    BY <1>a, <2>1, <2>2 DEF CountInv
<1>3. CASE SendStart \/ SendsEnd \/ SendsBatch \/ FailsToSend \/ Quiet \/ SkipRecord
  <2>1. UNCHANGED <<limit, sent>> /\ (pc' = "push" => pc = "push")
    BY <1>3 DEF SendStart, SendsEnd, SendEnd, SendsBatch, FlushBefore, FlushFull, FlushFinal,
                FailsToSend,
       SendStartFails, FlushBeforeFails, FlushFullFails, FlushFinalFails, Quiet, SkipRecord, packing, job
  <2>2. Pending' = Pending
    BY <1>3, PendingStep
  <2> QED
    BY <2>1, <2>2 DEF CountInv
<1>4. CASE LoadRecord
  <2>1. UNCHANGED <<limit, sent>> /\ (limit > 0 => sent < limit)
    BY <1>4, <1>a DEF LoadRecord, More, job
  <2>2. Pending' = Pending
    BY <1>4, PendingStep
  <2> QED
    BY <2>1, <2>2 DEF CountInv
<1>5. CASE PushRecord
  <2>1. UNCHANGED limit /\ sent' = sent + 1 /\ pc = "push" /\ pc' # "push"
    BY <1>5 DEF PushRecord, job
  <2>2. Pending' = Pending \cup {held}
    BY <1>5, PendingStep
  <2>3. held \notin Pending
    <3>1. \A a \in Pending : a < held
      BY <2>1 DEF OrderInv
    <3>2. held \in Nat
      BY DEF TypeOK, PackTypes
    <3> QED
      BY <3>1, <3>2
  <2>4. IsFiniteSet(Pending') /\ Cardinality(Pending') = Cardinality(Pending) + 1
    BY <2>2, <2>3, FS_AddElement DEF CountInv
  <2> QED
    BY <1>a, <2>1, <2>4 DEF CountInv
<1> QED
  BY <1>1, <1>2, <1>3, <1>4, <1>5, StepSplit

\* The numbers of the whole frames.
LEMMA SeqStep ==
    ASSUME TypeOK, SeqInv, [Next]_vars
    PROVE  SeqInv'
<1>0. SeqInv' <=>
        /\ IsFiniteSet(Whole')
        /\ seq' = Cardinality(Whole')
        /\ \A i \in Whole' : wire'[i].seq = Cardinality({j \in Whole' : j < i})
  BY DEF SeqInv
<1>1. CASE Connect
  <2>1. Whole' = {} /\ seq' = 0
    BY <1>1, PendingStep DEF Connect
  <2>2. IsFiniteSet(Whole') /\ Cardinality(Whole') = 0
    BY <2>1, FS_EmptySet, Zenon
  <2> QED
    BY <1>0, <2>1, <2>2
<1>2. CASE SendStart \/ SendsEnd \/ SendsBatch
  <2>1. PICK f \in {FrameOf("start", <<>>, Planned), FrameOf("end", <<>>, sent), BatchFrame} : Sent(f)
    BY <1>2 DEF SendStart, SendsEnd, SendEnd, SendsBatch
  <2> DEFINE n == Len(wire) + 1
  <2>2. f \in Frame /\ ~f.torn /\ f.seq = seq
    BY FrameTypes
  <2>3. /\ Whole' = Whole \cup {n} /\ n \notin Whole /\ wire'[n] = f /\ seq' = seq + 1
        /\ \A i \in 1..Len(wire) : wire'[i] = wire[i]
    BY <2>1, <2>2, SentFacts
  <2>4. \A i \in Whole : wire'[i] = wire[i] /\ i < n /\ i \in Nat
    BY <2>3, WholeFacts
  <2>5. IsFiniteSet(Whole') /\ Cardinality(Whole') = Cardinality(Whole) + 1
    BY <2>3, FS_AddElement DEF SeqInv
  <2>6. ASSUME NEW i \in Whole' PROVE wire'[i].seq = Cardinality({j \in Whole' : j < i})
    <3>1. CASE i = n
      <4>1. {j \in Whole' : j < n} = Whole
        BY <2>3, <2>4, WholeFacts
      <4> QED
        BY <2>2, <2>3, <3>1, <4>1 DEF SeqInv
    <3>2. CASE i \in Whole
      <4>1. {j \in Whole' : j < i} = {j \in Whole : j < i}
        BY <2>3, <2>4, <3>2, WholeFacts
      <4> QED
        BY <2>4, <3>2, <4>1 DEF SeqInv
    <3> QED
      BY <2>3, <2>6, <3>1, <3>2
  <2> QED
    BY <1>0, <2>3, <2>5, <2>6 DEF SeqInv
<1>3. CASE FailsToSend
  <2>1. PICK f \in {FrameOf("start", <<>>, Planned), FrameOf("end", <<>>, sent), BatchFrame} : SendFails(f)
    BY <1>3 DEF FailsToSend
  <2>2. Whole' = Whole /\ seq' = seq /\ \A i \in Whole : wire'[i] = wire[i]
    BY <2>1, FrameTypes, SendFailsFacts, WholeFacts
  <2> QED
    BY <1>0, <2>2 DEF SeqInv
<1>4. CASE Quiet \/ QueryRefs \/ SkipRecord \/ LoadRecord \/ PushRecord
  <2>1. wire' = wire /\ Whole' = Whole /\ seq' = seq
    BY <1>4, PendingStep DEF Quiet, QueryRefs, SkipRecord, LoadRecord, PushRecord, stream
  <2> QED
    BY <1>0, <2>1 DEF SeqInv
<1> QED
  BY <1>1, <1>2, <1>3, <1>4, StepSplit

\* What is pending is within the limit and among the references.
LEMMA PendingPlanned ==
    ASSUME TypeOK, OrderInv, CountInv
    PROVE  sent <= Planned
<1>1. /\ pos \in Nat /\ pos <= Len(refs) + 1 /\ Len(refs) \in Nat /\ limit \in Nat /\ sent \in Nat
  BY DEF TypeOK, PackTypes, JobTypes
<1>2. Pending \subseteq 1..Len(refs)
  <2>1. \A a \in Pending : a \in Nat /\ a >= 1 /\ a < pos
    BY WholeFacts, Basics DEF OrderInv
  <2> QED
    BY <1>1, <2>1
<1>3. IsFiniteSet(1..Len(refs)) /\ Cardinality(1..Len(refs)) = Len(refs)
  <2>1. 1 \in Int /\ Len(refs) \in Int
    BY <1>1
  <2>2. IsFiniteSet(1..Len(refs)) /\ Cardinality(1..Len(refs)) = IF 1 > Len(refs) THEN 0 ELSE Len(refs) - 1 + 1
    BY <2>1, FS_Interval, Zenon
  <2> QED
    BY <1>1, <2>2
<1>4. sent <= Len(refs)
  BY <1>2, <1>3, FS_Subset DEF CountInv
<1> QED
  BY <1>1, <1>4 DEF CountInv, Planned

\* End closes the stream of a run.
LEMMA EndStep ==
    ASSUME TypeOK, OrderInv, CountInv, EndInv, [Next]_vars
    PROVE  EndInv'
<1>0. EndInv' <=>
        /\ \A i \in EndsSent' :
              wire'[i].count = Cardinality(Delivered') /\ wire'[i].count <= Planned' /\ i = Len(wire')
        /\ EndsSent' # {} => pc' \in {"ack", "connect", "done"}
        /\ pc' \in {"query", "start", "end", "ack"} => batch' = <<>>
  BY DEF EndInv
<1>1. CASE Connect
  BY <1>0, <1>1, PendingStep DEF Connect
<1>2. CASE SendStart \/ SendsBatch
  <2>1. EndsSent = {}
    BY <1>2 DEF EndInv, SendStart, SendsBatch, FlushBefore, FlushFull, FlushFinal
  <2>2. PICK f \in {FrameOf("start", <<>>, Planned), BatchFrame} : Sent(f)
    BY <1>2 DEF SendStart, SendsBatch
  <2>3. f \in Frame /\ ~f.torn /\ f.kind # "end"
    BY FrameTypes
  <2>4. EndsSent' = EndsSent
    BY <2>2, <2>3, SentFacts
  <2>5. pc' \in {"query", "start", "end", "ack"} => batch' = <<>>
    BY <1>2 DEF SendStart, SendsBatch, ClearBatch
  <2> QED
    BY <1>0, <2>1, <2>4, <2>5
<1>3. CASE SendsEnd
  <2> DEFINE f == FrameOf("end", <<>>, sent)
             n == Len(wire) + 1
  <2>1. EndsSent = {} /\ batch = <<>>
    BY <1>3 DEF EndInv, SendsEnd, SendEnd
  <2>2. f \in Frame /\ ~f.torn /\ f.kind = "end" /\ f.count = sent /\ Sent(f)
    BY <1>3, FrameTypes DEF SendsEnd
  <2>3. EndsSent' = {n} /\ wire'[n] = f /\ Len(wire') = n
    <3> HIDE DEF f
    <3> QED
      BY <2>1, <2>2, SentFacts
  <2>4. Delivered' = Pending
    BY <1>3, <2>1, PendingStep, ElemsEmpty DEF Pending
  <2>5. UNCHANGED <<refs, limit, batch>> /\ pc' = "ack"
    BY <1>3 DEF SendsEnd, SendEnd, packing, job
  <2>6. Planned' = Planned
    BY <2>5 DEF Planned
  <2>7. sent <= Planned /\ sent = Cardinality(Pending)
    BY PendingPlanned DEF CountInv
  <2> HIDE DEF f
  <2> QED
    BY <1>0, <2>1, <2>2, <2>3, <2>4, <2>5, <2>6, <2>7
<1>4. CASE FailsToSend
  <2>1. EndsSent = {} /\ (pc' \in {"query", "start", "end", "ack"} => batch = <<>>)
    BY <1>4 DEF EndInv, FailsToSend, SendStartFails, FlushBeforeFails, FlushFullFails,
                FlushFinalFails, SendEnd
  <2>2. PICK f \in {FrameOf("start", <<>>, Planned), FrameOf("end", <<>>, sent), BatchFrame} :
           SendFails(f) /\ batch' = batch
    BY <1>4 DEF FailsToSend
  <2>3. EndsSent' = EndsSent
    BY <2>2, FrameTypes, SendFailsFacts
  <2> QED
    BY <1>0, <2>1, <2>2, <2>3
<1>5. CASE QueryRefs \/ SkipRecord \/ LoadRecord \/ PushRecord
  <2>1. EndsSent = {} /\ pc' \notin {"query", "start", "end", "ack"}
    BY <1>5 DEF EndInv, QueryRefs, SkipRecord, LoadRecord, PushRecord
  <2> QED
    BY <1>0, <1>5, <2>1, PendingStep
<1>6. CASE Quiet
  <2>1. UNCHANGED <<refs, limit, batch, wire>> /\ Planned' = Planned
    BY <1>6 DEF Quiet, packing, job, Planned
  <2>2. EndsSent' = EndsSent /\ Delivered' = Delivered
    BY <1>6, PendingStep
  <2>3. pc' \in {"query", "start", "end", "ack"} => batch = <<>>
    BY <1>6 DEF Quiet, EndInv
  <2>4. EndsSent # {} => pc' \in {"ack", "connect", "done"}
    BY <1>6 DEF Quiet, EndInv
  <2> QED
    BY <1>0, <2>1, <2>2, <2>3, <2>4 DEF EndInv
<1> QED
  BY <1>1, <1>2, <1>3, <1>4, <1>5, <1>6, StepSplit

\* While no send failed, nothing behind the loop is forgotten.
LEMMA CompleteStep ==
    ASSUME TypeOK, OrderInv, EndInv, CompleteInv, [Next]_vars
    PROVE  CompleteInv'
<1> DEFINE Behind == Pending \cup skipped
<1>a. pos \in Nat /\ pos >= 1 /\ DOMAIN wire = 1..Len(wire)
  BY DEF TypeOK, PackTypes, JobTypes, StreamTypes
<1>b. Pending \cup skipped = Behind
  OBVIOUS
<1> SUFFICES ASSUME ~broken'
             PROVE  /\ Whole' = DOMAIN wire'
                    /\ pc' = "start" => wire' = <<>> /\ pos' = 1 /\ skipped' = {}
                    /\ pc' \in {"next", "full", "final", "end", "ack"} => Pending' \cup skipped' = 1..(pos' - 1)
                    /\ pc' = "push" => Pending' \cup skipped' = 1..(pos' - 2)
                    /\ pc' \in {"final", "end", "ack"} => ~More'
  BY DEF CompleteInv
<1>1. CASE Connect
  <2>1. wire' = <<>> /\ pos' = 1 /\ skipped' = {} /\ pc' = "start"
    BY <1>1 DEF Connect
  <2>2. Whole' = {} /\ DOMAIN wire' = {}
    BY <1>1, <2>1, PendingStep
  <2> QED
    BY <2>1, <2>2
<1>2. CASE SendStart \/ SendsEnd \/ SendsBatch
  <2>1. PICK f \in {FrameOf("start", <<>>, Planned), FrameOf("end", <<>>, sent), BatchFrame} : Sent(f)
    BY <1>2 DEF SendStart, SendsEnd, SendEnd, SendsBatch
  <2>2. f \in Frame /\ ~f.torn
    BY FrameTypes
  <2>3. Whole' = Whole \cup {Len(wire) + 1} /\ broken' = broken /\ Len(wire') = Len(wire) + 1
    BY <2>1, <2>2, SentFacts
  <2>4. Whole' = DOMAIN wire'
    <3>1. DOMAIN wire' = 1..(Len(wire) + 1)
      BY <2>1, <2>2, <2>3, SentFacts
    <3> QED
      BY <1>a, <2>3, <3>1, WholeFacts DEF CompleteInv
  <2>5. UNCHANGED <<pos, skipped, sent, refs, limit>> /\ More' = More
    BY <1>2 DEF SendStart, SendsEnd, SendEnd, SendsBatch, FlushBefore, FlushFull, FlushFinal,
                packing, job, More
  <2>6. Pending' = Pending
    BY <1>2, PendingStep
  <2>7. CASE SendStart
    <3>1. pc = "start" /\ pc' = "next"
      BY <2>7 DEF SendStart
    <3>2. batch = <<>> /\ wire = <<>> /\ pos = 1 /\ skipped = {}
      BY <2>3, <3>1 DEF EndInv, CompleteInv
    <3>3. Delivered = {}
      BY <3>2 DEF Delivered, Whole
    <3>4. Pending = {}
      BY <3>2, <3>3, ElemsEmpty DEF Pending
    <3> QED
      BY <2>4, <2>5, <2>6, <3>1, <3>2, <3>4
  <2>8. CASE SendsEnd \/ SendsBatch
    <3>1. \/ pc = "end" /\ pc' = "ack"
          \/ pc = "push" /\ pc' = "push"
          \/ pc = "full" /\ pc' = "next"
          \/ pc = "final" /\ pc' = "end"
      BY <2>8 DEF SendsEnd, SendEnd, SendsBatch, FlushBefore, FlushFull, FlushFinal
    <3> QED
      BY <2>3, <2>4, <2>5, <2>6, <3>1 DEF CompleteInv
  <2> QED
    BY <1>2, <2>7, <2>8
<1>3. CASE FailsToSend
  BY <1>3 DEF FailsToSend, SendFails
<1>4. CASE SkipRecord
  <2>1. /\ pc = "next" /\ pc' = "next" /\ pos' = pos + 1 /\ skipped' = skipped \cup {pos} /\ broken' = broken
    BY <1>4 DEF SkipRecord, stream
  <2>2. Pending' = Pending /\ Whole' = Whole /\ wire' = wire
    BY <1>4, PendingStep
  <2>3. Pending \cup skipped = 1..(pos - 1)
    BY <2>1 DEF CompleteInv
  <2>4. Pending' \cup skipped' = 1..(pos' - 1)
    BY <1>a, <2>1, <2>2, <2>3
  <2> QED
    BY <2>1, <2>2, <2>4 DEF CompleteInv
<1>5. CASE LoadRecord
  <2>1. pc = "next" /\ pc' = "push" /\ pos' = pos + 1 /\ skipped' = skipped /\ broken' = broken
    BY <1>5 DEF LoadRecord, stream
  <2>2. Pending' = Pending /\ Whole' = Whole /\ wire' = wire
    BY <1>5, PendingStep
  <2>3. Pending \cup skipped = 1..(pos - 1) /\ pos' - 2 = pos - 1
    BY <1>a, <2>1 DEF CompleteInv
  <2> QED
    BY <2>1, <2>2, <2>3 DEF CompleteInv
<1>6. CASE PushRecord
  <2>1. /\ pc = "push" /\ pc' \in {"full", "next"} /\ pos' = pos /\ skipped' = skipped /\ broken' = broken
    BY <1>6 DEF PushRecord, stream
  <2>2. Pending' = Pending \cup {held} /\ Whole' = Whole /\ wire' = wire
    BY <1>6, PendingStep
  <2>3. Pending \cup skipped = 1..(pos - 2) /\ held = pos - 1
    BY <2>1 DEF CompleteInv, OrderInv
  <2>4. held # 0
    BY <2>1 DEF TypeOK, PackTypes
  <2>5. Pending' \cup skipped' = 1..(pos' - 1)
    BY <1>a, <2>1, <2>2, <2>3, <2>4
  <2> QED
    BY <2>1, <2>2, <2>5 DEF CompleteInv
<1>7. CASE QueryRefs
  <2>1. pc' = "connect" /\ broken' = broken
    BY <1>7 DEF QueryRefs, stream
  <2>2. Whole' = Whole /\ wire' = wire
    BY <1>7, PendingStep
  <2> QED
    BY <2>1, <2>2 DEF CompleteInv
<1>8. CASE Quiet
  <2>1. UNCHANGED <<pos, skipped, broken>> /\ More' = More
    BY <1>8 DEF Quiet, packing, job, More
  <2>2. Pending' = Pending /\ Whole' = Whole /\ wire' = wire
    BY <1>8, PendingStep
  <2>3. CASE pc' = pc
    BY <2>1, <2>2, <2>3 DEF CompleteInv
  <2>4. CASE pc \in {"next", "final"} /\ pc' \in {"final", "end"}
    <3>1. ~More
      BY <1>8, <2>1, <2>4 DEF Quiet, CompleteInv
    <3> QED
      BY <2>1, <2>2, <2>4, <3>1 DEF CompleteInv
  <2>5. CASE pc' \in {"connect", "done"}
    BY <2>1, <2>2, <2>5 DEF CompleteInv
  <2> QED
    BY <1>8, <2>3, <2>4, <2>5 DEF Quiet
<1> QED
  BY <1>1, <1>2, <1>3, <1>4, <1>5, <1>6, <1>7, <1>8, StepSplit

\* The server took whole frames only.
LEMMA ServerInvStep ==
    ASSUME TypeOK, EndInv, ServerInv, [Next]_vars
    PROVE  ServerInv'
<1>0. ServerInv' <=>
        /\ \A i \in 1..read' : i \in Whole'
        /\ reply' # "none" => read' > 0 /\ wire'[read'].kind = "end"
  BY DEF ServerInv
<1>a. read \in Nat /\ read <= Len(wire) /\ Len(wire) \in Nat
  BY DEF TypeOK, StreamTypes
<1>1. CASE Connect
  BY <1>0, <1>1 DEF Connect
<1>2. CASE SendStart \/ SendsEnd \/ SendsBatch \/ FailsToSend
  <2>1. UNCHANGED <<read, reply>>
    BY <1>2 DEF SendStart, SendsEnd, SendEnd, SendsBatch, FailsToSend, server
  <2>2. Whole \subseteq Whole' /\ \A i \in 1..Len(wire) : wire'[i] = wire[i]
    <3>1. CASE FailsToSend
      <4>1. PICK f \in {FrameOf("start", <<>>, Planned), FrameOf("end", <<>>, sent), BatchFrame} : SendFails(f)
        BY <3>1 DEF FailsToSend
      <4> QED
        BY <4>1, FrameTypes, SendFailsFacts
    <3>2. CASE SendStart \/ SendsEnd \/ SendsBatch
      <4>1. PICK f \in {FrameOf("start", <<>>, Planned), FrameOf("end", <<>>, sent), BatchFrame} : Sent(f)
        BY <3>2 DEF SendStart, SendsEnd, SendEnd, SendsBatch
      <4>2. f \in Frame /\ ~f.torn
        BY FrameTypes
      <4> QED
        BY <4>1, <4>2, SentFacts
    <3> QED
      BY <1>2, <3>1, <3>2
  <2>3. reply # "none" => wire'[read] = wire[read]
    BY <1>a, <2>2 DEF ServerInv
  <2> QED
    BY <1>0, <2>1, <2>2, <2>3 DEF ServerInv
<1>3. CASE ServerReads
  <2>1. read' = read + 1 /\ ~wire[read + 1].torn /\ read < Len(wire) /\ reply = "none"
        /\ UNCHANGED <<wire, reply>>
    BY <1>3 DEF ServerReads, Connected, stream
  <2>2. read + 1 \in Whole
    BY <1>a, <2>1 DEF Whole, TypeOK, StreamTypes
  <2>3. Whole' = Whole
    BY <2>1, SameWire
  <2>4. \A i \in 1..(read + 1) : i \in 1..read \/ i = read + 1
    BY <1>a
  <2> QED
    BY <1>0, <2>1, <2>2, <2>3, <2>4 DEF ServerInv
<1>4. CASE ServerAcks
  <2>1. UNCHANGED <<read, wire>> /\ read > 0 /\ wire[read].kind = "end"
    BY <1>4 DEF ServerAcks, stream
  <2>2. Whole' = Whole
    BY <2>1, SameWire
  <2> QED
    BY <1>0, <2>1, <2>2 DEF ServerInv
<1>5. CASE ServerGivesUp \/ ConnectionLost \/ UNCHANGED <<stream, server>>
  <2>1. UNCHANGED <<read, reply, wire>>
    BY <1>5 DEF ServerGivesUp, ConnectionLost, stream, server
  <2>2. Whole' = Whole
    BY <2>1, SameWire
  <2> QED
    BY <1>0, <2>1, <2>2 DEF ServerInv
<1> QED
  BY <1>1, <1>2, <1>3, <1>4, <1>5, StreamSplit DEF ServerStep

-----------------------------------------------------------------------------
(* The theorems.                                                           *)

LEMMA InvInit == Init => IInv
<1> SUFFICES ASSUME Init PROVE IInv
  OBVIOUS
<1>1. TypeOK /\ RunInv
  BY TypeInit
<1>2. /\ wire = <<>> /\ batch = <<>> /\ read = 0 /\ reply = "none" /\ seq = 0 /\ sent = 0 /\ limit = 0
      /\ pc = "query" /\ batchBytes = 0 /\ batchIov = 0
  BY DEF Init
<1>3. Whole = {} /\ DOMAIN wire = {}
  BY <1>2 DEF Whole
<1>4. Delivered = {} /\ EndsSent = {}
  BY <1>3 DEF Delivered, EndsSent
<1>5. Pending = {}
  BY <1>2, <1>4, ElemsEmpty DEF Pending
<1>6. PackInv
  BY <1>2, Basics DEF PackInv, FrameFits
<1>7. OrderInv
  BY <1>2, <1>3, <1>4, <1>5, ElemsEmpty DEF OrderInv, StreamInOrder
<1>8. CountInv
  <2>1. IsFiniteSet(Pending) /\ Cardinality(Pending) = 0
    BY <1>5, FS_EmptySet, Zenon
  <2> QED
    BY <1>2, <2>1 DEF CountInv
<1>9. EndInv
  BY <1>2, <1>4 DEF EndInv
<1>10. SeqInv
  <2>1. IsFiniteSet(Whole) /\ Cardinality(Whole) = 0
    BY <1>3, FS_EmptySet, Zenon
  <2> QED
    BY <1>2, <1>3, <2>1 DEF SeqInv
<1>11. CompleteInv
  BY <1>2, <1>3 DEF CompleteInv
<1>12. ServerInv
  BY <1>2 DEF ServerInv
<1> QED
  BY <1>1, <1>6, <1>7, <1>8, <1>9, <1>10, <1>11, <1>12 DEF IInv

LEMMA InvStep ==
    ASSUME IInv, [Next]_vars
    PROVE  IInv'
  BY TypeStep, PackInvStep, OrderStep, CountStep, EndStep, SeqStep, CompleteStep,
     ServerInvStep DEF IInv

LEMMA Invariance == Spec => []IInv
<1>1. Init => IInv
  BY InvInit
<1>2. IInv /\ [Next]_vars => IInv'
  BY InvStep
<1> QED
  BY <1>1, <1>2, PTL DEF Spec

\* Each record is sent at most once in a run and in the order of the query,
\* whatever sends fail and are repeated, for every number of references, every
\* size and every target.
THEOREM StreamInOrderHolds == Spec => []StreamInOrder
<1>1. IInv => StreamInOrder
  BY DEF IInv, OrderInv
<1> QED
  BY <1>1, Invariance, PTL

\* What End and the sequence numbers say of the stream is true.
THEOREM EndTellsTheStreamHolds == Spec => []EndTellsTheStream
<1>1. IInv => EndTellsTheStream
  BY DEF IInv, EndInv, SeqInv, EndTellsTheStream
<1> QED
  BY <1>1, Invariance, PTL

\* The vectors of one sendmsg suffice and body_len does not overflow.
THEOREM FrameFitsHolds == Spec => []FrameFits
<1>1. IInv => FrameFits
  BY DEF IInv, PackInv
<1> QED
  BY <1>1, Invariance, PTL

\* A run that is reported ok sent a whole stream, complete unless a send failed.
THEOREM CountedRunIsCompleteHolds == Spec => CountedRunIsComplete
<1> DEFINE Complete ==
             okRuns' # okRuns =>
                /\ EndsSent # {} /\ Whole = DOMAIN wire
                /\ broken \/ /\ Delivered \cup skipped = 1..(pos - 1)
                             /\ pos > Len(refs) \/ sent = limit
<1>1. ASSUME IInv, [Next]_vars PROVE Complete
  <2> SUFFICES ASSUME okRuns' # okRuns
               PROVE  /\ EndsSent # {} /\ Whole = DOMAIN wire
                      /\ broken \/ /\ Delivered \cup skipped = 1..(pos - 1)
                                   /\ pos > Len(refs) \/ sent = limit
    OBVIOUS
  <2>1. pc = "ack" /\ reply # "none"
    <3>1. CASE RecvAck
      BY <3>1 DEF RecvAck, CountReply
    <3>2. ClientStep => RecvAck \/ okRuns' = okRuns
      BY DEF ClientStep, QueryRefs, Connect, ConnectFails, Finish, SendStart, SendStartFails,
             SkipRecord,
         LoadRecord, FlushBefore, FlushBeforeFails, PushRecord, FlushFull, FlushFullFails, LoopEnds,
         FlushFinal, FlushFinalFails, SendEnd, RecvAckFails, totals
    <3>3. ServerStep \/ ConnectionLost \/ (\E r \in RefIds : Archived(r)) \/ UNCHANGED vars => okRuns' = okRuns
      BY DEF ServerStep, ServerReads, ServerAcks, ServerGivesUp, ConnectionLost, Archived, vars,
             totals
    <3> QED
      BY <1>1, <3>1, <3>2, <3>3 DEF Next
  <2>2. read \in Nat /\ Len(wire) \in Nat /\ DOMAIN wire = 1..Len(wire)
    BY <1>1 DEF IInv, TypeOK, StreamTypes
  <2>3. read \in EndsSent /\ \A i \in 1..read : i \in Whole
    <3>1. read > 0 /\ wire[read].kind = "end" /\ \A i \in 1..read : i \in Whole
      BY <1>1, <2>1 DEF IInv, ServerInv
    <3> QED
      BY <2>2, <3>1 DEF EndsSent
  <2>4. read = Len(wire)
    BY <1>1, <2>3 DEF IInv, EndInv
  <2>5. Whole = DOMAIN wire
    BY <1>1, <2>2, <2>3, <2>4, WholeFacts DEF IInv
  <2>6. CASE ~broken
    <3>1. Pending = Delivered
      BY <1>1, <2>1, ElemsEmpty DEF IInv, EndInv, Pending
    <3>2. Pending \cup skipped = 1..(pos - 1) /\ ~More
      BY <1>1, <2>1, <2>6 DEF IInv, CompleteInv
    <3>3. pos \in Nat /\ Len(refs) \in Nat /\ sent \in Nat /\ limit \in Nat
      BY <1>1 DEF IInv, TypeOK, PackTypes, JobTypes
    <3>4. pos > Len(refs) \/ sent = limit
      BY <1>1, <3>2, <3>3 DEF IInv, CountInv, More
    <3> QED
      BY <2>3, <2>5, <3>1, <3>2, <3>4
  <2> QED
    BY <2>3, <2>5, <2>6
<1>2. Spec => [][Complete]_vars
  BY <1>1, Invariance, PTL DEF Spec
<1> QED
  BY <1>2 DEF CountedRunIsComplete

=============================================================================
