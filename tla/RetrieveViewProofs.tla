-------------------------- MODULE RetrieveViewProofs --------------------------
(* Theorems about RetrieveView, for every result and any number of keys.    *)
EXTENDS RetrieveView, FiniteSetTheorems, SequenceTheorems, TLAPS

-----------------------------------------------------------------------------
(* The inductive invariant.                                                *)

\* Which viewer is where, and what it has before it begins.
ModeInv ==
    /\ pc \in {"load", "draw"} => mode = "gps"
    /\ pc = "show" => mode # "gps"
    /\ pc = "query" => n = 0 /\ idx = 1 /\ shown = 0
    /\ pc \in {"query", "load"} => pixels = <<>> /\ hover = NoHover /\ drawn = NoHover /\ pointer = NoHover

\* The cursor is in the result while there is something to view.
CursorInv == pc \notin {"query", "done"} => idx <= n

\* A noted key was not acted on.
KeyInv ==
    /\ OneMovePerKey
    /\ step # 0 => moves < keys

\* A hover leads from its point to the record of the point.
Names(h) ==
    h # NoHover =>
        h.record \in valid /\ h.pixel \in 1..Len(pixels) /\ pixels[h.pixel] = h.record

HoverInv ==
    /\ Len(pixels) <= n
    /\ \A i \in 1..Len(pixels) : pixels[i] \in valid
    /\ Names(hover) /\ Names(drawn)

IInv == ViewTypeOK /\ ModeInv /\ CursorInv /\ KeyInv /\ HoverInv /\ ScreenFollowsCursor

-----------------------------------------------------------------------------
(* Helpers.                                                                *)

\* The initial state.
LEMMA InvInit == Init => IInv
<1> SUFFICES ASSUME Init PROVE IInv
  OBVIOUS
<1>1. <<>> \in Seq(1..n) /\ Len(<<>>) = 0
  OBVIOUS
<1>2. NoHover \in Hover
  BY ViewAssumption DEF NoHover, Hover
<1>3. ViewTypeOK
  <2>1. n = 0 /\ 0 \in 0..MaxRefs /\ 0 \in 0..0 /\ 1 \in 1..(0 + 1) /\ {} \subseteq 1..0 /\ 0 \in 0..MaxKeys
    BY ViewAssumption DEF Init
  <2>2. pixels \in Seq(1..n)
    BY <1>1 DEF Init
  <2> QED
    BY <1>2, <2>1, <2>2 DEF Init, ViewTypeOK, PCs
<1>4. ModeInv /\ CursorInv /\ KeyInv /\ HoverInv /\ ScreenFollowsCursor
  BY <1>1 DEF Init, ModeInv, CursorInv, KeyInv, OneMovePerKey, HoverInv, Names, ScreenFollowsCursor
<1> QED
  BY <1>3, <1>4 DEF IInv

\* The number of valid records, and the trajectory made of them.
LEMMA Trajectory ==
    ASSUME ViewTypeOK, NEW s \in [1..Cardinality(valid) -> valid]
    PROVE  s \in Seq(1..n) /\ Len(s) <= n /\ \A i \in 1..Len(s) : s[i] \in valid
<1>1. n \in Nat /\ valid \subseteq 1..n
  BY DEF ViewTypeOK
<1>2. 1 \in Int /\ n \in Int
  BY <1>1
<1>3. IsFiniteSet(1..n) /\ Cardinality(1..n) = n
  <2>1. IsFiniteSet(1..n) /\ Cardinality(1..n) = IF 1 > n THEN 0 ELSE n - 1 + 1
    BY <1>2, FS_Interval, Zenon
  <2> QED
    BY <1>1, <2>1
<1>4. Cardinality(valid) \in Nat /\ Cardinality(valid) <= n
  <2>1. IsFiniteSet(valid) /\ Cardinality(valid) <= Cardinality(1..n)
    BY <1>1, <1>3, FS_Subset, Zenon
  <2> QED
    BY <1>3, <2>1, FS_CardinalityType
<1>5. s \in [1..Cardinality(valid) -> 1..n]
  BY <1>1
<1>6. s \in Seq(1..n) /\ Len(s) = Cardinality(valid)
  <2> DEFINE k == Cardinality(valid)
  <2>1. k \in Nat /\ s \in [1..k -> 1..n]
    BY <1>4, <1>5
  <2> HIDE DEF k
  <2>2. s \in Seq(1..n)
    BY <2>1, SeqDef, Zenon
  <2>3. Len(s) = k
    <3>1. DOMAIN s = 1..k /\ DOMAIN s = 1..Len(s) /\ Len(s) \in Nat
      BY <2>1, <2>2, LenProperties
    <3> QED
      BY <2>1, <3>1
  <2> QED
    BY <2>2, <2>3 DEF k
<1> QED
  BY <1>4, <1>6

\* A step that stays in the result.
LEMMA MovedFacts ==
    ASSUME ViewTypeOK, CursorInv, pc = "wait", NEW s \in {-1, 0, 1}
    PROVE  Moved(s) \in 1..n /\ Moved(s) \in RefIds
<1>1. n \in 0..MaxRefs /\ idx \in RefIds \cup {1} /\ idx <= n /\ MaxRefs \in Nat
  BY ViewAssumption DEF ViewTypeOK, CursorInv
<1>2. idx \in 1..n
  BY <1>1 DEF RefIds
<1> QED
  BY <1>1, <1>2 DEF Moved, RefIds

\* Where the pointer may rest.
LEMMA HoverFacts ==
    ASSUME ViewTypeOK, HoverInv, NEW p \in 1..Len(pixels)
    PROVE  HoverAt(p) \in Hover /\ Names(HoverAt(p))
<1>1. n \in 0..MaxRefs /\ pixels \in Seq(1..n) /\ Len(pixels) <= n /\ MaxRefs \in Nat
  BY ViewAssumption DEF ViewTypeOK, HoverInv
<1>2. pixels[p] \in 1..n /\ pixels[p] \in valid
  BY <1>1 DEF HoverInv
<1>3. Len(pixels) \in Nat
  BY <1>1
<1>4. p \in 0..MaxRefs /\ pixels[p] \in 0..MaxRefs
  BY <1>1, <1>2, <1>3
<1> QED
  BY <1>2, <1>4 DEF HoverAt, Hover, Names

-----------------------------------------------------------------------------
(* Every step keeps the invariant.                                         *)

\* The query.
LEMMA QueryStep ==
    ASSUME IInv, QueryRefs
    PROVE  IInv'
<1>1. /\ n' \in 0..MaxRefs /\ n' \in Nat /\ bad' \subseteq 1..n' /\ pc = "query" /\ n = 0 /\ idx = 1 /\ shown = 0
      /\ UNCHANGED <<mode, gone, frames, gps, history>>
  BY ViewAssumption DEF QueryRefs, IInv, ModeInv
<1>2. /\ n' = 0 => pc' = "done"
      /\ n' # 0 /\ mode = "gps" => pc' = "load"
      /\ n' # 0 /\ mode # "gps" => pc' = "show"
  BY DEF QueryRefs
<1>3. pixels = <<>> /\ <<>> \in Seq(1..n') /\ gone = {} /\ valid = {} /\ next = 1
  BY <1>1 DEF IInv, ModeInv, ViewTypeOK
<1>4. pc' \in PCs
  BY <1>2 DEF PCs
<1>5. ViewTypeOK'
  <2>1. 0 \in 0..n' /\ 1 \in 1..(n' + 1)
    <3>1. n' \in Nat
      BY <1>1
    <3>2. \A k \in Nat : 0 \in 0..k /\ 1 \in 1..(k + 1)
      OBVIOUS
    <3> QED
      BY <3>1, <3>2, Zenon
  <2>2. pixels' = pixels
    BY <1>1 DEF gps
  <2>3. pixels' \in Seq(1..n')
    BY <1>3, <2>2, Zenon
  <2>4. pc' \in {"show", "wait"} => 1 <= n'
    BY <1>1, <1>2
  <2> QED
    BY <1>1, <1>3, <1>4, <2>1, <2>3, <2>4 DEF IInv, ViewTypeOK, frames, gps, history
<1>6. ModeInv' /\ CursorInv' /\ KeyInv' /\ HoverInv' /\ ScreenFollowsCursor'
  BY <1>1, <1>2, <1>3 DEF IInv, ModeInv, CursorInv, KeyInv, OneMovePerKey, HoverInv, Names,
                          ScreenFollowsCursor,
     frames, gps, history
<1> QED
  BY <1>5, <1>6 DEF IInv

\* Images and LiDAR frames.
LEMMA FrameStep ==
    ASSUME IInv,
           \/ Show
           \/ \E s \in {-1, 0, 1} : ImageKey(s)
           \/ \E s \in {-1, 1} : LidarKey(s)
           \/ ImageQuit \/ LidarQuitKey \/ LidarTurn \/ LidarEnds \/ LidarWindowClosed
    PROVE  IInv'
<1>1. UNCHANGED <<query, gone, gps, pointer>> /\ n \in Nat /\ idx \in Nat /\ moves \in Nat /\ keys \in Nat
  BY ViewAssumption DEF Show, ImageKey, LidarKey, ImageQuit, LidarQuitKey, LidarTurn, LidarEnds,
                        LidarWindowClosed,
     history, IInv, ViewTypeOK, RefIds
<1>2. HoverInv'
  BY <1>1 DEF IInv, HoverInv, Names, query, gps
<1>3. CASE Show
  <2>1. /\ pc = "show" /\ pc' = "wait" /\ UNCHANGED <<idx, step, quit, keys, moves>>
        /\ shown' = IF Loads(idx) THEN idx ELSE shown
    BY <1>3 DEF Show, history
  <2>2. idx \in 0..n
    BY <1>1, <2>1 DEF IInv, CursorInv
  <2>3. ViewTypeOK'
    BY <1>1, <2>1, <2>2 DEF IInv, ViewTypeOK, CursorInv, PCs, query, gps
  <2>4. ModeInv' /\ CursorInv' /\ KeyInv' /\ ScreenFollowsCursor'
    BY <1>1, <2>1 DEF IInv, ModeInv, CursorInv, KeyInv, OneMovePerKey, ScreenFollowsCursor,
                      Loads, query, gps
  <2> QED
    BY <1>2, <2>3, <2>4 DEF IInv
<1>4. ASSUME NEW s \in {-1, 0, 1}, ImageKey(s) PROVE IInv'
  <2>1. /\ pc = "wait" /\ mode = "image" /\ pc' = "show" /\ UNCHANGED <<shown, step, quit>>
        /\ keys < MaxKeys /\ keys' = keys + 1 /\ idx' = Moved(s) /\ moves' \in {moves, moves + 1}
    BY <1>4 DEF ImageKey
  <2>2. idx' \in 1..n /\ idx' \in RefIds
    BY <2>1, MovedFacts DEF IInv
  <2>3. keys' \in 0..MaxKeys /\ moves' \in Nat
    BY <1>1, <2>1, ViewAssumption
  <2>4. ViewTypeOK'
    BY <1>1, <2>1, <2>2, <2>3 DEF IInv, ViewTypeOK, PCs, query, gps
  <2>5. ModeInv' /\ CursorInv' /\ KeyInv' /\ ScreenFollowsCursor'
    BY <1>1, <2>1, <2>2 DEF IInv, ModeInv, CursorInv, KeyInv, OneMovePerKey, ScreenFollowsCursor,
                            query, gps
  <2> QED
    BY <1>2, <2>4, <2>5 DEF IInv
<1>5. ASSUME NEW s \in {-1, 1}, LidarKey(s) PROVE IInv'
  <2>1. /\ UNCHANGED <<pc, idx, shown, quit, moves>>
        /\ keys < MaxKeys /\ keys' = keys + 1 /\ step' = s
    BY <1>5 DEF LidarKey
  <2>2. keys' \in 0..MaxKeys
    BY <1>1, <2>1, ViewAssumption
  <2>3. ViewTypeOK'
    BY <1>1, <2>1, <2>2 DEF IInv, ViewTypeOK, query, gps
  <2>4. ModeInv' /\ CursorInv' /\ KeyInv' /\ ScreenFollowsCursor'
    BY <1>1, <2>1 DEF IInv, ModeInv, CursorInv, KeyInv, OneMovePerKey, ScreenFollowsCursor,
                      Loads, query, gps
  <2> QED
    BY <1>2, <2>3, <2>4 DEF IInv
<1>6. CASE LidarTurn
  <2>1. /\ pc = "wait" /\ mode = "lidar" /\ step # 0 /\ step' = 0 /\ UNCHANGED <<shown, quit, keys>>
        /\ idx' = Moved(step) /\ moves' \in {moves, moves + 1}
        /\ pc' = IF idx' # idx THEN "show" ELSE "wait"
    BY <1>6 DEF LidarTurn
  <2>2. idx' \in 1..n /\ idx' \in RefIds
    BY <2>1, MovedFacts DEF IInv, ViewTypeOK
  <2>3. ViewTypeOK'
    BY <1>1, <2>1, <2>2 DEF IInv, ViewTypeOK, PCs, query, gps
  <2>4. ModeInv' /\ CursorInv' /\ KeyInv' /\ ScreenFollowsCursor'
    BY <1>1, <2>1, <2>2 DEF IInv, ModeInv, CursorInv, KeyInv, OneMovePerKey, ScreenFollowsCursor,
                            Loads, query, gps
  <2> QED
    BY <1>2, <2>3, <2>4 DEF IInv
<1>7. CASE ImageQuit \/ LidarQuitKey \/ LidarEnds \/ LidarWindowClosed
  <2>1. pc' \in {pc, "done"} /\ quit' \in BOOLEAN /\ UNCHANGED <<idx, shown, step, keys, moves>>
    BY <1>7 DEF ImageQuit, LidarQuitKey, LidarEnds, LidarWindowClosed, frames, history, IInv,
                ViewTypeOK
  <2>2. ViewTypeOK'
    BY <1>1, <2>1 DEF IInv, ViewTypeOK, PCs, query, gps
  <2>3. ModeInv' /\ CursorInv' /\ KeyInv' /\ ScreenFollowsCursor'
    BY <1>1, <2>1 DEF IInv, ModeInv, CursorInv, KeyInv, OneMovePerKey, ScreenFollowsCursor,
                      Loads, query, gps
  <2> QED
    BY <1>2, <2>2, <2>3 DEF IInv
<1> QED
  BY <1>3, <1>4, <1>5, <1>6, <1>7

\* GPS.
LEMMA GpsStep ==
    ASSUME IInv,
           \/ LoadGpsRecord \/ BuildGpsTrajectory \/ Draw \/ WaitEnds \/ GpsQuit
           \/ \E p \in 1..Len(pixels) : MouseMove(HoverAt(p))
           \/ MouseMove(NoHover)
    PROVE  IInv'
<1>1. UNCHANGED <<query, gone, frames, keys, moves>> /\ n \in Nat /\ mode = "gps"
  BY DEF LoadGpsRecord, BuildGpsTrajectory, Draw, WaitEnds, GpsQuit, MouseMove, history, IInv,
         ModeInv, ViewTypeOK
<1>2. KeyInv' /\ ScreenFollowsCursor'
  BY <1>1 DEF IInv, KeyInv, OneMovePerKey, ScreenFollowsCursor, query, frames
<1>3. CASE LoadGpsRecord
  <2>1. /\ pc = "load" /\ next <= n /\ next' = next + 1 /\ valid' \in {valid, valid \cup {next}}
        /\ UNCHANGED <<pc, pixels, hover, changed, drawn, pointer>>
    BY <1>3 DEF LoadGpsRecord, history
  <2>2. next \in 1..n
    BY <1>1, <2>1 DEF IInv, ViewTypeOK
  <2>3. valid' \subseteq 1..n /\ next' \in 1..(n + 1)
    BY <1>1, <2>1, <2>2 DEF IInv, ViewTypeOK
  <2>4. ViewTypeOK'
    BY <1>1, <2>1, <2>3 DEF IInv, ViewTypeOK, query, frames
  <2>5. ModeInv' /\ CursorInv' /\ HoverInv'
    BY <1>1, <2>1 DEF IInv, ModeInv, CursorInv, HoverInv, Names, query, frames
  <2> QED
    BY <1>2, <2>4, <2>5 DEF IInv
<1>4. CASE BuildGpsTrajectory
  <2>1. /\ pc = "load" /\ pc' = "draw" /\ pixels' \in [1..Cardinality(valid) -> valid]
        /\ UNCHANGED <<next, valid, hover, changed, drawn, pointer>>
    BY <1>4 DEF BuildGpsTrajectory, history
  <2>2. pixels' \in Seq(1..n) /\ Len(pixels') <= n /\ \A i \in 1..Len(pixels') : pixels'[i] \in valid
    BY <2>1, Trajectory DEF IInv
  <2>3. ViewTypeOK'
    BY <1>1, <2>1, <2>2 DEF IInv, ViewTypeOK, PCs, query, frames
  <2>4. hover = NoHover /\ drawn = NoHover
    BY <2>1 DEF IInv, ModeInv
  <2>5. ModeInv' /\ CursorInv' /\ HoverInv'
    BY <1>1, <2>1, <2>2, <2>4 DEF IInv, ModeInv, CursorInv, HoverInv, Names, query, frames
  <2> QED
    BY <1>2, <2>3, <2>5 DEF IInv
<1>5. CASE Draw \/ WaitEnds \/ GpsQuit
  <2>1. /\ pc \in {"draw", "wait"} /\ pc' \in {"wait", "draw", "done"} /\ drawn' \in {drawn, hover} /\ changed' \in BOOLEAN
        /\ UNCHANGED <<next, valid, pixels, hover, pointer>>
    BY <1>5 DEF Draw, WaitEnds, GpsQuit, gps, history, IInv, ViewTypeOK
  <2>2. ViewTypeOK'
    BY <1>1, <2>1 DEF IInv, ViewTypeOK, CursorInv, PCs, query, frames
  <2>3. ModeInv' /\ CursorInv' /\ HoverInv'
    BY <1>1, <2>1 DEF IInv, ModeInv, CursorInv, HoverInv, Names, query, frames
  <2> QED
    BY <1>2, <2>2, <2>3 DEF IInv
<1>6. ASSUME NEW h \in Hover, Names(h), MouseMove(h) PROVE IInv'
  <2>1. /\ pc = "wait" /\ pointer' = h /\ hover' \in {hover, h} /\ changed' \in BOOLEAN
        /\ UNCHANGED <<pc, next, valid, pixels, drawn>>
    BY <1>6 DEF MouseMove, IInv, ViewTypeOK
  <2>2. ViewTypeOK'
    BY <1>1, <1>6, <2>1 DEF IInv, ViewTypeOK, query, frames
  <2>3. ModeInv' /\ CursorInv' /\ HoverInv'
    BY <1>1, <1>6, <2>1 DEF IInv, ModeInv, CursorInv, HoverInv, Names, query, frames
  <2> QED
    BY <1>2, <2>2, <2>3 DEF IInv
<1>7. NoHover \in Hover /\ Names(NoHover)
  BY ViewAssumption DEF NoHover, Hover, Names
<1> QED
  BY <1>3, <1>4, <1>5, <1>6, <1>7, HoverFacts DEF IInv

\* A file goes: the screen may then show a record that no longer loads.
LEMMA ArchivedStep ==
    ASSUME IInv, NEW r \in RefIds, Archived(r)
    PROVE  IInv'
<1>1. gone' \subseteq 1..n /\ gone \subseteq gone' /\ UNCHANGED <<query, pc, frames, gps, history>>
  BY DEF Archived, IInv, ViewTypeOK
<1>2. ViewTypeOK'
  BY <1>1 DEF IInv, ViewTypeOK, query, frames, gps, history
<1>3. ModeInv' /\ CursorInv' /\ KeyInv' /\ HoverInv'
  BY <1>1 DEF IInv, ModeInv, CursorInv, KeyInv, OneMovePerKey, HoverInv, Names, query, frames,
              gps, history
<1>4. ScreenFollowsCursor'
  BY <1>1 DEF IInv, ScreenFollowsCursor, Loads, query, frames
<1> QED
  BY <1>2, <1>3, <1>4 DEF IInv

LEMMA Invariance == Spec => []IInv
<1>1. Init => IInv
  BY InvInit
<1>2. ASSUME IInv, [Next]_vars PROVE IInv'
  <2>1. CASE UNCHANGED vars
    BY <1>2, <2>1 DEF IInv, ViewTypeOK, ModeInv, CursorInv, KeyInv, OneMovePerKey, HoverInv, Names,
       ScreenFollowsCursor, Loads, vars, query, frames, gps, history
  <2>2. CASE Next
    BY <1>2, <2>2, QueryStep, FrameStep, GpsStep, ArchivedStep DEF Next, ViewStep, UserStep
  <2> QED
    BY <1>2, <2>1, <2>2
<1> QED
  BY <1>1, <1>2, PTL DEF Spec

-----------------------------------------------------------------------------
(* The theorems.                                                           *)

\* Types, and a cursor that never leaves the result: for any number of records.
THEOREM ViewTypeCorrect == Spec => []ViewTypeOK
<1>1. IInv => ViewTypeOK
  BY DEF IInv
<1> QED
  BY <1>1, Invariance, PTL

\* The screen shows the record at the cursor or that one cannot be loaded,
\* whatever files go and whenever they go.
THEOREM ScreenFollowsCursorHolds == Spec => []ScreenFollowsCursor
<1>1. IInv => ScreenFollowsCursor
  BY DEF IInv
<1> QED
  BY <1>1, Invariance, PTL

\* No key moves the cursor twice.
THEOREM OneMovePerKeyHolds == Spec => []OneMovePerKey
<1>1. IInv => OneMovePerKey
  BY DEF IInv, KeyInv
<1> QED
  BY <1>1, Invariance, PTL

\* The name on the canvas is that of the record whose point is marked.
THEOREM HoverNamesItsRecordHolds == Spec => []HoverNamesItsRecord
<1>1. IInv => HoverNamesItsRecord
  BY DEF IInv, ViewTypeOK, HoverInv, Names, HoverNamesItsRecord
<1> QED
  BY <1>1, Invariance, PTL

=============================================================================
