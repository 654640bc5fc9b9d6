---------------------------- MODULE RetrieveView ----------------------------
(***************************************************************************)
(* The viewer: one query, then the records it refers to on a screen.       *)
(* Images and LiDAR frames are loaded when the cursor reaches them, GPS    *)
(* records all at the start; meanwhile the archiver removes files.         *)
(*                                                                         *)
(* The program has one thread: keys and mouse moves arrive inside the wait *)
(* of HighGUI or the spin of PCL, between two turns of its loop. Which     *)
(* point of the trajectory is nearest to the pointer is geometry and left  *)
(* open. A record is its number in the result of the query.                *)
(***************************************************************************)
EXTENDS Integers, Sequences, FiniteSets

CONSTANTS
    MaxRefs,     \* bound: references the query returns
    MaxKeys      \* bound: keys pressed

ASSUME ViewAssumption == MaxRefs \in Nat /\ MaxKeys \in Nat

Modes  == {"image", "lidar", "gps"}
RefIds == 1..MaxRefs
PCs    == {"query", "show", "wait", "load", "draw", "done"}

\* GpsMouseState. No hover: both numbers are that of nothing.
Hover   == [record : 0..MaxRefs, pixel : 0..MaxRefs]
NoHover == [record |-> 0, pixel |-> 0]

VARIABLES
    mode,      \* --image, --lidar or --gps
    n,         \* refs.size()
    gone,      \* references whose file can no longer be read
    bad,       \* references whose payload does not decode
    pc,        \* "show": before LoadPayload; "wait": where events arrive
    idx,       \* the cursor
    shown,     \* the record on the screen, 0: none
    step, quit,   \* KeyState of the LiDAR viewer
    next,      \* GPS: the next record to load
    valid,     \* GPS: records with valid = true
    pixels,    \* GPS: record_indices, parallel to the pixels of the trajectory
    hover,     \* GPS: has_hover, hovered_record, hovered_pixel
    changed,   \* GPS: the canvas is to be drawn again
    drawn,     \* GPS: the hover the canvas shows
    pointer,   \* history: the hover where the pointer is
    keys, moves   \* history: keys pressed, and moves of the cursor

query   == <<mode, n, bad>>
frames  == <<idx, shown, step, quit>>
gps     == <<next, valid, pixels, hover, changed, drawn>>
history == <<pointer, keys, moves>>
vars    == <<query, gone, pc, frames, gps, history>>

Loads(r) == r \notin gone /\ r \notin bad

-----------------------------------------------------------------------------
Init ==
    /\ mode \in Modes
    /\ n = 0 /\ gone = {} /\ bad = {}
    /\ pc = "query"
    /\ idx = 1 /\ shown = 0 /\ step = 0 /\ quit = FALSE
    /\ next = 1 /\ valid = {} /\ pixels = <<>>
    /\ hover = NoHover /\ changed = TRUE /\ drawn = NoHover
    /\ pointer = NoHover /\ keys = 0 /\ moves = 0

\* main: without references there is nothing to view.
QueryRefs ==
    /\ pc = "query"
    /\ n' \in 0..MaxRefs
    /\ bad' \in SUBSET (1..n')
    /\ pc' = CASE n' = 0 -> "done" [] n' # 0 /\ mode = "gps" -> "load" [] OTHER -> "show"
    /\ UNCHANGED <<mode, gone, frames, gps, history>>

-----------------------------------------------------------------------------
(* Images and LiDAR frames.                                                *)

\* A record that does not load or decode leaves the screen as it is.
Show ==
    /\ pc = "show"
    /\ shown' = IF Loads(idx) THEN idx ELSE shown
    /\ pc' = "wait"
    /\ UNCHANGED <<query, gone, idx, step, quit, gps, history>>

\* The cursor after a step, which the ends of the result stop.
\* (Mutation: nothing stops it.)
MovedUnchecked(s) == idx + s
Moved(s) ==
    CASE s > 0 /\ idx < n -> idx + 1
      [] s < 0 /\ idx > 1 -> idx - 1
      [] OTHER            -> idx

\* Images: any key ends the wait, and the record is loaded again.
ImageKey(s) ==
    /\ mode = "image" /\ pc = "wait"
    /\ keys < MaxKeys                                                \* bound
    /\ keys' = keys + 1
    /\ idx' = Moved(s)
    /\ moves' = IF idx' # idx THEN moves + 1 ELSE moves
    /\ pc' = "show"
    /\ UNCHANGED <<query, gone, shown, step, quit, gps, pointer>>

ImageQuit ==
    /\ mode = "image" /\ pc = "wait"
    /\ pc' = "done"
    /\ UNCHANGED <<query, gone, frames, gps, history>>

\* LiDAR: the callback only notes the last key of a spin.
LidarKey(s) ==
    /\ mode = "lidar" /\ pc = "wait"
    /\ keys < MaxKeys                                                \* bound
    /\ keys' = keys + 1
    /\ step' = s
    /\ UNCHANGED <<query, gone, pc, idx, shown, quit, gps, pointer, moves>>

LidarQuitKey ==
    /\ mode = "lidar" /\ pc = "wait"
    /\ quit' = TRUE
    /\ UNCHANGED <<query, gone, pc, idx, shown, step, gps, history>>

\* After the spin. A frame is loaded only if the cursor moved. (Mutations: the
\* noted key is kept; the frame is shown before the cursor moves.)
LidarTurnKeepingKey ==
    /\ mode = "lidar" /\ pc = "wait"
    /\ ~quit /\ step # 0
    /\ idx' = Moved(step)
    /\ moves' = IF idx' # idx THEN moves + 1 ELSE moves
    /\ pc' = IF idx' # idx THEN "show" ELSE "wait"
    /\ UNCHANGED <<query, gone, shown, step, quit, gps, pointer, keys>>
LidarTurnShowingFirst ==
    /\ mode = "lidar" /\ pc = "wait"
    /\ ~quit /\ step # 0
    /\ idx' = Moved(step)
    /\ moves' = IF idx' # idx THEN moves + 1 ELSE moves
    /\ shown' = IF idx' # idx /\ Loads(idx) THEN idx ELSE shown
    /\ step' = 0
    /\ UNCHANGED <<query, gone, pc, quit, gps, pointer, keys>>
LidarTurn ==
    /\ mode = "lidar" /\ pc = "wait"
    /\ ~quit /\ step # 0
    /\ idx' = Moved(step)
    /\ moves' = IF idx' # idx THEN moves + 1 ELSE moves
    /\ pc' = IF idx' # idx THEN "show" ELSE "wait"
    /\ step' = 0
    /\ UNCHANGED <<query, gone, shown, quit, gps, pointer, keys>>

\* Quit comes before a step; the window may be closed as well.
LidarEnds ==
    /\ mode = "lidar" /\ pc = "wait"
    /\ quit
    /\ pc' = "done"
    /\ UNCHANGED <<query, gone, frames, gps, history>>

LidarWindowClosed ==
    /\ mode = "lidar" /\ pc = "wait"
    /\ pc' = "done"
    /\ UNCHANGED <<query, gone, frames, gps, history>>

-----------------------------------------------------------------------------
(* GPS.                                                                    *)

LoadGpsRecord ==
    /\ pc = "load"
    /\ next <= n
    /\ next' = next + 1
    /\ valid' = IF Loads(next) THEN valid \cup {next} ELSE valid
    /\ UNCHANGED <<query, gone, pc, frames, pixels, hover, changed, drawn, history>>

\* The valid records in their order.
BuildGpsTrajectory ==
    /\ pc = "load"
    /\ next > n
    /\ \E s \in [1..Cardinality(valid) -> valid] :
          /\ \A i, j \in DOMAIN s : i < j => s[i] < s[j]
          /\ pixels' = s
    /\ pc' = "draw"
    /\ UNCHANGED <<query, gone, frames, next, valid, hover, changed, drawn, history>>

\* The top of the loop.
Draw ==
    /\ pc = "draw"
    /\ drawn' = IF changed THEN hover ELSE drawn
    /\ changed' = FALSE
    /\ pc' = "wait"
    /\ UNCHANGED <<query, gone, frames, next, valid, pixels, hover, history>>

\* The wait of 20 ms ends without q.
WaitEnds ==
    /\ mode = "gps" /\ pc = "wait"
    /\ pc' = "draw"
    /\ UNCHANGED <<query, gone, frames, gps, history>>

\* The hover at the point p of the trajectory. (Mutation: the number of the
\* point is taken for that of the record.)
HoverAtPoint(p) == [record |-> p, pixel |-> p]
HoverAt(p)      == [record |-> pixels[p], pixel |-> p]

\* What makes the canvas out of date. (Mutation: only that a hover begins or
\* ends.)
DiffersInHover(h) == (h = NoHover) # (hover = NoHover)
Differs(h)        == h # hover

\* onGpsMouse: near the point p, or near none.
MouseMove(h) ==
    /\ mode = "gps" /\ pc = "wait"
    /\ pointer' = h
    /\ hover' = IF Differs(h) THEN h ELSE hover
    /\ changed' = (changed \/ Differs(h))
    /\ UNCHANGED <<query, gone, pc, frames, next, valid, pixels, drawn, keys, moves>>

GpsQuit ==
    /\ mode = "gps" /\ pc = "wait"
    /\ pc' = "done"
    /\ UNCHANGED <<query, gone, frames, gps, history>>

-----------------------------------------------------------------------------
Archived(r) ==
    /\ r \in (1..n) \ gone
    /\ gone' = gone \cup {r}
    /\ UNCHANGED <<query, pc, frames, gps, history>>

\* Steps of the program's own thread.
ViewStep ==
    \/ QueryRefs \/ Show \/ LidarTurn \/ LidarEnds
    \/ LoadGpsRecord \/ BuildGpsTrajectory \/ Draw \/ WaitEnds

\* What the user does.
UserStep ==
    \/ \E s \in {-1, 0, 1} : ImageKey(s)
    \/ \E s \in {-1, 1} : LidarKey(s)
    \/ ImageQuit \/ LidarQuitKey \/ LidarWindowClosed \/ GpsQuit
    \/ \E p \in 1..Len(pixels) : MouseMove(HoverAt(p))
    \/ MouseMove(NoHover)

Next == ViewStep \/ UserStep \/ \E r \in RefIds : Archived(r)

Spec     == Init /\ [][Next]_vars
FairSpec == Spec /\ WF_vars(ViewStep)

-----------------------------------------------------------------------------
(* Properties.                                                             *)

\* Every variable has its type; the cursor never leaves the result.
ViewTypeOK ==
    /\ mode \in Modes
    /\ n \in 0..MaxRefs /\ gone \subseteq 1..n /\ bad \subseteq 1..n
    /\ pc \in PCs
    /\ idx \in RefIds \cup {1}
    /\ (pc \in {"show", "wait"}) => idx <= n
    /\ shown \in 0..n
    /\ step \in {-1, 0, 1} /\ quit \in BOOLEAN
    /\ next \in 1..(n + 1) /\ valid \subseteq 1..n
    /\ pixels \in Seq(1..n)
    /\ hover \in Hover /\ drawn \in Hover /\ pointer \in Hover /\ changed \in BOOLEAN
    /\ keys \in 0..MaxKeys /\ moves \in Nat

\* While the viewer waits for a key, the screen shows the record at the
\* cursor, unless that one cannot be loaded or decoded: then it still shows an
\* earlier one.
ScreenFollowsCursor ==
    (mode # "gps" /\ pc = "wait") => shown = idx \/ ~Loads(idx)

\* A key moves the cursor at most once, although the LiDAR viewer remembers
\* keys from one turn to the next and moves only after its spin.
OneMovePerKey == moves <= keys

\* The canvas names the record whose point it marks, although records that
\* could not be loaded have no point.
HoverNamesItsRecord ==
    drawn # NoHover =>
        drawn.record \in valid /\ drawn.pixel <= Len(pixels) /\ pixels[drawn.pixel] = drawn.record

\* What the pointer rests on is drawn, unless it moves on or the viewer ends.
HoverIsDrawn ==
    \A h \in Hover :
        (mode = "gps" /\ pc = "wait" /\ pointer = h)
            ~> (drawn = h \/ pointer # h \/ pc = "done")

=============================================================================
