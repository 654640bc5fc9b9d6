------------------------------ MODULE TripStore ------------------------------
(***************************************************************************)
(* What a topic's hot-tier storage promises, without files, chunks or      *)
(* buffers: of the records a trip accepts a growing prefix is stored, and  *)
(* the catalog row of a trip is closed only with the count of what is      *)
(* stored; an orderly end stores everything first.                         *)
(***************************************************************************)
EXTENDS Integers

CONSTANTS
    Trips,       \* topic-day and trip id
    NoTrip       \* no trip is active, not one of Trips

VARIABLES
    active,      \* the trip a process writes, or NoTrip
    accepted,    \* number of records each trip accepted
    stored,      \* how many of them, from the first, a reader can reach
    row          \* catalog row: state ("none", "open", "closed"), records it announces

tvars == <<active, accepted, stored, row>>

Init ==
    /\ active = NoTrip
    /\ accepted = [k \in Trips |-> 0]
    /\ stored = [k \in Trips |-> 0]
    /\ row = [k \in Trips |-> [state |-> "none", records |-> 0]]

\* A trip that was never begun is begun, with an open row.
Begin(k) ==
    /\ active = NoTrip
    /\ row[k].state = "none"
    /\ stored[k] = 0
    /\ active' = k
    /\ row' = [row EXCEPT ![k] = [state |-> "open", records |-> 0]]
    /\ UNCHANGED <<accepted, stored>>

Accept(k) ==
    /\ active = k
    /\ accepted' = [accepted EXCEPT ![k] = @ + 1]
    /\ UNCHANGED <<active, stored, row>>

\* A chunk is stored: everything accepted so far can be reached.
Store(k) ==
    /\ active = k
    /\ stored[k] < accepted[k]
    /\ stored' = [stored EXCEPT ![k] = accepted[k]]
    /\ UNCHANGED <<active, accepted, row>>

\* An orderly end. The count the row gets is the count of what was accepted.
End(k) ==
    /\ active = k
    /\ stored[k] = accepted[k]
    /\ active' = NoTrip
    /\ row' = [row EXCEPT ![k] = [state |-> "closed", records |-> stored[k]]]
    /\ UNCHANGED <<accepted, stored>>

\* The process stops without closing the row; what was not stored is lost.
Abandon ==
    /\ active # NoTrip
    /\ active' = NoTrip
    /\ UNCHANGED <<accepted, stored, row>>

\* A later process closes the row of a trip nobody writes any more.
Recover(k) ==
    /\ active = NoTrip
    /\ row[k].state # "none"
    /\ stored[k] > 0
    /\ row' = [row EXCEPT ![k] = [state |-> "closed", records |-> stored[k]]]
    /\ UNCHANGED <<active, accepted, stored>>

Next ==
    \/ \E k \in Trips : Begin(k) \/ Accept(k) \/ Store(k) \/ End(k) \/ Recover(k)
    \/ Abandon

Spec == Init /\ [][Next]_tvars

=============================================================================
