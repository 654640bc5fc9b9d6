------------------------------ MODULE TierStore ------------------------------
(***************************************************************************)
(* What a topic keeps of its trips on two tiers, for a reader who knows    *)
(* the catalogs only: a trip is read from the SSD or from the HDD, it      *)
(* moves once, together with the other trips of its day, and nothing of    *)
(* it is lost on the way or changes afterwards.                            *)
(***************************************************************************)
EXTENDS Integers

CONSTANTS
    Days,
    Trips        \* pairs of a day and a number

VARIABLES
    tier,        \* where a trip is read: "none", "ssd" or "hdd"
    stored,      \* how much of it can be read
    row, copy    \* what the catalog of the SSD and that of the HDD say of it

svars == <<tier, stored, row, copy>>

OnSsd(d) == {k \in Trips : k[1] = d /\ tier[k] = "ssd"}

Init ==
    /\ tier = [k \in Trips |-> "none"]
    /\ stored = [k \in Trips |-> 0]
    /\ row = [k \in Trips |-> "none"]
    /\ copy = [k \in Trips |-> "none"]

\* A trip begins, with nothing in it; no trip had its number before.
Begin(k) ==
    /\ tier[k] = "none" /\ stored[k] = 0 /\ copy[k] = "none"
    /\ tier' = [tier EXCEPT ![k] = "ssd"]
    /\ row' = [row EXCEPT ![k] = "open"]
    /\ UNCHANGED <<stored, copy>>

\* Only a trip without an end grows, and only on the SSD.
Store(k) ==
    /\ tier[k] = "ssd" /\ row[k] = "open"
    /\ stored' = [stored EXCEPT ![k] = @ + 1]
    /\ UNCHANGED <<tier, row, copy>>

\* A trip gets its end, from its node or from a later one.
Close(k) ==
    /\ tier[k] = "ssd" /\ row[k] = "open"
    /\ row' = [row EXCEPT ![k] = "closed"]
    /\ UNCHANGED <<tier, stored, copy>>

\* The catalog of the HDD learns of a day that is still read from the SSD.
Copy(d) ==
    /\ copy' = [k \in Trips |-> IF k \in OnSsd(d) THEN row[k] ELSE copy[k]]
    /\ UNCHANGED <<tier, stored, row>>

\* The day moves, all its trips at once. A trip that got its end after Copy
\* arrives without it.
Move(d) ==
    /\ \A k \in OnSsd(d) : copy[k] # "none"
    /\ tier' = [k \in Trips |-> IF k \in OnSsd(d) THEN "hdd" ELSE tier[k]]
    /\ row' = [k \in Trips |-> IF k \in OnSsd(d) THEN "none" ELSE row[k]]
    /\ UNCHANGED <<stored, copy>>

Next ==
    \/ \E k \in Trips : Begin(k) \/ Store(k) \/ Close(k)
    \/ \E d \in Days : Copy(d) \/ Move(d)

Spec == Init /\ [][Next]_svars

=============================================================================
