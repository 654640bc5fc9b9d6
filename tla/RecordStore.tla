----------------------------- MODULE RecordStore -----------------------------
(***************************************************************************)
(* What a query of the hot tier promises its caller while trips grow and   *)
(* are archived, without a reader that goes from file to file: an answer   *)
(* is as good as one taken at one moment, except that a trip which leaves  *)
(* the SSD meanwhile may be missing as a whole, and that a trip may have   *)
(* grown beyond what it was when the question came.                        *)
(*                                                                         *)
(* A record is <<file, chunk, number>>; its time is the element of the     *)
(* file there.                                                             *)
(***************************************************************************)
EXTENDS Integers, Sequences, FiniteSets

CONSTANTS
    Files,       \* the storage of a trip, never used again for another one
    Time

VARIABLES
    content,     \* the chunks of each file a reader can reach
    kept,        \* files on the SSD
    listed,      \* those of them the catalog has
    asked,       \* the range of the question that is open, or <<>>
    due,         \* what could be reached when it was asked
    answer       \* the last answer: its records and their number

rvars == <<content, kept, listed, asked, due, answer>>

NoAnswer == [records |-> {}, count |-> 0]

\* The records of the range w in the files F.
Reach(F, w) ==
    UNION {UNION {{<<f, n, i>> : i \in {j \in 1..Len(content[f][n]) :
                                           content[f][n][j] \in w[1]..w[2]}} :
                  n \in 1..Len(content[f])} : f \in F}

Init ==
    /\ content = [f \in Files |-> <<>>]
    /\ kept = {} /\ listed = {}
    /\ asked = <<>> /\ due = {} /\ answer = NoAnswer

\* A trip begins with an empty file.
Begin(f) ==
    /\ f \notin kept /\ content[f] = <<>>
    /\ kept' = kept \cup {f}
    /\ listed' = listed \cup {f}
    /\ UNCHANGED <<content, asked, due, answer>>

\* One chunk more of a file can be reached.
Extend(f) ==
    /\ f \in kept
    /\ Len(content'[f]) = Len(content[f]) + 1
    /\ \A n \in 1..Len(content[f]) : content'[f][n] = content[f][n]
    /\ content' = [content EXCEPT ![f] = content'[f]]
    /\ UNCHANGED <<kept, listed, asked, due, answer>>

\* The catalog gives trips up.
Unlist ==
    /\ listed' \subseteq listed
    /\ UNCHANGED <<content, kept, asked, due, answer>>

\* A trip leaves the SSD, after the catalog.
Remove(f) ==
    /\ f \in kept \ listed
    /\ kept' = kept \ {f}
    /\ UNCHANGED <<content, listed, asked, due, answer>>

Ask(s, e) ==
    /\ asked = <<>>
    /\ s <= e
    /\ asked' = <<s, e>>
    /\ due' = Reach(listed, <<s, e>>)
    /\ answer' = NoAnswer
    /\ UNCHANGED <<content, kept, listed>>

\* R answers the question: records of the range, of each file all that was due
\* and no record without the earlier ones; or nothing of a file that has left.
Answers(R) ==
    /\ R \subseteq Reach(Files, asked)
    /\ \A x \in due : x \in R \/ (x[1] \notin kept /\ \A y \in R : y[1] # x[1])
    /\ \A y \in R : \A x \in Reach({y[1]}, asked) : x[2] <= y[2] => x \in R

Answer ==
    /\ asked # <<>>
    /\ Answers(answer'.records)
    /\ answer' = [records |-> answer'.records, count |-> Cardinality(answer'.records)]
    /\ asked' = <<>> /\ due' = {}
    /\ UNCHANGED <<content, kept, listed>>

\* A question that found the catalog busy is answered at once, with nothing.
AnswerNothing ==
    /\ asked = <<>>
    /\ due' = {} /\ answer' = NoAnswer
    /\ UNCHANGED <<content, kept, listed, asked>>

Next ==
    \/ \E f \in Files : Begin(f) \/ Extend(f) \/ Remove(f)
    \/ Unlist
    \/ \E s, e \in Time : Ask(s, e)
    \/ Answer \/ AnswerNothing

Spec == Init /\ [][Next]_rvars

=============================================================================
