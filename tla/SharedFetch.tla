----------------------------- MODULE SharedFetch -----------------------------
(***************************************************************************)
(* What a cache with shared fetches promises its callers: there is one      *)
(* fetch under way at most, whoever asks meanwhile joins it and gets its    *)
(* result, and who comes later gets the latest result that was ever made,   *)
(* as long as it counts, or has a new one made.                             *)
(*                                                                          *)
(* Results are numbered in the order in which they were made.  Fetches that *)
(* fail are counted as well: they are results that never count.             *)
(***************************************************************************)
EXTENDS Naturals

CONSTANT Callers

VARIABLES
    under,      \* how many fetches are under way
    made,       \* how many have ended
    counts,     \* may the latest result be given to who comes now?
    caller      \* what each caller waits for or has

vars == <<under, made, counts, caller>>

Away == [at |-> "away", no |-> 0]

Init ==
    /\ under = 0 /\ made = 0 /\ counts = FALSE
    /\ caller = [c \in Callers |-> Away]

\* A caller finds nothing that counts: it joins what is under way or starts it.
Ask(c) ==
    /\ caller[c].at # "asking" /\ ~counts
    /\ under' = 1 /\ under \in {0, 1}
    /\ caller' = [caller EXCEPT ![c] = [at |-> "asking", no |-> made]]
    /\ UNCHANGED <<made, counts>>

\* A caller finds the latest result.
Hit(c) ==
    /\ caller[c].at # "asking" /\ counts
    /\ caller' = [caller EXCEPT ![c] = [at |-> "given", no |-> made]]
    /\ UNCHANGED <<under, made, counts>>

Make ==
    /\ under = 1 /\ under' = 0
    /\ made' = made + 1
    /\ counts' \in BOOLEAN
    /\ UNCHANGED caller

\* A caller that waited gets the first result made after it came.
Give(c) ==
    /\ caller[c].at = "asking" /\ made > caller[c].no
    /\ caller' = [caller EXCEPT ![c] = [at |-> "given", no |-> @.no + 1]]
    /\ UNCHANGED <<under, made, counts>>

Lapse ==
    /\ counts /\ counts' = FALSE
    /\ UNCHANGED <<under, made, caller>>

Leave(c) ==
    /\ caller' = [caller EXCEPT ![c] = Away]
    /\ UNCHANGED <<under, made, counts>>

Next ==
    \/ \E c \in Callers : Ask(c) \/ Hit(c) \/ Give(c) \/ Leave(c)
    \/ Make \/ Lapse

Spec == Init /\ [][Next]_vars
=============================================================================
