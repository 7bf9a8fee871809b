----------------------------- MODULE TurnContract -----------------------------
(***************************************************************************)
(* What the event stream of one turn promises the screen that reads it      *)
(* (the contract that opens runner.run_agent_stream): live frames and text  *)
(* in any order, then, once each and in this order, an optional reset, the  *)
(* settled sources, an optional correction of the text, the answer mark,    *)
(* optional extras and done.  Text only grows, but for the one reset, and   *)
(* done carries exactly the text that is on the screen.                     *)
(*                                                                          *)
(* A connection may break at any point: the stream then just stops.         *)
(***************************************************************************)
EXTENDS Naturals, Sequences, SequencesExt

CONSTANT NoVerdict    \* no done yet

VARIABLES
    stage,       \* how far the stream has got
    screen,      \* the text on the screen
    notes,       \* how many live frames (steps, previews, errors) came
    verdict      \* the text that done carried

vars == <<stage, screen, notes, verdict>>

Init ==
    /\ stage = "live"
    /\ screen = <<>>
    /\ notes = 0
    /\ verdict = NoVerdict

Note ==
    /\ stage = "live"
    /\ notes' = notes + 1
    /\ UNCHANGED <<stage, screen, verdict>>

Say ==
    /\ stage = "live"
    /\ IsStrictPrefix(screen, screen')
    /\ UNCHANGED <<stage, notes, verdict>>

\* The whole text is taken back.  There is something to take back.
Revise ==
    /\ stage = "live" /\ screen # <<>>
    /\ stage' = "revised"
    /\ screen' = <<>>
    /\ UNCHANGED <<notes, verdict>>

SettleSources ==
    /\ stage \in {"live", "revised"}
    /\ stage' = "settled"
    /\ UNCHANGED <<screen, notes, verdict>>

\* The whole text again, on an empty screen.
Correct ==
    /\ stage = "settled" /\ screen = <<>>
    /\ stage' = "corrected"
    /\ screen' # <<>>
    /\ UNCHANGED <<notes, verdict>>

\* The screen holds the answer, which is never empty.
Answer ==
    /\ stage \in {"settled", "corrected"} /\ screen # <<>>
    /\ stage' = "answered"
    /\ UNCHANGED <<screen, notes, verdict>>

Extra ==
    /\ stage = "answered"
    /\ stage' = "extra"
    /\ UNCHANGED <<screen, notes, verdict>>

Done ==
    /\ stage \in {"answered", "extra"}
    /\ stage' = "done"
    /\ verdict' = screen
    /\ UNCHANGED <<screen, notes>>

Next == Note \/ Say \/ Revise \/ SettleSources \/ Correct \/ Answer \/ Extra \/ Done

Spec == Init /\ [][Next]_vars
=============================================================================
