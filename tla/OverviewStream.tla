----------------------------- MODULE OverviewStream -----------------------------
(***************************************************************************)
(* One generation of an overview (overview._generate): search, a streamed   *)
(* first text, a judge that decides meanwhile whether the text may be       *)
(* shown, a second text on better search results, an appended paragraph.    *)
(*                                                                          *)
(* The generation is a task with helpers of its own: the reader of the      *)
(* stream, the judge, the recovery search and the reading of details.       *)
(* Between two awaits of a task nothing else runs, so the places in Atomic  *)
(* are no waits.  The judge's callback runs a turn of the event loop after  *)
(* its result is there; one more step of another task may come between.     *)
(*                                                                          *)
(* Text is a sequence of tokens: a word, a marker of a source in the        *)
(* prompt, a marker of none; each remembers the call that wrote it.         *)
(* Deadlines are choices, but for the rule that a text which is on the      *)
(* screen is not cut off by one.                                            *)
(***************************************************************************)
EXTENDS Naturals, Sequences, SequencesExt

CONSTANTS
    GateOn,      \* settings.overview_relevance_gate: the values of a server
    Budget,      \* settings.overview_daily_budget
    MaxText,     \* bound: tokens of one call
    MaxDays      \* bound: how often midnight comes

ASSUME OverviewAssumption ==
    /\ GateOn \subseteq BOOLEAN
    /\ Budget \in Nat \ {0} /\ MaxText \in Nat /\ MaxDays \in Nat

VARIABLES
    pc,          \* where the generation is
    left,        \* the calls the budget of the day still has
    days,        \* midnights so far
    spent,       \* what this generation took of the budget
    calls,       \* the generation calls it made
    boost,       \* boost_tried: the search was widened already
    gate,        \* the judge: off, asked, rung (result there, callback to
                 \* come), late (rung, and a step passed), heard
    verdict,     \* its verdict
    recovery,    \* recovery_task
    details,     \* the reading of details
    call,        \* 1 first text, 2 second text, 3 appended paragraph
    raw,         \* raw_body of the call
    fed,         \* how far it went through the renumberer
    held,        \* what waits for the valve
    streamed,    \* what this call, or the text in hand, put on the screen
    marked,      \* marker_seen
    released,    \* the valve is open
    text,        \* citation.text of the text in hand
    kept,        \* the text in hand before the present call
    screen,      \* the text on the screen of the client
    result,      \* the payload
    citedFirst,  \* history: the first text cited a source
    broke        \* history: a call failed

budget == <<left, days, spent, calls>>
judge == <<gate, verdict>>
helpers == <<recovery, details>>
stream == <<call, raw, fed, held, streamed, marked, released>>
hand == <<text, kept>>
output == <<screen, result>>
history == <<citedFirst, broke>>
vars == <<pc, budget, boost, judge, helpers, stream, hand, output, history>>

Atomic == {"deciding", "concluding", "finishing"}
Awaited == {"start", "searching", "streaming", "closing", "retrying", "recovering",
            "reading", "ended"}

Verdicts == [relevant : BOOLEAN, detail : BOOLEAN, missing : BOOLEAN]

\* _VERDICT_OPEN: the judge failed, or there is none.
Open == [relevant |-> TRUE, detail |-> FALSE, missing |-> FALSE]

Kinds == {"word", "cite", "bad"}
Tokens == [kind : Kinds, call : 1..3]

HasKind(body, kind) == \E i \in DOMAIN body : body[i].kind = kind
HasCite(body) == HasKind(body, "cite")

\* validate_citations drops the markers of no source.
Validated(body) ==
    LET valid[n \in 0..Len(body)] ==
          IF n = 0 THEN <<>>
          ELSE IF body[n].kind = "bad" THEN valid[n - 1] ELSE Append(valid[n - 1], body[n])
    IN  valid[Len(body)]

Outcomes == {"none", "ok", "irrelevant", "no_citations", "timeout", "search_timeout",
             "parse_error", "no_results", "over_budget", "failed"}
\* No text in hand before the present call.
Nothing == [text |-> <<>>, streamed |-> <<>>, verdict |-> Open]

TypeOK ==
    /\ pc \in Atomic \cup Awaited
    /\ left \in 0..Budget /\ days \in 0..MaxDays
    /\ spent \in 0..3 /\ calls \in 0..3
    /\ {boost, marked, released, citedFirst, broke} \subseteq BOOLEAN
    /\ gate \in {"off", "asked", "rung", "late", "heard"} /\ verdict \in Verdicts
    /\ recovery \in {"none", "running", "hits", "nothing", "cancelled"}
    /\ details \in {"none", "running"}
    /\ call \in 1..3
    /\ {raw, held, streamed, text, screen, kept.text, kept.streamed, result.text}
         \subseteq Seq(Tokens)
    /\ kept.verdict \in Verdicts
    /\ fed \in 0..Len(raw) /\ Len(raw) <= MaxText
    /\ result.kind \in Outcomes
    /\ (result.kind # "none") = (pc = "ended")
    /\ released => held = <<>>

Init ==
    /\ pc = "start"
    /\ left \in 0..Budget /\ days = 0
    /\ spent = 0 /\ calls = 0
    /\ boost = FALSE
    /\ gate \in {IF on THEN "asked" ELSE "off" : on \in GateOn} /\ verdict = Open
    /\ recovery = "none" /\ details = "none"
    /\ call = 1 /\ raw = <<>> /\ fed = 0 /\ held = <<>> /\ streamed = <<>>
    /\ marked = FALSE /\ released = FALSE
    /\ text = <<>>
    /\ kept = Nothing
    /\ screen = <<>>
    /\ result = [kind |-> "none", text |-> <<>>]
    /\ citedFirst = FALSE /\ broke = FALSE

-----------------------------------------------------------------------------
(* A step of the task at a wait; at most one comes before the callback of a
   judge that has its result. *)

At(place) == pc = place /\ gate # "late"
GateMovesOn == gate' = IF gate = "rung" THEN "late" ELSE gate

\* What a call needed goes with it.
CallOver ==
    /\ raw' = <<>> /\ fed' = 0 /\ held' = <<>>
    /\ marked' = FALSE /\ released' = FALSE

\* The task ends: whatever helper still runs is cancelled.
Conclude(kind, body) ==
    /\ result' = [kind |-> kind, text |-> body]
    /\ pc' = "ended"
    /\ CallOver /\ streamed' = <<>>
    /\ text' = <<>> /\ kept' = Nothing
    /\ UNCHANGED call
    /\ recovery' = IF recovery = "running" THEN "cancelled" ELSE recovery
    /\ details' = "none"

\* _consume_budget.
Pay == left > 0 /\ left' = left - 1 /\ spent' = spent + 1

\* A call begins.
Begin(n) ==
    /\ call' = n
    /\ calls' = calls + 1
    /\ streamed' = <<>>
    /\ pc' = "streaming"
    /\ UNCHANGED <<raw, fed, held, marked, released>>

InHand == [text |-> text, streamed |-> streamed, verdict |-> verdict]

-----------------------------------------------------------------------------
(* Search. *)

\* Unless the rows are cached, the planner is asked while the search runs, and
\* pays for the first text too.
Start(plan) ==
    /\ pc = "start"
    /\ IF plan /\ left > 0 THEN Pay ELSE UNCHANGED <<left, spent>>
    /\ pc' = "searching"
    /\ UNCHANGED <<days, calls, boost, judge, helpers, stream, hand, output, history>>

\* The search comes back with rows, perhaps widened.
Found(widened) ==
    /\ pc = "searching"
    /\ boost' = widened
    /\ IF spent = 0 THEN Pay ELSE UNCHANGED <<left, spent>>
    /\ Begin(1)
    /\ UNCHANGED <<days, judge, helpers, hand, output, history>>

NotFound(kind) ==
    /\ pc = "searching"
    /\ Conclude(kind, <<>>)
    /\ UNCHANGED <<budget, boost, judge, screen, history>>

\* Rows, but the budget of the day is used up: 429.
OverBudget ==
    /\ pc = "searching" /\ spent = 0 /\ left = 0
    /\ Conclude("over_budget", <<>>)
    /\ UNCHANGED <<budget, boost, judge, screen, history>>

-----------------------------------------------------------------------------
(* The judge and what its verdict sets off. *)

Judge(v) ==
    /\ pc \in {"streaming", "closing"} /\ gate = "asked" /\ call < 3
    /\ verdict' = v
    /\ gate' = "rung"
    /\ UNCHANGED <<pc, budget, boost, helpers, stream, hand, output, history>>

\* _verdict_arrived, and _on_verdict for the first text: a target that is
\* missing is searched for, details are read ahead.
Hear ==
    /\ gate \in {"rung", "late"} /\ pc \notin Atomic
    /\ gate' = "heard"
    /\ recovery' = IF /\ call = 1 /\ verdict.missing /\ recovery = "none"
                      /\ ~boost \/ ~verdict.relevant
                      /\ left > 0
                   THEN "running" ELSE recovery
    /\ details' = IF call = 1 /\ ~verdict.missing /\ verdict.relevant /\ verdict.detail
                  THEN "running" ELSE details
    /\ UNCHANGED <<pc, budget, boost, verdict, stream, hand, output, history>>

Recovered(found) ==
    /\ recovery = "running" /\ pc \notin Atomic
    /\ recovery' = IF found THEN "hits" ELSE "nothing"
    /\ UNCHANGED <<pc, budget, boost, judge, details, stream, hand, output, history>>

\* The replacement that closes the valve of the first text: a recovery search
\* that the verdict started.
Replacement == gate = "heard" /\ call = 1 /\ recovery # "none"

\* Mutant: no replacement yet is taken for none at all.
GateAllowsEarly ==
    \/ gate = "off"
    \/ /\ gate \in {"rung", "late", "heard"}
       /\ verdict.relevant
       /\ ~verdict.missing \/ ~Replacement

\* _gate_allows.
GateAllows ==
    \/ gate = "off"
    \/ /\ gate \in {"rung", "late", "heard"}
       /\ verdict.relevant
       /\ ~verdict.missing \/ (gate = "heard" /\ ~Replacement)

\* The text in the making cannot be shown any more: it is irrelevant, or the
\* replacement has been found.
Abandoned ==
    /\ call < 3 /\ ~released /\ gate = "heard"
    /\ ~verdict.relevant \/ (Replacement /\ recovery = "hits")

-----------------------------------------------------------------------------
(* A streamed call. *)

\* StreamRenumberer.feed: a marker at the end may still grow.
Stable(body) == IF Last(body).kind # "word" THEN Len(body) - 1 ELSE Len(body)

\* Mutant: the valve opens at the first chunk.
OpensUncited(body, chunk) == call = 3 \/ GateAllows

\* The valve opens on a citation: one that went out, which the judge must
\* allow, or in an appended paragraph one the model wrote.
Opens(body, chunk) ==
    IF call = 3 THEN HasCite(body) ELSE (marked \/ HasCite(chunk)) /\ GateAllows

\* _dispatch: all that was held goes out with the chunk, or all is held.
Show(open, chunk) ==
    LET out == held \o chunk
    IN  /\ streamed' = IF open THEN streamed \o out ELSE streamed
        /\ screen' = IF open THEN screen \o out ELSE screen

\* _on_text; one step of the reading task may handle several pieces.
Piece(kind) ==
    LET body == Append(raw, [kind |-> kind, call |-> call])
        chunk == SubSeq(body, fed + 1, Stable(body))
        open == released \/ Opens(body, chunk)
    IN  /\ pc = "streaming" /\ ~Abandoned /\ Len(raw) < MaxText
        /\ raw' = body /\ fed' = Stable(body)
        /\ Show(open, chunk)
        /\ held' = IF open THEN <<>> ELSE held \o chunk
        /\ marked' = (marked \/ HasCite(chunk))
        /\ released' = open
        /\ citedFirst' = (citedFirst \/ (call = 1 /\ kind = "cite"))
        /\ GateMovesOn
        /\ UNCHANGED <<pc, budget, boost, verdict, helpers, call, hand, result, broke>>

\* The next piece of an abandoned text ends the call.
Abandon ==
    /\ At("streaming") /\ Abandoned /\ Len(raw) < MaxText
    /\ CallOver
    /\ text' = <<>> /\ streamed' = <<>>
    /\ pc' = IF call = 1 THEN "deciding" ELSE "concluding"
    /\ GateMovesOn
    /\ UNCHANGED <<budget, boost, verdict, helpers, call, kept, output, history>>

\* The call is over: the judge is waited for, then the tail is dispatched.
AwaitJudge ==
    /\ At("streaming") /\ call < 3 /\ gate = "asked"
    /\ pc' = "closing"
    /\ UNCHANGED <<budget, boost, judge, helpers, stream, hand, output, history>>

Written ==
    /\ (At("streaming") /\ gate # "asked") \/ (At("closing") /\ gate = "heard")
    /\ call < 3
    /\ LET tail == SubSeq(raw, fed + 1, Len(raw))
       IN  Show(released \/ Opens(raw, tail), tail)
    /\ CallOver
    /\ text' = Validated(raw)
    /\ pc' = IF call = 1 THEN "deciding" ELSE "concluding"
    /\ GateMovesOn
    /\ UNCHANGED <<budget, boost, verdict, helpers, call, kept, result, history>>

\* The first text fails: what was shown is taken back, the generation ends.
\* A deadline counts only before the valve has opened.
FirstFails(late) ==
    /\ At("streaming") /\ call = 1
    /\ late => ~released
    /\ screen' = IF streamed # <<>> THEN <<>> ELSE screen
    /\ Conclude(IF late THEN "timeout" ELSE "failed", <<>>)
    /\ gate' = IF gate = "asked" THEN "heard" ELSE gate
    /\ broke' = TRUE
    /\ UNCHANGED <<budget, boost, verdict, citedFirst>>

\* The second text fails: what was shown of it is taken back, and the first
\* one is in hand again.
SecondFails(late) ==
    /\ At("streaming") /\ call = 2
    /\ late => ~released
    /\ screen' = IF streamed # <<>> THEN <<>> ELSE screen
    /\ CallOver /\ streamed' = <<>>
    /\ text' = kept.text /\ verdict' = kept.verdict
    /\ gate' = IF gate = "off" THEN "off" ELSE "heard"
    /\ pc' = "concluding"
    /\ broke' = TRUE
    /\ UNCHANGED <<budget, boost, helpers, call, kept, result, citedFirst>>

-----------------------------------------------------------------------------
(* The second text. *)

\* Nothing to stand on was found, though it was looked for: search again, once,
\* if time and budget allow.
NeedsRetry ==
    /\ verdict.missing \/ (verdict.relevant /\ ~HasCite(text))
    /\ ~boost \/ ~verdict.relevant
    /\ left > 0

Decide(time) ==
    /\ pc = "deciding"
    /\ kept' = InHand
    /\ pc' = IF ~(NeedsRetry /\ time) THEN "concluding"
             ELSE IF recovery = "none" THEN "retrying" ELSE "recovering"
    /\ UNCHANGED <<budget, boost, judge, helpers, stream, text, output, history>>

\* A search of its own takes a while, or there is nothing to search for.
Retried == At("retrying")

\* The search that the verdict has started is waited for.
Joined == At("recovering") /\ recovery # "running"

\* Mutant: a search that finds nothing is tried again.
RetriesForever(found, time) ==
    /\ Retried \/ (Joined /\ found = (recovery = "hits"))
    /\ found => gate # "rung"
    /\ IF found /\ time /\ left > 0
       THEN /\ Pay
            /\ Begin(2)
            /\ screen' = IF streamed # <<>> THEN <<>> ELSE screen
            /\ gate' = IF gate = "off" THEN "off" ELSE "asked"
            /\ verdict' = Open
       ELSE /\ pc' = "deciding"
            /\ GateMovesOn
            /\ UNCHANGED <<left, spent, calls, verdict, stream, screen>>
    /\ UNCHANGED <<days, boost, helpers, hand, result, history>>

Retrieved(found, time) ==
    /\ Retried \/ (Joined /\ found = (recovery = "hits"))
    /\ found => gate # "rung"
    /\ IF found /\ time /\ left > 0
       THEN /\ Pay
            /\ Begin(2)
            /\ screen' = IF streamed # <<>> THEN <<>> ELSE screen
            /\ gate' = IF gate = "off" THEN "off" ELSE "asked"
            /\ verdict' = Open
       ELSE /\ pc' = "concluding"
            /\ GateMovesOn
            /\ UNCHANGED <<left, spent, calls, verdict, stream, screen>>
    /\ UNCHANGED <<days, boost, helpers, hand, result, history>>

-----------------------------------------------------------------------------
(* The appended paragraph. *)

WantsDetails ==
    /\ verdict.relevant /\ ~verdict.missing /\ verdict.detail
    /\ HasCite(text)
    /\ left > 0

\* The details that are being read serve if they are those of the present rows.
ReadDetails ==
    /\ pc = "concluding" /\ WantsDetails
    /\ details' = "running"
    /\ pc' = "reading"
    /\ UNCHANGED <<budget, boost, judge, recovery, stream, hand, output, history>>

NoDetails ==
    /\ pc = "concluding" /\ ~WantsDetails
    /\ pc' = "finishing"
    /\ UNCHANGED <<budget, boost, judge, helpers, stream, hand, output, history>>

\* Mutant: the third call is free.
HarvestFree(arrived) ==
    /\ At("reading") /\ (arrived => gate # "rung")
    /\ IF arrived /\ left > 0
       THEN /\ kept' = InHand
            /\ Begin(3)
            /\ UNCHANGED <<left, spent>>
       ELSE /\ pc' = "finishing"
            /\ UNCHANGED <<left, spent, calls, stream, kept>>
    /\ details' = "none"
    /\ GateMovesOn
    /\ UNCHANGED <<days, boost, verdict, recovery, text, output, history>>

\* What has arrived in time is used, the rest cancelled.
Harvest(arrived) ==
    /\ At("reading") /\ (arrived => gate # "rung")
    /\ IF arrived /\ left > 0
       THEN /\ Pay
            /\ kept' = InHand
            /\ Begin(3)
       ELSE /\ pc' = "finishing"
            /\ UNCHANGED <<left, spent, calls, stream, kept>>
    /\ details' = "none"
    /\ GateMovesOn
    /\ UNCHANGED <<days, boost, verdict, recovery, text, output, history>>

\* The paragraph is part of the text if it cites.
Appended ==
    LET cites == HasCite(raw)
        out == held \o SubSeq(raw, fed + 1, Len(raw))
    IN  /\ At("streaming") /\ call = 3
        /\ text' = IF cites THEN kept.text \o Validated(raw) ELSE kept.text
        /\ CallOver
        /\ streamed' = kept.streamed
                         \o (IF cites THEN streamed \o out ELSE <<>>)
        /\ screen' = IF cites THEN screen \o out ELSE screen
        /\ pc' = "finishing"
        /\ UNCHANGED <<budget, boost, judge, helpers, call, kept, result, history>>

\* Mutant: the caller is not told what was shown of the paragraph.
AppendFailsForgetting(late) ==
    /\ At("streaming") /\ call = 3
    /\ late => ~released
    /\ text' = kept.text
    /\ streamed' = kept.streamed
    /\ CallOver
    /\ pc' = "finishing"
    /\ broke' = TRUE
    /\ UNCHANGED <<budget, boost, judge, helpers, call, kept, output, citedFirst>>

\* The paragraph fails: the text before it stays in hand.
AppendFails(late) ==
    /\ At("streaming") /\ call = 3
    /\ late => ~released
    /\ text' = kept.text
    /\ streamed' = kept.streamed \o streamed
    /\ CallOver
    /\ pc' = "finishing"
    /\ broke' = TRUE
    /\ UNCHANGED <<budget, boost, judge, helpers, call, kept, output, citedFirst>>

-----------------------------------------------------------------------------
(* The exit. *)

\* An irrelevant text, or one that cites nothing, is not published.
Withhold ==
    /\ pc = "finishing"
    /\ ~verdict.relevant \/ ~HasCite(text)
    /\ screen' = IF streamed # <<>> THEN <<>> ELSE screen
    /\ Conclude(IF ~verdict.relevant THEN "irrelevant" ELSE "no_citations", <<>>)
    /\ UNCHANGED <<budget, boost, judge, history>>

\* The screen gets the published text, if that is not what it has.
Publish ==
    /\ pc = "finishing"
    /\ verdict.relevant /\ HasCite(text)
    /\ screen' = IF streamed = text THEN screen
                 ELSE (IF streamed # <<>> THEN <<>> ELSE screen) \o text
    /\ Conclude("ok", text)
    /\ UNCHANGED <<budget, boost, judge, history>>

-----------------------------------------------------------------------------
(* Other generations use the budget too, and midnight renews it. *)

OthersPay ==
    /\ left > 0 /\ pc \notin Atomic \cup {"ended"}
    /\ left' = left - 1
    /\ UNCHANGED <<pc, days, spent, calls, boost, judge, helpers, stream, hand,
                   output, history>>

NewDay ==
    /\ days < MaxDays /\ pc \notin Atomic \cup {"ended"}
    /\ days' = days + 1
    /\ left' = Budget
    /\ UNCHANGED <<pc, spent, calls, boost, judge, helpers, stream, hand, output,
                   history>>

Ended == pc = "ended" /\ gate \notin {"rung", "late"} /\ UNCHANGED vars

-----------------------------------------------------------------------------
Searching ==
    \/ \E plan \in BOOLEAN : Start(plan)
    \/ \E widened \in BOOLEAN : Found(widened)
    \/ \E kind \in {"search_timeout", "parse_error", "no_results", "failed"} :
         NotFound(kind)
    \/ OverBudget

Streaming ==
    \/ \E kind \in Kinds : Piece(kind)
    \/ Abandon \/ AwaitJudge \/ Written
    \/ \E late \in BOOLEAN : FirstFails(late) \/ SecondFails(late) \/ AppendFails(late)
    \/ Appended

Helping ==
    \/ \E v \in Verdicts : Judge(v)
    \/ Hear
    \/ \E found \in BOOLEAN : Recovered(found)

Closing ==
    \/ \E time \in BOOLEAN : Decide(time)
    \/ \E found, time \in BOOLEAN : Retrieved(found, time)
    \/ ReadDetails \/ NoDetails
    \/ \E arrived \in BOOLEAN : Harvest(arrived)
    \/ Withhold \/ Publish

Advance == Searching \/ Streaming \/ Helping \/ Closing

Next == Advance \/ OthersPay \/ NewDay \/ Ended

Spec == Init /\ [][Next]_vars

\* Every boost, judge, reading and call has a limit of its own; a call that
\* is on the screen has none, and the vendor's connection ends it.
FairSpec == Spec /\ WF_vars(Advance)

-----------------------------------------------------------------------------
(* Properties. *)

\* In the end the screen has the published text and nothing else: all of it,
\* or nothing when nothing was published (the contract of _generate).
ScreenAgrees == pc = "ended" => screen = result.text

\* What is on the screen before the end cites a source and was let through by
\* the judge, if there is one (the valve of _attempt).
ShownIsGood ==
    screen # <<>> /\ pc # "ended" =>
        /\ HasCite(screen)
        /\ gate = "off" \/ (gate # "asked" /\ verdict.relevant)

\* A text is taken from the screen only to drop a marker of no source, or
\* because a call failed, or because midnight renewed a budget whose end had
\* let it through: no text is shown first and then exchanged for another one
\* (the comment on _gate_allows).
NotTakenBack ==
    [][IsPrefix(screen, screen') \/ HasKind(screen, "bad") \/ broke' \/ days > 0]_vars

\* A relevant first text that cites is not lost to a search that finds nothing
\* (the predicate of _on_verdict).
CitedKept ==
    pc = "ended" /\ result.kind = "no_citations" /\ citedFirst =>
        recovery = "hits" \/ call = 2

\* What is shown early may be shown, and what may be shown is not lost again: the
\* valve and the replacement it allows (_attempt, _on_verdict).
GoodTextKept == ShownIsGood /\ CitedKept

\* Every generation call was paid for out of the budget of a day, and the
\* planner's unit is the first text's too (_consume_budget).
CallsPaid == calls <= spent

\* A generation ends, whatever its helpers do.
GenerationEnds == <>(pc = "ended")
=============================================================================
