---------------------------- MODULE ProgressSteps ----------------------------
(***************************************************************************)
(* The steps a turn shows of its tools (event_translate.py: TurnProcess,    *)
(* tool_progress.py): which step a call begins, which one an answer or a    *)
(* message of its progress ends.  A process is [calls, steps, round, ran]:  *)
(* a call [id, name, step, resolved, told], a step [id, round, stage,       *)
(* detail, state], where the id of the k-th call's step is <<k>> and that   *)
(* of its part i is <<k, i>>; << >> and "" stand for no id.                 *)
(***************************************************************************)
EXTENDS Integers, FiniteSets, SequencesExt

NoStep == [id |-> << >>, round |-> 0, stage |-> "none", detail |-> << >>, state |-> "none"]
Fresh == [calls |-> << >>, steps |-> << >>, round |-> 0, ran |-> FALSE]

-----------------------------------------------------------------------------
(* The words for a call and for its answer. *)

StageOf(name) ==
    CASE name = "yes24_search" -> "searching"
      [] name = "web_search" -> "searching_web"
      [] name \in {"yes24_fetch", "fetch_many", "web_fetch"} -> "reading"
      [] name = "yes24_browse" -> "browsing"
      [] OTHER -> "working"

\* _status_for_call: a call that will tell of its angles one by one begins with
\* the first.  A call without an id cannot be told of.
Splits(call) == call.name \in {"yes24_search", "yes24_browse"} /\ call.id # ""
DetailOf(call) ==
    CASE StageOf(call.name) = "working" \/ call.name = "web_fetch" -> << >>
      [] Splits(call) /\ Len(call.angles) > 1 -> <<call.angles[1]>>
      [] OTHER -> call.angles

\* _status_for_response, tool_response: not every error is told as one.
Quiet == {"category_not_found", "category_ambiguous"}
StageOfAnswer(payload) ==
    IF payload.failed /\ payload.error \notin Quiet THEN "notice"
    ELSE IF payload.failed THEN "notice without words" ELSE "found"
StateOfAnswer(payload) == IF payload.failed THEN "failed" ELSE "completed"

\* project_step_source: sources that have an address and a title.
StepSources(sources) == SelectSeq(sources, LAMBDA s : s.url /\ s.title)

-----------------------------------------------------------------------------
(* What happens to a process. *)

\* The model goes on: after answers of tools, in a new round.
ModelEvent(p) == [p EXCEPT !.ran = FALSE, !.round = IF p.ran THEN @ + 1 ELSE @]

ToolCall(p, call) ==
    LET step == [id |-> <<Len(p.calls) + 1>>, round |-> p.round, stage |-> StageOf(call.name),
                 detail |-> DetailOf(call), state |-> "running"]
    IN  [p EXCEPT !.steps = Append(@, step),
                  !.calls = Append(@, [id |-> call.id, name |-> call.name, step |-> step,
                                       resolved |-> FALSE, told |-> FALSE])]

\* tool_response: the call with the id of the answer; without an id, the first one
\* of its name, or the only one if it has no name either.  0: no call.
Answered(p, id, name) ==
    LET open == {k \in DOMAIN p.calls : ~p.calls[k].resolved}
        ofId == {k \in open : id # "" /\ p.calls[k].id = id}
        ofName == {k \in open : p.calls[k].name = name}
    IN  CASE ofId # {} -> Min(ofId)
          [] ofId = {} /\ id = "" /\ ofName # {} -> Min(ofName)
          [] ofId = {} /\ id = "" /\ ofName = {} /\ name = "" /\ Cardinality(open) = 1 -> Min(open)
          [] OTHER -> 0

Resolved(p, k) == IF k = 0 THEN p ELSE [p EXCEPT !.calls[k].resolved = TRUE]

\* An answer whose call has told of its progress adds no step of its own.
ToolResponse(p, id, name, payload) ==
    LET k == Answered(p, id, name)
        q == [Resolved(p, k) EXCEPT !.ran = TRUE]
        step == [id |-> IF k = 0 THEN << >> ELSE p.calls[k].step.id,
                 round |-> IF k = 0 THEN p.round ELSE p.calls[k].step.round,
                 stage |-> StageOfAnswer(payload), detail |-> << >>,
                 state |-> StateOfAnswer(payload)]
    IN  IF k # 0 /\ p.calls[k].told THEN q ELSE [q EXCEPT !.steps = Append(@, step)]

\* tool_progress: the part i (from 0) of a call begins, or ends with a payload.
\* The beginning of the first part is the step the call has begun with.
ToolProgress(p, event) ==
    LET its == {k \in DOMAIN p.calls : ~p.calls[k].resolved /\ p.calls[k].id = event.id}
        k == Min(its)
        q == [p EXCEPT !.calls[k].told = TRUE]
        known == /\ event.part = 0 /\ ~event.ends
                 /\ p.calls[k].step.stage = event.stage
                 /\ p.calls[k].step.detail = <<event.detail>>
        step == [id |-> IF event.part = 0 THEN <<k>> ELSE <<k, event.part>>,
                 round |-> p.calls[k].step.round,
                 stage |-> IF event.ends THEN StageOfAnswer(event.payload) ELSE event.stage,
                 detail |-> IF event.ends THEN << >> ELSE <<event.detail>>,
                 state |-> IF event.ends THEN StateOfAnswer(event.payload) ELSE "running"]
    IN  IF its = {} THEN p
        ELSE IF known THEN q ELSE [q EXCEPT !.steps = Append(@, step)]

-----------------------------------------------------------------------------
(* ToolProgressGroup.gather: the messages of the parts of a call, in the order *)
(* in which they begin and end; a part that fails ends too.                    *)

Messages(call, ends, failed) ==
    LET message(i, over) ==
            [id |-> call.id, part |-> i - 1, stage |-> StageOf(call.name),
             detail |-> call.angles[i], ends |-> over,
             payload |-> [failed |-> i \in failed, error |-> "fetch"]]
    IN  [i \in DOMAIN call.angles |-> message(i, FALSE)]
            \o [k \in DOMAIN ends |-> message(ends[k], TRUE)]

=============================================================================
