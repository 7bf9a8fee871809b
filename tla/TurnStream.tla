------------------------------ MODULE TurnStream ------------------------------
(***************************************************************************)
(* One chat turn: the generator runner.run_agent_stream, from the lock of   *)
(* its session to the row of usage it leaves, with the client that may      *)
(* leave at any frame and at any wait.                                      *)
(*                                                                          *)
(* The generator computes frames and yields them one at a time: `out' holds *)
(* those it has yet to yield, `wire' those the client took.  Everything     *)
(* else it does between two yields is one step.                             *)
(*                                                                          *)
(* Text is a sequence of tokens, a word or a citation marker, tagged with   *)
(* the round (model call of the answer loop) and the try that wrote it.     *)
(* One source stands for all: a marker is good once the source is known.    *)
(* Thought labels, the RBTI frame and log lines are left out.               *)
(***************************************************************************)
EXTENDS Naturals, Sequences, FiniteSets, SequencesExt

CONSTANTS
    Entry,          \* where a turn may begin: "waiting" for the lock of its
                    \* session, or "preparing" a new session, which has none
    Nothing,        \* no snapshot, no usage row, no round
    MaxText,        \* bound: tokens of one attempt
    MaxCalls,       \* bound: tool calls of one attempt
    MaxCallRetries  \* settings.model_call_retries

\* What the model writes, what the screen shows of it, and what is kept of a turn.
Tokens == [mark : BOOLEAN, round : Nat, try : Nat]
Shown == [form : {"word", "number", "raw", "apology"}, round : Nat, try : Nat]
Snapshots == [text : Seq(Shown),
              status : {"none", "completed", "failed", "interrupted"}]

ASSUME TurnAssumption ==
    /\ Entry \subseteq {"waiting", "preparing"}
    /\ MaxText \in Nat /\ MaxCalls \in Nat /\ MaxCallRetries \in Nat
    /\ Nothing \notin Nat /\ Nothing \notin Snapshots

VARIABLES
    pc,          \* where the generator is
    holding,     \* lock_acquired
    out,         \* frames computed and not yet yielded
    wire,        \* frames the client took
    raw,         \* raw_body: what the model wrote
    streamed,    \* what went out of it, in display form
    finalText,   \* the aggregate text of a model that does not stream
    known,       \* known_sources has the cited source
    round,       \* TurnProcess.round
    phase,       \* TurnProcess._content_phase
    toolPending, \* TurnProcess._tool_pending
    calls,       \* tool calls of this attempt
    open,        \* those without a response
    progressed,  \* open calls whose progress was shown
    steps,       \* TurnProcess.steps
    started,     \* CallRetry.started: the present model call has answered
    tries,       \* CallRetry.retry
    emitted,     \* emitted_output
    retried,     \* the turn used its rerun on another model
    identified,  \* turn_id is set
    outcome,     \* outcome of the usage row
    answer,      \* the payload of done: text and status
    saved, sent, \* completion
    inflight,    \* the snapshot the generator waits to see stored
    orphan,      \* one whose wait was cancelled: its transaction goes on
    stored,      \* the chat_turn row
    usage,       \* the outcome in the usage row
    begun,       \* history: an event of the model reached the generator
    lost,        \* history: a snapshot could not be made or written
    cutInSave    \* history: the client left while done's snapshot was stored

text == <<raw, streamed, finalText, known>>
process == <<round, phase, toolPending, calls, open, progressed, steps>>
request == <<started, tries>>
attempt == <<emitted, retried>>
result == <<outcome, answer, saved, sent>>
store == <<inflight, orphan, stored, usage>>
history == <<begun, lost, cutInSave>>
vars == <<pc, holding, out, wire, text, process, request, attempt, identified,
          result, store, history>>

-----------------------------------------------------------------------------
(* Frames and text. *)

\* The elements of a sequence at the given places.
Chosen(s, places) ==
    LET upto[i \in 0..Len(s)] ==
            IF i = 0 THEN <<>>
            ELSE IF i \in places THEN Append(upto[i - 1], s[i]) ELSE upto[i - 1]
    IN  upto[Len(s)]

Plain(kind) == [kind |-> kind]
Delta(chunk, r) == [kind |-> "delta", text |-> chunk, round |-> r]
Content(ph, r) == [kind |-> "content", phase |-> ph, round |-> r]
Step(id, state, r) == [kind |-> "step", id |-> id, state |-> state, round |-> r]

\* Apology: _EMPTY_RESPONSE_FALLBACK and the messages of a failed setup.
Apology == <<[form |-> "apology", round |-> 0, try |-> 0]>>

Displayed(token, form) ==
    [form |-> form, round |-> token.round, try |-> token.try]

HasNumber(shown) == \E i \in DOMAIN shown : shown[i].form = "number"

\* _stable_prefix: a marker at the end may still grow, so it waits.
Stable(body) == IF body # <<>> /\ Last(body).mark THEN Len(body) - 1 ELSE Len(body)

\* StreamRenumberer.feed: what can go out now.  A marker of a source that is
\* known gets its display number, another one goes out as it is.
Feed(body, final) ==
    LET upto == IF final THEN Len(body) ELSE Stable(body)
        Form(token) == CASE ~token.mark -> "word"
                         [] token.mark /\ known -> "number"
                         [] OTHER -> "raw"
    IN  [i \in 1..(upto - Len(streamed)) |->
            LET token == body[Len(streamed) + i] IN Displayed(token, Form(token))]

\* Mutant: the text goes out before its hint.
DisplayFramesHintLate(chunk, r, ph) ==
    LET refs == IF HasNumber(chunk) /\ ~HasNumber(streamed)
                THEN <<Plain("refs"), Plain("preview")>> ELSE <<>>
        role == IF ph = "none" THEN <<Content("provisional", r)>> ELSE <<>>
    IN  IF chunk = <<>> THEN <<>> ELSE role \o <<Delta(chunk, r)>> \o refs

\* _display_frames: refs and the preview card come before the first text that
\* carries the number.
DisplayFrames(chunk, r, ph) ==
    LET refs == IF HasNumber(chunk) /\ ~HasNumber(streamed)
                THEN <<Plain("refs"), Plain("preview")>> ELSE <<>>
        role == IF ph = "none" THEN <<Content("provisional", r)>> ELSE <<>>
    IN  IF chunk = <<>> THEN <<>> ELSE refs \o role \o <<Delta(chunk, r)>>

PhaseAfter(chunk, ph) == IF chunk # <<>> /\ ph = "none" THEN "provisional" ELSE ph

\* _best_effort_text and finalize_answer: markers of known sources get their
\* number, the others are dropped.
Finalized ==
    LET body == IF raw # <<>> THEN raw ELSE finalText
        kept == Chosen(body, {i \in DOMAIN body : ~body[i].mark \/ known})
    IN  [i \in DOMAIN kept |->
            Displayed(kept[i], IF kept[i].mark THEN "number" ELSE "word")]

\* What is left when finalizing itself fails: the text that went out, without
\* the markers that no preview card answers for.
Salvaged(shown) == Chosen(shown, {i \in DOMAIN shown : shown[i].form # "raw"})

\* _ensure_substantive_text.
Substantive(final) == IF final = <<>> THEN Apology ELSE final

\* Mutant: the settled text is appended to what it replaces.
BodyFramesWithoutReset(shown, final) ==
    LET changed == shown # final
    IN  <<Plain("sources")>>
        \o (IF changed /\ HasNumber(final) THEN <<Plain("refs")>> ELSE <<>>)
        \o (IF changed THEN <<Delta(final, Nothing)>> ELSE <<>>)
        \o <<Plain("answer")>>

\* _emit_final_body.
BodyFrames(shown, final) ==
    LET changed == shown # final
    IN  (IF changed /\ shown # <<>> THEN <<Plain("reset")>> ELSE <<>>)
        \o <<Plain("sources")>>
        \o (IF changed /\ HasNumber(final) THEN <<Plain("refs")>> ELSE <<>>)
        \o (IF changed THEN <<Delta(final, Nothing)>> ELSE <<>>)
        \o <<Plain("answer")>>

Done(payload, isSaved) ==
    [kind |-> "done", text |-> payload.text, status |-> payload.status, saved |-> isSaved]

-----------------------------------------------------------------------------
Init ==
    /\ pc \in Entry
    /\ holding = FALSE
    /\ out = <<>> /\ wire = <<>>
    /\ raw = <<>> /\ streamed = <<>> /\ finalText = <<>>
    /\ known \in BOOLEAN                    \* the registry of earlier turns
    /\ round = 0 /\ phase = "none" /\ toolPending = FALSE
    /\ calls = 0 /\ open = {} /\ progressed = {} /\ steps = <<>>
    /\ started = FALSE /\ tries = 0
    /\ emitted = FALSE /\ retried = FALSE
    /\ identified = FALSE
    /\ outcome = "aborted"
    /\ answer = [text |-> <<>>, status |-> "none"]
    /\ saved = FALSE /\ sent = FALSE
    /\ inflight = Nothing /\ orphan = Nothing /\ stored = Nothing
    /\ usage = Nothing
    /\ begun = FALSE /\ lost = FALSE /\ cutInSave = FALSE

\* The client takes the next frame.
Send ==
    /\ out # <<>>
    /\ wire' = Append(wire, Head(out))
    /\ out' = Tail(out)
    /\ UNCHANGED <<pc, holding, text, process, request, attempt, identified,
                   result, store, history>>

At(place) == pc = place /\ out = <<>>

-----------------------------------------------------------------------------
(* Before the stream. *)

\* The earlier turn of the session has released the lock.
Acquire ==
    /\ At("waiting")
    /\ holding' = TRUE
    /\ pc' = "preparing"
    /\ UNCHANGED <<out, wire, text, process, request, attempt, identified,
                   result, store, history>>

\* prepare() came back in time.
SetUp ==
    /\ At("preparing")
    /\ pc' = "streaming"
    /\ UNCHANGED <<holding, out, wire, text, process, request, attempt,
                   identified, result, store, history>>

\* prepare() failed or ran into turn_setup_timeout_s: an apology, and nothing
\* is kept of the turn.
SetUpFails ==
    /\ At("preparing")
    /\ out' = <<Plain("error")>> \o BodyFrames(<<>>, Apology)
                \o <<Done([text |-> Apology, status |-> "failed"], FALSE)>>
    /\ pc' = "refusing"
    /\ UNCHANGED <<holding, wire, text, process, request, attempt, identified,
                   result, store, history>>

-----------------------------------------------------------------------------
(* The events of the agent.  A model event that follows a tool response opens
   a round. *)

Reading == At("streaming") /\ open = {}

Round == IF toolPending THEN round + 1 ELSE round
Phase == IF toolPending THEN "none" ELSE phase

ModelEvent ==
    /\ round' = Round
    /\ toolPending' = FALSE
    /\ started' = TRUE
    /\ identified' = TRUE
    /\ begun' = TRUE
    /\ UNCHANGED <<pc, holding, wire, tries, retried, known, result, store, lost,
                   cutInSave>>

\* A partial event with text.
Text(mark) ==
    LET body == Append(raw, [mark |-> mark, round |-> Round, try |-> tries])
        chunk == Feed(body, FALSE)
    IN  /\ Reading /\ Len(raw) < MaxText
        /\ raw' = body
        /\ streamed' = streamed \o chunk
        /\ out' = DisplayFrames(chunk, Round, Phase)
        /\ emitted' = (emitted \/ chunk # <<>>)
        /\ phase' = PhaseAfter(chunk, Phase)
        /\ ModelEvent
        /\ UNCHANGED <<finalText, calls, open, progressed, steps>>

\* The answer of a model that does not stream comes in one piece.
FinalText ==
    /\ Reading /\ raw = <<>>
    /\ finalText' = <<[mark |-> FALSE, round |-> Round, try |-> tries]>>
    /\ phase' = Phase
    /\ ModelEvent
    /\ UNCHANGED <<out, raw, streamed, emitted, calls, open, progressed, steps>>

\* The model calls n tools: the text of the round ends here, so its tail goes
\* out, the round is announced as narration, and each call is a step.
CallTools(n) ==
    LET chunk == Feed(raw, TRUE)
        shownPhase == PhaseAfter(chunk, Phase)
        called == [i \in 1..n |-> Step(calls + i, "running", Round)]
    IN  /\ Reading /\ n \in 1..(MaxCalls - calls)
        /\ streamed' = streamed \o chunk
        /\ out' = DisplayFrames(chunk, Round, Phase)
                    \o (IF shownPhase = "provisional"
                        THEN <<Content("narration", Round)>> ELSE <<>>)
                    \o called
        /\ phase' = IF shownPhase = "provisional" THEN "narration" ELSE shownPhase
        /\ emitted' = TRUE
        /\ calls' = calls + n
        /\ open' = (calls + 1)..(calls + n)
        /\ progressed' = {}
        /\ steps' = steps \o called
        /\ ModelEvent
        /\ UNCHANGED <<raw, finalText>>

\* A tool reports progress on its own call (ToolProgress): the response adds no
\* step then.  One report per call is enough.
Progress(c, state) ==
    /\ At("streaming") /\ c \in open \ progressed
    /\ out' = <<Step(c, state, round)>>
    /\ steps' = steps \o out'
    /\ progressed' = progressed \cup {c}
    /\ UNCHANGED <<pc, holding, wire, text, round, phase, toolPending, calls, open,
                   request, attempt, identified, result, store, history>>

\* The responses of all open calls, in one event.  A call without progress
\* gets its closing step; the source may be among the results, and a card that
\* is already shown may be redrawn.  The agent then asks the model again.
Respond(found, redrawn) ==
    LET silent == Chosen([c \in 1..calls |-> c], open \ progressed)
        closed == [i \in DOMAIN silent |-> Step(silent[i], "completed", round)]
    IN  /\ At("streaming") /\ open # {}
        /\ redrawn => found /\ HasNumber(streamed)
        /\ steps' = steps \o closed
        /\ out' = closed \o (IF redrawn THEN <<Plain("preview")>> ELSE <<>>)
        /\ known' = (known \/ found)
        /\ open' = {} /\ progressed' = {}
        /\ toolPending' = TRUE
        /\ started' = FALSE /\ tries' = 0
        /\ UNCHANGED <<pc, holding, wire, raw, streamed, finalText, round, phase, calls,
                       attempt, identified, result, store, history>>

\* The stream is over: the held tail goes out.
StreamEnds ==
    LET chunk == Feed(raw, TRUE)
    IN  /\ Reading
        /\ streamed' = streamed \o chunk
        /\ out' = DisplayFrames(chunk, round, phase)
        /\ phase' = PhaseAfter(chunk, phase)
        /\ pc' = "settling"
        /\ UNCHANGED <<holding, wire, raw, finalText, known, round, toolPending, calls,
                       open, progressed, steps, request, attempt, identified, result, store,
                       history>>

-----------------------------------------------------------------------------
(* Failures of the stream. *)

\* CallRetry: a model call that failed before its first answer, on a transient
\* status other than 429, is made again.
RepeatCall ==
    /\ Reading
    /\ ~started /\ tries < MaxCallRetries
    /\ tries' = tries + 1
    /\ UNCHANGED <<pc, holding, out, wire, text, process, started, attempt,
                   identified, result, store, history>>

\* retry_model's `retryable': no step and no text has gone out.
Retryable == ~retried /\ ~emitted

\* Everything the attempt gathered is dropped, and the turn runs again on the
\* fallback model.  `known' keeps what the tools of the first attempt found:
\* there was none, or a step would have gone out.
Rerun(event) ==
    /\ At("streaming")
    /\ Retryable
    /\ retried' = TRUE
    /\ raw' = <<>> /\ streamed' = <<>> /\ finalText' = <<>>
    /\ round' = 0 /\ phase' = "none" /\ toolPending' = FALSE
    /\ calls' = 0 /\ open' = {} /\ progressed' = {} /\ steps' = <<>>
    /\ started' = FALSE /\ tries' = 0
    /\ identified' = (identified \/ event)
    /\ begun' = (begun \/ event)
    /\ UNCHANGED <<pc, holding, out, wire, known, emitted, result, store, lost, cutInSave>>

\* The stream fails for good: an error event, which carries the turn's id and
\* perhaps a text of its own, an exception, or no event within sse_timeout_s.
BreakIn(kind, event, said) ==
    /\ At("streaming")
    /\ kind = "timeout" => ~event
    /\ said => event /\ raw = <<>>
    /\ finalText' = IF said THEN <<[mark |-> FALSE, round |-> Round, try |-> tries]>>
                    ELSE finalText
    /\ begun' = (begun \/ event)
    /\ pc' = "failing"
    /\ UNCHANGED <<holding, out, wire, raw, streamed, known, process, request, attempt,
                   answer, saved, sent, store, lost, cutInSave>>

Break(kind, event, said) ==
    /\ BreakIn(kind, event, said)
    /\ outcome' = kind
    /\ identified' = (identified \/ event)

-----------------------------------------------------------------------------
(* Closing the stream. *)

\* The sources are settled with the registry (an await); then the answer is
\* made and shown.
Settle ==
    LET final == Substantive(Finalized)
        empty == Finalized = <<>>
    IN  /\ At("settling")
        /\ outcome' = IF empty THEN "empty" ELSE "ok"
        /\ answer' = [text |-> final, status |-> IF empty THEN "failed" ELSE "completed"]
        /\ out' = (IF empty THEN <<Plain("error")>> ELSE <<>>) \o BodyFrames(streamed, final)
        /\ pc' = "enriching"
        /\ UNCHANGED <<holding, wire, text, process, request, attempt, identified,
                       saved, sent, store, history>>

\* Making the answer raises.
SettleFails ==
    /\ At("settling")
    /\ outcome' = "error"
    /\ pc' = "failing"
    /\ UNCHANGED <<holding, out, wire, text, process, request, attempt, identified,
                   answer, saved, sent, store, history>>

\* The side calls for follow-ups, reasons and a title; they may bring nothing.
Enrich(meta) ==
    /\ At("enriching")
    /\ out' = IF meta THEN <<Plain("meta")>> ELSE <<>>
    /\ pc' = "persisting"
    /\ UNCHANGED <<holding, wire, text, process, request, attempt, identified, result,
                   store, history>>

\* _closeout_error_frames up to its save, after the sources are settled.
Closeout(broken) ==
    LET chunk == Feed(raw, TRUE)
        shown == streamed \o chunk
        final == Substantive(IF broken THEN Salvaged(shown) ELSE Finalized)
    IN  /\ At("failing")
        /\ streamed' = shown
        /\ phase' = PhaseAfter(chunk, phase)
        /\ answer' = [text |-> final, status |-> "failed"]
        /\ out' = <<Plain("error")>> \o DisplayFrames(chunk, round, phase)
                    \o BodyFrames(shown, final)
        /\ pc' = "persisting"
        /\ UNCHANGED <<holding, wire, raw, finalText, known, round, toolPending, calls,
                       open, progressed, steps, request, attempt, identified, outcome, saved,
                       sent, store, history>>

\* A turn without an id has nothing to be stored under.
Persist ==
    /\ At("persisting")
    /\ IF identified
       THEN /\ inflight' = answer
            /\ pc' = "saving"
            /\ UNCHANGED <<out, saved, sent>>
       ELSE /\ sent' = TRUE
            /\ out' = <<Done(answer, FALSE)>>
            /\ pc' = "ending"
            /\ UNCHANGED <<inflight, saved>>
    /\ UNCHANGED <<holding, wire, text, process, request, attempt, identified, outcome,
                   answer, orphan, stored, usage, history>>

\* save_turn: the first snapshot of a turn is the one that stays.
Keep(snapshot) == IF stored = Nothing THEN snapshot ELSE stored

\* The usage row is handed over, the lock released: the generator is gone.
Closed(how) ==
    /\ usage' = how
    /\ holding' = FALSE
    /\ pc' = "gone"

\* The generator goes on after its save: to done, or to its end.
Resume(isSaved) ==
    IF pc = "saving"
    THEN /\ saved' = isSaved
         /\ sent' = TRUE
         /\ out' = <<Done(answer, isSaved)>>
         /\ pc' = "ending"
         /\ UNCHANGED <<holding, usage>>
    ELSE /\ Closed(outcome)
         /\ UNCHANGED <<out, saved, sent>>

\* The transaction commits: saved, if the row is the snapshot.
Commit ==
    /\ inflight # Nothing
    /\ stored' = Keep(inflight)
    /\ inflight' = Nothing
    /\ Resume(stored' = inflight)
    /\ UNCHANGED <<wire, text, process, request, attempt, identified, outcome,
                   answer, orphan, history>>

\* The session is gone, or the database fails: after the commit, perhaps.
WriteFails(landed) ==
    /\ inflight # Nothing
    /\ stored' = IF landed THEN Keep(inflight) ELSE stored
    /\ inflight' = Nothing
    /\ lost' = TRUE
    /\ Resume(FALSE)
    /\ UNCHANGED <<wire, text, process, request, attempt, identified, outcome,
                   answer, orphan, begun, cutInSave>>

\* A save whose caller has gone runs to its end (db.run_detached).
OrphanEnds(landed) ==
    /\ orphan # Nothing
    /\ stored' = IF landed THEN Keep(orphan) ELSE stored
    /\ orphan' = Nothing
    /\ lost' = (lost \/ ~landed)
    /\ UNCHANGED <<pc, holding, out, wire, text, process, request, attempt, identified,
                   result, inflight, usage, begun, cutInSave>>

-----------------------------------------------------------------------------
(* Leaving: the client, and the finally blocks. *)

NotSetUp == {"waiting", "preparing", "refusing"}
Served == {"streaming", "settling", "enriching", "failing", "persisting", "saving",
           "ending"}

\* The client is gone: GeneratorExit at a yield, cancellation at an await.
Disconnect ==
    /\ pc \in NotSetUp \cup Served
    /\ out' = <<>>
    /\ pc' = IF pc \in NotSetUp THEN "leaving" ELSE "cleanup"
    /\ orphan' = IF pc = "saving" THEN inflight ELSE orphan
    /\ inflight' = Nothing
    /\ cutInSave' = (pc = "saving")
    /\ UNCHANGED <<holding, wire, text, process, request, attempt, identified, result,
                   stored, usage, begun, lost>>

\* The finally block begins when the client has gone or the last frame has
\* been taken.
InFinally == pc = "cleanup" \/ At("ending")

\* Mutant: a snapshot that could not be saved is tried again as interrupted,
\* although done has been sent.
InterruptedUnsaved == ~saved /\ identified

\* No done was ready to be sent.
Interrupted == ~saved /\ ~sent /\ identified

\* What the model wrote is kept as an interrupted turn.  The client's
\* cancellation does not reach here (a shielded scope).
Rescue ==
    /\ InFinally /\ Interrupted
    /\ outcome' = "aborted"
    /\ inflight' = [text |-> Finalized, status |-> "interrupted"]
    /\ pc' = "rescuing"
    /\ UNCHANGED <<holding, out, wire, text, process, request, attempt, identified,
                   answer, saved, sent, orphan, stored, usage, history>>

\* Making that snapshot raises.
RescueFails ==
    /\ InFinally /\ Interrupted
    /\ outcome' = "aborted"
    /\ lost' = TRUE
    /\ Closed("aborted")
    /\ UNCHANGED <<out, wire, text, process, request, attempt, identified, answer,
                   saved, sent, inflight, orphan, stored, begun, cutInSave>>

\* Nothing to rescue.
Close ==
    /\ InFinally /\ ~Interrupted
    /\ Closed(outcome)
    /\ UNCHANGED <<out, wire, text, process, request, attempt, identified, result,
                   inflight, orphan, stored, history>>

\* Mutant: the lock is released at the end of the stream only.
LeaveLocked ==
    /\ pc = "leaving" \/ At("refusing")
    /\ pc' = "gone"
    /\ UNCHANGED <<holding, out, wire, text, process, request, attempt, identified,
                   result, store, history>>

\* A turn that never got to its stream has no usage row.
Leave ==
    /\ pc = "leaving" \/ At("refusing")
    /\ holding' = FALSE
    /\ pc' = "gone"
    /\ UNCHANGED <<out, wire, text, process, request, attempt, identified, result,
                   store, history>>

Gone == pc = "gone" /\ orphan = Nothing /\ UNCHANGED vars

-----------------------------------------------------------------------------
Stream ==
    \/ \E mark \in BOOLEAN : Text(mark)
    \/ FinalText
    \/ \E n \in 1..MaxCalls : CallTools(n)
    \/ \E c \in open, state \in {"running", "completed"} : Progress(c, state)
    \/ \E found, redrawn \in BOOLEAN : Respond(found, redrawn)
    \/ StreamEnds
    \/ RepeatCall
    \/ \E event \in BOOLEAN : Rerun(event)
    \/ \E kind \in {"error", "timeout"}, event, said \in BOOLEAN :
         Break(kind, event, said)

Closing ==
    \/ Settle \/ SettleFails
    \/ \E meta \in BOOLEAN : Enrich(meta)
    \/ \E broken \in BOOLEAN : Closeout(broken)
    \/ Persist
    \/ Commit
    \/ \E landed \in BOOLEAN : WriteFails(landed)
    \/ Rescue \/ RescueFails \/ Close
    \/ Leave

Advance == Send \/ Acquire \/ SetUp \/ SetUpFails \/ Stream \/ Closing

Next ==
    \/ Advance
    \/ \E landed \in BOOLEAN : OrphanEnds(landed)
    \/ Disconnect
    \/ Gone

Spec == Init /\ [][Next]_vars

\* The generator runs on: every wait of it has a limit or an answer (the lock
\* by its holder's, the setup by turn_setup_timeout_s, an event by
\* sse_timeout_s, the side calls by enrichment_timeout_s; that the database
\* answers and the client reads is assumed).  The client need not leave.
FairSpec == Spec /\ WF_vars(Advance)

-----------------------------------------------------------------------------
(* Properties. *)

Outcomes == {"aborted", "ok", "empty", "error", "timeout"}

Frames ==
    [kind : {"error", "refs", "preview", "reset", "sources", "answer", "meta"}]
    \cup [kind : {"delta"}, text : Seq(Shown), round : Nat \cup {Nothing}]
    \cup [kind : {"content"}, phase : {"provisional", "narration"}, round : Nat]
    \cup [kind : {"step"}, id : 1..MaxCalls, state : {"running", "completed"}, round : Nat]
    \cup [kind : {"done"}, text : Seq(Shown), saved : BOOLEAN,
          status : {"none", "completed", "failed", "interrupted"}]

\* Types, and what the places of the generator say of the rest.
TypeOK ==
    /\ pc \in NotSetUp \cup Served \cup {"cleanup", "rescuing", "leaving", "gone"}
    /\ {holding, known, toolPending, started, emitted, retried, identified, saved,
        sent, begun, lost, cutInSave} \subseteq BOOLEAN
    /\ wire \in Seq(Frames) /\ out \in Seq(Frames) /\ steps \in Seq(Frames)
    /\ raw \in Seq(Tokens) /\ finalText \in Seq(Tokens) /\ streamed \in Seq(Shown)
    /\ Len(streamed) <= Len(raw) /\ Len(raw) <= MaxText
    /\ round \in Nat /\ calls \in 0..MaxCalls /\ tries \in 0..MaxCallRetries
    /\ phase \in {"none", "provisional", "narration"}
    /\ progressed \subseteq open /\ open \subseteq 1..calls
    /\ outcome \in Outcomes /\ usage \in Outcomes \cup {Nothing}
    /\ answer \in Snapshots
    /\ {inflight, orphan, stored} \subseteq Snapshots \cup {Nothing}
    /\ inflight # Nothing <=> pc \in {"saving", "rescuing"}
    /\ saved => sent
    /\ pc = "failing" => outcome \in {"error", "timeout"}
    /\ pc = "enriching" => outcome \in {"ok", "empty"}

\* The client's view of the stream: the stage it is in and the text on screen.
StageAfter(before, frame) ==
    CASE frame.kind = "reset" -> "revised"
      [] frame.kind = "sources" -> "settled"
      [] frame.kind = "delta" /\ before = "settled" -> "corrected"
      [] frame.kind = "answer" -> "answered"
      [] frame.kind = "meta" -> "extra"
      [] frame.kind = "done" -> "done"
      [] OTHER -> before

ScreenAfter(before, frame) ==
    CASE frame.kind = "reset" -> <<>>
      [] frame.kind = "delta" -> before \o frame.text
      [] OTHER -> before

StageOf(frames) ==
    LET after[i \in 0..Len(frames)] ==
            IF i = 0 THEN "live" ELSE StageAfter(after[i - 1], frames[i])
    IN  after[Len(frames)]

ScreenOf(frames) ==
    LET after[i \in 0..Len(frames)] ==
            IF i = 0 THEN <<>> ELSE ScreenAfter(after[i - 1], frames[i])
    IN  after[Len(frames)]

OfKind(frames, kinds) == {i \in DOMAIN frames : frames[i].kind \in kinds}

Ended == OfKind(wire, {"done"}) # {}
Verdict == wire[CHOOSE i \in OfKind(wire, {"done"}) : TRUE]

Contract == INSTANCE TurnContract WITH
    NoVerdict <- Nothing,
    stage <- StageOf(wire),
    screen <- ScreenOf(wire),
    notes <- Cardinality(OfKind(wire, {"error", "step", "preview", "content"})),
    verdict <- IF Ended THEN Verdict.text ELSE Nothing

\* The frames keep the order the docstring of run_agent_stream promises, on
\* the normal path, on failures, after a rerun, whatever the model cites, and
\* done.text is the text on the screen.
ContractHolds == Contract!Spec

\* A hint (id and url) comes before the first text that carries its number
\* (_display_frames, _emit_final_body).
HintBeforeMarker ==
    \A i \in DOMAIN wire :
        wire[i].kind = "delta" /\ HasNumber(wire[i].text)
            => \E j \in 1..(i - 1) : wire[j].kind = "refs"

\* Live text goes out under the round that wrote it, its held tail included
\* (the flush at a tool call).
TextInItsRound ==
    \A i \in DOMAIN wire :
        wire[i].kind = "delta" /\ wire[i].round # Nothing
            => \A k \in DOMAIN wire[i].text : wire[i].text[k].round = wire[i].round

\* The text of one round on the screen comes from one model call: a call that
\* is repeated, or a rerun turn, had shown nothing (CallRetry, retry_model).
OneCallPerRound ==
    LET screen == ScreenOf(wire)
    IN  \A i, j \in DOMAIN screen :
            screen[i].round = screen[j].round => screen[i].try = screen[j].try

\* The steps the client saw or is about to see are those that done.process
\* lists: a rerun, which starts a new list, has none to take back.
StepsAsListed ==
    pc \in Served =>
        LET frames == wire \o out
        IN  Chosen(frames, OfKind(frames, {"step"})) = steps

\* Before a round's tool step, the text of that round has been announced as
\* narration (TurnProcess.content_event).
NarrationAnnounced ==
    \A i, j \in DOMAIN wire :
        /\ j < i
        /\ wire[i].kind = "step" /\ wire[j].kind = "delta"
        /\ wire[i].round = wire[j].round
        => \E k \in j..i : wire[k] = Content("narration", wire[i].round)

\* What is on the screen belongs where it stands: text to the call and the round
\* that wrote it, after its hint; a round's steps after its narration; and all
\* steps are listed (_display_frames, content_event, the flush at a tool call).
WireInOrder ==
    HintBeforeMarker /\ TextInItsRound /\ OneCallPerRound /\ StepsAsListed /\ NarrationAnnounced

\* What done said is what history has, or history has nothing; and it has it
\* if done said history_saved.  A turn that was told its end is never stored
\* as interrupted (completion, the finally block of run_agent_stream).
HistoryAgrees ==
    Ended => LET told == [text |-> Verdict.text, status |-> Verdict.status]
             IN  IF Verdict.saved THEN stored = told ELSE stored \in {Nothing, told}

\* A turn the model has begun is in history when its generator is gone, or
\* its save is still under way, unless writing failed: the client's leaving
\* loses nothing, nor does a failure of the first model call.
BegunTurnKept ==
    pc = "gone" /\ begun /\ ~lost => {stored, orphan} # {Nothing}

\* The usage row and history tell the same end of the turn, unless the client
\* left while the snapshot of done was being stored.
UsageAgrees ==
    pc = "gone" /\ stored # Nothing /\ ~cutInSave =>
        CASE stored.status = "completed" -> usage = "ok"
          [] stored.status = "failed" -> usage \in {"empty", "error", "timeout"}
          [] OTHER -> usage = "aborted"

\* Done, history and the usage row tell one story of a turn, and a turn that began
\* has one, on every path out of it (completion, the finally block).
EndRecorded == HistoryAgrees /\ BegunTurnKept /\ UsageAgrees

\* A turn ends and gives its lock back, whatever fails.
TurnEnds == <>[](pc = "gone" /\ ~holding)
=============================================================================
