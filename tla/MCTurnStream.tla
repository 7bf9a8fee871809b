---------------------------- MODULE MCTurnStream ----------------------------
(* TurnStream on a small instance.  A turn in a session waits for its lock;
   one in a new session differs from it in nothing else.  And the steps of tools
   for all short orders of their messages. *)
EXTENDS TurnStream, TLC

MCSession == {"waiting"}

-----------------------------------------------------------------------------

P == INSTANCE ProgressSteps

Seqs(S, n) == UNION {[1..j -> S] : j \in 0..n}
Told(s) == {s[j] : j \in DOMAIN s}

Search == [id |-> "c1", name |-> "yes24_search", angles |-> <<"q1", "q2", "q3">>]
Unnumbered == [id |-> "", name |-> "web_search", angles |-> <<"q1", "q2">>]
Fine == [failed |-> FALSE, error |-> ""]
Bad == [failed |-> TRUE, error |-> "category_ambiguous"]

\* tool_progress.py:73, event_translate.py:580-653: in whatever order the parts of a
\* call end, and whichever of them fail, each is told to begin and to end once,
\* under one number, in the round of the call; the answer of the call adds nothing.
ASSUME PartsAreToldOnce ==
    \A ends \in {f \in [1..3 -> 1..3] : Cardinality(Told(f)) = 3}, bad \in SUBSET (1..3) :
        LET first == P!ToolCall([P!Fresh EXCEPT !.round = 2], Search)
            told == P!FoldLeft(P!ToolProgress, first, P!Messages(Search, ends, bad))
            final == P!ToolResponse(told, "c1", "yes24_search", Fine)
            of(number) == P!SelectSeq(final.steps, LAMBDA st : st.id = number)
        IN  /\ final.steps = told.steps /\ final.calls[1].resolved
            /\ Len(final.steps) = 6
            /\ \A j \in 1..3 :
                 LET its == of(IF j = 1 THEN <<1>> ELSE <<1, j - 1>>)
                 IN  /\ Len(its) = 2 /\ its[1].state = "running"
                     /\ its[2].state = IF j \in bad THEN "failed" ELSE "completed"
                     /\ its[1].round = 2 /\ its[2].round = 2

Happenings == {"search", "plain", "answer c1", "answer c2", "answer by name", "answer", "message",
               "model"}
Happens(p, what) ==
    CASE what = "search" -> P!ToolCall(p, Search)
      [] what = "plain" -> P!ToolCall(p, Unnumbered)
      [] what = "answer c1" -> P!ToolResponse(p, "c1", "yes24_search", Fine)
      [] what = "answer c2" -> P!ToolResponse(p, "c2", "web_search", Fine)
      [] what = "answer by name" -> P!ToolResponse(p, "", "web_search", Bad)
      [] what = "answer" -> P!ToolResponse(p, "", "", Fine)
      [] what = "message" -> P!ToolProgress(p, P!Messages(Search, << >>, {})[2])
      [] what = "model" -> P!ModelEvent(p)
Course(s) == P!FoldLeft(Happens, P!Fresh, s)
Ends(st) == st.state \in {"completed", "failed"}

\* event_translate.py:597: no answer ends two calls or a call that has ended, an
\* answer with a number that is not known ends none, and answers without numbers
\* end the calls of their name in their order.
ASSUME AnswersFindTheirCalls ==
    \A s \in Seqs(Happenings, 5) :
        LET p == Course(s)
            ended == {j \in DOMAIN p.calls : p.calls[j].resolved}
            answers(w) == Len(P!SelectSeq(s, LAMBDA x : x = w))
            plain == {j \in DOMAIN p.calls : p.calls[j].id = ""}
        IN  /\ Cardinality(ended) <= answers("answer c1") + answers("answer by name") + answers("answer")
            /\ answers("answer") = 0 =>
                 /\ Cardinality(ended \ plain) <= answers("answer c1")
                 /\ \A j, l \in plain : j < l /\ l \in ended => j \in ended

ASSUME AnswersGoRound ==
    \A n, ans \in 0..3 :
        LET p == Course([j \in 1..n + ans |-> IF j <= n THEN "plain" ELSE "answer by name"])
        IN  {j \in DOMAIN p.calls : p.calls[j].resolved} = {j \in 1..n : j <= ans}

\* event_translate.py:617: whatever ends was begun before under the same number and
\* in the same round, also when the model went on between the two.
ASSUME EndsBelongToBeginnings ==
    \A s \in Seqs(Happenings, 5) :
        LET shown == Course(s).steps
        IN  \A j \in DOMAIN shown : Ends(shown[j]) /\ shown[j].id # << >> =>
                \E l \in 1..j - 1 : /\ shown[l].id = shown[j].id /\ shown[l].state = "running"
                                    /\ shown[l].round = shown[j].round

=============================================================================
