----------------------------- MODULE HistoryPages -----------------------------
(***************************************************************************)
(* What a member sees of stored sessions (history.py, user_data.py): the    *)
(* list, a restored session, the read mark, titles, feedback and clicks;    *)
(* and the history a summary is made of (history_compaction.py).  A store   *)
(* is [sessions, ui, turns, events, feedback, clicks]:                      *)
(*   sessions[s]: [owner, updated, title]; title 0: none                    *)
(*   ui[s]:       [title, read, deleted]; read 0: never                     *)
(*   turns[s]:    the rows of finished turns, [turn, started]               *)
(*   events[s]:   the events that are kept                                  *)
(*   feedback[s]: a function from turns;   clicks[s]: a set                 *)
(* Sessions that are gone are not in DOMAIN sessions.                       *)
(***************************************************************************)
EXTENDS Integers, FiniteSets, SequencesExt

-----------------------------------------------------------------------------
(* Who asks, and for what. *)

NotFound == [status |-> 404]

\* _require_identified: with keys, a key is needed and it must know its member.
Identified(keysEnabled, user) ==
    CASE user = "nobody" /\ ~keysEnabled -> [status |-> 200, user |-> "poc"]
      [] user = "nobody" /\ keysEnabled -> [status |-> 401]
      [] user = "unidentified" -> [status |-> 403]
      [] OTHER -> [status |-> 200, user |-> user]

\* owned_session, and again by the transaction of a write (_run_owned).
Owns(store, user, s) ==
    s \in DOMAIN store.sessions /\ store.sessions[s].owner = user /\ ~store.ui[s].deleted

TurnsOf(store, s) ==
    {row.turn : row \in ToSet(store.turns[s])} \cup {e.turn : e \in ToSet(store.events[s])}
OwnsTurn(store, user, s, turn) == Owns(store, user, s) /\ turn \in TurnsOf(store, s)

-----------------------------------------------------------------------------
(* The list. *)

TitleOf(store, s) == IF store.ui[s].title # 0 THEN store.ui[s].title ELSE store.sessions[s].title
Unread(store, s) == store.sessions[s].updated > store.ui[s].read

\* list_sessions: matching has the titles a search is for (without a search, all).
ListSessions(store, user, matching, limit) ==
    LET shown == {s \in DOMAIN store.sessions :
                    Owns(store, user, s) /\ TitleOf(store, s) \in matching}
        recent == SetToSortSeq(shown, LAMBDA s, t :
                     store.sessions[s].updated > store.sessions[t].updated)
        summary(s) == [session |-> s, title |-> TitleOf(store, s), unread |-> Unread(store, s)]
        listed == SubSeq(recent, 1, Min({limit, Len(recent)}))
    IN  [k \in DOMAIN listed |-> summary(listed[k])]

-----------------------------------------------------------------------------
(* A restored session.  An event has its turn ("none": none), author, kind   *)
(* ("text", "call", "response", "error", "snapshot", "timing", "summary"),   *)
(* text (0: none), whether it is partial, and when it was written (at).      *)

Visible(e) == e.turn # "none" /\ ~e.partial /\ e.kind # "summary"
Marks == {"snapshot", "timing"}

\* The texts of the body; afterTool says that a tool ran since the one before.
Body(told) ==
    LET isText(e) == e.author = "model" /\ e.text # 0
        places == SelectSeq([i \in DOMAIN told |-> i], LAMBDA i : isText(told[i]))
        ran(i, j) == \E n \in i..j - 1 : told[n].kind \in {"call", "response"}
    IN  [k \in DOMAIN places |->
           [text |-> told[places[k]].text,
            afterTool |-> k > 1 /\ ran(places[k - 1], places[k])]]

\* _assemble_turns: the turns of the events in the order in which they began,
\* without those of which only a failure of the model is left.
AssembleTurn(events, turn) ==
    LET its == SelectSeq(events, LAMBDA e : Visible(e) /\ e.turn = turn)
        told == SelectSeq(its, LAMBDA e : e.kind \notin Marks)
        snapshot == \E e \in ToSet(its) : e.kind = "snapshot"
        said == SelectSeq(told, LAMBDA e : e.author = "user" /\ e.text # 0)
        answers == SelectSeq(told, LAMBDA e : e.author = "model")
    IN  [turn |-> turn, started |-> its[1].at,
         ended |-> IF told = << >> THEN its[1].at ELSE Last(told).at,
         user |-> [k \in DOMAIN said |-> said[k].text],
         snapshot |-> snapshot, body |-> IF snapshot THEN << >> ELSE Body(told),
         timed |-> \E e \in ToSet(its) : e.kind = "timing",
         kept |-> \/ snapshot
                  \/ \E e \in ToSet(answers) : e.kind # "error"
                  \/ \A e \in ToSet(answers) : e.kind # "error"]

AssembleTurns(events) ==
    LET visible == SelectSeq(events, Visible)
        turns == FoldLeft(LAMBDA seen, e : IF e.turn \in ToSet(seen) THEN seen
                                           ELSE Append(seen, e.turn), << >>, visible)
    IN  SelectSeq([k \in DOMAIN turns |-> AssembleTurn(events, turns[k])], LAMBDA t : t.kept)

\* session_detail: the rows of turns, read first; then the events of the others.
\* A turn without a row and without a snapshot is put together from its events,
\* and its status is unknown.
SessionDetail(store, later, s) ==
    LET rows == store.turns[s]
        saved == {row.turn : row \in ToSet(rows)}
        others == AssembleTurns(SelectSeq(later.events[s], LAMBDA e : e.turn \notin saved))
        note(turn) == IF turn \in DOMAIN store.feedback[s] THEN store.feedback[s][turn] ELSE "none"
        view(turn, from, started) ==
            [turn |-> turn, from |-> from, started |-> started, feedback |-> note(turn)]
        views == [k \in DOMAIN rows |-> view(rows[k].turn, "row", rows[k].started)]
                 \o [k \in DOMAIN others |->
                       view(others[k].turn, IF others[k].snapshot THEN "snapshot" ELSE "events",
                            others[k].started)]
        order == SortSeq([k \in DOMAIN views |-> k],
                         LAMBDA j, k : \/ views[j].started < views[k].started
                                       \/ views[j].started = views[k].started /\ j < k)
    IN  [k \in DOMAIN order |-> views[order[k]]]

-----------------------------------------------------------------------------
(* Writes.  A request looks at the store (checked), and writes later (store), *)
(* in a transaction that asks again whether the session is the member's.     *)

Write(store, user, s, change) == IF Owns(store, user, s) THEN change ELSE store

MarkRead(checked, store, user, s) ==
    LET seen == checked.sessions[s].updated
    IN  IF ~Owns(checked, user, s) \/ ~Unread(checked, s) THEN store
        ELSE Write(store, user, s, [store EXCEPT !.ui[s].read = Max({@, seen})])

RenameSession(checked, store, user, s, title) ==
    IF ~Owns(checked, user, s) THEN store
    ELSE Write(store, user, s, [store EXCEPT !.ui[s].title = title])

DeleteSession(checked, store, user, s) ==
    IF ~Owns(checked, user, s) THEN store
    ELSE Write(store, user, s, [store EXCEPT !.ui[s].deleted = TRUE])

\* put_turn_feedback; rating "none" takes it back.
PutFeedback(checked, store, user, s, turn, rating) ==
    LET given == store.feedback[s]
        others == Restrict(given, DOMAIN given \ {turn})
    IN  IF ~OwnsTurn(checked, user, s, turn) THEN store
        ELSE Write(store, user, s,
                   [store EXCEPT !.feedback[s] =
                       IF rating = "none" THEN others ELSE others @@ (turn :> rating)])

\* post_turn_click: recorded without asking again.
PostClick(checked, store, user, s, turn, url) ==
    IF ~OwnsTurn(checked, user, s, turn) THEN store
    ELSE [store EXCEPT !.clicks[s] = @ \cup {<<turn, url>>}]

-----------------------------------------------------------------------------
(* The history of a summary: events with the calls they make and answer, by  *)
(* their ids (0: no id).                                                     *)

\* close_dangling_calls: a call that nothing answers is answered by an event of
\* its own right after it.
Dangling(events, e) == (e.calls \ UNION {x.answers : x \in ToSet(events)}) \ {0}
CloseDanglingCalls(events) ==
    FlattenSeq([k \in DOMAIN events |->
        LET open == Dangling(events, events[k])
        IN  IF open = {} THEN <<events[k]>>
            ELSE <<events[k], [calls |-> {}, answers |-> open]>>])

\* schedule_history_compaction.
CompactionDue(configured, promptTokens, threshold) == configured /\ promptTokens >= threshold

=============================================================================
