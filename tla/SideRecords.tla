----------------------------- MODULE SideRecords -----------------------------
(***************************************************************************)
(* What is recorded beside the work itself: the usage rows of a turn        *)
(* (usage.py: UsageScope, UsageLogger) and the alerts of errors (alerts.py: *)
(* SlackAlertHandler), as functions of what has happened so far.            *)
(***************************************************************************)
EXTENDS Integers, SequencesExt

-----------------------------------------------------------------------------
(* Usage rows.  A row is [of, turn], with the turn 0 if its writer names none; *)
(* a scope is [turn, closed, pending, written].                              *)

UsageScope == [turn |-> 0, closed |-> FALSE, pending |-> << >>, written |-> << >>]

\* A row waits until the turn has its number; what comes later is written at once.
Record(scope, row) ==
    IF ~scope.closed THEN [scope EXCEPT !.pending = Append(@, row)]
    ELSE LET turn == IF row.turn = 0 THEN scope.turn ELSE row.turn
         IN  [scope EXCEPT !.written = Append(@, [row EXCEPT !.turn = turn])]

Finish(scope, turn) ==
    FoldLeft(Record, [scope EXCEPT !.turn = turn, !.closed = TRUE, !.pending = << >>],
             scope.pending)

\* record_usage: a call that reported nothing has no row, and without a database
\* there are none.  A call outside of any turn writes its row as it is.
RecordUsage(scope, row, reported, enabled) ==
    IF reported /\ enabled THEN Record(scope, row) ELSE scope

-----------------------------------------------------------------------------
(* Alerts.  h is [queue, windows, sent, lost, now, state]: a key of windows has *)
(* [end, extra], or NoWindow; Span is how long a window lasts, Room how many  *)
(* errors wait.                                                              *)

NoWindow == [end |-> 0, extra |-> -1]
Stop == "stop"

\* emit: errors of the handler itself and of some libraries are not told.
Emit(h, key, quiet, Room) ==
    CASE quiet -> h
      [] ~quiet /\ Len(h.queue) >= Room -> [h EXCEPT !.lost = Append(@, key)]
      [] OTHER -> [h EXCEPT !.queue = Append(@, key)]

\* close: the thread is told to stop, if there is room to tell it.
Close(h, Room) == IF Len(h.queue) >= Room THEN h ELSE [h EXCEPT !.queue = Append(@, Stop)]

\* _summary of the windows in keys, which end, in some order; of those without more
\* errors nothing is said.
Summaries(h, keys) ==
    LET told == {key \in keys : h.windows[key].extra > 0}
    IN  [h EXCEPT !.sent = @ \o SetToSeq({[key |-> key, first |-> FALSE, at |-> h.now,
                                           count |-> h.windows[key].extra] : key \in told}),
                  !.windows = [key \in DOMAIN @ |-> IF key \in keys THEN NoWindow ELSE @[key]]]

Open(h) == {key \in DOMAIN h.windows : h.windows[key] # NoWindow}
Over(h) == Summaries(h, {key \in Open(h) : h.windows[key].end <= h.now})

\* _run: one round of the thread, which takes an error if there is one.
Run(h, Span) ==
    LET o == Over(h)
        key == Head(o.queue)
        rest == [o EXCEPT !.queue = Tail(@)]
    IN  CASE h.state = "stopped" -> h
          [] h.state = "running" /\ o.queue = << >> -> o
          [] OTHER ->
             CASE key = Stop -> [Summaries(rest, Open(rest)) EXCEPT !.state = "stopped"]
               [] key # Stop /\ key \in Open(o) -> [rest EXCEPT !.windows[key].extra = @ + 1]
               [] OTHER -> [rest EXCEPT !.windows[key] = [end |-> h.now + Span, extra |-> 0],
                                        !.sent = Append(@, [key |-> key, first |-> TRUE,
                                                            at |-> h.now, count |-> 1])]

=============================================================================
