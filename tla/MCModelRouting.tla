--------------------------- MODULE MCModelRouting ---------------------------
(* ModelRouting on a small instance; and what is recorded beside the calls, for all
   short orders of what happens. *)
EXTENDS ModelRouting, Sequences, FiniteSets, TLC

CONSTANTS t1, t2, t3, gemini, haiku

MCTurns == {t1, t2, t3}
MCModels == {gemini, haiku}
MCNoRequest == {NoModel}

\* The main setting, and an operator's change of it: the other model with no
\* fallback.
MCChoices == {[default |-> gemini, fallback |-> haiku],
              [default |-> haiku, fallback |-> NoModel]}

Symmetry == Permutations(Turns)

-----------------------------------------------------------------------------

R == INSTANCE SideRecords

Orders(S, n) == UNION {[1..j -> S] : j \in 0..n}

\* usage.py:58: every row of a turn is written, once, in the order in which the rows
\* came, under the turn they name or else the one they belong to, also when they
\* come after its end; none is written before.
ASSUME RowsUnderTheirTurn ==
    \A rows \in Orders({0, 5}, 6), turn \in {0, 7}, early \in 0..6 :
        LET row(j) == [of |-> j, turn |-> rows[j]]
            until(s, j) == R!RecordUsage(s, row(j), TRUE, TRUE)
            first == R!Min({early, Len(rows)})
            begun == R!FoldLeft(until, R!UsageScope, [j \in 1..first |-> j])
            ended == R!FoldLeft(until, R!Finish(begun, turn),
                                [j \in 1..Len(rows) - first |-> first + j])
        IN  /\ begun.written = << >>
            /\ ended.written = [j \in DOMAIN rows |->
                    [of |-> j, turn |-> IF rows[j] = 0 THEN turn ELSE rows[j]]]

Keys == {"a", "b"}
Calm == [h |-> [queue |-> << >>, windows |-> [x \in Keys |-> R!NoWindow], sent |-> << >>,
                lost |-> << >>, now |-> 0, state |-> "running"],
         came |-> [x \in Keys |-> 0]]
Happenings == {"a", "b", "quiet", "tick", "run", "close"}
Happens(c, what) ==
    CASE what \in Keys -> [c EXCEPT !.h = R!Emit(@, what, FALSE, 2), !.came[what] = @ + 1]
      [] what = "quiet" -> [c EXCEPT !.h = R!Emit(@, "a", TRUE, 2)]
      [] what = "tick" -> [c EXCEPT !.h.now = @ + 1]
      [] what = "run" -> [c EXCEPT !.h = R!Run(@, 2)]
      [] what = "close" -> [c EXCEPT !.h = R!Close(@, 2)]
Reached[n \in 0..8] ==
    IF n = 0 THEN {Calm}
    ELSE LET before == Reached[n - 1]
         IN  before \cup {Happens(c, what) : c \in before, what \in Happenings}

Count(s, key) == Cardinality({j \in DOMAIN s : s[j] = key})
Told(h, key) == R!FoldLeft(LAMBDA n, s : IF s.key = key THEN n + s.count ELSE n, 0, h.sent)
Counting(h, key) == IF key \in R!Open(h) THEN h.windows[key].extra ELSE 0

\* alerts.py:126: an error is told, or counted in a message that follows, or was lost
\* because the queue was full; a handler that has stopped has no count left to tell.
ASSUME ErrorsAreCounted ==
    \A c \in Reached[8], key \in Keys :
        /\ c.came[key] = Told(c.h, key) + Counting(c.h, key)
                           + Count(c.h.queue, key) + Count(c.h.lost, key)
        /\ c.h.state = "stopped" => Counting(c.h, key) = 0

\* alerts.py:111: an error is told by itself at most once in a window, and what was
\* counted in the window is told before the next one begins.
ASSUME WindowsKept ==
    \A c \in Reached[8], key \in Keys :
        LET its == R!SelectSeq(c.h.sent, LAMBDA s : s.key = key)
        IN  \A j, l \in DOMAIN its :
                /\ j < l /\ its[j].first /\ its[l].first => its[l].at >= its[j].at + 2
                /\ ~its[j].first => j > 1 /\ its[j - 1].first

\* alerts.py:112: a round of the thread leaves no window open beyond its end.
ASSUME WindowsEnd ==
    \A c \in Reached[7] : c.h.state = "running" =>
        LET after == R!Run(c.h, 2)
        IN  \A key \in R!Open(after) : after.windows[key].end > after.now

=============================================================================
