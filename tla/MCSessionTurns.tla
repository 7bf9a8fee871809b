--------------------------- MODULE MCSessionTurns ---------------------------
(* SessionTurns on a small instance, and the pages of its sessions. *)
EXTENDS SessionTurns, Sequences, FiniteSets, TLC

CONSTANTS t1, t2, d1, d2, a, b, s1

MCTwoTurns == {t1, t2}
MCDeletes == {d1}
MCTwoServers == {a, b}
MCKnown == {s1}

\* Only turns of the one session; or any request (OneTurnAtATime).
MCAnyAsk == {s1, NoId}
MCOneSession == {s1}

Symmetry == Permutations(Turns) \cup Permutations(Servers)

-----------------------------------------------------------------------------

H == INSTANCE HistoryPages

Seqs(S, n) == UNION {[1..k -> S] : k \in 0..n}
SetOf(s) == {s[k] : k \in DOMAIN s}

Ev(tn, author, kind, text, partial) ==
    [turn |-> tn, author |-> author, kind |-> kind, text |-> text, partial |-> partial]
MCEvents == {Ev("x", "user", "text", 1, FALSE), Ev("x", "model", "call", 1, FALSE),
             Ev("x", "model", "text", 1, FALSE), Ev("x", "model", "error", 0, FALSE),
             Ev("x", "model", "snapshot", 0, FALSE), Ev("y", "model", "text", 1, TRUE),
             Ev("y", "user", "text", 1, FALSE), Ev("y", "model", "error", 1, FALSE),
             Ev("none", "model", "summary", 1, FALSE)}
\* The events of a session, one after the other.
Dated(s) == [k \in DOMAIN s |-> s[k] @@ [at |-> k]]

\* A session "s" of "me", another one of "you".
Store(updated, read, gone, rs, evs) ==
    [sessions |-> [s \in {"s", "o"} |-> [owner |-> IF s = "s" THEN "me" ELSE "you",
                                         updated |-> updated, title |-> 1]],
     ui |-> [s \in {"s", "o"} |-> [title |-> 0, read |-> read, deleted |-> s = "s" /\ gone]],
     turns |-> [s \in {"s", "o"} |-> IF s = "s" THEN rs ELSE << >>],
     events |-> [s \in {"s", "o"} |-> IF s = "s" THEN evs ELSE << >>],
     feedback |-> [s \in {"s", "o"} |-> << >>], clicks |-> [s \in {"s", "o"} |-> {}]]

\* history.py:812: a turn is shown once, from its row, or its snapshot, or else its
\* events, in the order in which the turns began, also when its row is stored
\* between the two reads; the only turns left out are those of which nothing
\* is kept but what the member said and the model's failure.
ASSUME TurnsShownOnce ==
    \A evs \in Seqs(MCEvents, 4), had \in SUBSET {"x", "y"} :
        LET rs == H!SetToSeq({[turn |-> t, started |-> 0] : t \in had})
            views == H!SessionDetail(Store(1, 0, FALSE, rs, << >>),
                                     Store(1, 0, FALSE, << >>, Dated(evs)), "s")
            shown == {v.turn : v \in SetOf(views)}
            kept(t) == {e \in SetOf(evs) : e.turn = t /\ ~e.partial}
        IN  /\ Cardinality(shown) = Len(views)
            /\ had = {v.turn : v \in {v \in SetOf(views) : v.from = "row"}}
            /\ \A j, k \in DOMAIN views : j < k => views[j].started <= views[k].started
            /\ {"x", "y"} \ shown =
                 {t \in {"x", "y"} \ had :
                    \/ kept(t) = {}
                    \/ /\ \E e \in kept(t) : e.kind = "error"
                       /\ \A e \in kept(t) : e.author = "user" \/ e.kind = "error"}

\* history.py:642: a turn is put together from its own events alone, whatever turns
\* run between them, and its body has what the model said of it, in order.
ASSUME TurnsApart ==
    \A evs \in Seqs(MCEvents, 4) :
        LET own == H!SelectSeq(Dated(evs), LAMBDA e : e.turn = "x")
        IN  own # << >> => /\ H!AssembleTurn(Dated(evs), "x") = H!AssembleTurn(own, "x")
                           /\ Len(H!AssembleTurn(own, "x").body) <= Len(own)

Rows1 == <<[turn |-> "x", started |-> 0]>>
Checked == Store(1, 0, FALSE, Rows1, << >>)
Between == {Store(u, r, d, Rows1, << >>) : u \in 1..2, r \in 0..2, d \in BOOLEAN}
Writes(checked, store, user) ==
    {H!MarkRead(checked, store, user, "s"), H!RenameSession(checked, store, user, "s", 2),
     H!DeleteSession(checked, store, user, "s"), H!PutFeedback(checked, store, user, "s", "x", "up"),
     H!PutFeedback(checked, store, user, "s", "x", "none")}

\* user_data.py:265: a session that is deleted between the check of a request and
\* its write is not written to, and nobody writes to the sessions of others;
\* of clicks only the second is true (history.py:986 does not ask again).
ASSUME NothingAfterDeletion ==
    \A store \in Between :
        /\ store.ui["s"].deleted => Writes(Checked, store, "me") = {store}
        /\ Writes(Checked, store, "you") = {store}
        /\ H!PostClick(Checked, store, "you", "s", "x", "link") = store
        /\ H!PostClick(Checked, store, "me", "s", "x", "link") # store

\* history.py:531, user_data.py:649: the mark only moves on, and an answer that came
\* after the member's page was read stays unread.
ASSUME ReadMovesOn ==
    \A store \in Between :
        LET after == H!MarkRead(Checked, store, "me", "s")
        IN  /\ after.ui["s"].read >= store.ui["s"].read
            /\ store.sessions["s"].updated > 1 /\ store.ui["s"].read <= 1 => H!Unread(after, "s")

\* history.py:869: a new title changes neither the order of the list nor what is unread.
ASSUME RenameIsNoActivity ==
    \A store \in Between :
        LET list(st) == H!ListSessions(st, "me", {0, 1, 2}, 5)
            after == list(H!RenameSession(Checked, store, "me", "s", 2))
        IN  /\ Len(after) = Len(list(store))
            /\ \A k \in DOMAIN after : /\ after[k].session = list(store)[k].session
                                       /\ after[k].unread = list(store)[k].unread
                                       /\ after[k].title = 2

\* history_compaction.py:104: after it every call has an answer and the events that
\* were there are there, in their order.
ASSUME CallsAreAnswered ==
    \A evs \in Seqs([calls : SUBSET {0, 1, 2}, answers : SUBSET {1, 2}], 3) :
        LET closed == H!CloseDanglingCalls(evs)
            before == H!FoldLeft(LAMBDA n, e : IF n <= Len(evs) /\ e = evs[n] THEN n + 1 ELSE n,
                                 1, closed)
        IN  /\ \A k \in DOMAIN closed : H!Dangling(closed, closed[k]) = {}
            /\ before = Len(evs) + 1

=============================================================================
