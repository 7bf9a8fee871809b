---------------------------- MODULE SessionTurns ----------------------------
(***************************************************************************)
(* The turns of a user's sessions on several servers that share one         *)
(* database: who may write to a session, and what deleting it means         *)
(* (session_service, runner.run_agent_stream's lock and setup, adk_utc,     *)
(* user_data.UserDataService, history.delete_session, history_compaction).  *)
(*                                                                          *)
(* A server serialises the turns of a session by a lock of its own; the     *)
(* servers share nothing but the database.  The vendor's session store      *)
(* rejects an append whose writer has not seen the latest revision of the   *)
(* session.  A database operation whose caller is cancelled goes on         *)
(* detached (db.run_detached): `loose' appends and `late' saves here.       *)
(*                                                                          *)
(* A session that a turn creates carries the name of that turn.  A database *)
(* transaction is one step, for the row locks it takes serialise it.        *)
(***************************************************************************)
EXTENDS Naturals

CONSTANTS
    Turns,       \* the turns
    Deletes,     \* requests to delete a session
    Servers,     \* the server processes
    Known,       \* session ids that clients hold from before
    NoId,        \* no session id: a new conversation, nothing read yet
    Free,        \* nobody holds the lock
    Nobody,      \* no server has deleted the session
    Asks,        \* what a turn may ask for besides the sessions of turns
    MaxAppends   \* bound: appends of one turn

Ids == Known \cup Turns

ASSUME SessionAssumption ==
    /\ Turns \cap Known = {} /\ Turns \cap Deletes = {}
    /\ NoId \notin Ids /\ Free \notin Turns \cup Deletes
    /\ Nobody \notin Servers
    /\ Asks \subseteq Known \cup {NoId}
    /\ MaxAppends \in Nat

VARIABLES
    lock,        \* _session_locks: the holder, for each server and session
    exists,      \* the row of sessions
    rev,         \* its revision (update_time)
    hidden,      \* session_ui.deleted_at: which server's delete set it
    expired,     \* the retention period has passed
    rows,        \* chat_turn: the turns stored for the session
    pc,          \* where each turn is
    server,      \* where it runs
    asked,       \* the id it came with, whose lock it takes
    target,      \* that id, or NoId when it was found deleted
    sid,         \* resolved_session_id
    base,        \* the revision its session object knows
    append,      \* it waits for an append
    appends,     \* how many it has begun
    identified,  \* turn_id is set
    saved,       \* done said history_saved
    loose,       \* an append goes on whose turn was cancelled
    late,        \* a save goes on whose turn was cancelled
    del,         \* where each delete request is
    where,       \* its server and session
    purged,      \* history: sessions that were purged once
    deletedOnce, \* history: sessions that were deleted once
    askedDead,   \* history: the turn came with an id deleted before
    disturbed    \* history: a writer the lock does not order with this turn
                 \* has written to its session since it read the revision

sessions == <<exists, rev, hidden, expired, rows>>
turn == <<server, asked, target, sid, base, append, appends, identified, saved>>
detached == <<loose, late>>
deletes == <<del, where>>
history == <<purged, deletedOnce, askedDead, disturbed>>
vars == <<lock, sessions, pc, turn, detached, deletes, history>>

Setup == {"waiting", "preparing", "looked", "loaded"}
Stream == {"running", "settling", "saving"}
Compaction == {"compactWaiting", "compacting"}
Places == {"idle", "cleanup", "rescuing", "ended", "leaving", "gone"}
            \cup Setup \cup Stream \cup Compaction

\* Types, and what the places say of the database operations of a turn.
TypeOK ==
    /\ lock \in [Servers \X Ids -> Turns \cup Deletes \cup {Free}]
    /\ exists \in [Ids -> BOOLEAN]
    /\ rev \in [Ids -> Nat]
    /\ hidden \in [Ids -> Servers \cup {Nobody}]
    /\ expired \in [Ids -> BOOLEAN]
    /\ rows \in [Ids -> SUBSET Turns]
    /\ pc \in [Turns -> Places]
    /\ server \in [Turns -> Servers]
    /\ asked \in [Turns -> Ids \cup {NoId}]
    /\ target \in [Turns -> Ids \cup {NoId}]
    /\ sid \in [Turns -> Ids \cup {NoId}]
    /\ base \in [Turns -> Nat]
    /\ append \in [Turns -> BOOLEAN]
    /\ appends \in [Turns -> Nat]
    /\ identified \in [Turns -> BOOLEAN]
    /\ saved \in [Turns -> BOOLEAN]
    /\ loose \in [Turns -> BOOLEAN]
    /\ late \in [Turns -> BOOLEAN]
    /\ del \in [Deletes -> {"idle", "waiting", "marking", "answered"}]
    /\ where \in [Deletes -> Servers \X Ids]
    /\ purged \subseteq Ids /\ deletedOnce \subseteq Ids
    /\ askedDead \in [Turns -> BOOLEAN]
    /\ disturbed \in [Turns -> BOOLEAN]
    /\ \A t \in Turns :
         /\ append[t] => pc[t] \in {"loaded", "running", "settling", "compacting"}
         /\ loose[t] => pc[t] \in {"cleanup", "leaving", "gone"}
         /\ late[t] => pc[t] \in {"cleanup", "rescuing", "leaving", "gone"}
         /\ append[t] \/ loose[t] \/ late[t] => sid[t] # NoId

\* A session that clients know exists with a revision of its own, or it was
\* never created (an id of a lost database, a mistyped one).
Init ==
    /\ lock = [p \in Servers \X Ids |-> Free]
    /\ exists \in {e \in [Ids -> BOOLEAN] : \A t \in Turns : ~e[t]}
    /\ rev = [s \in Ids |-> 0]
    /\ hidden = [s \in Ids |-> Nobody]
    /\ expired = [s \in Ids |-> FALSE]
    /\ rows = [s \in Ids |-> {}]
    /\ pc = [t \in Turns |-> "idle"]
    /\ server \in [Turns -> Servers]
    /\ asked = [t \in Turns |-> NoId]
    /\ target = [t \in Turns |-> NoId]
    /\ sid = [t \in Turns |-> NoId]
    /\ base = [t \in Turns |-> 0]
    /\ append = [t \in Turns |-> FALSE]
    /\ appends = [t \in Turns |-> 0]
    /\ identified = [t \in Turns |-> FALSE]
    /\ saved = [t \in Turns |-> FALSE]
    /\ loose = [t \in Turns |-> FALSE]
    /\ late = [t \in Turns |-> FALSE]
    /\ del = [d \in Deletes |-> "idle"]
    /\ where \in [Deletes -> Servers \X Ids]
    /\ purged = {} /\ deletedOnce = {}
    /\ askedDead = [t \in Turns |-> FALSE]
    /\ disturbed = [t \in Turns |-> FALSE]

Goto(t, place) == pc' = [pc EXCEPT ![t] = place]

Key(t) == <<server[t], asked[t]>>
HasLock(t) == asked[t] # NoId /\ lock[Key(t)] = t

\* An owned write finds its session: there, and not deleted (_run_owned).
Writable(s) == exists[s] /\ hidden[s] = Nobody

-----------------------------------------------------------------------------
(* Setting a turn up: the lock, then prepare(). *)

\* Clients also see the sessions of turns in the list of conversations, from
\* the moment they are created.
Offered == Asks \cup {t \in Turns : exists[t] \/ t \in purged}

Start(t, s) ==
    /\ pc[t] = "idle" /\ s \in Offered
    /\ asked' = [asked EXCEPT ![t] = s]
    /\ askedDead' = [askedDead EXCEPT ![t] = s \in deletedOnce]
    /\ Goto(t, IF s = NoId THEN "preparing" ELSE "waiting")
    /\ UNCHANGED <<lock, sessions, server, target, sid, base, append, appends, identified,
                   saved, detached, deletes, purged, deletedOnce, disturbed>>

Acquire(t) ==
    /\ pc[t] = "waiting" /\ lock[Key(t)] = Free
    /\ lock' = [lock EXCEPT ![Key(t)] = t]
    /\ Goto(t, "preparing")
    /\ UNCHANGED <<sessions, turn, detached, deletes, history>>

\* Mutant: the turn does not ask whether its session was deleted.
LookBlindly(t) ==
    /\ pc[t] = "preparing"
    /\ target' = [target EXCEPT ![t] = asked[t]]
    /\ Goto(t, "looked")
    /\ UNCHANGED <<lock, sessions, server, asked, sid, base, append, appends, identified,
                   saved, detached, deletes, history>>

\* A deleted session is left alone: the turn opens a new one.
Look(t) ==
    /\ pc[t] = "preparing"
    /\ target' = [target EXCEPT ![t] =
                     IF asked[t] = NoId THEN NoId
                     ELSE IF hidden[asked[t]] # Nobody THEN NoId ELSE asked[t]]
    /\ Goto(t, "looked")
    /\ UNCHANGED <<lock, sessions, server, asked, sid, base, append, appends, identified,
                   saved, detached, deletes, history>>

\* The turn reads the revision of the session anew.
Reads(t, s) ==
    /\ base' = [base EXCEPT ![t] = rev[s]]
    /\ disturbed' = [disturbed EXCEPT ![t] = FALSE]

\* load_history_session, or _resolve_session creates the session: a new id, or
\* the id the client gave if there is no such session.
Load(t) ==
    LET s == IF target[t] = NoId THEN t ELSE target[t]
    IN  /\ pc[t] = "looked"
        /\ sid' = [sid EXCEPT ![t] = s]
        /\ exists' = [exists EXCEPT ![s] = TRUE]
        /\ Reads(t, s)
        /\ Goto(t, "loaded")
        /\ UNCHANGED <<lock, rev, hidden, expired, rows, server, asked, target, append,
                       appends, identified, saved, detached, deletes, purged, deletedOnce,
                       askedDead>>

\* prepare() is done; the runner loads the session for itself.
Open(t) ==
    /\ pc[t] = "loaded" /\ ~append[t]
    /\ Reads(t, sid[t])
    /\ Goto(t, "running")
    /\ UNCHANGED <<lock, sessions, server, asked, target, sid, append, appends, identified,
                   saved, detached, deletes, purged, deletedOnce, askedDead>>

-----------------------------------------------------------------------------
(* Appending to the session. *)

\* The turn runs in a session it created: nobody else holds a lock for it.
OwnSession(t) == sid[t] = t /\ pc[t] \notin Compaction

\* An append of a turn whose client left before the model's first event:
\* nobody waits for it.
Stray(t) == loose[t] /\ ~identified[t]

\* Writers that the lock of one server does not order: they run on different
\* servers, or one of them is unlocked or a stray.
Unordered(t, u) ==
    server[t] # server[u] \/ OwnSession(t) \/ OwnSession(u) \/ Stray(u)

\* An append by prepare (the RBTI code), by the vendor's runner (the message,
\* events) or by the closing of the turn (recovered sources, a title).
BeginAppend(t) ==
    /\ pc[t] \in {"loaded", "running", "settling"}
    /\ ~append[t] /\ appends[t] < MaxAppends
    /\ append' = [append EXCEPT ![t] = TRUE]
    /\ appends' = [appends EXCEPT ![t] = @ + 1]
    /\ UNCHANGED <<lock, sessions, pc, server, asked, target, sid, base, identified, saved,
                   detached, deletes, history>>

\* The store compares revisions.
Stale(t) == base[t] # rev[sid[t]]

\* A revision is added to t's session: other readers of the session miss it.
Revise(t) ==
    /\ rev' = [rev EXCEPT ![sid[t]] = @ + 1]
    /\ disturbed' = [u \in Turns |->
                        disturbed[u] \/ (u # t /\ sid[u] = sid[t] /\ Unordered(u, t))]

AppendLands(t) ==
    /\ append[t] /\ pc[t] # "compacting" /\ ~Stale(t)
    /\ Revise(t)
    /\ base' = [base EXCEPT ![t] = @ + 1]
    /\ append' = [append EXCEPT ![t] = FALSE]
    /\ UNCHANGED <<lock, exists, hidden, expired, rows, pc, server, asked, target, sid,
                   appends, identified, saved, detached, deletes, purged, deletedOnce,
                   askedDead>>

\* "modified in storage", or the database fails.  In prepare the setup fails;
\* the stream ends with an error; while the turn closes it is only logged.
AppendFails(t) ==
    /\ append[t] /\ pc[t] # "compacting"
    /\ append' = [append EXCEPT ![t] = FALSE]
    /\ Goto(t, IF pc[t] = "loaded" THEN "leaving" ELSE "settling")
    /\ UNCHANGED <<lock, sessions, server, asked, target, sid, base, appends, identified,
                   saved, detached, deletes, history>>

\* An event of the model arrives: the turn has its id.
Identify(t) ==
    /\ pc[t] = "running" /\ ~append[t] /\ ~identified[t]
    /\ identified' = [identified EXCEPT ![t] = TRUE]
    /\ UNCHANGED <<lock, sessions, pc, server, asked, target, sid, base, append, appends,
                   saved, detached, deletes, history>>

\* Closing reads the session anew, for the sources and again for the title.
Settle(t) ==
    /\ pc[t] \in {"running", "settling"} /\ ~append[t]
    /\ Reads(t, sid[t])
    /\ Goto(t, "settling")
    /\ UNCHANGED <<lock, sessions, server, asked, target, sid, append, appends, identified,
                   saved, detached, deletes, purged, deletedOnce, askedDead>>

-----------------------------------------------------------------------------
(* Storing the turn. *)

\* A turn without an id is not stored.
Persist(t) ==
    /\ pc[t] = "settling" /\ ~append[t]
    /\ Goto(t, IF identified[t] THEN "saving" ELSE "ended")
    /\ UNCHANGED <<lock, sessions, turn, detached, deletes, history>>

\* Mutant: a session that is gone does not make the save fail.
AcknowledgedAnyway(s) == TRUE

\* save_turn writes to a living session only, and says whether it did.
Acknowledged(s) == Writable(s)

Stored(t) == rows' = [rows EXCEPT ![sid[t]] = IF Writable(sid[t]) THEN @ \cup {t} ELSE @]

SaveLands(t) ==
    /\ pc[t] \in {"saving", "rescuing"}
    /\ Stored(t)
    /\ saved' = [saved EXCEPT ![t] = pc[t] = "saving" /\ Acknowledged(sid[t])]
    /\ Goto(t, IF pc[t] = "saving" THEN "ended" ELSE "leaving")
    /\ UNCHANGED <<lock, exists, rev, hidden, expired, server, asked, target, sid, base,
                   append, appends, identified, detached, deletes, history>>

\* The database fails: after the commit, perhaps.
SaveFails(t, landed) ==
    /\ pc[t] \in {"saving", "rescuing"}
    /\ IF landed THEN Stored(t) ELSE UNCHANGED rows
    /\ Goto(t, IF pc[t] = "saving" THEN "ended" ELSE "leaving")
    /\ UNCHANGED <<lock, exists, rev, hidden, expired, turn, detached, deletes, history>>

-----------------------------------------------------------------------------
(* Leaving. *)

\* The client leaves, or the setup runs into its limit.  What the database is
\* doing for the turn goes on.
Abandon(t) ==
    /\ pc[t] \in Setup \cup Stream
    /\ loose' = [loose EXCEPT ![t] = append[t]]
    /\ append' = [append EXCEPT ![t] = FALSE]
    /\ late' = [late EXCEPT ![t] = pc[t] = "saving"]
    /\ Goto(t, IF pc[t] \in Setup THEN "leaving" ELSE "cleanup")
    /\ UNCHANGED <<lock, sessions, server, asked, target, sid, base, appends, identified,
                   saved, deletes, history>>

\* Mutant: the finally block does not wait for appends.
RescueAtOnce(t) ==
    /\ pc[t] = "cleanup"
    /\ Goto(t, IF identified[t] THEN "rescuing" ELSE "leaving")
    /\ UNCHANGED <<lock, sessions, turn, detached, deletes, history>>

\* The finally block waits for the appends of the turn and stores it as
\* interrupted, if it has an id; a shielded scope.
Rescue(t) ==
    /\ pc[t] = "cleanup"
    /\ identified[t] => ~loose[t]
    /\ Goto(t, IF identified[t] THEN "rescuing" ELSE "leaving")
    /\ UNCHANGED <<lock, sessions, turn, detached, deletes, history>>

LooseLands(t) ==
    /\ loose[t] /\ ~Stale(t)
    /\ Revise(t)
    /\ loose' = [loose EXCEPT ![t] = FALSE]
    /\ UNCHANGED <<lock, exists, hidden, expired, rows, pc, turn, late, deletes, purged,
                   deletedOnce, askedDead>>

LooseFails(t) ==
    /\ loose[t]
    /\ loose' = [loose EXCEPT ![t] = FALSE]
    /\ UNCHANGED <<lock, sessions, pc, turn, late, deletes, history>>

LateEnds(t, landed) ==
    /\ late[t]
    /\ late' = [late EXCEPT ![t] = FALSE]
    /\ IF landed THEN Stored(t) ELSE UNCHANGED rows
    /\ UNCHANGED <<lock, exists, rev, hidden, expired, pc, turn, loose, deletes, history>>

Released(t) == IF HasLock(t) THEN [lock EXCEPT ![Key(t)] = Free] ELSE lock

\* Mutant: a turn that did not get to its end keeps the lock.
LeaveLocked(t) ==
    /\ pc[t] = "leaving"
    /\ Goto(t, "gone")
    /\ UNCHANGED <<lock, sessions, turn, detached, deletes, history>>

Leave(t) ==
    /\ pc[t] = "leaving"
    /\ lock' = Released(t)
    /\ Goto(t, "gone")
    /\ UNCHANGED <<sessions, turn, detached, deletes, history>>

\* done went out; a long history is compacted in the background, under the
\* lock of the session the turn ran in.
End(t, compact) ==
    /\ pc[t] = "ended"
    /\ lock' = Released(t)
    /\ asked' = [asked EXCEPT ![t] = IF compact THEN sid[t] ELSE @]
    /\ Goto(t, IF compact THEN "compactWaiting" ELSE "gone")
    /\ UNCHANGED <<sessions, server, target, sid, base, append, appends, identified, saved,
                   detached, deletes, history>>

\* compact_history loads the session under the lock ...
CompactLoad(t) ==
    /\ pc[t] = "compactWaiting" /\ lock[Key(t)] = Free
    /\ lock' = [lock EXCEPT ![Key(t)] = t]
    /\ Reads(t, sid[t])
    /\ append' = [append EXCEPT ![t] = TRUE]
    /\ Goto(t, "compacting")
    /\ UNCHANGED <<sessions, server, asked, target, sid, appends, identified, saved, detached,
                   deletes, purged, deletedOnce, askedDead>>

\* ... and appends the summary, or gives up.
Compact(t) ==
    /\ pc[t] = "compacting" /\ append[t] /\ ~Stale(t)
    /\ Revise(t)
    /\ append' = [append EXCEPT ![t] = FALSE]
    /\ Goto(t, "leaving")
    /\ UNCHANGED <<lock, exists, hidden, expired, rows, server, asked, target, sid, base,
                   appends, identified, saved, detached, deletes, purged, deletedOnce,
                   askedDead>>

CompactFails(t) ==
    /\ pc[t] = "compacting"
    /\ append' = [append EXCEPT ![t] = FALSE]
    /\ Goto(t, "leaving")
    /\ UNCHANGED <<lock, sessions, server, asked, target, sid, base, appends, identified,
                   saved, detached, deletes, history>>

-----------------------------------------------------------------------------
(* Deleting a session, and purging it when its retention is over. *)

\* owned_session, outside the lock: otherwise the answer is 404.
Check(d) ==
    /\ del[d] = "idle"
    /\ del' = [del EXCEPT ![d] = IF Writable(where[d][2]) THEN "waiting" ELSE "answered"]
    /\ UNCHANGED <<lock, sessions, pc, turn, detached, where, history>>

\* Mutant: the running turn is not waited for.
EnterAtOnce(d) ==
    /\ del[d] = "waiting"
    /\ del' = [del EXCEPT ![d] = "marking"]
    /\ UNCHANGED <<lock, sessions, pc, turn, detached, where, history>>

Enter(d) ==
    /\ del[d] = "waiting" /\ lock[where[d]] = Free
    /\ lock' = [lock EXCEPT ![where[d]] = d]
    /\ del' = [del EXCEPT ![d] = "marking"]
    /\ UNCHANGED <<sessions, pc, turn, detached, where, history>>

Answer(d) ==
    /\ lock' = IF lock[where[d]] = d THEN [lock EXCEPT ![where[d]] = Free] ELSE lock
    /\ del' = [del EXCEPT ![d] = "answered"]

\* mark_deleted commits: 204, or 404 if another delete came first.
Mark(d) ==
    LET s == where[d][2]
    IN  /\ del[d] = "marking"
        /\ hidden' = [hidden EXCEPT ![s] = IF Writable(s) THEN where[d][1] ELSE @]
        /\ deletedOnce' = IF Writable(s) THEN deletedOnce \cup {s} ELSE deletedOnce
        /\ Answer(d)
        /\ UNCHANGED <<exists, rev, expired, rows, pc, turn, detached, where, purged, askedDead,
                       disturbed>>

\* The database fails: 503.
MarkFails(d) ==
    /\ del[d] = "marking"
    /\ Answer(d)
    /\ UNCHANGED <<sessions, pc, turn, detached, where, history>>

\* Days pass.  No request and no detached operation lasts that long.
Expire(s) ==
    /\ hidden[s] # Nobody /\ ~expired[s]
    /\ \A t \in Turns :
         (pc[t] \notin {"idle", "gone"} \/ loose[t] \/ late[t]) => s \notin {asked[t], sid[t]}
    /\ \A d \in Deletes : del[d] \in {"waiting", "marking"} => where[d][2] # s
    /\ expired' = [expired EXCEPT ![s] = TRUE]
    /\ UNCHANGED <<lock, exists, rev, hidden, rows, pc, turn, detached, deletes, history>>

\* _purge_batch, on any server: the session goes with all that refers to it.
Purge(s) ==
    /\ expired[s]
    /\ exists' = [exists EXCEPT ![s] = FALSE]
    /\ rev' = [rev EXCEPT ![s] = 0]
    /\ hidden' = [hidden EXCEPT ![s] = Nobody]
    /\ expired' = [expired EXCEPT ![s] = FALSE]
    /\ rows' = [rows EXCEPT ![s] = {}]
    /\ purged' = purged \cup {s}
    /\ UNCHANGED <<lock, pc, turn, detached, deletes, deletedOnce, askedDead, disturbed>>

Rest ==
    /\ \A t \in Turns : pc[t] \in {"idle", "gone"} /\ ~loose[t] /\ ~late[t]
    /\ \A d \in Deletes : del[d] \in {"idle", "answered"}
    /\ UNCHANGED vars

-----------------------------------------------------------------------------
SetUp(t) == Acquire(t) \/ Look(t) \/ Load(t) \/ Open(t)

Write(t) == AppendLands(t) \/ AppendFails(t) \/ LooseLands(t) \/ LooseFails(t)

Close(t) ==
    \/ Settle(t) \/ Persist(t) \/ SaveLands(t) \/ Rescue(t) \/ Leave(t)
    \/ \E compact \in BOOLEAN : End(t, compact)
    \/ CompactLoad(t) \/ Compact(t) \/ CompactFails(t)

TurnStep(t) ==
    \/ \E s \in Offered : Start(t, s)
    \/ SetUp(t) \/ Write(t) \/ Close(t)
    \/ BeginAppend(t)
    \/ Identify(t)
    \/ \E landed \in BOOLEAN : SaveFails(t, landed) \/ LateEnds(t, landed)
    \/ Abandon(t)

DeleteStep(d) == Check(d) \/ Enter(d) \/ Mark(d) \/ MarkFails(d)

Next ==
    \/ \E t \in Turns : TurnStep(t)
    \/ \E d \in Deletes : DeleteStep(d)
    \/ \E s \in Ids : Expire(s) \/ Purge(s)
    \/ Rest

Spec == Init /\ [][Next]_vars

\* What a turn that has begun does next by itself, and what ends it.
Ahead(t) ==
    \/ SetUp(t) \/ Write(t)
    \/ (pc[t] = "running" /\ Settle(t))
    \/ Persist(t) \/ SaveLands(t) \/ Rescue(t) \/ Leave(t)
    \/ End(t, FALSE)
    \/ CompactLoad(t) \/ Compact(t) \/ CompactFails(t)

-----------------------------------------------------------------------------
(* Properties. *)

\* The awaited append of t meets a revision it has not seen.
Collides(t) == append[t] /\ ~append'[t] /\ ~loose'[t] /\ Stale(t)

\* The turns and compactions of a session never overtake one another on a
\* server: an append finds the session changed only through a turn on another
\* server, through a turn in a session that it created itself, or through the
\* stray append of a turn that ended before the model's first event (the lock
\* of session_service, and the wait for appends in the finally block).
CollisionsExplained == [][\A t \in Turns : Collides(t) => disturbed[t]]_vars

\* After a delete was carried out on a server, no turn there changes the
\* session any more, for the delete has waited for the turn that ran
\* (delete_session): but for strays, turns in sessions of their own, and
\* compactions.
HiddenStaysQuiet ==
    [][\A s \in Ids : hidden[s] # Nobody /\ rev'[s] # rev[s] /\ exists'[s]
         => \E t \in Turns :
              /\ sid[t] = s
              /\ append[t] # append'[t] \/ loose[t] # loose'[t]
              /\ \/ server[t] # hidden[s]
                 \/ OwnSession(t) \/ Stray(t) \/ pc[t] \in Compaction
      ]_vars

\* What done called saved is in history until the session is purged: whatever
\* deletes, failures and other servers do meanwhile (save_turn).
SavedTurnKept ==
    \A t \in Turns : saved[t] => t \in rows[sid[t]] \/ sid[t] \in purged

\* A turn that comes with the id of a deleted session does not continue it.
\* Only after the purge can the id come to life again (prepare).
DeletedNotContinued ==
    \A t \in Turns :
        askedDead[t] => sid[t] \in {NoId, t} \cup purged

\* What the description of delete_session says: a chat request with a deleted
\* session id starts under a new id.  Once the session is purged nothing is
\* left of its deletion, and the turn creates a session under the old id: TLC
\* finds it violated (README, 4).
DeletedIdIsRenewed ==
    \A t \in Turns :
        askedDead[t] => sid[t] \in {NoId, t}

Writing(t) == pc[t] \in {"loaded", "running", "settling"}

\* What run_agent_stream says: a new session needs no lock, for the next turn
\* in it must have seen the done of the first.  The list of conversations and
\* the frame before done show its id: TLC finds it violated (README, 4).
OneTurnAtATime ==
    \A t, u \in Turns :
        Writing(t) /\ Writing(u) /\ server[t] = server[u] /\ sid[t] = sid[u] => t = u

\* Turns, deletes and compactions never wait for one another in a ring, nor for
\* a lock nobody gives back: while one has not ended, one of them can go on.
NobodyStuck ==
    \/ \A t \in Turns : pc[t] \in {"idle", "gone"}
       /\ \A d \in Deletes : del[d] \in {"idle", "answered"}
    \/ \E t \in Turns : ENABLED (Ahead(t) \/ Acquire(t))
    \/ \E d \in Deletes : ENABLED (Mark(d) \/ Enter(d))

=============================================================================
