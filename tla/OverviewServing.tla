--------------------------- MODULE OverviewServing ---------------------------
(***************************************************************************)
(* How the overview of one search is shared (overview.py): the generation   *)
(* under way that callers join (_inflight), the stores with a time to live  *)
(* (_responses, _negatives, _seeds, _rows), the live stream of the caller   *)
(* that started it, and the chat that goes on from it (continue_overview).  *)
(* A generation itself is OverviewStream; here it searches, may search and  *)
(* write again, and ends somehow.                                           *)
(*                                                                          *)
(* There is one search.  Other searches share the stores with it and can    *)
(* only push its entries out (Evict, the least recently used go first).     *)
(*                                                                          *)
(* Everything between two awaits is one step.  An entry goes when its time   *)
(* is up; the code drops it when it is looked up next, and nobody can tell. *)
(***************************************************************************)
EXTENDS Integers, FiniteSets

CONSTANTS
    Requests,        \* callers of POST /overview; each may call again and again
    Chats,           \* callers of POST /overview/continue
    ResponseTTL, NegativeTTL, SeedTTL, RowsTTL,    \* 0: the store is off
    Patience,        \* how long a generation takes at most
    MaxGens,         \* bound: generations
    MaxTime          \* bound: the clock

ASSUME ServingAssumption ==
    /\ ResponseTTL \in Nat /\ NegativeTTL \in Nat /\ SeedTTL \in Nat
    /\ RowsTTL \in Nat /\ Patience \in Nat \ {0}
    /\ MaxGens \in Nat /\ MaxTime \in Nat
    \* Settings._lock_overview_response_not_staler_than_rows
    /\ RowsTTL > 0 => ResponseTTL <= RowsTTL

VARIABLES
    now,
    begun,        \* how many generations there have been
    gen,          \* each of them
    inflight,     \* the one that callers join, or 0
    responses,    \* the store of answers
    negatives,    \* the store of degraded verdicts
    seeds,        \* the store of what a chat can go on from
    rows,         \* the store of search results
    req,          \* the requests
    chat          \* the chats

vars == <<now, begun, gen, inflight, responses, negatives, seeds, rows, req, chat>>
stores == <<responses, negatives, seeds, rows>>

-----------------------------------------------------------------------------
(* Stores. *)

\* Whose it is, when the rows in it were searched, until when it lives.
Nothing == [of |-> 0, since |-> 0, until |-> 0]

Entry(of, since, ttl) ==
    IF ttl > 0 THEN [of |-> of, since |-> since, until |-> now + ttl] ELSE Nothing

Live(entry) == entry # Nothing

InTime(entry) == IF entry.until > now' THEN entry ELSE Nothing

Gens == 1..MaxGens

Running == {g \in Gens : gen[g].at \notin {"idle", "over"}}

Over == {g \in Gens : gen[g].at = "over"}

\* The latest generation with a verdict, whatever became of its entries.
Verdicts == {0} \cup {g \in Over : gen[g].outcome # "failed"}

LatestVerdict == CHOOSE g \in Verdicts : \A h \in Verdicts : h <= g

-----------------------------------------------------------------------------
(* A generation (_generate): searched is when its rows were looked up, cut   *)
(* whether a time limit cut the evidence short.                              *)

Idle ==
    [at |-> "idle", outcome |-> "none", began |-> 0, searched |-> 0, again |-> 0,
     found |-> FALSE, cut |-> FALSE, closed |-> FALSE]

Untouched == UNCHANGED <<now, begun, req, chat>>

\* It begins with the rows of an earlier search that are still kept.
Begin(g) ==
    /\ gen[g].at = "spawned"
    /\ gen' = IF Live(rows)
              THEN [gen EXCEPT ![g].at = "writing", ![g].searched = rows.since, ![g].found = TRUE]
              ELSE [gen EXCEPT ![g].at = "searching"]
    /\ UNCHANGED <<inflight, stores>> /\ Untouched

\* Rows are kept when there are any and nothing was cut (_store_rows).
StoreRows(searched, found, cut) ==
    rows' = IF found /\ ~cut THEN Entry(0, searched, RowsTTL) ELSE rows

Searched(g, found, cut) ==
    /\ gen[g].at = "searching"
    /\ gen' = [gen EXCEPT ![g].at = "writing", ![g].searched = now,
                          ![g].found = found, ![g].cut = cut]
    /\ StoreRows(now, found, cut)
    /\ UNCHANGED <<inflight, responses, negatives, seeds>> /\ Untouched

\* A second search, once, when the text has no citation or the judge misses
\* the book.
SearchAgain(g, cut) ==
    /\ gen[g].at = "writing" /\ gen[g].found
    /\ gen' = [gen EXCEPT ![g].at = "again", ![g].again = now, ![g].cut = @ \/ cut]
    /\ UNCHANGED <<inflight, stores>> /\ Untouched

\* The text that was written from it stands; its rows replace the first ones.
WrittenAgain(g) ==
    /\ gen[g].at = "again"
    /\ gen' = [gen EXCEPT ![g].at = "closing", ![g].searched = gen[g].again,
                          ![g].again = 0]
    /\ StoreRows(gen[g].again, TRUE, gen[g].cut)
    /\ UNCHANGED <<inflight, responses, negatives, seeds>> /\ Untouched

\* Mutant: a degraded verdict leaves the seed of the answer before it.
StorePayloadKeepingSeed(g, outcome) ==
    IF outcome = "answer"
    THEN /\ seeds' = Entry(g, 0, SeedTTL)
         /\ responses' = Entry(g, gen[g].searched, ResponseTTL)
         /\ UNCHANGED negatives
    ELSE /\ negatives' = IF gen[g].cut THEN negatives ELSE Entry(g, 0, NegativeTTL)
         /\ UNCHANGED <<responses, seeds>>

\* _store_payload.  A verdict on cut evidence is not kept, but it, too, ends
\* what an older answer could be continued with.
StorePayload(g, outcome) ==
    IF outcome = "answer"
    THEN /\ seeds' = Entry(g, 0, SeedTTL)
         /\ responses' = Entry(g, gen[g].searched, ResponseTTL)
         /\ UNCHANGED negatives
    ELSE /\ negatives' = IF gen[g].cut THEN negatives ELSE Entry(g, 0, NegativeTTL)
         /\ seeds' = Nothing
         /\ UNCHANGED responses

\* Mutant: a failure does not end the live stream.
EndsOpen(g, outcome) ==
    /\ gen' = [gen EXCEPT ![g] = [Idle EXCEPT !.at = "over", !.outcome = outcome,
                                              !.closed = (outcome # "failed")]]
    /\ inflight' = IF inflight = g THEN 0 ELSE inflight
    /\ Untouched

\* _run: after the payload is stored, end the live stream and leave the table,
\* unless another generation is in it.
Ends(g, outcome) ==
    /\ gen' = [gen EXCEPT ![g] = [Idle EXCEPT !.at = "over", !.outcome = outcome, !.closed = TRUE]]
    /\ inflight' = IF inflight = g THEN 0 ELSE inflight
    /\ Untouched

Conclude(g, outcome) ==
    /\ gen[g].at \in {"writing", "again", "closing"}
    /\ outcome = "answer" => gen[g].found
    /\ StorePayload(g, outcome)
    /\ Ends(g, outcome)
    /\ UNCHANGED rows

\* The vendor fails, a limit is reached, the budget has just run out.
Fail(g) ==
    /\ g \in Running
    /\ Ends(g, "failed")
    /\ UNCHANGED stores

Generate(g) ==
    \/ Begin(g)
    \/ \E cut \in BOOLEAN : SearchAgain(g, cut) \/ \E found \in BOOLEAN : Searched(g, found, cut)
    \/ WrittenAgain(g)
    \/ \E outcome \in {"answer", "degraded"} : Conclude(g, outcome)
    \/ Fail(g)

-----------------------------------------------------------------------------
(* A request (start_overview and its frames).  of is the generation it has   *)
(* joined or whose result it has, after how many had ended when it came.     *)

Idling == {"away", "given"}

Joined == {"live", "waiting"}

Away == [at |-> "away", of |-> 0, after |-> 0]

Comes(r, at, of) ==
    req' = [req EXCEPT ![r] = [at |-> at, of |-> of,
                               after |-> IF at = "given" THEN 0 ELSE Cardinality(Over)]]

Missed == ~Live(responses) /\ ~Live(negatives)

\* An answer, or a degraded verdict, that is still kept.
ServeKept(r) ==
    /\ req[r].at \in Idling /\ ~Missed
    /\ Comes(r, "given", IF Live(responses) THEN responses.of ELSE negatives.of)
    /\ UNCHANGED <<now, begun, gen, inflight, stores, chat>>

Join(r) ==
    /\ req[r].at \in Idling /\ Missed /\ inflight # 0
    /\ Comes(r, "waiting", inflight)
    /\ UNCHANGED <<now, begun, gen, inflight, stores, chat>>

\* The budget of the day is used up: 429 before the stream begins.
Refuse(r) ==
    /\ req[r].at \in Idling /\ Missed /\ inflight = 0
    /\ req' = [req EXCEPT ![r] = Away]
    /\ UNCHANGED <<now, begun, gen, inflight, stores, chat>>

\* _spawn_generation, _live_frames.
Spawn(r) ==
    /\ req[r].at \in Idling /\ Missed /\ inflight = 0
    /\ begun < MaxGens
    /\ begun' = begun + 1
    /\ inflight' = begun + 1
    /\ gen' = [gen EXCEPT ![begun + 1] = [Idle EXCEPT !.at = "spawned", !.began = now]]
    /\ Comes(r, "live", begun + 1)
    /\ UNCHANGED <<now, stores, chat>>

\* The live caller first reads its queue to the end; then both have what became
\* of the task, an answer, a degraded verdict or an error (_final_frames).
Answered(r) ==
    LET g == req[r].of
    IN /\ req[r].at \in Joined
       /\ req[r].at = "live" => gen[g].closed
       /\ gen[g].at = "over"
       /\ req' = [req EXCEPT ![r].at = "given", ![r].after = 0]
       /\ UNCHANGED <<now, begun, gen, inflight, stores, chat>>

\* Mutant: the caller that started the generation takes it out of the table.
LeaveClearing(r) ==
    /\ req[r].at \in Joined
    /\ req' = [req EXCEPT ![r] = Away]
    /\ inflight' = IF req[r].at = "live" /\ inflight = req[r].of THEN 0 ELSE inflight
    /\ UNCHANGED <<now, begun, gen, stores, chat>>

\* The client goes; the task is shielded and the table stays as it is.
Leave(r) ==
    /\ req[r].at \in Joined
    /\ req' = [req EXCEPT ![r] = Away]
    /\ UNCHANGED <<now, begun, gen, inflight, stores, chat>>

-----------------------------------------------------------------------------
(* A chat that goes on from the overview (continue_overview).  verdict is    *)
(* the latest verdict when it took its seed.                                 *)

Quiet == [at |-> "away", of |-> 0, verdict |-> 0]

Turns(c, becomes) ==
    /\ chat' = [chat EXCEPT ![c] = becomes]
    /\ UNCHANGED <<now, begun, gen, inflight, stores, req>>

WithSeed == [at |-> "seeding", of |-> seeds.of, verdict |-> LatestVerdict]

TakeSeed(c) ==
    /\ chat[c].at = "away" /\ Live(seeds)
    /\ Turns(c, WithSeed)

\* No seed, but a generation under way: it will have one.  With neither, 404.
Await(c) ==
    /\ chat[c].at = "away" /\ ~Live(seeds) /\ inflight # 0
    /\ Turns(c, [Quiet EXCEPT !.at = "awaiting", !.of = inflight])

\* The task is over: it failed, or the seed is looked up again.
Resume(c) ==
    LET g == chat[c].of
    IN /\ chat[c].at = "awaiting" /\ gen[g].at = "over"
       /\ Turns(c, IF gen[g].outcome # "failed" /\ Live(seeds) THEN WithSeed ELSE Quiet)

\* A session, then the two events of the turn (_seed_chat_session), or an
\* error of the store; or the client goes.
Settle(c) ==
    /\ chat[c].at # "away"
    /\ Turns(c, Quiet)

-----------------------------------------------------------------------------
(* The rest of the process. *)

\* Entries of other searches push this one's out of a store.
Evict ==
    /\ \/ responses' = Nothing /\ UNCHANGED <<negatives, seeds, rows>>
       \/ negatives' = Nothing /\ UNCHANGED <<responses, seeds, rows>>
       \/ seeds' = Nothing /\ UNCHANGED <<responses, negatives, rows>>
       \/ rows' = Nothing /\ UNCHANGED <<responses, negatives, seeds>>
    /\ UNCHANGED <<now, begun, gen, inflight, req, chat>>

\* Its limits end a generation in time.
Tick ==
    /\ now < MaxTime
    /\ \A g \in Running : now < gen[g].began + Patience
    /\ now' = now + 1
    /\ responses' = InTime(responses) /\ negatives' = InTime(negatives)
    /\ seeds' = InTime(seeds) /\ rows' = InTime(rows)
    /\ UNCHANGED <<begun, gen, inflight, req, chat>>

Init ==
    /\ now = 0 /\ begun = 0 /\ inflight = 0
    /\ gen = [g \in Gens |-> Idle]
    /\ responses = Nothing /\ negatives = Nothing /\ seeds = Nothing /\ rows = Nothing
    /\ req = [r \in Requests |-> Away]
    /\ chat = [c \in Chats |-> Quiet]

Request(r) == ServeKept(r) \/ Join(r) \/ Refuse(r) \/ Spawn(r) \/ Answered(r) \/ Leave(r)

Continue(c) == TakeSeed(c) \/ Await(c) \/ Resume(c) \/ Settle(c)

Next ==
    \/ \E g \in Gens : Generate(g)
    \/ \E r \in Requests : Request(r)
    \/ \E c \in Chats : Continue(c)
    \/ Evict \/ Tick

Spec == Init /\ [][Next]_vars

\* A generation goes on and a caller that waits is woken.  Nobody has to come.
FairSpec ==
    /\ Spec
    /\ \A g \in Gens : WF_vars(Generate(g))
    /\ \A r \in Requests : WF_vars(Answered(r))
    /\ \A c \in Chats : WF_vars(Resume(c))

-----------------------------------------------------------------------------
(* Properties. *)

EntryOf(store) == store \in [of : 0..begun, since : 0..MaxTime, until : Nat]

TypeOK ==
    /\ now \in 0..MaxTime /\ begun \in 0..MaxGens
    /\ inflight \in {0} \cup Running
    /\ gen \in [Gens -> [at : {"idle", "spawned", "searching", "writing", "again", "closing",
                               "over"},
                         outcome : {"none", "answer", "degraded", "failed"},
                         began : 0..MaxTime, searched : 0..MaxTime, again : 0..MaxTime,
                         found : BOOLEAN, cut : BOOLEAN, closed : BOOLEAN]]
    /\ EntryOf(responses) /\ EntryOf(negatives) /\ EntryOf(seeds) /\ EntryOf(rows)
    /\ req \in [Requests -> [at : Idling \cup Joined, of : 0..begun, after : Nat]]
    /\ chat \in [Chats -> [at : {"away", "awaiting", "seeding"}, of : 0..begun, verdict : 0..begun]]

Shared == INSTANCE SharedFetch WITH
    Callers <- Requests,
    under <- Cardinality(Running),
    made <- Cardinality(Over),
    counts <- ~Missed,
    caller <- [r \in Requests |->
                 CASE req[r].at \in Joined -> [at |-> "asking", no |-> req[r].after]
                   [] req[r].at = "given" -> [at |-> "given", no |-> req[r].of]
                   [] OTHER -> [at |-> "away", no |-> 0]]

\* There is one generation at most; who comes meanwhile gets what it makes, and
\* who comes later gets the latest result or a new one: never an older one, and
\* never a verdict that does not count (start_overview, _spawn_generation, which
\* leaves the table before anybody is woken).
OneForAll == Shared!Spec

\* The rows behind an answer that can be served were searched at most this long
\* ago, as the time of a store ends before its last moment and the rows of an
\* answer do not start a new time when they are used (_TtlLru, _cached_rows).
AnswerAge ==
    Live(responses) =>
        now - responses.since <= (RowsTTL - 1) + (ResponseTTL - 1) + 2 * Patience

\* A chat never goes on from an answer that a later verdict has withdrawn
\* (_store_payload drops the seed with a degraded verdict).
NoStaleSeed ==
    \A c \in Chats : chat[c].at = "seeding" => chat[c].of = chat[c].verdict

\* What is served or gone on from is neither withdrawn nor older than its stores
\* allow together.
ServedFresh == NoStaleSeed /\ AnswerAge

\* Who stays is answered, live or waiting, whoever leaves and whatever fails,
\* and a chat that waits for its seed as well.
StayersAnswered ==
    /\ \A r \in Requests : req[r].at \in Joined ~> req[r].at \in Idling
    /\ \A c \in Chats : chat[c].at = "awaiting" ~> chat[c].at # "awaiting"
=============================================================================
