------------------------------ MODULE PageFetch ------------------------------
(***************************************************************************)
(* How pages of the shop are fetched (yes24/client.py): a short cache whose *)
(* callers share one fetch per page, and a client that paces its requests   *)
(* with a bucket of tokens, tries failed ones again and follows redirects.  *)
(*                                                                          *)
(* A fetch of a page belongs to nobody: whoever waits may leave, the fetch  *)
(* goes on.  Fetches past the cache (get_status_text, or no cache) belong   *)
(* to their caller and are cancelled with it, possibly in the middle of the *)
(* pause that the pacing imposes while it holds the lock.                   *)
(*                                                                          *)
(* A tick is the time in which one of the Unit parts of a token comes back. *)
(***************************************************************************)
EXTENDS Integers, Sequences, FiniteSets, SequencesExt

CONSTANTS
    Keys,       \* pages asked for through the cache
    Sides,      \* fetches past the cache
    Callers,
    MaxEntries, \* pages the cache holds
    Ttl,        \* ticks a page counts
    Slots,      \* fetches the client carries out at a time
    Burst,      \* tokens the bucket holds
    Unit,
    MaxRetries, MaxRedirects, Pause,
    MaxFetches, \* bound of the runs: fetches of a page
    Window      \* bound of the runs: how far back requests are remembered

ASSUME FetchAssumption ==
    /\ MaxEntries \in Nat \ {0} /\ Ttl \in Nat \ {0} /\ Slots \in Nat \ {0}
    /\ Burst \in Nat \ {0} /\ Unit \in Nat \ {0} /\ MaxRetries \in Nat
    /\ MaxRedirects \in Nat /\ Pause \in Nat /\ MaxFetches \in Nat /\ Window \in Nat
    /\ Keys \cap Sides = {}

VARIABLES
    entries,    \* what the cache holds: page and ticks left, longest unused first
    task,       \* the fetch of a page, or past the cache
    lock,       \* who holds the lock of the pacing
    tokens,     \* parts of tokens in the bucket
    sent,       \* how many requests were sent in each number of last ticks
    made,       \* how many fetches of a page have ended
    caller      \* what each caller waits for or has

vars == <<entries, task, lock, tokens, sent, made, caller>>

Tasks == Keys \cup Sides
None  == [st |-> "none", tries |-> 0, hops |-> 0, left |-> 0]
Away  == [at |-> "away", key |-> "none", no |-> 0]
Full  == Burst * Unit

Init ==
    /\ entries = <<>> /\ task = [x \in Tasks |-> None] /\ lock = {}
    /\ tokens = Full /\ sent = [a \in 0..Window |-> 0]
    /\ made = [k \in Keys |-> 0]
    /\ caller = [c \in Callers |-> Away]

-----------------------------------------------------------------------------
(* The cache *)

\* A page is held once at most.
Positions(k) == {i \in DOMAIN entries : entries[i].key = k}
Without(k) == IF Positions(k) = {} THEN entries ELSE RemoveAt(entries, CHOOSE i \in Positions(k) : TRUE)
Held(k) == \E i \in Positions(k) : entries[i].left > 0
Latest(seq, n) == IF Len(seq) > n THEN SubSeq(seq, Len(seq) - n + 1, Len(seq)) ELSE seq

\* A page that is held is given at once and counts as used.
Hit(c, k) ==
    /\ caller[c].at # "asking" /\ Held(k)
    /\ caller' = [caller EXCEPT ![c] = [at |-> "given", key |-> k, no |-> made[k]]]
    /\ entries' = Append(Without(k), entries[CHOOSE i \in Positions(k) : TRUE])
    /\ UNCHANGED <<task, lock, tokens, sent, made>>

Start == [None EXCEPT !.st = "slot"]

Joined(t) == IF t.st = "none" THEN Start ELSE t

\* A page that is not held, or has expired and is dropped on this occasion: the
\* caller joins the fetch that is under way, or starts it.
Miss(c, k) ==
    /\ caller[c].at # "asking" /\ ~Held(k)
    /\ task[k].st # "none" \/ made[k] < MaxFetches
    /\ entries' = Without(k)
    /\ task' = [task EXCEPT ![k] = Joined(@)]
    /\ caller' = [caller EXCEPT ![c] = [at |-> "asking", key |-> k, no |-> made[k]]]
    /\ UNCHANGED <<lock, tokens, sent, made>>

\* A caller that waited gets the page, or the failure all who waited share.
Give(c) ==
    /\ caller[c].at = "asking" /\ made[caller[c].key] > caller[c].no
    /\ caller' = [caller EXCEPT ![c] = [at |-> "given", key |-> @.key, no |-> @.no + 1]]
    /\ UNCHANGED <<entries, task, lock, tokens, sent, made>>

\* (A mistake: without the shield the fetch is cancelled with who waits.)
LeaveTaken(c) ==
    /\ caller[c].at = "asking"
    /\ caller' = [caller EXCEPT ![c] = Away]
    /\ task' = [task EXCEPT ![caller[c].key] = None]
    /\ lock' = lock \ {caller[c].key}
    /\ UNCHANGED <<entries, tokens, sent, made>>

\* A caller is cancelled; what it waited for goes on.
Leave(c) ==
    /\ caller[c].at = "asking"
    /\ caller' = [caller EXCEPT ![c] = Away]
    /\ UNCHANGED <<entries, task, lock, tokens, sent, made>>

\* The end of a fetch: only a page is kept, a failure is not.
End(x, ok) ==
    /\ task' = [task EXCEPT ![x] = None]
    /\ IF x \in Keys
       THEN /\ made' = [made EXCEPT ![x] = @ + 1]
            /\ entries' = IF ok THEN Latest(Append(Without(x), [key |-> x, left |-> Ttl]), MaxEntries)
                          ELSE entries
       ELSE UNCHANGED <<made, entries>>

-----------------------------------------------------------------------------
(* The client *)

StartSide(x) ==
    /\ x \in Sides /\ task[x].st = "none"
    /\ task' = [task EXCEPT ![x] = Start]
    /\ UNCHANGED <<entries, lock, tokens, sent, made, caller>>

InSlot(x) == task[x].st \notin {"none", "slot"}

TakeSlot(x) ==
    /\ task[x].st = "slot" /\ Cardinality({y \in Tasks : InSlot(y)}) < Slots
    /\ task' = [task EXCEPT ![x].st = "pace"]
    /\ UNCHANGED <<entries, lock, tokens, sent, made, caller>>

Send(x) ==
    /\ task' = [task EXCEPT ![x].st = "sent", ![x].left = 0]
    /\ sent' = [a \in 0..Window |-> sent[a] + 1]

\* The pacing: with the lock, take a token or sleep, holding the lock, until the
\* missing part has come back.
Throttle(x) ==
    /\ task[x].st = "pace" /\ lock = {}
    /\ IF tokens >= Unit
       THEN Send(x) /\ tokens' = tokens - Unit /\ UNCHANGED lock
       ELSE /\ lock' = {x}
            /\ task' = [task EXCEPT ![x].st = "sleep", ![x].left = Unit - tokens]
            /\ UNCHANGED <<tokens, sent>>
    /\ UNCHANGED <<entries, made, caller>>

\* (A mistake: what came back while it slept stays in the bucket.)
LeftOver == IF tokens >= Unit THEN Unit ELSE tokens

\* The sleeper leaves an empty bucket, also if it woke late.
AfterSleep == 0

WakeUp(x) ==
    /\ task[x].st = "sleep" /\ task[x].left = 0
    /\ Send(x) /\ tokens' = AfterSleep /\ lock' = {}
    /\ UNCHANGED <<entries, made, caller>>

\* A fetch past the cache is cancelled with its caller, wherever it is; the lock
\* and the slot are given back, and no token is gone.
CancelSide(x) ==
    /\ x \in Sides /\ task[x].st # "none"
    /\ task' = [task EXCEPT ![x] = None] /\ lock' = lock \ {x}
    /\ UNCHANGED <<entries, tokens, sent, made, caller>>

\* A document, or a failure that is not tried again (4xx, a hop that is refused,
\* an encoding nobody can read).
Answer(x) ==
    /\ task[x].st = "sent"
    /\ \E ok \in BOOLEAN : End(x, ok)
    /\ UNCHANGED <<lock, tokens, sent, caller>>

\* (A mistake: no end to the attempts.)
AgainAlways(t) == TRUE

Again(t) == t.tries < MaxRetries

\* A time-out, 429, 5xx or a redirect to the error page: again after a pause, as
\* often as a hop may be tried.
Trouble(x) ==
    /\ task[x].st = "sent"
    /\ IF Again(task[x])
       THEN /\ task' = [task EXCEPT ![x].st = "pause", ![x].left = Pause,
                                    ![x].tries = IF @ < MaxRetries THEN @ + 1 ELSE @]
            /\ UNCHANGED <<entries, made>>
       ELSE End(x, FALSE)
    /\ UNCHANGED <<lock, tokens, sent, caller>>

Retry(x) ==
    /\ task[x].st = "pause" /\ task[x].left = 0
    /\ task' = [task EXCEPT ![x].st = "pace"]
    /\ UNCHANGED <<entries, lock, tokens, sent, made, caller>>

\* A redirect that is allowed is a hop of its own, with attempts of its own; the
\* hops are counted.  (get_status_text follows none: a redirect is its Answer.)
Redirect(x) ==
    /\ task[x].st = "sent"
    /\ IF task[x].hops < MaxRedirects
       THEN /\ task' = [task EXCEPT ![x] = [st |-> "pace", tries |-> 0, hops |-> @.hops + 1, left |-> 0]]
            /\ UNCHANGED <<entries, made>>
       ELSE End(x, FALSE)
    /\ UNCHANGED <<lock, tokens, sent, caller>>

-----------------------------------------------------------------------------
(* Time *)

Less(n) == IF n > 0 THEN n - 1 ELSE 0

Refilled == IF tokens < Full THEN tokens + 1 ELSE Full

Tick ==
    /\ tokens' = Refilled
    /\ sent' = [a \in 0..Window |-> IF a = 0 THEN 0 ELSE sent[a - 1]]
    /\ task' = [x \in Tasks |-> [task[x] EXCEPT !.left = Less(@)]]
    /\ entries' = [i \in 1..Len(entries) |-> [entries[i] EXCEPT !.left = Less(@)]]
    /\ UNCHANGED <<lock, made, caller>>

Acquire(x) == TakeSlot(x) \/ Throttle(x)
Proceed(x) == WakeUp(x) \/ Answer(x) \/ Trouble(x) \/ Retry(x) \/ Redirect(x)

Next ==
    \/ \E c \in Callers : Give(c) \/ Leave(c) \/ \E k \in Keys : Hit(c, k) \/ Miss(c, k)
    \/ \E x \in Tasks : Acquire(x) \/ Proceed(x) \/ StartSide(x) \/ CancelSide(x)
    \/ Tick

Spec == Init /\ [][Next]_vars

\* Time passes and requests are answered within the time-outs of the client; the
\* semaphore and the lock serve their waiters in the order in which they came.
FairSpec ==
    /\ Spec /\ WF_vars(Tick)
    /\ \A x \in Tasks : SF_vars(Acquire(x)) /\ WF_vars(Proceed(x))
    /\ \A c \in Callers : WF_vars(Give(c))

-----------------------------------------------------------------------------
(* Properties *)

\* Types, and that the lock is held by the one who sleeps.
TypeOK ==
    /\ entries \in Seq([key : Keys, left : 0..Ttl]) /\ Len(entries) <= MaxEntries
    /\ task \in [Tasks -> [st : {"none", "slot", "pace", "sleep", "sent", "pause"},
                           tries : 0..MaxRetries, hops : 0..MaxRedirects, left : Nat]]
    /\ lock = {x \in Tasks : task[x].st = "sleep"} /\ \A x, y \in lock : x = y
    /\ tokens \in 0..Full /\ sent \in [0..Window -> Nat]
    /\ made \in [Keys -> Nat]
    /\ caller \in [Callers -> [at : {"away", "asking", "given"}, key : Keys \cup {"none"}, no : Nat]]

\* In any stretch of time no more requests go out than the bucket holds and what
\* comes back meanwhile, whoever was cancelled or woke late (client.py:527-551).
RateKept ==
    \A a \in 0..Window : Unit * sent[a] <= Full + a

\* For each page the cache and its fetches are a shared fetch: one under way at
\* most, who comes meanwhile gets its result, who comes later the latest page that
\* counts (client.py:171-247).
Of(k) == INSTANCE SharedFetch WITH
    under  <- IF task[k].st = "none" THEN 0 ELSE 1,
    made   <- made[k],
    counts <- Held(k),
    caller <- [c \in Callers |-> IF caller[c].key = k THEN [at |-> caller[c].at, no |-> caller[c].no]
                                 ELSE [at |-> "away", no |-> 0]]

FetchIsShared ==
    /\ \A k \in Keys : Of(k)!Init
    /\ [][\A k \in Keys : Of(k)!Next \/ UNCHANGED Of(k)!vars]_vars

\* Who waits for a page gets an answer, through retries, redirects, pacing and the
\* leaving of others.
WaitersServed == \A c \in Callers : caller[c].at = "asking" ~> caller[c].at # "asking"
=============================================================================
