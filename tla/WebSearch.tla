----------------------------- MODULE WebSearch -----------------------------
(***************************************************************************)
(* The web search tool (tools/web_search.py): the searches of several turns *)
(* that run in one event loop, the grounding search that is started ahead   *)
(* of a turn's first call and shared by the turns with the same message,    *)
(* the chain of backends a search falls back along, and the marks of the    *)
(* backends whose quota is used up.                                         *)
(*                                                                          *)
(* A task cancelled while it awaits another task cancels that one too: this *)
(* is asyncio's doing, and the searches of a turn await the shared prefetch *)
(* directly.  A search has one angle; what several angles yield is put      *)
(* together in WebRules.                                                    *)
(***************************************************************************)
EXTENDS Integers, Sequences, FiniteSets

CONSTANTS
    Turns, Messages,
    TurnOf,         \* the turns of the calls of the tool, numbered as they begin
    MsgOf,          \* the message of a turn
    Configured,     \* the backends that have a key
    Requests,       \* the primary backends an owner may set, and whether the call
                    \* names domains
    MaxPrefetches,       \* bound: prefetches
    MaxAttempts     \* settings.web_grounding_max_attempts

Calls == DOMAIN TurnOf
Backends == {"searchapi", "grounding", "perplexity"}

ASSUME ConstantsAssumption ==
    /\ TurnOf \in Seq(Turns)
    /\ MsgOf \in [Turns -> Messages]
    /\ Configured \subseteq Backends /\ "grounding" \in Configured
    /\ Requests \subseteq Backends \X BOOLEAN
    /\ MaxPrefetches \in Nat
    /\ MaxAttempts \in Nat \ {0}

VARIABLES
    turn,       \* where each turn is
    holder,     \* _turn_prefetch: the prefetch a turn may still take, or 0
    cache,      \* _prefetch_cache: the last prefetch of a message, or 0
    prefetch,       \* the prefetches
    call,       \* the calls of web_search
    mark        \* _quota_cooldown_until: "none", "live", or "past" its time

searchVars == <<turn, holder, cache, prefetch, call, mark>>

Prefetches == 1 .. MaxPrefetches
Metered == {"searchapi", "grounding"}

NoPrefetch == [pc |-> "none", tries |-> 0, old |-> FALSE]
NoCall == [pc |-> "none", at |-> "grounding", domains |-> FALSE, tries |-> 0,
           task |-> 0, failed |-> {}, old |-> FALSE]

\* A call that is over; one that was answered from the prefetch is "served".
Over(pc) == [NoCall EXCEPT !.pc = pc]

Active == {"enter", "await", "ask"}

SearchTypeOK ==
    /\ turn \in [Turns -> {"idle", "running", "over", "cancelled", "cut"}]
    /\ holder \in [Turns -> 0 .. MaxPrefetches]
    /\ cache \in [Messages -> 0 .. MaxPrefetches]
    /\ prefetch \in [Prefetches -> [pc : {"none", "hint", "ask", "ready", "empty", "failed",
                                 "cancelled"},
                           tries : 0 .. MaxAttempts, old : BOOLEAN]]
    /\ call \in [Calls -> [pc : {"none", "ok", "served", "error"} \cup Active,
                           at : Backends, domains : BOOLEAN, tries : 0 .. MaxAttempts,
                           task : 0 .. MaxPrefetches,
                           failed : SUBSET Backends, old : BOOLEAN]]
    /\ mark \in [Metered -> {"none", "live", "past"}]

-----------------------------------------------------------------------------
(* Turns and their prefetches. *)

CallsOf(t) == {c \in Calls : TurnOf[c] = t}

\* With its turn a call is forgotten, and the prefetch the turn may still take.
Forgotten(t) ==
    /\ call' = [c \in Calls |-> IF c \in CallsOf(t) THEN NoCall ELSE call[c]]
    /\ holder' = [holder EXCEPT ![t] = 0]

\* The calls of a turn are cancelled, and what they await.
Stopped(t) ==
    /\ Forgotten(t)
    /\ prefetch' = [k \in Prefetches |->
                  IF /\ prefetch[k].pc \in {"hint", "ask"}
                     /\ \E c \in CallsOf(t) : call[c].pc = "await" /\ call[c].task = k
                  THEN [NoPrefetch EXCEPT !.pc = "cancelled"] ELSE prefetch[k]]

Unused == {k \in Prefetches : prefetch[k].pc = "none"}

\* The prefetch a new turn shares: the one of its message that is not too old and
\* neither failed nor was cancelled.
Shareable(m, fresh) ==
    fresh /\ cache[m] # 0 /\ prefetch[cache[m]].pc \notin {"failed", "cancelled"}

\* start_web_prefetch, at the start of the turn.
StartTurn(t, fresh) ==
    LET m == MsgOf[t]
        k == CHOOSE k \in Unused : \A l \in Unused : k <= l
    IN  /\ turn[t] = "idle"
        /\ turn' = [turn EXCEPT ![t] = "running"]
        /\ IF Shareable(m, fresh)
           THEN holder' = [holder EXCEPT ![t] = cache[m]] /\ UNCHANGED <<cache, prefetch>>
           ELSE /\ Unused # {}
                /\ prefetch' = [prefetch EXCEPT ![k].pc = "hint"]
                /\ cache' = [cache EXCEPT ![m] = k]
                /\ holder' = [holder EXCEPT ![t] = k]
        /\ UNCHANGED <<call, mark>>

EndTurn(t) ==
    /\ turn[t] = "running"
    /\ \A c \in CallsOf(t) : call[c].pc \notin Active
    /\ turn' = [turn EXCEPT ![t] = "over"]
    /\ Forgotten(t)
    /\ UNCHANGED <<cache, prefetch, mark>>

\* The reader leaves or the application closes the turn.
CancelTurn(t) ==
    /\ turn[t] = "running"
    /\ turn' = [turn EXCEPT ![t] = "cancelled"]
    /\ Stopped(t)
    /\ UNCHANGED <<cache, mark>>

-----------------------------------------------------------------------------
(* The marks. *)

\* _mark_quota_exhausted: a live mark stays; the requests that are under way began
\* before the mark.  prefetch1 and call1 are what the request itself changes.
Mark(b, prefetch1, call1) ==
    IF mark[b] = "live"
    THEN mark' = mark /\ prefetch' = prefetch1 /\ call' = call1
    ELSE /\ mark' = [mark EXCEPT ![b] = "live"]
         /\ prefetch' = [k \in Prefetches |-> IF b = "grounding" /\ prefetch1[k].pc = "ask"
                                     THEN [prefetch1[k] EXCEPT !.old = TRUE] ELSE prefetch1[k]]
         /\ call' = [c \in Calls |-> IF call1[c].at = b /\ call1[c].pc = "ask"
                                     THEN [call1[c] EXCEPT !.old = TRUE] ELSE call1[c]]

\* _clear_quota_mark
Clear(b) == mark' = [mark EXCEPT ![b] = "none"]

\* The cooldown passes; the mark stays until the backend answers.
CoolDown(b) ==
    /\ mark[b] = "live"
    /\ mark' = [mark EXCEPT ![b] = "past"]
    /\ UNCHANGED <<turn, holder, cache, prefetch, call>>

Exhausted(b) == b \in Metered /\ mark[b] = "live"

-----------------------------------------------------------------------------
(* The prefetch: hint, then the grounding search. *)

\* _prefetch_pipeline up to the search: the primary backend is another one, no
\* search is needed, the hint fails, or the search begins if it may.
Hint(k) ==
    /\ prefetch[k].pc = "hint"
    /\ \E pc \in {"empty", "failed", IF Exhausted("grounding") THEN "failed" ELSE "ask"} :
         prefetch' = [prefetch EXCEPT ![k].pc = pc]
    /\ UNCHANGED <<turn, holder, cache, call, mark>>

\* One attempt of _grounding_raw_results.  A server error or an answer without
\* sources is tried again; the last attempt decides.
PrefetchAnswers(k) ==
    LET last == prefetch[k].tries + 1 = MaxAttempts
        ends(pc) == prefetch' = [prefetch EXCEPT ![k] = [NoPrefetch EXCEPT !.pc = pc]]
        again == prefetch' = [prefetch EXCEPT ![k].tries = @ + 1]
    IN  /\ prefetch[k].pc = "ask"
        /\ \/ ends("ready") /\ Clear("grounding") /\ UNCHANGED call
           \/ IF last THEN ends("empty") /\ Clear("grounding") /\ UNCHANGED call
              ELSE again /\ UNCHANGED <<call, mark>>
           \/ last /\ ends("failed") /\ UNCHANGED <<call, mark>>
           \/ Mark("grounding", [prefetch EXCEPT ![k] = [NoPrefetch EXCEPT !.pc = "failed"]], call)
        /\ UNCHANGED <<turn, holder, cache>>

-----------------------------------------------------------------------------
(* A call of web_search. *)

Follows == [searchapi |-> {"grounding", "perplexity"}, grounding |-> {"perplexity"},
            perplexity |-> {}]

\* The backends that may follow: grounding has no domain filter.
Able(b, domains) ==
    {n \in Follows[b] \cap Configured : n = "grounding" => ~domains}

\* ... and the first of them; "" when there is none.
NextBackend(b, domains) ==
    CASE "grounding" \in Able(b, domains) -> "grounding"
      [] Able(b, domains) = {"perplexity"} -> "perplexity"
      [] OTHER -> ""

\* The first backend of a search, with or without a key.
FirstBackend(primary, domains) ==
    IF primary = "grounding" /\ domains THEN "perplexity" ELSE primary

Begin(c, primary, domains) ==
    /\ turn[TurnOf[c]] = "running"
    /\ call[c].pc = "none"
    /\ \A d \in CallsOf(TurnOf[c]) : d < c => call[d].pc # "none"
    /\ call' = [call EXCEPT ![c] = [NoCall EXCEPT !.pc = "enter", !.domains = domains,
                                              !.at = FirstBackend(primary, domains)]]
    /\ UNCHANGED <<turn, holder, cache, prefetch, mark>>

\* The backend of c has failed: the next one, or the error.
Failed(c) ==
    LET b == call[c].at
        next == NextBackend(b, call[c].domains)
        old == [call[c] EXCEPT !.failed = @ \cup {b}, !.tries = 0, !.old = FALSE]
    IN  [call EXCEPT ![c] = IF next = "" THEN Over("error")
                            ELSE [old EXCEPT !.pc = "enter", !.task = 0, !.at = next]]

\* Mutant: the mark is not asked.
EnterAlways(c) ==
    LET b == call[c].at
        t == TurnOf[c]
    IN  /\ call[c].pc = "enter"
        /\ \/ /\ b = "grounding" /\ holder[t] # 0
              /\ holder' = [holder EXCEPT ![t] = 0]
              /\ call' = [call EXCEPT ![c].pc = "await", ![c].task = holder[t]]
           \/ /\ ~(b = "grounding" /\ holder[t] # 0)
              /\ call' = [call EXCEPT ![c].pc = "ask"]
              /\ UNCHANGED holder
        /\ UNCHANGED <<turn, cache, prefetch, mark>>

\* Mutant: the prefetch is looked at and not taken.
EnterKeeps(c) ==
    LET b == call[c].at
        t == TurnOf[c]
        prefetched == b = "grounding" /\ holder[t] # 0
    IN  /\ call[c].pc = "enter"
        /\ call' = IF prefetched
                   THEN [call EXCEPT ![c].pc = "await", ![c].task = holder[t]]
                   ELSE IF b \notin Configured \/ Exhausted(b) THEN Failed(c)
                   ELSE [call EXCEPT ![c].pc = "ask"]
        /\ UNCHANGED <<turn, holder, cache, prefetch, mark>>

\* The call comes to a backend.  Grounding takes the turn's prefetch if it is
\* still there, in one step; a backend without a key or with a live mark fails.
Enter(c) ==
    LET b == call[c].at
        t == TurnOf[c]
        prefetched == b = "grounding" /\ holder[t] # 0
    IN  /\ call[c].pc = "enter"
        /\ holder' = [holder EXCEPT ![t] = IF prefetched THEN 0 ELSE @]
        /\ call' = IF prefetched
                   THEN [call EXCEPT ![c].pc = "await", ![c].task = holder[t]]
                   ELSE IF b \notin Configured \/ Exhausted(b) THEN Failed(c)
                   ELSE [call EXCEPT ![c].pc = "ask"]
        /\ UNCHANGED <<turn, cache, prefetch, mark>>

\* Mutant: a search whose prefetch is cancelled goes on waiting for it.
PrefetchMissed(c) ==
    /\ call[c].pc = "await"
    /\ \/ /\ prefetch[call[c].task].pc = "ready"
          /\ call' = [call EXCEPT ![c] = Over("served")]
       \/ /\ prefetch[call[c].task].pc \in {"empty", "failed"}
          /\ call' = IF Exhausted("grounding") THEN Failed(c)
                     ELSE [call EXCEPT ![c].pc = "ask", ![c].task = 0]
    /\ UNCHANGED <<turn, holder, cache, prefetch, mark>>

\* Mutant: a prefetch that failed fails the search.
PrefetchUsed(c) ==
    LET t == TurnOf[c]
        pc == prefetch[call[c].task].pc
    IN  /\ call[c].pc = "await"
        /\ \/ /\ pc = "ready"
              /\ call' = [call EXCEPT ![c] = Over("served")]
              /\ UNCHANGED <<turn, holder, prefetch>>
           \/ /\ pc \in {"empty", "failed"}
              /\ call' = [call EXCEPT ![c] = Over("error")]
              /\ UNCHANGED <<turn, holder, prefetch>>
           \/ /\ pc = "cancelled"
              /\ turn' = [turn EXCEPT ![t] = "cut"]
              /\ Stopped(t)
        /\ UNCHANGED <<cache, mark>>

\* The prefetch is over: it is served, or it had nothing or failed and the search
\* is made as usual.  Its cancellation is not an Exception: it leaves the tool and
\* ends the turn.
Prefetched(c) ==
    LET t == TurnOf[c]
        pc == prefetch[call[c].task].pc
    IN  /\ call[c].pc = "await"
        /\ \/ /\ pc = "ready"
              /\ call' = [call EXCEPT ![c] = Over("served")]
              /\ UNCHANGED <<turn, holder, prefetch>>
           \/ /\ pc \in {"empty", "failed"}
              /\ call' = IF Exhausted("grounding") THEN Failed(c)
                         ELSE [call EXCEPT ![c].pc = "ask", ![c].task = 0]
              /\ UNCHANGED <<turn, holder, prefetch>>
           \/ /\ pc = "cancelled"
              /\ turn' = [turn EXCEPT ![t] = "cut"]
              /\ Stopped(t)
        /\ UNCHANGED <<cache, mark>>

\* One attempt of the backend: results, none, a failure, or no quota.  Grounding
\* tries again after a server error or an answer without sources; SearchApi has
\* released its mark when it finds no results; Perplexity may answer with none.
BackendAnswers(c) ==
    LET b == call[c].at
        last == b # "grounding" \/ call[c].tries + 1 = MaxAttempts
        found == [call EXCEPT ![c] = Over("ok")]
        again == [call EXCEPT ![c].tries = @ + 1]
        cleared == IF b \in Metered THEN [mark EXCEPT ![b] = "none"] ELSE mark
    IN  /\ call[c].pc = "ask"
        /\ \/ call' = found /\ mark' = cleared /\ UNCHANGED prefetch
           \/ /\ b # "perplexity"
              /\ IF last THEN call' = Failed(c) /\ mark' = cleared
                 ELSE call' = again /\ UNCHANGED mark
              /\ UNCHANGED prefetch
           \/ call' = Failed(c) /\ UNCHANGED <<prefetch, mark>>
           \/ b \in Metered /\ Mark(b, prefetch, Failed(c))
        /\ UNCHANGED <<turn, holder, cache>>

-----------------------------------------------------------------------------
SearchInit ==
    /\ turn = [t \in Turns |-> "idle"]
    /\ holder = [t \in Turns |-> 0]
    /\ cache = [m \in Messages |-> 0]
    /\ prefetch = [k \in Prefetches |-> NoPrefetch]
    /\ call = [c \in Calls |-> NoCall]
    /\ mark = [b \in Metered |-> "none"]

TurnStep(t) ==
    \/ \E fresh \in BOOLEAN : StartTurn(t, fresh)
    \/ EndTurn(t)
    \/ CancelTurn(t)

CallStep(c) == Enter(c) \/ Prefetched(c) \/ BackendAnswers(c)

SearchNext ==
    \/ \E t \in Turns : TurnStep(t)
    \/ \E c \in Calls, request \in Requests : Begin(c, request[1], request[2])
    \/ \E c \in Calls : CallStep(c)
    \/ \E k \in Prefetches : Hint(k) \/ PrefetchAnswers(k)
    \/ \E b \in Metered : CoolDown(b)

SearchSpec == SearchInit /\ [][SearchNext]_searchVars

\* Every request is answered or times out, and the loop runs what is ready.
Fairness ==
    /\ \A c \in Calls : WF_searchVars(CallStep(c))
    /\ \A k \in Prefetches : WF_searchVars(Hint(k) \/ PrefetchAnswers(k))

SearchFairSpec == SearchSpec /\ Fairness

-----------------------------------------------------------------------------
\* Of a turn's calls, run at once or one after the other, at most one is answered
\* from the prefetch (the holder that the copies of the context share).
ServedOncePerTurn ==
    \A t \in Turns : Cardinality({c \in CallsOf(t) : call[c].pc = "served"}) <= 1

\* A cooldown that has not passed is released only by a request that had begun
\* before the mark: nobody begins one in between.
OnlyLateRelease ==
    [][\A b \in Metered :
         mark[b] = "live" /\ mark'[b] = "none"
            => \/ \E c \in Calls : call[c].pc = "ask" /\ call[c].at = b /\ call[c].old
                                   /\ call'[c].pc # "ask"
               \/ b = "grounding" /\ \E k \in Prefetches : prefetch[k].pc = "ask" /\ prefetch[k].old
                                                      /\ prefetch'[k].pc # "ask"]_searchVars

\* A search gives up only when every backend that could be asked after the first
\* one has failed, whatever the prefetch did; and a backend that answers does so
\* after all that come before it in the chain.
Preceding(b) == {n \in Backends : b \in Follows[n]}
OutcomeHonest ==
    [][\A c \in Calls :
         LET old == call[c]
             tried == old.failed \cup {old.at}
             first == CHOOSE b \in tried : tried \cap Preceding(b) = {}
             able == Able(first, old.domains)
         IN  old.pc \in Active =>
               /\ call'[c].pc = "error" => able \subseteq tried
               /\ call'[c].pc \in {"ok", "served"} =>
                    able \cap Preceding(old.at) \subseteq tried]_searchVars

\* What the comment above _HINT_INSTRUCTION promises: whatever happens to a
\* prefetch, a turn that nobody cancelled goes on.
PrefetchIsHarmless == \A t \in Turns : turn[t] # "cut"

\* Every search comes to an end, whatever it waits for.
SearchesEnd == <>[](\A c \in Calls : call[c].pc \notin Active)

=============================================================================
