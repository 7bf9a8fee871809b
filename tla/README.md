# Verification of yes24-agent

TLA+ models of the Yes24 book-search agent (`src/yes24_agent`), the TLC
configurations that check them on small instances, and proofs that TLAPS checks
for every value of the constants. Every definition is translated from the
source; `PROJECT.json` gives the lines of each one under `map`, and lists the
runs, the mutants (a plausible bug per property, which TLC must find), the
hazards and the theorems.

    tlc -workers 2 -config MCTurnStream.cfg MCTurnStream.tla
    tlapm ModelChoiceProofs.tla

## 1. The system

A FastAPI application: each server runs one asyncio process; two servers share a
MySQL database. A question opens a server-sent event stream; an agent (Google
ADK) calls a model and tools in rounds, and its events become frames. Within a
process everything interleaves at `await` only; between processes only the
database serialises.

| Component | State | Operations | Hard behaviour | What makes it correct |
|---|---|---|---|---|
| Model routing (`model_routing.py`) | cooldown of each model; the model, fallback and probe of each turn | plan, depart, fail, rerun, finish | decisions before an await used after it; concurrent 429s; late successes | a cooldown is released by a turn that set out under it; alarms only for the unseen; a stale choice is explained by its gap |
| Model settings (`model_routing.py`, `admin.py`) | row, cache with a time to live | read, fill, edit, invalidate | a query under way during an edit; edits on other servers | only selectable models; an edit is seen at once, or the read straddled it; the cache converges |
| Turn stream (`runner.py`, `adk_stream.py`, `event_translate.py`, `turn_snapshot.py`, `sse.py`) | frames, text written and shown, steps, request and turn retries, outcome, snapshot, lock | events to frames, settle, three ways to close, save, rescue, release | the client leaves at any frame or await; failing calls, repeats and reruns; the save under way is detached | the order of frames, done = screen = history, usage agrees, the lock is given back |
| Sessions and stored turns (`user_data.py`, `history.py`, `session_service.py`) | sessions, session_ui (title, read mark, deletion), chat_turn, audit | lock, save a turn, delete, mark read, rename, purge | locks are per process, the database is shared; late snapshots; two purge loops | nothing is written to a deleted session; deletion waits for the running turn; nobody waits for ever |
| History pages (`history.py`) | none of its own | list, restore, title, read mark, feedback, click | rows and events tell the same turn twice; deletion between check and write | a turn is shown once and from its own events; nothing is written after deletion |
| Overview, one generation (`overview.py`) | texts written, held and shown; verdict; helpers; budget of the day | search, stream, judge, release, retry, append, publish | judge, search and stream race; deadlines; failures after text was shown | the screen is the published text; only approved text is shown, and none is exchanged; every call is paid |
| Overview, serving (`overview.py`) | generations under way, four stores with a time to live | start, join, leave, continue | shared generations, expiry, callers that leave, verdicts that withdraw answers | one generation per search; nothing older than its time; a chat starts from the latest verdict; who stays is answered |
| Starter pool (`starters.py`) | daily runs, questions, pins | claim, read, generate, save, switch, pick | workers claim one run; a crash keeps a claim; an edit during a run | only the last claimant saves; what was off when a run read stays off at its save; what was saved serves |
| Web search (`tools/web_search.py`) | cooldown per backend, prefetch tasks | prefetch, take, search, mark, clear | shared tasks, quota, cancellation | a prefetch is served once per turn; a search gives up only after all backends; it ends |
| Yes24 client (`yes24/client.py`) | text cache, fetches under way, bucket of tokens, slots | get, fetch, redirect, back off | joined fetches, limits, cancelled callers | one fetch per page; the rate is kept; who waits is served |
| Yes24 tools and parsing (`tools/*`, `yes24/*`) | none | fetch, batch, search, browse, window, fold | long pages, failing parts | nothing lost without saying so, nothing told twice |
| Sources and citations (`sources.py`, `postprocess.py`) | registry, ledger of numbers, display numbers | register, merge, settle, renumber, validate | parallel tools, lost results, chunks cut anywhere | a number is one page for ever; live numbers are the final ones |
| Tool progress, batch fetch (`tool_progress.py`, `tools/fetch_many.py`) | queue of progress | send, gather | parallel tools | progress belongs to its call and ends once |
| Event gift card (`giftcard.py`) | periods, results, memo of one banner | banner, eligibility, result, edits | memo filled from three reads; two administrators; midnight | no overlap but by a race; results land on their period; banners are explained |
| Administrators (`admin_auth.py`) | users, sessions, failed attempts | login, change password, revoke | concurrent attempts; a login during a change | the limit holds; sessions open at a change end |
| API keys (`auth.py`) | keys, members, counted requests | look up, register, refresh, count | first requests at once | a key stays with its member; the limits hold |
| Usage (`usage.py`) | rows of a turn | record, finish | rows after the turn has ended | every row gets the id of its turn |
| Alerts (`alerts.py`) | queue, windows | emit, count, close | queue full, errors at closing | every error is told or counted |
| Database pools (`db.py`) | pool, detached tasks | get, run, run_detached, close | cancellation in a transaction | what began ends |
| History compaction (`history_compaction.py`) | events | close dangling calls, compact | in the background after done | runs under the session's lock |
| Parsing workers (`cpu_pool.py`) | process pool | run, fall back, shut down | a worker dies | calls still answer |
| Application (`main.py`, `config.py`, `agent.py`, ...) | settings | routes, start, stop | order of shutdown | wiring |
| Side calls (`enrichment.py`, `subcall.py`, ...) | none | one model call each | time limits | failure costs an extra, never the answer |
| Prompt versions, administration, RBTI, partner, matrix, browser client, scripts | tables or none | reads, CRUD, rendering, texts | little | plain code |

How they interact. `main` starts the generator of `runner` and the response
consumes it. The runner takes the lock of the session, plans the model
(routing, which reads the settings), starts the prefetch of the web search, reads
the agent's events, whose tools fetch pages through the Yes24 client and register
sources, settles the sources, stores the snapshot through `user_data` (a
transaction detached from its caller by `db.run_detached`), hands the usage row to
`usage`, releases the lock and leaves a compaction behind. Deletion takes the
same lock and then marks the session; the purge loop of each server deletes
expired sessions. Overviews, starters, the gift card and the administration use
the database and the models beside the turns.

## 2. Plan

The order in which the modules were written: most important behaviour first.

| # | Module | Composes or implements | Theorems | State |
|---|---|---|---|---|
| 1 | `ModelRouting` | | types, no flap, alarms, late cooldowns | checked, proved |
| 2 | `ModelSettings` | gives `ModelRouting` its choices | types, `FreshAfterEdit`, `ServesSelectable`, `ServesRouting`, going out of use | checked, proved |
| 3 | `TurnStream` | implements `TurnContract` | types, `EndRecorded`, `ContractHolds`, `WireInOrder`, descent | checked, proved |
| 4 | `SessionTurns` | the lock and the store of `TurnStream`, on two servers | types, the four safety properties, no ring of waiters, descent | checked, proved |
| 5 | `OverviewStream` | | `CallsPaid`, `ScreenAgrees`, `GoodTextKept`, `NotTakenBack`, descent | checked, proved |
| 6 | `OverviewServing` | implements `SharedFetch` | types, `NoStaleSeed`, `AnswerAge`, `ServedFresh`, `OneForAll`, descent | checked, proved |
| 7 | `StarterPool`, `StarterRules` | | types, `SavesInClaimOrder`, `OffStaysOff`, `ServedAfterOk`, descent | checked, the pool proved |
| 8 | `WebSearch`, `WebRules` | | types, `ServedOncePerTurn`, `OutcomeHonest`, `OnlyLateRelease`, descent | checked, the search proved |
| 9 | `PageFetch` | each page implements `SharedFetch` | types, `RateKept`, `FetchIsShared`, descent | checked, proved |
| 10 | `SourceRegistry`, `CitationText` | | types, `NumbersHold`, `DetailKept` | checked, the registry proved |
| 11 | `GiftPeriods` | | `OverlapOnlyByRace`, `StartedStay`, `ResultsLandRight`, `BannerExplained` | checked, proved |
| 12 | `LoginAttempts` | | types, `AttemptsBounded`, `OldSessionsEnd` | checked, proved |
| 13 | `PageTexts`, `ListResults`, `HistoryPages`, `ProgressSteps`, `ApiKeys`, `SideRecords` | functions, checked as assumptions | | checked |

"Proved" means the safety properties; liveness stays with TLC, but for its safety part:
"descent" is that what goes on comes to an end in finitely many steps (section 6). What would
come next: theorems about the functions of row 13, one by one, as far as they are
not recursive; that `HiddenStaysQuiet` and the contract of the stream hold of the two
modules together; the pool of database connections and the end of the application,
which need the driver's behaviour; usage rows of side calls that come after the end of
a turn as steps of a module.

Abstract specifications: `TurnContract` (what a turn's stream promises) and
`SharedFetch` (what a cache with shared fetches promises, implemented by
`OverviewServing` for a search and by `PageFetch` for every page).

## 3. Modules

A definition is named after the function or step it stands for; the ones with a
comment "Mutant:" or "A mistake:" are plausible bugs, not code. History variables
are marked `history:` in the declaration: nothing reads them but the properties.
There are two kinds of modules. A state machine models what interleaves. A
module of functions models what is computed without an await in between, or where
the store at two moments is all that matters; its MC module states properties
of it as assumptions over all inputs within a bound, which TLC evaluates before
the run.

### ModelRouting

One process. `cooldown` is `_cooldown_until`; each turn has the fields of its
`TurnModels` (`primary`, `fallback`, `active`, `probe`), the runner's
`retried` and `shown` (`emitted_output`), and a place `pc`.

| Action | Code |
|---|---|
| `Plan`, `Depart` | `plan_turn_models` before and after it awaits the prompt bindings; `switch` reads the key of the model |
| `Show` | a step or body frame goes out: no rerun any more |
| `StreamFails`, `ArmCooldown`, `RerunAllowed` | `retry_model`: arm on a 429 first, then decide on a rerun |
| `Rerun` | after both streams of the failed attempt are closed: `switch` to the fallback |
| `Finish` | `mark_turn_ok`: release the key the turn set out with |
| `Abort` | the client leaves, or a limit is reached |

A 429 counts for the model the turn runs; the vendor status has the three
classes the code tells apart. Time is in ticks, and arming a cooldown takes one:
`time.monotonic()` is fine enough that two armings never get the same expiry,
which is what the comparison in `mark_turn_ok` relies on.

### ModelSettings

One process, one row, any number of coroutines in `current_models`. The gap
between the SELECT and the assignment to `_cache` is a step of its own (`ReadRow`
or `ReadFails`, then `Fill`); `Save` and `Invalidate` are the commit and the
`invalidate_cache` of `admin_update_models`; `ForeignSave` is the same edit on
another server, which this cache does not hear of. The columns that the model
map and the search levers use travel in the same row and are not told apart.

### TurnStream and TurnContract

The generator `run_agent_stream` with its client. What it computes between two
yields is one step; the frames it has computed are in `out` and go to `wire` one
by one (`Send`), and `Disconnect` is possible between any two of them and at
every wait (`pc`). The text is a sequence of tokens, words or citation markers,
that remember the round and the try that wrote them: with these tags the
properties can say that text is not shown twice or in the wrong round.

| Part of the code | Definitions |
|---|---|
| lock, `prepare` | `Acquire`, `SetUp`, `SetUpFails` |
| events of the agent (`collect_usage`, `TurnProcess`, `StreamRenumberer`) | `Text`, `FinalText`, `CallTools`, `Progress`, `Respond`, `StreamEnds`, with `Feed`, `DisplayFrames` |
| retries | `RepeatCall` (`CallRetry`), `Rerun` (`retry_model`), `BreakIn`, `Break` |
| normal close | `Settle`, `Enrich`, `Persist`, `Commit` |
| failing close | `SettleFails`, `Closeout` (`_closeout_error_frames`) |
| `completion`, `finally` | `Disconnect`, `Rescue`, `RescueFails`, `Close`, `Leave` |
| `run_detached` | `OrphanEnds`: the transaction of a save whose caller has gone |

`TurnContract` is the abstract specification: the order of frames the docstring
of `run_agent_stream` promises to the screen, where text only grows but for one
reset, and `done.text` is the text on the screen. `TurnStream` implements it
under the mapping in its last section (stage and screen are folded from `wire`);
the run `turn` checks it as the property `ContractHolds`, and it is proved.

Left out: the labels of thoughts, the RBTI frame, counts of tokens, the offsets
of `done.process`, and the difference between sources (one source stands for
all: it is known or not when a marker goes out).

### SessionTurns

Several servers, each with its own `_session_locks`, over one database: the
session row with its revision, `session_ui.deleted_at` and the rows of
`chat_turn`. A turn goes through `Start`, `Acquire`, `Look` (is the id marked as
deleted?), `Load` (continue or create), `Open`, appends (`BeginAppend`, then
`AppendLands` or `AppendFails`: the vendor's store compares the revision the
session object knows with the stored one), `Settle`, `Persist`, `SaveLands`,
`End`, and perhaps a compaction. `Abandon` is a client that leaves or a setup
that times out: an append or a save that is under way goes on without its caller
(`loose`, `late`), and the finally block waits for the append only if the turn
has an id (`Rescue`). `Check`, `Enter`, `Mark` are `delete_session`; `Expire` and
`Purge` are the retention period and the purge loop, of whichever server.

Abstracted: an `asyncio.Lock` lets its waiters in by turn; here any of them may be
next. A database transaction is one step, for the rows it locks serialise it
(this is the database's promise, not the code's). The retention period is longer
than any request and any detached operation. Left out: what an event contains, the
in-memory and SQLite storage; the read mark, titles, feedback and clicks are in
`HistoryPages`.

### OverviewStream

One `_generate` as a task with its helpers. `pc` says where the task waits; the places
`deciding`, `concluding` and `finishing` are no waits, so nobody else moves there.

| Part of the code | Definitions |
|---|---|
| planner and first search (`_generate`, `_arm_search`) | `Start`, `Found`, `NotFound`, `OverBudget` |
| the judge (`_judge_relevance`), its callback (`_verdict_arrived`, `_on_verdict`) | `Judge`, `Hear`; a verdict that has come but not been heard is `gate = "rung"` |
| recovery search started by a verdict | `Recovered`, `Replacement`, `Abandoned` |
| the valve (`_gate_allows`, `_dispatch`, `_on_text`) | `GateAllows`, `Opens`, `Show`, `Piece` |
| end of a call | `Abandon`, `AwaitJudge`, `Written`, `FirstFails`, `SecondFails` |
| one retry (`_retry_search`, second `_attempt`) | `NeedsRetry`, `Decide`, `Retrieved` |
| the paragraph (`_harvest_details`, `_append_details`) | `WantsDetails`, `ReadDetails`, `Harvest`, `Appended`, `AppendFails` |
| exits | `Withhold`, `Publish`, `Conclude` |
| other generations, midnight (`_roll_budget_day`) | `OthersPay`, `NewDay` |

A token remembers the call that wrote it, so an old text is never taken for a new one.
A search is rows or none; whether a deadline has passed is a choice, except that a
text on the screen is never cut off by one (`_call_model`). Two things the model
shows and no property forbids: the verdict of a judge may be heard when the
generation has ended already, and its recovery search then runs with nobody to
cancel it; and the hook and the retry look at the budget separately, so that at
midnight a text that was shown, because no retry could be paid, is retried after all
(`NotTakenBack` names this exception). Left out: the angles and rewrites of a
search, the flag for incomplete evidence (the caches use it), the mapping of
display numbers, shutdown.

### OverviewServing and SharedFetch

One search and everyone who asks for it. Other searches share the stores and can
only push this one's entries out (`Evict`, at any time, which covers every order of
use that `_TtlLru` may have seen).

| Part of the code | Definitions |
|---|---|
| a store (`_TtlLru`) | `Entry`, `Live`, `InTime`; an entry goes at the tick that ends it, where the code drops it at the next look |
| the generation (`_generate`), as far as stores see it | `Begin`, `Searched`, `SearchAgain`, `WrittenAgain`, `StoreRows` |
| `_run`: store, close the queue, leave the table | `Conclude`, `Fail`, `StorePayload`, `Ends` |
| `start_overview` | `ServeKept`, `Join`, `Refuse`, `Spawn` |
| `_live_frames`, `_final_frames` | `Answered`, `Leave` |
| `continue_overview`, `_seed_chat_session` | `TakeSeed`, `Await`, `Resume`, `Settle` |

`SharedFetch` numbers the results in the order they are made. The mapping: `under` is
the number of generations that run, `made` the number that ended, `counts` whether a
kept answer or verdict would be served now, and a caller that joined remembers how
many had ended when it came. A generation that fails is a result that never
counts. Left out: the text itself (its screen is `OverviewStream`'s), the pace of a
replay, the warming of searches, the other grounding arms (keys of their own).

An answer may outlive the rows it was written from: `Settings` only checks that the
one time to live is not longer than the other, and an answer written at the end of
the rows' time begins a time of its own. `AnswerAge` says what does hold, the sum.

### StarterPool

The pool of one slot, any number of processes. `run[d]` is the row of
`starter_runs`, `work[p]` what a process is at, `rows` and `active` the table of
questions.

| Action | Code |
|---|---|
| `Claim` | `_claim_run`: a new run, or one that failed or is overdue (`Retriable`), or forced; gives out a new token |
| `Read` | `_generate_into` up to the model: the observed materials and the questions that are active |
| `Save` | `_save_pool`: in one transaction the token under FOR UPDATE, the new rows, what is kept, the verdict |
| `Break`, `Finish` | a run that fails, and `run_generation`'s end |
| `Crash`, `Expire`, `Stall` | a process dies, a run gets older than its status allows, a process stalls until then |
| `NextDay`, `SwitchOff`, `SwitchOn` | midnight and the administrator's edits |

A question is its text, each about one material of the site. What the model
writes is a choice among the texts.

### StarterRules (functions)

`RotateSlots` (which slots a day renews), `PickStarters` and `PickProbability` (the
first screen, pins included), `PinAccepted` (`_check_global_pins`), `ValidateItems`,
`GenerateSlot` and the observers of corners, categories and web topics. The shuffles of
the code are parameters.

### WebSearch and WebRules

The turns of one event loop. `prefetch` has the prefetch tasks, `cache` the last one of
each message (`_prefetch_cache`), `holder` the turn's hold on one (`_turn_prefetch`),
`call` a call of the tool, `mark` the cooldown
of a backend. `StartTurn` joins the prefetch of a turn with the same message or starts
one; `Hint` and `PrefetchAnswers` are its pipeline; `Begin`, `Enter`, `Prefetched` and
`BackendAnswers` the way of a call through `_BACKEND_CHAIN`; `Mark`, `Clear` and `CoolDown`
the quota cooldowns; `EndTurn` and `CancelTurn` what discards a prefetch. That a
cancelled waiter cancels the task it awaits is asyncio's semantics. `WebRules` has what is computed around it:
planned angles, domains, the sources and the statements they support, merged results.

### PageFetch

`Yes24TextCache` and `Yes24Client` with two kinds of fetches: those of the cache
(a task of their own; callers `Hit`, `Miss` and join, `Leave`) and those past
it, which are cancelled with their caller (`StartSide`, `CancelSide`). A fetch takes a
slot (`TakeSlot`), paces itself (`Throttle`, `WakeUp`: a bucket of tokens, a lock held
while it sleeps), sends (`Send`, a part of both), and then `Answer`, `Trouble` with
`Retry`, or `Redirect`. A tick is the time in which a part of a token comes back; `sent`
counts the requests of every stretch of last ticks. `Of(k)` maps each page to
`SharedFetch`.

### PageTexts and ListResults (functions)

`PageTexts`: `Truncate`, `WindowAroundFind`, the blocks of a product page within one
budget (`TruncateDetailBlocks`), FAQ answers, `Fetch` with its errors, and what a batch
says only once (`ProjectFetchMany`). A text is a sequence of characters, remarks
have lengths of their own. `ListResults`: the plan and results of a batch, the angles
of a search with their widening and progress, editions and eBooks of one list, names of
categories and corners, the eBook club, dates of publication, the links of a page, and when an empty list
is an error.

### SourceRegistry and CitationText

The numbers of a session's sources. `OpenTurn` and `CallTools` begin a turn
(`invocation`) and a batch of calls. `Register` is a tool's `register_source` with the
ledger of its invocation (`NextSourceId`), `ReturnNothing` a call without sources;
`Respond` merges what the calls of a batch wrote (`Delta`: in the vendor's framework,
the deltas in the order of the calls) and keeps what the stream carried, `LoseResults` is
a batch whose event is not saved, `SettleTurn` and `EndUnsettled` the two ends of a
turn, `OtherTurn` another session that takes a place in the ledger. A record
keeps its page, how faithful its text is, and when it was observed. `CitationText`
has the text forms: `Validate`, `RenumberMarkers`, `Finalize`, and the stream's
`Feed`, which may be cut anywhere. A text is a sequence of pieces.

### GiftPeriods

Periods with a first and a last day. An edit looks (`LookAdd`, `LookUpdate`,
`LookDelete`: the row is locked, others are read plainly), then commits (`Commit`) or is
turned down, then empties the memo of its own process (`Clear`). The banner is put
together from `ReadPeriod`, `ReadPausedKey`, `ReadSpan` and stored (`Store`); a member
asks (`Eligible`) and brings a result (`Attribute`, `Record`). `Midnight` may come
between any two.

### LoginAttempts and ApiKeys

`LoginAttempts`: a login or a check of the password, one action per statement:
`Admit` (the session that lets a change in, which may end before the next statement),
`Read`, `Reserve`, `Count`, `Verify`, `Unreserve`, then `Open` (a session), or `Clean` and
`Change` (the other sessions end); `Stop` leaves it anywhere; `Reset` is a
reset from the command line. `ApiKeys` has the two transactions of a request,
`Look` and `Commit`, and `EnforceRateLimit`, as functions of the tables; its MC module
goes through every order of seven steps of two requests, an administrator and the clock.

### HistoryPages, ProgressSteps, SideRecords (functions)

`HistoryPages`: the list, a session restored from rows and events (`AssembleTurns`), the
read mark, titles, deletion, feedback and clicks, each as a function of the store at
the check and at the write; and the calls a summary must close. `ProgressSteps`:
`TurnProcess`, that is which step a call begins and which one an answer or a message of
its progress ends. `SideRecords`: the rows of a `UsageScope`, and the queue and windows
of the alerts.

## 4. Runs

| Run | Instance | Question, and answer |
|---|---|---|
| `routing` | three turns, two models, two settings, cooldown 3, clock 2 | Can a late success release a cooldown (`NoFlap`), an old turn raise an alarm (`AlarmMeansUnseen`), a turn set out on a fallback it should have known to be cooling (`LateCooldownOnly`)? No. |
| `settings` | two callers, three rows, two edits, time to live 2 | Does a call after an edit see it, or was its query under way (`FreshAfterEdit`)? Does the cache follow in the end (`Converges`)? Yes. |
| `turn` | two tokens, one tool call, one repeated request, a session with a lock | Is what is on the screen where it belongs (`WireInOrder`), do done, history and usage tell one story (`EndRecorded`), does the stream keep its contract (`ContractHolds`), does the lock come back (`TurnEnds`), wherever the client leaves and whatever fails? Yes. |
| `sessions` | two turns and a delete on two servers | What may a delete lose (`SavedTurnKept`), what may go on after it (`HiddenStaysQuiet`, `DeletedNotContinued`), which writer makes an append stale (`CollisionsExplained`)? Only what the properties allow; and nobody is stuck (`NobodyStuck`). |
| `overview` | two tokens a call, a budget of two shared with others, one midnight | Do screen and payload agree at the end (`ScreenAgrees`), is only good text shown and none lost (`GoodTextKept`) or exchanged (`NotTakenBack`), is every call paid (`CallsPaid`), does the generation end (`GenerationEnds`)? Yes. |
| `overview_serving` | two callers, a chat, two generations, times to live 1, 1, 1, 2, a generation takes up to 1 | Is one generation shared (`OneForAll`), is what is served fresh (`ServedFresh`), is everybody answered (`StayersAnswered`)? Yes. |
| `starters` | two processes, two days, three rows, two questions a slot, one crash, stall or edit | Does only the last claimant save (`SavesInClaimOrder`), does what was off when a run read the pool stay off at its save (`OffStaysOff`), does what was saved serve (`ServedAfterOk`), does a run end (`RunEnds`)? Yes, but for what `ServedAfterOk` names; a switch made between a run's read and its save may be undone. |
| `web_search` | two turns with one message, three calls of the whole chain (two of them of one turn), two prefetches, two attempts | Is a prefetch served once (`ServedOncePerTurn`), may a search give up early (`OutcomeHonest`), who may release a cooldown (`OnlyLateRelease`), does every search end (`SearchesEnd`)? Yes, no, only one that began before it, yes. |
| `fetching` | two callers, two pages, a fetch past the cache, a cache for one page, two slots | Do the callers of a page share one fetch (`FetchIsShared`), is the rate kept (`RateKept`), is who waits served (`WaitersServed`)? Yes. |
| `citations` | two pages, two turns of two batches of two calls, a ledger for two turns, one turn elsewhere | Is a number one page for ever (`NumbersHold`), is a page read in full kept (`DetailKept`)? Yes. |
| `giftcard` | two administrators on two servers, a reader or a member, three days, three rows | Do periods overlap only by a race (`OverlapOnlyByRace`), do results land right (`ResultsLandRight`), is every banner explained (`BannerExplained`)? Yes. |
| `login` | three requests, one failure allowed, a window of one | Is the limit kept (`AttemptsBounded`), do the sessions that are open at a change of the password end, but its own (`OldSessionsEnd`)? Yes; a login under way at the change may still open one. |

Each module's `TypeOK` holds on the instance of its run; it is not one of the
listed properties, and is proved where section 6 says so.

### Assumptions that TLC checks

Functions have no behaviour to run. What must hold of them is an ASSUME in the MC
module, over every input within a bound that is written there; TLC evaluates
these before it explores anything.

| MC module | Of | What |
|---|---|---|
| `MCModelRouting` | `SideRecords` | rows stand under their turn, also when they come after its end; every error is told, counted or lost to a full queue, and a window ends |
| `MCTurnStream` | `ProgressSteps` | parts of a call are told to begin and end once, answers find their calls, what ends was begun in the same round |
| `MCSessionTurns` | `HistoryPages` | a turn is shown once and from its own events; nothing is written after a deletion; the read mark only moves on; a summary leaves no call open |
| `MCStarterPool` | `StarterRules` | the rotation covers a kind, every day has every kind, the first screen keeps its rules, the shown probability is the share of shuffles, questions are about what was observed |
| `MCWebSearch` | `WebRules` | the chain is a slice, angles are accounted for, filters are opposites, statements keep exactly their sources |
| `MCPageFetch` | `PageTexts`, `ListResults` | limits hold and cuts are told, nothing is lost in a batch, every item and row is accounted for, names lead where they say, an empty list is not an error in disguise |
| `MCSourceRegistry` | `CitationText` | chunks do not matter, the final form has the numbers of the stream, no seam joins words |
| `MCLoginAttempts` | `ApiKeys` | a key stays with its member, a refusal leaves no row, limits hold for every order |

They also record what the code does and a reader may not expect, with the
exception inside the property:

- A word that a window was made for may be cut off its end, when it begins before the
  limit (`FoundIsShown`, `FoundNotShown`); the beginning remark may push up to its own
  length of text out of the end without a remark there (`EndIsSaid`).
- An FAQ page whose only match lies across two answers yields none (`FaqIsWhole`); a
  product page may be cut for the lines between its blocks without saying so
  (`BlocksFit`).
- A book whose date has no day counts as out from the first of the month
  (`OutWhenItsDateHasCome`).
- A click is stored after the session was deleted, for only the check looks
  (`NothingAfterDeletion`).
- Some slots come round later than a question serves (`SomeSlotsOutlastThePool`), and
  two administrators at once can leave one pin too many (`PinsMayExceedByRace`).
- A retained question keeps its `run_date`, and may cease to serve on the day of a
  successful run (`ServedAfterOk`).
- An answer may outlive the rows it was written from: the one time to live is not
  longer than the other, but begins anew (`AnswerAge` gives the sum).

Some races are let through by the code and not forbidden by any property; the property
beside each says exactly what is left:

- `OffStaysOff`: a question switched off between a run's read of the pool and its save is
  switched on again by the save (`starters.py:1659`).
- `OldSessionsEnd`: a login that read the old password before a change opens its session
  after it (`admin_auth.py:753`); the docstring speaks of the sessions there are.
- `OverlapOnlyByRace`: two edits that look before either has written may overlap, unless they
  begin on one day; `giftcard.py:211` says so itself.
- `FreshAfterEdit`: a query under way at an edit puts the row from before it into the cache.

### Sentences the code does not keep

Five properties state what a docstring, comment or description says; TLC finds each
violated with the cfg of its run when it is named there in place of the
listed ones (the runs of section 4 are those of the properties that hold). Next to each is a weaker one that holds.

| Property | Where | What TLC shows | What holds |
|---|---|---|---|
| `NeverOnCoolingFallback` | `MCModelRouting` | a turn sets out on a fallback that began to cool down while the turn awaited | `LateCooldownOnly` |
| `ReadsItsEdit` | `MCModelSettings` | a query under way at `invalidate_cache` fills the cache again with the row from before the edit | `FreshAfterEdit` |
| `DeletedIdIsRenewed` | `MCSessionTurns` | after the purge a deleted session id comes to life again | `DeletedNotContinued` |
| `OneTurnAtATime` | `MCSessionTurns` (`Asks <- MCAnyAsk`) | a second turn enters a new session while the turn that created it still writes | `CollisionsExplained` |
| `PrefetchIsHarmless` | `MCWebSearch` | a turn that is cancelled while it awaits the shared prefetch cancels it, and with it the other turn that awaits it | `OutcomeHonest`, `SearchesEnd` |

### Why the bounds are enough

`routing`: a flap needs a turn that armed, one that
probed and one that saw neither, and a cooldown that outlives the clock's bound
by itself (cooldown 3, clock 2, arming adds ticks), so windows that are open, that
have closed and that were renewed all occur. `settings`: one caller that fills
late and one that looks at what it filled; two edits, so that a value can be two
versions old. `turn`: a marker that is held back and a word, in either order,
before and after the one tool call, hence in two rounds. `sessions`: every property
speaks of at most two
writers and a delete; two servers make every pair ordered or unordered. One append a
turn, since the revision a turn holds after an
append of its own is again the latest. `overview`: two tokens make a
marker held back at the end of a chunk, a marker followed by text and a text without
any; a budget of two runs out after each call of a generation, and midnight gives the third
call its unit. `overview_serving`: the second generation is the one that finds what the first left
(rows, a seed, a table entry); a tick is the longest a generation takes, so that callers wait
across it, and with times to live of one the bound of `AnswerAge` is reached.
`starters`: a run taken over needs two processes, a run that replaces another day's
needs two days, and one disturbance between any two steps is what each property
speaks of. `web_search`: a prefetch is shared by two turns; of the two prefetches the
second is the one made after a failed or discarded first; the turn with two calls is the one that could be
served twice. Every call asks for the whole chain; with calls that begin at grounding with domains added to
`MCRequests` TLC finds no error either (944,490 states), in some minutes. `fetching`: a cache for one page makes
every second page push the first out; one token and two slots make a fetch sleep
under the lock while another waits for it. `citations`: two calls in a batch see or do not
see each other, the second batch sees a first that was lost, the second turn what the
first one settled; a turn of another session pushes the older of two entries out of the ledger.
The two properties claim nothing of a turn whose own entry was pushed out by others
(`crowded`), which needs as many of them as the ledger holds. `giftcard`: two edits race; three days are before, in and after a
period. `login`: three requests with one failure allowed, so that two are over the limit.

One run leaves out states. `BannerOrMember` (`giftcard`): banners and members write nothing the
others read, so a behaviour with both says nothing that one with each alone does not.

Deadlock is checked where the system goes on: `Quiet`, `Gone`, `Rest` and `Ended` are the states in
which there is nothing left to do. `starters`, `web_search`, `fetching`, `citations`, `giftcard` and
`login` have bounds on what may ever be asked for, and stop when these are used
up. Symmetry is used in safety runs only.

## 5. Fairness

- `ModelSettings`: time passes; a query that was sent answers, fails, or its
  caller's setup times out; an edit that has committed drops the cache. Nothing
  forces a call to be made. The number of edits is bounded, so "after the last
  edit" exists.
- `TurnStream`: `WF_vars(Advance)`: the generator goes on. Each of its waits has
  a limit in the code: the lock (the holder's own end), `turn_setup_timeout_s`,
  `sse_timeout_s` between events, `enrichment_timeout_s`. That a transaction
  ends and that the client reads or leaves is assumed; a client that just stops
  reading holds a turn as long as its connection lasts. Leaving is never forced.
- `OverviewStream`: `WF_vars(Advance)`: each search, judgement, reading and call has
  a limit of its own (`overview_search_budget_s`, `overview_relevance_timeout_s`,
  `overview_append_budget_s`, `overview_timeout_s`); a call whose text is on the screen has
  none, and that the vendor's connection ends is assumed. Other generations and
  midnight are not forced.
- `OverviewServing`: `WF_vars(Generate(g))`: a generation ends (`GenerationEnds` of
  `OverviewStream`); the event loop wakes who waits for a task that is over. Nobody is
  made to come, and time need not pass.
- `StarterPool`: the refresh loop of a process that lives comes round (`Claim(p, FALSE)`),
  what it began goes on (each of its waits has a time limit), and a run gets old
  (`Expire`). Crashes, stalls, midnight and edits are not forced.
- `WebSearch`: a call goes on, a prefetch is answered or fails (the calls of the
  backends have time limits). Nobody cancels for certain.
- `PageFetch`: time passes; a request is answered or fails within the client's time-outs;
  `asyncio.Semaphore` and `asyncio.Lock` serve who waits in order, hence `SF` for `Acquire`.

`SessionTurns` has no liveness property: `NobodyStuck` says instead that in every state
something that has begun can go on.

What of these properties needs no fairness is proved in section 6, "Going on and ending".

## 6. Proofs

Eight modules hold theorems, each for any values of the constants that the named
assumptions allow, and every safety property of a run is the statement of one.
Beyond the prover stay: liveness under fairness (`Converges`, `TurnEnds`, `GenerationEnds`,
`StayersAnswered`, `RunEnds`, `WaitersServed`, `SearchesEnd`) and `NobodyStuck`, which is about
ENABLED. As properties these are TLC's alone; what they rest on, besides fairness, is proved
("Going on and ending", at the end of this section). TLC's alone are also the modules of
functions of section 3, many of which recurse or fold over data: they are checked over bounded inputs.

Sequences and induction. What is defined by a recursive function over a sequence is shown of
its first n elements: if it failed of some n there would be a least one, and the step from n - 1 is
an ordinary proof (`LeastNat`, and `LeastNumber` in `ToolProofs`, both from `WFMin` of the library). So
a fold over the frames of a client (`View`) or the steps picked from them (`Chosen`) can be
reasoned about for any length. It does not work for what the library declares RECURSIVE; where a model needs
such an operation in a property it has a recursive function of its own.

### Choice of the model (`ModelChoiceProofs`)

Routing. `NoFlap` is not inductive: that a turn releases only a key armed before
it set out needs that the key it remembers (`probe`) is older than its departure
(`ProbesOlder`), that a turn without a key set out before any key that is there
now (`UnseenNewer`), that no key or date lies in the future (`KeysPast`,
`HistoryPast`), and that no two cooldowns get one expiry (`Distinct`). For
`LateCooldownOnly`, `ChoiceHolds` says that while a turn waits on its choice the
fallback is either not cooling or was armed since. `IInv` is their conjunction
with `TypeOK`, which is proved too.

Settings. `FreshAfterEdit` speaks of values served; the invariant adds the same of
the cache and of answers on their way (`FreshCache`, `FreshAnswers`: not older
than what was acknowledged, unless marked as straddling), and that versions are
counted (`Counted`). `ServesSelectable` follows from the types of what is served.
`ServesRouting` joins the two modules: a choice the settings hand out is one that
`ModelRouting` is specified for.

### Turn stream (`TurnStreamProofs`)

Types (`TypeInv`) come first, and carry much: what is fed is a part of what was written, every
frame has a kind, the open steps are steps that were begun.

`EndRecorded` is about the end of a turn. `EndInv` says what is known on the way: nothing is stored
before done is made (`EarlyInv`), a done that is on its way tells the answer and whether it was saved
(`ToldInv`), once it is made what is stored is the answer or the loss is known (`SentInv`), a
snapshot under way is that of the answer or of an interrupted turn (`SavingInv`), status and outcome
go together (`OutcomeInv`), and an identified turn that is gone has stored something, knows that it
has not, or leaves a transaction behind (`GoneInv`).

`ContractHolds` is the refinement of `TurnContract`. The client's view is a fold over the frames it
took; the generator is ahead of it by the frames in `out`. `Allowed` says which frame the contract
has a step for in a view, `Leads` that frames, each allowed in turn, take a view to another, and
`SeenInv` that `out` leads from the client's view to the one that is due at the generator's place
(`Due`): the text streamed so far, later the settled and then the answered text. Taking one frame is
then a step of the contract or changes nothing, and leaving drops frames but no obligation.

`WireInOrder`. A round is written in one try (`CallInv`): its first token opens it, and a call that
was opened is not repeated, while a rerun of the turn begins with an empty text. What is shown
repeats the rounds and tries of what was written, so `OneCall` can be asked of every text on its way
to the screen; it is a condition of `Allowed`, and thus part of `SeenInv`. The other parts look only
at frames before the one in question. `InOrder` says them of any sequence of frames, and `OrderInv`
of those taken followed by those in `out` (`Sending`), of which leaving keeps a first part. It needs
that a turn that showed nothing begins again with nothing (`FreshInv`: `retry_model` allows a rerun only
then), that what is held back was written in the present round before its tools were called
(`HeldInv`), that a number on the screen has had its hint (`HintInv`), that text without its narration
is that of the present round, still provisional (`LooseInv`), and that the steps on the wire or
on their way are the steps of the process (`ListInv`). The frames of an action are then appended
piece by piece (`InOrderMore`, `DisplayInOrder`, `BodyInOrder`).

### Sessions (`SessionTurnsProofs`)

`LockInv` (who is in the locked places holds the lock, and a free lock
has no holder in them) and `SessionInv` (who has a session, and that a turn's own
session is the one it created) are the base. `FreshInv` says that an undisturbed
turn knows the latest revision: `CollisionsExplained` follows. `QuietInv` says
that nobody on the deleting server is still in the session: `HiddenStaysQuiet`
follows. `SavedInv` and `DeadInv` strengthen the two invariants of the same
names by what holds on the way there, and `ExpiryInv` says that nobody uses a
session whose retention is over. Types are proved too.

### One overview (`OverviewStreamProofs`)

`CallsPaid` follows from `CountInv` alone: the calls made are at most the
charges, and the places a second or an appended call starts from are reached
before the third call. `ScreenAgrees` speaks of the end; on the way there the
screen has what the text in hand streamed, and during the appended paragraph
what the first text streamed followed by what the paragraph did (`ShownInv`).
That a call's leftovers never reach the next one (`CallInv`) and that what is in
hand is a sequence of tokens (`TextInv`) is what keeps it.

`GoodTextKept` and `NotTakenBack` need to know what judge, valve and hand have agreed on, `GoodInv`:
before the judge has answered the verdict is the open one (`JudgeInv`); what went through the
renumberer is on the screen or held, and the valve has opened on a citation only (`ValveInv`); the
text in hand is the validated form of what is on the screen, and what may be shown is there
(`HandInv`); a first text that cites still does, unless the judge found it irrelevant or the
recovery has hits (`FirstInv`); a text on the screen whose book is missing had no search coming,
because the verdict had come and the budget was spent, or else midnight has passed (`ReplacedInv`).
Each exception in the two properties is one of these cases.

### Serving overviews (`OverviewServingProofs`)

What runs is the generation begun last and the one in the table
(`OrderInv`), so the one that ends is later than every verdict there is, and a
seed that is kept is of the latest verdict (`SeedInv`): a chat that takes it gets
what `NoStaleSeed` says. `AnswerAge` needs the age of rows at each place they pass
through (`AgeInv`): a store of rows ends at most `Patience + RowsTTL` after they were
searched, because the generation that searched them kept them before its
patience was over; so a generation begins with rows at most `RowsAge` old, and
stores its answer at most `Patience` later. The bound assumes that a generation
may take at least one unit of time (`ServingAssumption`). `ServedFresh` is both.

`OneForAll` is the refinement of `SharedFetch`. The mapping counts sets of generations, so the proof
first counts: at most one runs, and it is the last begun (`UnderWay`). `SharedInv` then says that
nothing is kept while one is made, that what is kept is of the last one, and that who joined waits
for the first result after it came.

### Starters (`StarterPoolProofs`)

The token under FOR UPDATE is what makes `SavesInClaimOrder`
true: a run that is under way has the token of the last claim, since a claim writes it and only an end
removes it; a process whose token is not the run's changes nothing. `OffStaysOff` needs more:
that what is active, off, or remembered as active has a row, so that a new question never
takes the id of one that is switched off. `ServedAfterOk` follows from `ServeInv`: a question of the
last save is active or was switched off, and its row is of the day of the save.

### Tools of a turn (`ToolProofs`)

Yes24 client. `RateKept` speaks of every stretch of time since a moment. `Budget` says of each that
the requests sent in it and the tokens still there are no more than the bucket held and got back.
It is kept because a sleeper finds a token when its time is over (`SleepersPaid`): the bucket is
written by the holder of the lock alone. `FetchIsShared` is the refinement of `SharedFetch` for
each page; a page is held once at most in the cache (`HeldOnce`), so what a caller is given is what
was found to count, and a step about one page is a stutter, or the end of being kept, for others.

Web search. `SearchInv`: once a call has taken the turn's prefetch the turn holds it no more, and no
other call of the turn is its taker (`TakenInv`: `ServedOncePerTurn`); what asks under a mark began
before it and knows so (`OldInv`: `OnlyLateRelease`); the backends that failed a call are those of
the chain before the one it asks, from some first one on (`ChainInv`: `OutcomeHonest`); and an
attempt is one of those allowed (`TriesInv`).

Sources. `RegistryInv`: the numbers of the registry and those given out in the open turn are
one-to-one with their pages (`PairsInv`, from which `NumbersHold`), which holds as long as the ledger's
entry of the turn was not pushed out, and that entry comes after all but as many others as got
a number since (`LedgerInv`); what is written comes from a call of the open turn (`CallsInv`), and is no
worse than what is saved, which is no worse than what was settled (`BetterInv`, from which
`DetailKept`). The settlement of a turn (`SettleSources`) is a recursive function over the observations
of the turn, so what it keeps is shown for the first n of them. `Urls` is not empty
(`RegistryAssumption`), for the code registers only what it fetched.

### Administration (`AdminProofs`)

Periods. `Judged` says what an edit that is about to write may still rely on: of its own
row everything, for the row is locked (no two edits hold one: the third part of the
invariant); of the others only that those it meets were written since it looked. `OverlapHolds` and
`StartedStayHolds` follow; that a number is not given out twice (`Numbered`) keeps
the history variables apart. `StartedStay` is not a property of a run: TLC agrees with it on
the instance of `giftcard`. `ResultsLandRight` needs of a member on its way that the period it was
told of ran on that day and that what is booked had begun (`MemberInv`); that these stay true under
edits is `StartedStay` at work. `BannerExplained` needs what each read of a banner has found, as
long as no edit was committed between them, and which edits the memo is older than (`BannerInv`, with
`MemoInv`).

Signing in. The request whose count ran last saw every booking that counts
now: a request books before it counts, and the baseline only moves forward. So the guesses that
count are a subset of what it saw, and that was within the limit; every other step only makes the set
smaller (`FewerGuesses`). `OldSessionsEnd` is inductive as it stands: only a login and a change add a
session or alter one. Types are proved too.

### Going on and ending

That something ends has two parts: it is never without a step that can be taken, and it cannot take
steps for ever. Both are safety, and are proved for every value of the constants; only that a step
which can be taken is taken at last, the fairness of section 5, is left to TLC. A descent is stated
with a rank, a tuple of numbers compared from its first part on. That there is no endless
descent (`BelowWellFounded`) is the lexicographic product of the numbers from the library
(`WFLexProductOrdering`); that steps lower the rank is an action property.

| Property | It can go on | It ends | Rank |
|---|---|---|---|
| `TurnEnds` | `TurnGoesOnUntilGone` | `TurnIsFinite` | place, rerun, model calls, tools under way and told of, tokens, repeats of a call, frames not taken, detached save |
| `GenerationEnds` | `GenerationGoesOn` | `GenerationIsFinite` | call and place, text not yet written, the judge, the recovery search, days, the budget left |
| `StayersAnswered` | `NobodyWaitsInVain` | `WaitIsFinite` | five steps of the generation |
| `RunEnds` | | `PoolComesToRest` | days, events, the run of the day, who reads, saves, finishes |
| `SearchesEnd` | `AwaitedIsBegun` | `SearchesAreFinite` | of a call its turn, backend, place and attempts, of a prefetch its place and attempts |
| `WaitersServed` | `NobodyAsksInVain` | `FetchIsFinite` | redirects, attempts, place, time to sleep |
| `Converges` | | `StalenessRunsOut` | who has read an old row, how long one is still served |
| `NobodyStuck` | `NoRingOfWaiters` | `TurnsOnlyGoOn` | the places of a turn with its append and save |

Where things go on side by side the descent is of each: no step of anyone raises the rank of a
search, a prefetch, a fetch, a generation or a turn, and its own steps lower it. `SessionTurns` has
one exception, in the statement of `TurnsOnlyGoOn`: a turn that closes may read its session again
without getting nearer to its end. `PoolComesToRest` counts the events of the model (a crash,
a stall, an administrator's edit, a run after one that has ended), which are bounded; that is its
assumption, for with endless crashes a pool does not rest. It also takes the processes to be finitely
many. `StalenessRunsOut` says that reads of old rows only become fewer and an old entry only gets
shorter, so it is an end as soon as the callers are finitely many.

`NoRingOfWaiters` is the argument behind `NobodyStuck`: a turn or a deletion waits only for a
lock, a lock is held by somebody at work (`LockInv`), and nobody holds two of them; so either nothing
has begun, or something goes on, or a lock that is waited for is free. The compaction, which takes
the same lock after its turn has left, is one of the waits. `GenerationGoesOn` and `AwaitedIsBegun`
need the inductive facts that a task is stored when it is started: who waits for the judge has asked it
(`gate`), who waits for the recovery has started it, who waits for a prefetch holds one that was made
(`MadeInv`). `NobodyWaitsInVain` needs that a generation ends with its live stream (`ClosedInv`),
`NobodyAsksInVain` that a fetch of the cache leaves a result when it ends (`FetchesLast`) and is never
cancelled with a caller.

These statements are about the steps of a module, not properties of a run. TLC agrees with each of
them, and, where the table has an entry under "It can go on", with that entry in terms of ENABLED, on
the instance of the run and with its bounds. The states it explored: `turn` 439,250, `sessions`
2,105,543 (with the symmetry of the run), `overview` 566,621, `overview_serving` 115,736, `starters`
199,225, `web_search` 543,576, `fetching` 179,498, `settings` 1,741,101.

## 7. Not modelled

- `db.py`: the pool of a service is made once by whoever asks first. What a cancelled
  caller leaves to `run_detached` is modelled where it matters, as a write that may happen
  or not (`SessionTurns`, `LoginAttempts`); that the transaction ends and returns its
  connection is the driver's work, and the hazard at `db.py:41` has no property for that.
- `cpu_pool.py`: a pure function runs in a process, or in a thread once the pool has
  broken; the result is the same.
- What a compaction chooses and what the model writes about it (when it runs and what it may meet is
  in `SessionTurns`, which calls it closes in `HistoryPages`).
- How the fields of a page are found in its markup, how addresses are written, and the
  texts of prompts: the difficulty is in data that no small instance stands for.
- Wiring, side calls (`TurnStream` has their outcomes), prompt versions, administration (queries
  and CRUD), RBTI, partner export, model matrix, browser client, scripts.

The vendor's agent framework is external: `Stale` and `Revise` in
`SessionTurns` model what its session store does to an append, and `Delta` in
`SourceRegistry` how it puts the results of a batch together, as the code in `src/` uses
them; asyncio's cancellation of an awaited task is in `WebSearch` and `PageFetch`.
