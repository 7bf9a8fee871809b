---------------------------- MODULE SourceRegistry ----------------------------
(***************************************************************************)
(* The numbers under which a session cites its sources (sources.py, with    *)
(* event_translate.settle_sources and runner._settle_turn_sources).         *)
(*                                                                          *)
(* The tools of a turn run in parallel.  Each registers what it observed    *)
(* and gets a number for it; the number goes to the model and into stored   *)
(* answers, so it must name one page for as long as the session lives.      *)
(* What the tools write is saved with the event that carries their results, *)
(* merged in the order of the calls; a turn ends by laying what the stream  *)
(* carried over what was saved and writing back what differs.               *)
(*                                                                          *)
(* A record keeps the page, how faithful its text is (0 a line of a list,   *)
(* 1 the page itself) and the minute its observed values are from.          *)
(***************************************************************************)
EXTENDS Integers, Sequences, FiniteSets, FiniteSetsExt, SequencesExt

CONSTANTS
    Urls,
    Parallel,       \* how many tool calls run in parallel
    Base,           \* the first number given out (source_id_base)
    Cap,            \* turns the ledger holds (LEDGER_MAX_INVOCATIONS)
    MaxTurns, MaxBatches, MaxOthers, MaxTime    \* bounds of the runs

ASSUME RegistryAssumption ==
    /\ Urls # {}
    /\ Parallel \in Nat \ {0} /\ Base \in Nat \ {0} /\ Cap \in Nat \ {0}
    /\ MaxTurns \in Nat /\ MaxBatches \in Nat /\ MaxOthers \in Nat /\ MaxTime \in Nat

VARIABLES
    registry,   \* the saved records, by number
    invocation, \* the open turn: its number, its batches, what it sees
    calls,      \* the tool calls of the batch that runs
    written,    \* what the calls of this batch have written so far
    observed,   \* what the stream of the turn has carried, in order
    ledger,     \* numbers given out, per turn, least recently used first
    now,        \* minutes
    told,       \* numbers and pages the model was ever shown
    since,      \* other turns that were given a number since this one was
    owed        \* per page, the best and the latest observation that were settled

registryVars == <<registry, invocation, calls, written, observed, ledger, now, told, since, owed>>

-----------------------------------------------------------------------------
(* Records *)

Record(u, f, t) == [url |-> u, fid |-> f, at |-> t]

\* (A mistake: the text goes by time as well.)
MergeByTime(old, new) == new

\* Two observations under one number: the more faithful one keeps the text, the
\* later one the observed values; records of two pages are never mixed.
Merge(old, new) ==
    IF old.url # new.url THEN new
    ELSE [new EXCEPT !.fid = IF old.fid > new.fid THEN old.fid ELSE new.fid,
                     !.at  = IF old.at > new.at THEN old.at ELSE new.at]

LaidOver(low, high) ==      \* the records of high over those of low
    [i \in DOMAIN low \cup DOMAIN high |->
        IF i \in DOMAIN high THEN high[i] ELSE low[i]]

Numbers(records, u) == {i \in DOMAIN records : records[i].url = u}

\* The best of what was seen of a page: the most faithful text, the latest minute.
Best(records) ==
    IF records = {} THEN {}
    ELSE {Record((CHOOSE r \in records : TRUE).url,
                 Max({r.fid : r \in records}), Max({r.at : r \in records}))}

Empty == [i \in {} |-> Record(CHOOSE u \in Urls : TRUE, 0, 0)]

-----------------------------------------------------------------------------
(* The ledger of the numbers given out in a turn *)

\* Where an invocation stands: one place at most.
Places(inv) == {p \in DOMAIN ledger : ledger[p].inv = inv}

Standing(inv) == CHOOSE p \in Places(inv) : TRUE

EntryOf(inv) ==
    IF Places(inv) = {} THEN [inv |-> inv, mark |-> 0, ids |-> Empty] ELSE ledger[Standing(inv)]

NumberIn(entry, u) == {i \in DOMAIN entry.ids : entry.ids[i].url = u}

\* The number of a page the caller does not find among its records.
NextSourceId(existing, entry, u) ==
    IF NumberIn(entry, u) # {} THEN CHOOSE i \in NumberIn(entry, u) : TRUE
    ELSE Max(DOMAIN existing \cup {Base - 1, entry.mark}) + 1

Trimmed(entries) ==
    IF Len(entries) > Cap THEN SubSeq(entries, Len(entries) - Cap + 1, Len(entries)) ELSE entries

\* The entry comes to the end; the longest unused ones go.
Used(entry, id, u) ==
    LET others == IF Places(entry.inv) = {} THEN ledger
                  ELSE RemoveAt(ledger, Standing(entry.inv))
    IN Trimmed(Append(others, [entry EXCEPT
                         !.mark = IF id > @ THEN id ELSE @,
                         !.ids = LaidOver(@, [i \in {id} |-> Record(u, 0, 0)])]))

-----------------------------------------------------------------------------
(* Turns *)

NoTurn == [no |-> 0, open |-> FALSE, batches |-> 0, shared |-> FALSE, crowded |-> FALSE]
Idle   == [st |-> "idle", id |-> 0, obs |-> Record(CHOOSE u \in Urls : TRUE, 0, 0), rec |-> {}]

RegistryInit ==
    /\ registry \in {Empty} \cup {[i \in {1} |-> Record(u, f, 0)] : u \in Urls, f \in {0, 1}}
    /\ invocation = NoTurn
    /\ calls = [c \in 1..Parallel |-> Idle]
    /\ written = Empty /\ observed = <<>> /\ ledger = <<>> /\ now = 0
    /\ told = {<<i, registry[i].url>> : i \in DOMAIN registry}
    /\ since = 0
    /\ owed = [u \in Urls |-> Best({registry[i] : i \in Numbers(registry, u)})]

\* Whether a call sees what the others of its batch have written is up to the
\* agent framework; the code relies on neither.
OpenTurn ==
    /\ ~invocation.open /\ invocation.no < MaxTurns
    /\ \E s \in BOOLEAN :
         invocation' = [no |-> invocation.no + 1, open |-> TRUE, batches |-> 0, shared |-> s,
                  crowded |-> invocation.crowded]
    /\ observed' = <<>> /\ since' = 0
    /\ UNCHANGED <<registry, calls, written, ledger, now, told, owed>>

Busy == \E c \in 1..Parallel : calls[c].st # "idle"

CallTools ==
    /\ invocation.open /\ ~Busy /\ invocation.batches < MaxBatches
    /\ \E S \in SUBSET (1..Parallel) :
         /\ S # {}
         /\ calls' = [c \in 1..Parallel |-> IF c \in S THEN [Idle EXCEPT !.st = "running"] ELSE Idle]
    /\ invocation' = [invocation EXCEPT !.batches = @ + 1]
    /\ written' = Empty
    /\ UNCHANGED <<registry, observed, ledger, now, told, since, owed>>

View == IF invocation.shared THEN LaidOver(registry, written) ELSE registry

\* A tool has a page: it registers it (no await in between) and returns.
Register(c, u, f) ==
    LET seen == Record(u, f, now)
        hit  == Numbers(View, u)
        id   == IF hit # {} THEN Min(hit) ELSE NextSourceId(View, EntryOf(invocation.no), u)
        rec  == IF hit # {} THEN Merge(View[id], seen) ELSE seen
        new  == IF hit # {} /\ rec = View[id] THEN {} ELSE {rec}
    IN /\ calls[c].st = "running"
       /\ calls' = [calls EXCEPT ![c] = [st |-> "done", id |-> id, obs |-> seen, rec |-> new]]
       /\ written' = LaidOver(written, [i \in {j \in {id} : new # {}} |-> rec])
       /\ IF hit # {} THEN UNCHANGED <<ledger, since>>
          ELSE ledger' = Used(EntryOf(invocation.no), id, u) /\ since' = 0
       /\ UNCHANGED <<registry, invocation, observed, now, told, owed>>

\* The tool fails, or finds nothing: it registers nothing.
ReturnNothing(c) ==
    /\ calls[c].st = "running"
    /\ calls' = [calls EXCEPT ![c] = Idle]
    /\ UNCHANGED <<registry, invocation, written, observed, ledger, now, told, since, owed>>

\* (A mistake: the records are one list and the list of the last call wins.)
DeltaAsList ==
    LET writers == {c \in 1..Parallel : calls[c].rec # {}}
    IN [i \in {calls[Max(writers)].id : c \in writers} |->
          CHOOSE r \in calls[Max(writers)].rec : TRUE]

\* The writes of a batch, merged in the order of the calls: under one number the
\* fields of the last call win.
Delta ==
    LET Writers(i) == {c \in 1..Parallel : calls[c].id = i /\ calls[c].rec # {}}
        changed == {calls[c].id : c \in {d \in 1..Parallel : calls[d].rec # {}}}
    IN [i \in changed |-> CHOOSE r \in calls[Max(Writers(i))].rec : TRUE]

Returned == {c \in 1..Parallel : calls[c].st = "done"}

\* What the event carries of each call: its number and record, or nothing.
Results ==
    [c \in 1..Parallel |-> IF c \in Returned THEN <<calls[c].id, calls[c].obs>> ELSE <<>>]

AllReturned == Busy /\ \A c \in 1..Parallel : calls[c].st # "running"

\* The event with the results is saved, then the stream carries it.
Respond ==
    /\ invocation.open /\ AllReturned
    /\ registry' = LaidOver(registry, Delta)
    /\ observed' = observed \o Results
    /\ told' = told \cup {<<calls[c].id, calls[c].obs.url>> : c \in Returned}
    /\ calls' = [c \in 1..Parallel |-> Idle] /\ written' = Empty
    /\ UNCHANGED <<invocation, ledger, now, since, owed>>

\* Saving the event fails: the stream never carries it.
LoseResults ==
    /\ invocation.open /\ AllReturned
    /\ calls' = [c \in 1..Parallel |-> Idle] /\ written' = Empty
    /\ invocation' = [invocation EXCEPT !.batches = MaxBatches]
    /\ UNCHANGED <<registry, observed, ledger, now, told, since, owed>>

-----------------------------------------------------------------------------
(* The end of a turn *)

\* One observation, a number and a record, laid on the records.
Lay(records, o) ==
    IF o = <<>> THEN records
    ELSE LaidOver(records, [i \in {o[1]} |-> IF i \in DOMAIN records THEN Merge(records[i], o[2])
                                           ELSE o[2]])

SettleSources(records, seen) ==
    LET laid[k \in 0..Len(seen)] == IF k = 0 THEN records ELSE Lay(laid[k - 1], seen[k])
    IN laid[Len(seen)]

RegistryRepairs(records, settled) ==
    [i \in {j \in DOMAIN settled : j \notin DOMAIN records \/ Merge(records[j], settled[j]) # records[j]}
        |-> IF i \in DOMAIN records THEN Merge(records[i], settled[i]) ELSE settled[i]]

Closed == [invocation EXCEPT !.open = FALSE, !.batches = 0, !.shared = FALSE]

\* What the stream has carried of a page.
SeenOf(u) == {o[2] : o \in {p \in Range(observed) : p # <<>> /\ p[2].url = u}}

SettleTurn ==
    /\ invocation.open /\ ~Busy
    /\ registry' = LaidOver(registry, RegistryRepairs(registry, SettleSources(registry, observed)))
    /\ invocation' = Closed /\ observed' = <<>> /\ since' = 0
    /\ owed' = [u \in Urls |-> Best(owed[u] \cup SeenOf(u))]
    /\ UNCHANGED <<calls, written, ledger, now, told>>

\* The registry cannot be read or written at the end, or the client is gone and
\* the turn is cut: nothing is written back.  What was saved may stay worse than
\* what had been observed.
EndUnsettled ==
    /\ invocation.open
    /\ invocation' = Closed /\ observed' = <<>> /\ since' = 0
    /\ calls' = [c \in 1..Parallel |-> Idle] /\ written' = Empty
    /\ owed' = [u \in Urls |-> {}]
    /\ UNCHANGED <<registry, ledger, now, told>>

-----------------------------------------------------------------------------
(* Around it *)

\* A turn of another session is given its first number.
OtherTurn ==
    /\ invocation.open /\ since < MaxOthers
    /\ ledger' = Trimmed(Append(ledger, [inv |-> -since - 1, mark |-> Base, ids |-> Empty]))
    /\ since' = since + 1
    /\ invocation' = [invocation EXCEPT !.crowded = @ \/ since + 1 >= Cap]
    /\ UNCHANGED <<registry, calls, written, observed, now, told, owed>>

Minute ==
    /\ now < MaxTime /\ now' = now + 1
    /\ UNCHANGED <<registry, invocation, calls, written, observed, ledger, told, since, owed>>

RegistryNext ==
    \/ OpenTurn \/ CallTools \/ Respond \/ LoseResults
    \/ \E c \in 1..Parallel : ReturnNothing(c) \/ \E u \in Urls, f \in {0, 1} : Register(c, u, f)
    \/ SettleTurn \/ EndUnsettled
    \/ OtherTurn \/ Minute

RegistrySpec == RegistryInit /\ [][RegistryNext]_registryVars

-----------------------------------------------------------------------------
(* Properties *)

Records == [url : Urls, fid : {0, 1}, at : 0..MaxTime]

\* Types of the registry, the calls and the stream.
RegistryTypeOK ==
    /\ \A i \in DOMAIN registry : i \in Nat \ {0} /\ registry[i] \in Records
    /\ \A i \in DOMAIN written : i \in Nat \ {0} /\ written[i] \in Records
    /\ \A c \in 1..Parallel :
         /\ calls[c].st \in {"idle", "running", "done"} /\ calls[c].obs \in Records
         /\ calls[c].rec \in SUBSET Records /\ Cardinality(calls[c].rec) <= 1
    /\ \A k \in 1..Len(observed) : observed[k] # <<>> => observed[k][2] \in Records
    /\ Len(ledger) <= Cap /\ now \in 0..MaxTime

\* A number the model was shown never names two pages, and a page never has two
\* numbers, however the calls of a turn interleave and whatever they see of each
\* other - unless as many other turns as the ledger holds were given numbers in the
\* middle of the turn (the ledger of sources.py:48-79).
NumbersAgree ==
    ~invocation.crowded =>
        \A a, b \in told : (a[1] = b[1]) <=> (a[2] = b[2])

\* A number that was shown stays in the registry under its page, also if the turn
\* was cut or the registry could not be reached at its end: a later turn never
\* gives it to another page (runner.py:320-325).
ShownNumbersKept ==
    ~invocation.crowded =>
        \A a \in told : a[1] \in DOMAIN registry /\ registry[a[1]].url = a[2]

\* Numbers and pages go together, in the turn that shows them and ever after.
NumbersHold == NumbersAgree /\ ShownNumbersKept

\* Between turns a page that was read in full is not back to a line of a list, and
\* its values are the latest observed, as long as the turns could be settled
\* (event_translate.settle_sources: a detail and a list of one batch overlap).
DetailKept ==
    (~invocation.open /\ ~invocation.crowded) =>
        \A u \in Urls : \A o \in owed[u] : \E i \in Numbers(registry, u) :
            registry[i].fid >= o.fid /\ registry[i].at >= o.at
=============================================================================
