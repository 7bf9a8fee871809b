--------------------------- MODULE ModelSettings ---------------------------
(***************************************************************************)
(* The runtime model settings of one server process: a read-through cache   *)
(* with a time to live in front of the one row of model_settings            *)
(* (model_routing.current_models, invalidate_cache), and the owner's edit   *)
(* of that row here and on other servers (admin.admin_update_models).       *)
(*                                                                          *)
(* A turn that misses the cache queries the row and fills the cache when    *)
(* the answer is back; other turns, a save and its invalidation happen      *)
(* meanwhile.  The cache counts down the ticks it has left to live.         *)
(*                                                                          *)
(* Its variables and its specification have names of their own, so that a   *)
(* module can extend it together with ModelRouting (ModelChoiceProofs).     *)
(***************************************************************************)
EXTENDS Integers

CONSTANTS
    Callers,     \* the coroutines that call current_models
    Selectable,  \* settings.selectable_models
    Off,         \* "": the fallback is switched off
    Null,        \* a NULL column: follow the config
    Retired,     \* a model that has left the selectable ones
    Config,      \* the configured [default, fallback]
    NoCache,     \* _cache is None
    SavedRows,   \* the rows the database may hold
    NoRow,       \* the version of a value read without a row
    TTL,         \* settings.model_settings_ttl_s, in ticks
    MaxSaves     \* bound: how often the row is saved

EffectiveChoices == [default : Selectable, fallback : Selectable \cup {Off}]
Columns == Selectable \cup {Null, Retired}
Rows == [default : Columns, fallback : Columns \cup {Off}]

ASSUME SettingsAssumption ==
    /\ Config \in EffectiveChoices
    /\ SavedRows \subseteq Rows
    /\ {Null, Retired, Off} \cap Selectable = {}
    /\ NoRow \notin Int
    /\ TTL \in Nat \ {0}
    /\ MaxSaves \in Nat

VARIABLES
    row,         \* the row of model_settings
    version,     \* how often it was saved
    cache,       \* _cache
    at,          \* where each caller is
    fetched,     \* the row and version its query returned
    got,         \* the value its last call returned
    saved,       \* the version an owner's edit here has committed and not yet
                 \* invalidated the cache for, 0 if there is none
    acked,       \* history: the newest version saved and invalidated here
    ackedBefore, \* history: acked when the caller's call began
    straddles    \* history: an invalidation fell into the caller's query

settings == <<row, version, cache, at, fetched, got, saved, acked, ackedBefore,
          straddles>>

Versions == 0 .. MaxSaves
Values == [choice : EffectiveChoices, version : Versions \cup {NoRow},
           straddled : BOOLEAN]
Entries == [left : 0 .. TTL, value : Values]
Answers == [row : Rows, version : Versions \cup {NoRow}]

SettingsTypeOK ==
    /\ row \in Rows
    /\ version \in Versions
    /\ cache \in Entries \cup {NoCache}
    /\ at \in [Callers -> {"idle", "querying", "answered", "served"}]
    /\ fetched \in [Callers -> Answers]
    /\ got \in [Callers -> Values]
    /\ saved \in Versions
    /\ acked \in Versions
    /\ ackedBefore \in [Callers -> Versions]
    /\ straddles \in [Callers -> BOOLEAN]

-----------------------------------------------------------------------------

\* pick in effective_choice: NULL and a value outside the selectable models
\* give way to the configured one.
Pick(value, allowed, configured) ==
    IF value \in allowed THEN value ELSE configured

EffectiveChoice(r) ==
    [default |-> Pick(r.default, Selectable, Config.default),
     fallback |-> Pick(r.fallback, Selectable \cup {Off}, Config.fallback)]

EmptyRow == [default |-> Null, fallback |-> Null]

SettingsInit ==
    /\ row \in SavedRows
    /\ version = 0
    /\ cache = NoCache
    /\ at = [c \in Callers |-> "idle"]
    /\ fetched = [c \in Callers |-> [row |-> EmptyRow, version |-> NoRow]]
    /\ got = [c \in Callers |->
                [choice |-> Config, version |-> NoRow, straddled |-> FALSE]]
    /\ saved = 0
    /\ acked = 0
    /\ ackedBefore = [c \in Callers |-> 0]
    /\ straddles = [c \in Callers |-> FALSE]

-----------------------------------------------------------------------------
(* current_models. *)

CacheLive == cache # NoCache /\ cache.left > 0

Begins(c) ==
    /\ at[c] \in {"idle", "served"}
    /\ ackedBefore' = [ackedBefore EXCEPT ![c] = acked]

\* Mutant: a hit renews the entry's time to live.
HitRenewing(c) ==
    /\ Begins(c)
    /\ CacheLive
    /\ cache' = [cache EXCEPT !.left = TTL]
    /\ got' = [got EXCEPT ![c] = cache.value]
    /\ at' = [at EXCEPT ![c] = "served"]
    /\ UNCHANGED <<row, version, fetched, saved, acked, straddles>>

Hit(c) ==
    /\ Begins(c)
    /\ CacheLive
    /\ got' = [got EXCEPT ![c] = cache.value]
    /\ at' = [at EXCEPT ![c] = "served"]
    /\ UNCHANGED <<row, version, cache, fetched, saved, acked, straddles>>

Miss(c) ==
    /\ Begins(c)
    /\ ~CacheLive
    /\ at' = [at EXCEPT ![c] = "querying"]
    /\ straddles' = [straddles EXCEPT ![c] = FALSE]
    /\ UNCHANGED <<row, version, cache, fetched, got, saved, acked>>

\* The database evaluates the SELECT, or the read fails (then the answer is no
\* row, and the config holds).
Query(c, answer) ==
    /\ at[c] = "querying"
    /\ fetched' = [fetched EXCEPT ![c] = answer]
    /\ at' = [at EXCEPT ![c] = "answered"]
    /\ UNCHANGED <<row, version, cache, got, saved, acked, ackedBefore,
                   straddles>>

ReadRow(c) == Query(c, [row |-> row, version |-> version])
ReadFails(c) == Query(c, [row |-> EmptyRow, version |-> NoRow])

\* The answer is back in the coroutine: fill the cache, a failure included.
Fill(c) ==
    LET value == [choice |-> EffectiveChoice(fetched[c].row),
                  version |-> fetched[c].version,
                  straddled |-> straddles[c]]
    IN  /\ at[c] = "answered"
        /\ cache' = [left |-> TTL, value |-> value]
        /\ got' = [got EXCEPT ![c] = value]
        /\ at' = [at EXCEPT ![c] = "served"]
        /\ UNCHANGED <<row, version, fetched, saved, acked, ackedBefore,
                       straddles>>

\* The setup of the turn times out during the query.
GiveUp(c) ==
    /\ at[c] \in {"querying", "answered"}
    /\ at' = [at EXCEPT ![c] = "idle"]
    /\ UNCHANGED <<row, version, cache, fetched, got, saved, acked,
                   ackedBefore, straddles>>

-----------------------------------------------------------------------------
(* The owner's edit. *)

WriteRow(r) ==
    /\ version < MaxSaves
    /\ r # row
    /\ row' = r
    /\ version' = version + 1

\* admin_update_models commits the row ...
Save(r) ==
    /\ saved = 0
    /\ WriteRow(r)
    /\ saved' = version'
    /\ UNCHANGED <<cache, at, fetched, got, acked, ackedBefore, straddles>>

\* Mutant: the cache is kept.
InvalidateNothing ==
    /\ saved # 0
    /\ saved' = 0
    /\ acked' = saved
    /\ straddles' = [c \in Callers |->
                       straddles[c] \/ at[c] \in {"querying", "answered"}]
    /\ UNCHANGED <<row, version, cache, at, fetched, got, ackedBefore>>

\* ... and drops this process's cache before it answers.
Invalidate ==
    /\ saved # 0
    /\ cache' = NoCache
    /\ saved' = 0
    /\ acked' = saved
    /\ straddles' = [c \in Callers |->
                       straddles[c] \/ at[c] \in {"querying", "answered"}]
    /\ UNCHANGED <<row, version, at, fetched, got, ackedBefore>>

\* The edit reaches another server, which invalidates its own cache only.
ForeignSave(r) ==
    /\ WriteRow(r)
    /\ UNCHANGED <<cache, at, fetched, got, saved, acked, ackedBefore,
                   straddles>>

Expire ==
    /\ CacheLive
    /\ cache' = [cache EXCEPT !.left = @ - 1]
    /\ UNCHANGED <<row, version, at, fetched, got, saved, acked, ackedBefore,
                   straddles>>

Call(c) == Hit(c) \/ Miss(c) \/ ReadRow(c) \/ ReadFails(c) \/ Fill(c) \/ GiveUp(c)

SettingsNext ==
    \/ \E c \in Callers : Call(c)
    \/ \E r \in SavedRows : Save(r) \/ ForeignSave(r)
    \/ Invalidate
    \/ Expire

SettingsSpec == SettingsInit /\ [][SettingsNext]_settings

\* Time passes, and a query that was sent ends: it answers, or the driver or
\* the setup timeout ends it.
Fairness ==
    /\ WF_settings(Expire)
    /\ WF_settings(Invalidate)
    /\ \A c \in Callers :
         WF_settings(ReadRow(c) \/ ReadFails(c) \/ Fill(c) \/ GiveUp(c))

FairSpec == SettingsSpec /\ Fairness
-----------------------------------------------------------------------------
(* Properties. *)

\* No call hands out a model that is not selectable, whatever the row holds
\* (effective_choice filters again what the edit had checked, because a
\* deployment may retire a model after it was saved).
ServesSelectable ==
    \A c \in Callers :
      at[c] = "served" =>
        /\ got[c].choice.default \in Selectable
        /\ got[c].choice.fallback \in Selectable \cup {Off}

Outdated(c) ==
    /\ at[c] = "served"
    /\ got[c].version # NoRow
    /\ got[c].version < ackedBefore[c]

\* A call that begins after an edit here was answered returns that edit, unless
\* the value came from a query that was under way when the cache was dropped,
\* or the read failed (current_models, invalidate_cache).
FreshAfterEdit == \A c \in Callers : Outdated(c) => got[c].straddled

\* What admin_update_models says: this instance follows an edit at once.  A
\* query that was under way fills the cache again with the row it had read
\* before the commit: TLC finds it violated (README, 4).
ReadsItsEdit == \A c \in Callers : ~Outdated(c)

\* Once the row is no longer edited, what the cache serves becomes the row and
\* stays so, or the config while reads fail (the other servers follow within
\* model_settings_ttl_s).
Converges ==
    <>[](CacheLive /\ cache.value.version # NoRow
           => cache.value.version = version)
=============================================================================
