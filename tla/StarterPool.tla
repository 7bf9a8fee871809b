---------------------------- MODULE StarterPool ----------------------------
(***************************************************************************)
(* The pool of starter questions of one slot and the runs that renew it     *)
(* (starters.StarterService).  Every process claims the run of a day in the *)
(* table starter_runs, reads the pool, has new questions written, and saves *)
(* what it keeps and what is new in one transaction, if the run is still    *)
(* its own.  Processes crash, stall until their run is taken over, and are  *)
(* stopped; the date changes under them; an administrator switches          *)
(* questions off and on.                                                    *)
(*                                                                          *)
(* A question is its text, which is about one of the materials the site     *)
(* shows.  A run that is older than its status allows (_RETRY_RUN_WHERE) is *)
(* "aged"; clocks are not modelled.                                         *)
(***************************************************************************)
EXTENDS Integers, FiniteSets

CONSTANTS
    Procs,      \* the server processes
    Texts,      \* the questions' texts
    About,      \* the material each text is about
    LastDay,    \* bound: the days 1 .. LastDay
    MaxRows,    \* bound: rows of the table starters
    PerSlot,    \* settings.starter_per_slot
    PoolDays,   \* settings.starter_pool_days
    MaxEvents   \* bound: claims of a run that had ended, crashes, stalls, lost
                \* writes and the administrator's edits, together

Materials == {About[text] : text \in Texts}

ASSUME ConstantsAssumption ==
    /\ About = [text \in Texts |-> About[text]]
    /\ LastDay \in Nat \ {0}
    /\ {MaxRows, PerSlot, PoolDays, MaxEvents} \subseteq Nat

VARIABLES
    dated,     \* the slot is trend or general: only today's questions serve
    today,
    rows,      \* starters: the automatic questions in order of their id
    active,    \* the ids whose active is 1
    run,       \* starter_runs: the run of each day
    work,      \* what each process is at
    claims,    \* how many claims each day had; a claim's number is its token
    events,
    lastSave,  \* history: the day and the ids of the last save
    off        \* history: the ids the administrator switched off last

vars == <<dated, today, rows, active, run, work, claims, events, lastSave,
          off>>

Days == 1 .. LastDay
Ids == 1 .. MaxRows
Idle == [pc |-> "idle", day |-> 1, token |-> 0, replace |-> FALSE,
         seen |-> {}, previous |-> {}]

\* A day's run is claimed once, and again after a retry or a fault.
Tokens == 0 .. 1 + MaxEvents

TypeOK ==
    /\ dated \in BOOLEAN
    /\ today \in Days
    /\ rows \in [Ids -> [day : {0} \cup Days, text : Texts]]
    /\ active \subseteq {i \in Ids : rows[i].day # 0}
    /\ run \in [Days -> [status : {"none", "running", "ok", "failed"},
                         token : Tokens, aged : BOOLEAN]]
    /\ work \in [Procs -> [pc : {"idle", "read", "save", "finish"}, day : Days,
                           token : Tokens, replace : BOOLEAN,
                           seen : SUBSET Materials, previous : SUBSET Ids]]
    /\ claims \in [Days -> Tokens]
    /\ events \in 0 .. MaxEvents
    /\ lastSave \in [day : {0} \cup Days, ids : SUBSET Ids]
    /\ off \subseteq Ids

-----------------------------------------------------------------------------
(* Claiming a run. *)

\* Mutant: a run that never ended is not taken over.
RetriableEnded(d, force) ==
    /\ events < MaxEvents
    /\ \/ run[d].status = "failed" /\ run[d].aged
       \/ run[d].status \in {"ok", "failed"} /\ force

\* _RETRY_RUN_WHERE, on the status alone.
Retriable(d, force) ==
    \/ run[d].status = "running" /\ run[d].aged
    \/ /\ events < MaxEvents
       /\ \/ run[d].status = "failed" /\ run[d].aged
          \/ run[d].status \in {"ok", "failed"} /\ force

\* serve and refresh_loop start the one background task of their process, and
\* admin_generate (which forces) waits for the same lock: a process makes one run
\* at a time.  The row of the day is inserted, or taken over if it may be, under
\* a new token; when it may not, or _settled says so at once, nothing happens.
\* The run of a new day, or a forced one, is to replace the pool.
Claim(p, force) ==
    LET new == run[today].status = "none"
    IN  /\ work[p].pc = "idle"
        /\ new \/ Retriable(today, force)
        /\ events' = IF new \/ run[today].status = "running" THEN events
                     ELSE events + 1
        /\ claims' = [claims EXCEPT ![today] = @ + 1]
        /\ run' = [run EXCEPT ![today] = [status |-> "running", aged |-> FALSE,
                                          token |-> claims'[today]]]
        /\ work' = [work EXCEPT ![p] = [Idle EXCEPT !.pc = "read", !.day = today,
                                                     !.token = claims'[today],
                                                     !.replace = new \/ force]]
        /\ UNCHANGED <<dated, today, rows, active, lastSave, off>>

-----------------------------------------------------------------------------
(* Writing the pool. *)

\* The site is observed; with nothing observed the pool stays as it is.
\* Otherwise the active questions of the slot are read.
Read(p, seen) ==
    /\ work[p].pc = "read"
    /\ work' = IF seen = {} THEN [work EXCEPT ![p].pc = "finish"]
               ELSE [work EXCEPT ![p].pc = "save", ![p].seen = seen,
                                 ![p].previous = active]
    /\ UNCHANGED <<dated, today, rows, active, run, claims, events, lastSave,
                   off>>

\* The n members of S with the highest ids (ORDER BY id DESC).
Latest(S, n) == {i \in S : Cardinality({j \in S : j > i}) < n}

\* What two questions of a slot must not share: of a dated slot the text, of
\* another the material.
Same(i, j) == IF dated THEN rows[i].text = rows[j].text
              ELSE About[rows[i].text] = About[rows[j].text]

\* Of the questions S the latest of each, at most PerSlot.
Distinct(S) == Latest({i \in S : \A j \in S : Same(i, j) => j <= i}, PerSlot)

Observed(w, i) == About[rows[i].text] \in w.seen

\* Mutant: the questions of the slot are kept whether they were active or not.
RetainedOfSlot(w) ==
    Distinct({i \in Ids : /\ rows[i].day # 0
                          /\ IF dated THEN rows[i].day = w.day ELSE Observed(w, i)})

\* Mutant: yesterday's questions of a dated slot are retained.
RetainedAnyDay(w) == Distinct({i \in w.previous : dated \/ Observed(w, i)})

\* The questions read that still hold: of a dated slot those of the day, of
\* another those whose material is still observed.
Retained(w) ==
    Distinct({i \in w.previous : IF dated THEN rows[i].day = w.day ELSE Observed(w, i)})

SpokenFor(w) == {About[rows[i].text] : i \in Retained(w)} \cap w.seen

\* What generate_slot may return: at most the questions that are wanted and no
\* more than there are materials, with different texts, each about a material
\* that was observed and, unless the pool is replaced, is not spoken for.
New(w) ==
    LET available == IF w.replace THEN w.seen ELSE w.seen \ SpokenFor(w)
        wanted == PerSlot - (IF w.replace THEN 0 ELSE Cardinality(Retained(w)))
    IN  {made \in SUBSET {text \in Texts : About[text] \in available} :
            /\ Cardinality(made) <= wanted
            /\ Cardinality(made) <= Cardinality(available)}

\* What stays of the retained questions beside the new ones.
Kept(w, made) ==
    Latest({i \in Retained(w) :
              IF dated THEN rows[i].text \notin made
              ELSE About[rows[i].text] \notin {About[text] : text \in made}},
           PerSlot - Cardinality(made))

\* ok when there are as many questions as there is material for, or when there
\* is nothing to be had from it.
Verdict(w, made, dropped) ==
    LET total == Cardinality(Kept(w, made)) + Cardinality(made)
        target == IF Cardinality(w.seen) < PerSlot THEN Cardinality(w.seen)
                  ELSE PerSlot
        exhausted == total = 0 /\ ~dropped /\ w.previous = {}
    IN  IF total >= target \/ exhausted THEN "ok" ELSE "failed"

\* A fresh run of a dated slot that has nothing new keeps the old pool.
PoolPreserved(w, made) ==
    dated /\ w.replace /\ w.previous # {} /\ made = {}

\* Mutant: the token is not compared.
RunsOnly(w) == run[w.day].status = "running"

\* _save_pool locks the row and compares its token.
Owns(w) == run[w.day].status = "running" /\ run[w.day].token = w.token

Free == {i \in Ids : rows[i].day = 0}
NextIds(n) == {i \in Free : Cardinality({j \in Free : j < i}) < n}

\* The new questions get the next ids, in an order that does not matter.
Inserted(w, made, ids) ==
    LET order == CHOOSE f \in [ids -> made] : \A i, j \in ids : f[i] = f[j] => i = j
    IN  rows' = [i \in Ids |-> IF i \in ids THEN [day |-> w.day, text |-> order[i]]
                               ELSE rows[i]]

\* What is left of a process's work when it comes to the finally.
Ending(w) == [w EXCEPT !.pc = "finish", !.seen = {}, !.previous = {}]

\* _save_pool, committed: the pool is switched off, what is kept is switched on
\* again, what is new is inserted, and the run ends with its verdict.  A run that
\* is no longer the process's own changes nothing.
Save(p, made, dropped) ==
    LET w == work[p]
        kept == Kept(w, made)
        ids == NextIds(Cardinality(made))
    IN  /\ dropped => made = {}
        /\ Cardinality(made) <= Cardinality(Free)
        /\ work' = [work EXCEPT ![p] = Ending(w)]
        /\ IF PoolPreserved(w, made) \/ ~Owns(w)
           THEN UNCHANGED <<rows, active, run, lastSave, off>>
           ELSE /\ Inserted(w, made, ids)
                /\ active' = kept \cup ids
                /\ run' = [run EXCEPT ![w.day] =
                             [status |-> Verdict(w, made, dropped), token |-> 0,
                              aged |-> FALSE]]
                /\ lastSave' = [day |-> w.day, ids |-> kept \cup ids]
                /\ off' = off \ kept
        /\ UNCHANGED <<dated, today, claims, events>>

SaveSome(p) ==
    /\ work[p].pc = "save"
    /\ \E made \in New(work[p]), dropped \in BOOLEAN : Save(p, made, dropped)

\* Observing, reading, labelling or saving fails, or the task is cancelled by
\* close_starter_service: the finally of run_generation ends the run.
Break(p) ==
    /\ work[p].pc \in {"read", "save"}
    /\ work' = [work EXCEPT ![p] = Ending(work[p])]
    /\ UNCHANGED <<dated, today, rows, active, run, claims, events, lastSave,
                   off>>

\* The finally: a run that is still the process's own has failed.
Finish(p) ==
    LET w == work[p]
    IN  /\ w.pc = "finish"
        /\ work' = [work EXCEPT ![p] = Idle]
        /\ run' = IF Owns(w)
                  THEN [run EXCEPT ![w.day] = [status |-> "failed", token |-> 0,
                                               aged |-> FALSE]]
                  ELSE run
        /\ UNCHANGED <<dated, today, rows, active, claims, events, lastSave,
                       off>>

-----------------------------------------------------------------------------
(* What happens around them. *)

Event == events < MaxEvents /\ events' = events + 1

\* A process dies, or its last write does not reach the database.
Crash(p) ==
    /\ Event
    /\ work[p].pc # "idle"
    /\ work' = [work EXCEPT ![p] = Idle]
    /\ UNCHANGED <<dated, today, rows, active, run, claims, lastSave, off>>

AtWork(d) == \E p \in Procs : Owns(work[p]) /\ work[p].day = d

\* The time of a run's status is up
Age(d) ==
    /\ run[d].status \in {"running", "failed"}
    /\ ~run[d].aged
    /\ run' = [run EXCEPT ![d].aged = TRUE]
    /\ UNCHANGED <<dated, today, rows, active, work, claims, lastSave, off>>

\* (the runs of days gone by are not looked at again)
Expire == ~AtWork(today) /\ Age(today) /\ UNCHANGED events

\* ... while its process is at work: a stall, for a generation times out long
\* before it counts as dead.
Stall == AtWork(today) /\ Age(today) /\ Event

NextDay ==
    /\ today < LastDay
    /\ today' = today + 1
    /\ UNCHANGED <<dated, rows, active, run, work, claims, events, lastSave,
                   off>>

\* deactivate_item and update_item on the active column.
SwitchOff(i) ==
    /\ Event
    /\ i \in active
    /\ active' = active \ {i}
    /\ off' = off \cup {i}
    /\ UNCHANGED <<dated, today, rows, run, work, claims, lastSave>>

SwitchOn(i) ==
    /\ Event
    /\ rows[i].day # 0
    /\ i \notin active
    /\ active' = active \cup {i}
    /\ off' = off \ {i}
    /\ UNCHANGED <<dated, today, rows, run, work, claims, lastSave>>

Process(p) ==
    \/ \E force \in BOOLEAN : Claim(p, force)
    \/ \E seen \in SUBSET Materials : Read(p, seen)
    \/ SaveSome(p)
    \/ Break(p)
    \/ Finish(p)
    \/ Crash(p)

Init ==
    /\ dated \in BOOLEAN
    /\ today = 1
    /\ rows = [i \in Ids |-> [day |-> 0, text |-> CHOOSE text \in Texts : TRUE]]
    /\ active = {}
    /\ run = [d \in Days |-> [status |-> "none", token |-> 0, aged |-> FALSE]]
    /\ work = [p \in Procs |-> Idle]
    /\ claims = [d \in Days |-> 0]
    /\ events = 0
    /\ lastSave = [day |-> 0, ids |-> {}]
    /\ off = {}

Next ==
    \/ \E p \in Procs : Process(p)
    \/ Expire
    \/ Stall
    \/ NextDay
    \/ \E i \in Ids : SwitchOff(i) \/ SwitchOn(i)

Spec == Init /\ [][Next]_vars

\* The refresh loop comes round, a process that lives goes on, and time passes.
Fairness ==
    /\ \A p \in Procs :
         /\ WF_vars(Claim(p, FALSE))
         /\ WF_vars(\E seen \in SUBSET Materials : Read(p, seen))
         /\ WF_vars(SaveSome(p))
         /\ WF_vars(Finish(p))
    /\ WF_vars(Expire)

FairSpec == Spec /\ Fairness

-----------------------------------------------------------------------------
(* Serving. *)

\* live_clauses for an automatic question without a window of its own.
Live(i) ==
    /\ i \in active
    /\ rows[i].day >= today - PoolDays
    /\ dated => rows[i].day = today

\* The pool is saved by the last claimant of a day's run alone: a process whose
\* run was taken over while it was stalled, or was given up, changes nothing
\* (the token compared under FOR UPDATE in _save_pool).
SavesInClaimOrder ==
    [][\A p \in Procs :
         work[p].pc = "save" /\ <<rows, active, run>>' # <<rows, active, run>>
            => work'[p] = work[p] \/ work[p].token = claims[work[p].day]]_vars

\* A question that an administrator had switched off when a run read the pool is
\* not switched on by that run's save.  (One that is switched off between the two
\* is: the save keeps what the run had read as active, starters.py:1659, and
\* nothing compares it with the table again.)
OffStaysOff ==
    [][\A p \in Procs :
         work[p].pc = "save" /\ work'[p].pc # "save"
            => (off \ (active \cup work[p].previous)) \cap active' = {}]_vars

\* After a run of the day that ended well, every question of its save serves,
\* except for what was switched off since, what a save of another day's run
\* replaced, and a retained question older than the pool's days: retaining does
\* not renew run_date.
ServedAfterOk ==
    run[today].status = "ok" /\ lastSave.day = today
        => \A i \in lastSave.ids :
             Live(i) \/ i \in off \/ (~dated /\ rows[i].day < today - PoolDays)

\* A run that is under way ends, or its day does: a dead process's run of today
\* is taken over.
RunEnds ==
    \A d \in Days :
        run[d].status = "running" ~> (run[d].status # "running" \/ today # d)

=============================================================================
