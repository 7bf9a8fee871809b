---------------------------- MODULE ModelRouting ----------------------------
(***************************************************************************)
(* How one server process chooses the answer model of a turn, falls back    *)
(* to another one on a vendor failure, and remembers for a while that a     *)
(* model ran into its quota (yes24_agent/model_routing.py, driven by        *)
(* runner.run_agent_stream).                                                *)
(*                                                                          *)
(* The turns of a process run concurrently and share one dictionary, the    *)
(* cooldowns.  Planning a turn and switching its model each read that       *)
(* dictionary, wait, and only then act: the two gaps are steps of their     *)
(* own here.  The model settings a turn starts from (module ModelSettings)  *)
(* are any member of Choices.                                               *)
(*                                                                          *)
(* Time is a clock of whole ticks.  time.monotonic() is fine enough that    *)
(* no two instants at which a cooldown is armed coincide, so arming one     *)
(* takes a tick.                                                            *)
(***************************************************************************)
EXTENDS Integers

CONSTANTS
    Turns,       \* the turns of this process
    Models,      \* the selectable models
    NoModel,     \* "": no fallback is configured, or no model is requested
    None,        \* no cooldown entry
    Requests,    \* what a request may ask for: a model, or NoModel
    Choices,     \* effective settings: records [default, fallback]
    Cooldown,    \* settings.model_fallback_cooldown_s
    MaxTime      \* bound: the clock does not tick beyond this by itself

ASSUME ConstantsAssumption ==
    /\ NoModel \notin Models
    /\ None \notin Int
    /\ Requests \subseteq Models \cup {NoModel}
    /\ Choices \subseteq [default : Models, fallback : Models \cup {NoModel}]
    /\ Cooldown \in Nat \ {0}
    /\ MaxTime \in Nat

VARIABLES
    now,         \* time.monotonic()
    cooldown,    \* _cooldown_until: model -> expiry, None when it has no key
    pc,          \* where each turn is
    primary,     \* TurnModels.primary
    fallback,    \* TurnModels.fallback
    skip,        \* skip_primary, decided before the bindings are loaded
    active,      \* TurnModels.active
    probe,       \* TurnModels.probe
    retried,     \* the turn has used its one rerun on another model
    shown,       \* emitted_output: a step or body frame went out
    alarm,       \* the level of each model's last arming log line
    decidedAt,   \* history: when the turn's present model was decided
    departedAt   \* history: when the turn departed on its present model

routing == <<primary, fallback, skip>>
history == <<decidedAt, departedAt>>
vars == <<now, cooldown, pc, routing, active, probe, retried, shown, alarm,
                   history>>

Expiry == Nat \cup {None}
Optional == Models \cup {NoModel}
Final == {"done", "failed"}
Phases == {"idle", "planned", "running", "switching"} \cup Final

TypeOK ==
    /\ now \in Nat
    /\ cooldown \in [Models -> Expiry]
    /\ pc \in [Turns -> Phases]
    /\ primary \in [Turns -> Optional]
    /\ fallback \in [Turns -> Optional]
    /\ skip \in [Turns -> BOOLEAN]
    /\ active \in [Turns -> Optional]
    /\ probe \in [Turns -> Expiry]
    /\ retried \in [Turns -> BOOLEAN]
    /\ shown \in [Turns -> BOOLEAN]
    /\ alarm \in [Models -> {"none", "warning", "error"}]
    /\ decidedAt \in [Turns -> Nat]
    /\ departedAt \in [Turns -> Nat]
    /\ \A t \in Turns :
         /\ pc[t] # "idle" => primary[t] \in Models
         /\ pc[t] = "running" => active[t] \in Models
         /\ skip[t] \/ pc[t] = "switching" => fallback[t] \in Models

-----------------------------------------------------------------------------
(* The cooldowns. *)

CoolingDown(m) == m # NoModel /\ cooldown[m] # None /\ now < cooldown[m]

\* The status classes the code tells apart: 429, another transient status
\* (5xx, timeouts), anything else.
Statuses == {"quota", "transient", "permanent"}

Init ==
    /\ now = 0
    /\ cooldown = [m \in Models |-> None]
    /\ pc = [t \in Turns |-> "idle"]
    /\ primary = [t \in Turns |-> NoModel]
    /\ fallback = [t \in Turns |-> NoModel]
    /\ skip = [t \in Turns |-> FALSE]
    /\ active = [t \in Turns |-> NoModel]
    /\ probe = [t \in Turns |-> None]
    /\ retried = [t \in Turns |-> FALSE]
    /\ shown = [t \in Turns |-> FALSE]
    /\ alarm = [m \in Models |-> "none"]
    /\ decidedAt = [t \in Turns |-> 0]
    /\ departedAt = [t \in Turns |-> 0]

-----------------------------------------------------------------------------
(* Planning a turn. *)

\* An explicitly requested model has no fallback, and a fallback equal to the
\* primary is none.
FallbackOf(req, choice) ==
    IF req # NoModel \/ choice.fallback = choice.default
    THEN NoModel ELSE choice.fallback

\* Mutant: the fallback's own cooldown is not looked at.
SkipPrimaryBlindly(main, fb) == fb # NoModel /\ CoolingDown(main)

SkipPrimary(main, fb) ==
    fb # NoModel /\ CoolingDown(main) /\ ~CoolingDown(fb)

\* plan_turn_models up to its await on the prompt bindings: the decision
\* whether to skip the primary is taken here.
Plan(t, req, choice) ==
    LET main == IF req # NoModel THEN req ELSE choice.default
        fb == FallbackOf(req, choice)
    IN  /\ pc[t] = "idle"
        /\ primary' = [primary EXCEPT ![t] = main]
        /\ fallback' = [fallback EXCEPT ![t] = fb]
        /\ skip' = [skip EXCEPT ![t] = SkipPrimary(main, fb)]
        /\ pc' = [pc EXCEPT ![t] = "planned"]
        /\ decidedAt' = [decidedAt EXCEPT ![t] = now]
        /\ UNCHANGED <<now, cooldown, active, probe, retried, shown, alarm,
                   departedAt>>

\* TurnModels.switch: run on m and remember the cooldown key seen now.
SwitchTo(t, m) ==
    /\ active' = [active EXCEPT ![t] = m]
    /\ probe' = [probe EXCEPT ![t] = cooldown[m]]
    /\ departedAt' = [departedAt EXCEPT ![t] = now]

\* The rest of plan_turn_models, after the await: the turn departs on the
\* model chosen earlier.
Depart(t) ==
    /\ pc[t] = "planned"
    /\ SwitchTo(t, IF skip[t] THEN fallback[t] ELSE primary[t])
    /\ pc' = [pc EXCEPT ![t] = "running"]
    /\ UNCHANGED <<now, cooldown, routing, retried, shown, alarm, decidedAt>>

-----------------------------------------------------------------------------
(* A running turn.  A failure reaches it after CallRetry has repeated the one
   request that failed, where it may (module TurnStream). *)

\* A tool step or body text goes out: a frame the screen cannot take back.
Show(t) ==
    /\ pc[t] = "running"
    /\ shown' = [shown EXCEPT ![t] = TRUE]
    /\ UNCHANGED <<now, cooldown, pc, routing, active, probe, retried, alarm,
                   history>>

\* Mutant: every arming is an ERROR, a probe's too.
ArmCooldownLoudly(t) ==
    LET m == active[t]
    IN  IF CoolingDown(m)
        THEN UNCHANGED <<now, cooldown, alarm>>
        ELSE /\ cooldown' = [cooldown EXCEPT ![m] = now + Cooldown]
             /\ alarm' = [alarm EXCEPT ![m] = "error"]
             /\ now' = now + 1

\* _arm_cooldown: nothing while the model already cools down.  A turn that
\* set out on the model while it had a key logs WARNING, any other one ERROR.
\* The model armed is always the one the turn runs.
ArmCooldown(t) ==
    LET m == active[t]
    IN  IF CoolingDown(m)
        THEN UNCHANGED <<now, cooldown, alarm>>
        ELSE /\ cooldown' = [cooldown EXCEPT ![m] = now + Cooldown]
             /\ alarm' = [alarm EXCEPT ![m] =
                             IF probe[t] # None THEN "warning" ELSE "error"]
             /\ now' = now + 1

\* Arming comes first, so the fallback is judged by the cooldowns it leaves;
\* the one it can have changed is that of the active model, and a turn on its
\* fallback has nowhere to go.
RerunAllowed(t, status) ==
    /\ status # "permanent"
    /\ ~retried[t] /\ ~shown[t]
    /\ fallback[t] # NoModel
    /\ active[t] # fallback[t]
    /\ ~CoolingDown(fallback[t])

\* The exception reaches the runner and retry_model decides: arm the cooldown
\* on a 429, then rerun on the fallback or give the turn up.
StreamFails(t, status) ==
    /\ pc[t] = "running"
    /\ IF status = "quota" /\ fallback[t] # NoModel
       THEN ArmCooldown(t)
       ELSE UNCHANGED <<now, cooldown, alarm>>
    /\ pc' = [pc EXCEPT ![t] =
                 IF RerunAllowed(t, status) THEN "switching" ELSE "failed"]
    /\ decidedAt' = [decidedAt EXCEPT ![t] = now]
    /\ UNCHANGED <<routing, active, probe, retried, shown, departedAt>>

\* Both streams of the failed attempt are closed (two awaits); only then does
\* the turn depart on the fallback.
Rerun(t) ==
    /\ pc[t] = "switching"
    /\ SwitchTo(t, fallback[t])
    /\ retried' = [retried EXCEPT ![t] = TRUE]
    /\ pc' = [pc EXCEPT ![t] = "running"]
    /\ UNCHANGED <<now, cooldown, routing, shown, alarm, decidedAt>>

\* Mutant: a probe releases whatever key it finds.
FinishReleasingAnyKey(t) ==
    /\ pc[t] = "running"
    /\ cooldown' = [cooldown EXCEPT ![active[t]] =
                       IF probe[t] # None THEN None ELSE @]
    /\ pc' = [pc EXCEPT ![t] = "done"]
    /\ UNCHANGED <<now, routing, active, probe, retried, shown, alarm,
                   history>>

\* The stream ends normally.  mark_turn_ok: a turn that probed the model
\* releases the cooldown, if the key is still the one it set out with.
Finish(t) ==
    /\ pc[t] = "running"
    /\ cooldown' = [cooldown EXCEPT ![active[t]] =
                       IF probe[t] # None /\ @ = probe[t] THEN None ELSE @]
    /\ pc' = [pc EXCEPT ![t] = "done"]
    /\ UNCHANGED <<now, routing, active, probe, retried, shown, alarm,
                   history>>

\* The client leaves, the setup or the turn times out, a close fails.
Abort(t) ==
    /\ pc[t] \in {"planned", "running", "switching"}
    /\ pc' = [pc EXCEPT ![t] = "failed"]
    /\ UNCHANGED <<now, cooldown, routing, active, probe, retried, shown, alarm,
                   history>>

Tick ==
    /\ now < MaxTime
    /\ now' = now + 1
    /\ UNCHANGED <<cooldown, pc, routing, active, probe, retried, shown, alarm,
                   history>>

\* Every turn has ended.
Quiet == (\A t \in Turns : pc[t] \in Final) /\ UNCHANGED vars

TurnStep(t) ==
    \/ \E req \in Requests, choice \in Choices : Plan(t, req, choice)
    \/ Depart(t)
    \/ Show(t)
    \/ \E status \in Statuses : StreamFails(t, status)
    \/ Rerun(t)
    \/ Finish(t)
    \/ Abort(t)

Next == (\E t \in Turns : TurnStep(t)) \/ Tick \/ Quiet

Spec == Init /\ [][Next]_vars
-----------------------------------------------------------------------------
(* Properties. *)

ArmedAt(m) == cooldown[m] - Cooldown

\* A step of t that ends a run on m.
EndsRunOn(t, m) == pc[t] = "running" /\ pc'[t] # "running" /\ active[t] = m

\* No flap: a cooldown is released only by a turn that set out on the model
\* after that cooldown was armed.  A turn that was already under way when the
\* 429 came, or that probed an earlier window, finishes without releasing it
\* (TurnModels.probe, mark_turn_ok).
NoFlap ==
    [][\A m \in Models :
         cooldown[m] # None /\ cooldown'[m] = None
           => \E t \in Turns : EndsRunOn(t, m) /\ departedAt[t] > ArmedAt(m)
      ]_vars

\* A key that is already there is armed again with an ERROR (a Slack alert)
\* only by a turn that set out before the key appeared: a turn that set out
\* to probe it logs WARNING (_arm_cooldown).
AlarmMeansUnseen ==
    [][\A m \in Models :
         (/\ cooldown[m] # None
          /\ cooldown'[m] \notin {None, cooldown[m]}
          /\ alarm'[m] = "error")
           => \E t \in Turns : EndsRunOn(t, m) /\ departedAt[t] <= ArmedAt(m)
      ]_vars

DepartsOnFallback(t) ==
    /\ pc[t] \in {"planned", "switching"}
    /\ pc'[t] = "running"
    /\ fallback[t] # NoModel
    /\ active'[t] = fallback[t]

\* A turn sets out on a cooling fallback only when the cooldown was armed
\* after the turn had chosen it, while it loaded its bindings or closed the
\* streams of its first attempt (plan_turn_models, retry_model).
LateCooldownOnly ==
    [][\A t \in Turns :
         DepartsOnFallback(t) /\ CoolingDown(fallback[t])
           => ArmedAt(fallback[t]) >= decidedAt[t]
      ]_vars

\* What plan_turn_models and retry_model say: no turn moves to a fallback
\* that is cooling down.  The code decides before an await, and does not look
\* again: TLC finds it violated (README, 4).
NeverOnCoolingFallback ==
    [][\A t \in Turns : DepartsOnFallback(t) => ~CoolingDown(fallback[t])]_vars
=============================================================================
