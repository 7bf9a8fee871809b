-------------------------- MODULE ModelChoiceProofs --------------------------
(***************************************************************************)
(* Proofs about how a turn comes by its model: ModelRouting, for every set  *)
(* of turns and models and every cooldown, and ModelSettings, whose choices *)
(* a turn plans with, for every set of callers and models, every time to    *)
(* live and any number of edits.                                            *)
(***************************************************************************)
EXTENDS ModelRouting, ModelSettings, TLAPS

USE ConstantsAssumption, SettingsAssumption

-----------------------------------------------------------------------------
(* The routing: what its theorems rest on. *)

\* The history of a turn lies in the past.
HistoryPast == \A t \in Turns : decidedAt[t] <= now /\ departedAt[t] <= now

\* Every key was armed strictly before now.
KeysPast == \A m \in Models : cooldown[m] # None => ArmedAt(m) < now

\* The key a running turn probes was armed before it set out.
ProbesOlder ==
    \A t \in Turns :
      pc[t] = "running" /\ probe[t] # None
        => probe[t] - Cooldown < departedAt[t]

\* A key a running turn did not see was armed after it had set out.
UnseenNewer ==
    \A t \in Turns :
      pc[t] = "running" /\ probe[t] = None /\ cooldown[active[t]] # None
        => departedAt[t] <= ArmedAt(active[t])

\* Between the choice of the fallback and the departure on it, its key has
\* expired or is younger than the choice.
Chosen(t) == (pc[t] = "planned" /\ skip[t]) \/ pc[t] = "switching"

ChoiceHolds ==
    \A t \in Turns :
      Chosen(t) /\ cooldown[fallback[t]] # None
        => \/ cooldown[fallback[t]] <= decidedAt[t]
           \/ ArmedAt(fallback[t]) >= decidedAt[t]

\* A turn that plans to stay on its primary has not chosen the fallback, and a
\* fallback is never the primary.
Distinct ==
    \A t \in Turns : fallback[t] # NoModel => fallback[t] # primary[t]

IInv ==
    /\ TypeOK
    /\ HistoryPast
    /\ KeysPast
    /\ ProbesOlder
    /\ UnseenNewer
    /\ ChoiceHolds
    /\ Distinct

-----------------------------------------------------------------------------
(* Type correctness. *)

\* What Plan does, with the choice of models named: the fallback differs from
\* the primary, and the primary is skipped only for a fallback that is usable.
LEMMA PlanFacts ==
  ASSUME TypeOK, NEW t \in Turns, NEW req \in Requests,
         NEW choice \in Choices, Plan(t, req, choice)
  PROVE  \E main \in Models, fb \in Optional, skips \in BOOLEAN :
           /\ fb # NoModel => fb # main
           /\ skips => fb \in Models /\ ~CoolingDown(fb)
           /\ primary' = [primary EXCEPT ![t] = main]
           /\ fallback' = [fallback EXCEPT ![t] = fb]
           /\ skip' = [skip EXCEPT ![t] = skips]
           /\ pc' = [pc EXCEPT ![t] = "planned"]
           /\ decidedAt' = [decidedAt EXCEPT ![t] = now]
           /\ UNCHANGED <<now, cooldown, active, probe, retried, shown, alarm,
                          departedAt>>
<1> DEFINE main == IF req # NoModel THEN req ELSE choice.default
           fb == FallbackOf(req, choice)
           skips == SkipPrimary(main, fb)
<1>1. choice \in [default : Models, fallback : Models \cup {NoModel}]
  OBVIOUS
<1>2. main \in Models /\ fb \in Optional /\ (fb # NoModel => fb # main)
  BY <1>1 DEF FallbackOf, Optional
<1>3. skips \in BOOLEAN
  BY DEF SkipPrimary, CoolingDown
<1>4. skips => fb \in Models /\ ~CoolingDown(fb)
  BY <1>2 DEF SkipPrimary, Optional
<1>5. /\ primary' = [primary EXCEPT ![t] = main]
      /\ fallback' = [fallback EXCEPT ![t] = fb]
      /\ skip' = [skip EXCEPT ![t] = skips]
      /\ pc' = [pc EXCEPT ![t] = "planned"]
      /\ decidedAt' = [decidedAt EXCEPT ![t] = now]
      /\ UNCHANGED <<now, cooldown, active, probe, retried, shown, alarm,
                     departedAt>>
  BY DEF Plan
<1> HIDE DEF main, fb, skips
<1> QED
  BY <1>2, <1>3, <1>4, <1>5

\* Every step keeps every variable in its type.
LEMMA TypeStep == TypeOK /\ [Next]_vars => TypeOK'
<1> SUFFICES ASSUME TypeOK, [Next]_vars
             PROVE  TypeOK'
  OBVIOUS
<1>1. CASE UNCHANGED vars
  BY <1>1 DEF TypeOK, vars, routing, history
<1>2. CASE Tick
  <2>1. /\ now' \in Nat
        /\ UNCHANGED <<cooldown, pc, primary, fallback, skip, active, probe, retried, shown,
                       alarm, decidedAt, departedAt>>
    BY <1>2 DEF TypeOK, Tick, routing, history
  <2> QED
    BY <2>1 DEF TypeOK
<1> USE DEF TypeOK, Expiry, Optional, Final, Phases
<1>3. ASSUME NEW t \in Turns, TurnStep(t)
      PROVE  TypeOK'
  <2>1. ASSUME NEW req \in Requests, NEW choice \in Choices,
               Plan(t, req, choice)
        PROVE  TypeOK'
    <3>1. PICK main \in Models, fb \in Optional, skips \in BOOLEAN :
            /\ skips => fb \in Models
            /\ primary' = [primary EXCEPT ![t] = main]
            /\ fallback' = [fallback EXCEPT ![t] = fb]
            /\ skip' = [skip EXCEPT ![t] = skips]
            /\ pc' = [pc EXCEPT ![t] = "planned"]
            /\ decidedAt' = [decidedAt EXCEPT ![t] = now]
            /\ UNCHANGED <<now, cooldown, active, probe, retried, shown, alarm, departedAt>>
      BY <2>1, PlanFacts
    <3>2. /\ primary' \in [Turns -> Optional] /\ fallback' \in [Turns -> Optional]
          /\ skip' \in [Turns -> BOOLEAN] /\ pc' \in [Turns -> Phases]
          /\ decidedAt' \in [Turns -> Nat]
      BY <3>1
    <3>3. ASSUME NEW s \in Turns
          PROVE  /\ pc'[s] # "idle" => primary'[s] \in Models
                 /\ pc'[s] = "running" => active'[s] \in Models
                 /\ skip'[s] \/ pc'[s] = "switching" => fallback'[s] \in Models
      BY <3>1
    <3> QED
      BY <3>1, <3>2, <3>3
  <2>2. CASE Depart(t)
    BY <2>2 DEF Depart, SwitchTo, routing
  <2>3. CASE Show(t)
    BY <2>3 DEF Show, routing, history
  <2>4. ASSUME NEW status \in Statuses, StreamFails(t, status)
        PROVE  TypeOK'
    BY <2>4 DEF StreamFails, ArmCooldown, RerunAllowed, routing
  <2>5. CASE Rerun(t)
    BY <2>5 DEF Rerun, SwitchTo, routing
  <2>6. CASE Finish(t)
    BY <2>6 DEF Finish, routing, history
  <2>7. CASE Abort(t)
    BY <2>7 DEF Abort, routing, history
  <2> QED
    BY <1>3, <2>1, <2>2, <2>3, <2>4, <2>5, <2>6, <2>7 DEF TurnStep
<1>4. CASE Quiet
  BY <1>4 DEF Quiet, vars, routing, history
<1> QED
  BY <1>1, <1>2, <1>3, <1>4 DEF Next

\* Type correctness of the routing of every process (TypeOK of a run).
THEOREM TypeCorrect == Spec => []TypeOK
<1>1. Init => TypeOK
  BY DEF Init, TypeOK, Expiry, Optional, Final, Phases
<1>2. TypeOK /\ [Next]_vars => TypeOK'
  BY TypeStep
<1> QED
  BY <1>1, <1>2, PTL DEF Spec

-----------------------------------------------------------------------------
(* The inductive invariant. *)

LEMMA InitInv == Init => IInv
<1> SUFFICES ASSUME Init PROVE IInv
  OBVIOUS
<1>1. TypeOK
  BY DEF Init, TypeOK, Expiry, Optional, Final, Phases
<1> QED
  BY <1>1 DEF Init, IInv, HistoryPast, KeysPast, ProbesOlder, UnseenNewer,
              ChoiceHolds, Chosen, Distinct

Parts == HistoryPast /\ KeysPast /\ ProbesOlder /\ UnseenNewer /\ ChoiceHolds
         /\ Distinct

\* Every step keeps every part.
LEMMA StepInv == IInv /\ [Next]_vars => IInv'
<1> SUFFICES ASSUME IInv, [Next]_vars
             PROVE  Parts'
  BY TypeStep DEF IInv, Parts
<1> USE DEF Parts, HistoryPast, KeysPast, ProbesOlder, UnseenNewer,
            ChoiceHolds, Chosen, Distinct, ArmedAt
<1>1. TypeOK /\ TypeOK' /\ Parts
  BY TypeStep DEF IInv
<1>2. CASE UNCHANGED vars
  BY <1>1, <1>2 DEF vars, routing, history
<1>3. CASE Tick
  BY <1>1, <1>3 DEF Tick, routing, history, TypeOK, Expiry
<1>4. ASSUME NEW t \in Turns, TurnStep(t)
      PROVE  Parts'
  <2> USE <1>1 DEF TypeOK, Expiry, Optional, Final, Phases
  <2>1. ASSUME NEW req \in Requests, NEW choice \in Choices,
               Plan(t, req, choice)
        PROVE  Parts'
    BY <2>1, PlanFacts DEF CoolingDown
  <2>2. CASE Depart(t)
    BY <2>2 DEF Depart, SwitchTo, routing
  <2>3. CASE Show(t)
    BY <2>3 DEF Show, routing, history
  <2>4. ASSUME NEW status \in Statuses, StreamFails(t, status)
        PROVE  Parts'
    BY <2>4 DEF StreamFails, ArmCooldown, RerunAllowed, CoolingDown, routing
  <2>5. CASE Rerun(t)
    BY <2>5 DEF Rerun, SwitchTo, routing
  <2>6. CASE Finish(t)
    BY <2>6 DEF Finish, routing, history
  <2>7. CASE Abort(t)
    BY <2>7 DEF Abort, routing, history
  <2> QED
    BY <1>4, <2>1, <2>2, <2>3, <2>4, <2>5, <2>6, <2>7 DEF TurnStep
<1>5. CASE Quiet
  BY <1>1, <1>5 DEF Quiet, vars, routing, history
<1> QED
  BY <1>2, <1>3, <1>4, <1>5 DEF Next

THEOREM Invariance == Spec => []IInv
<1> QED
  BY InitInv, StepInv, PTL DEF Spec

-----------------------------------------------------------------------------
(* The action properties. *)

\* Only a turn that ends its run on a model touches that model's key, and only
\* a turn that departs is running after a step it was not running before.
LEMMA KeyChange ==
  ASSUME TypeOK, [Next]_vars, NEW m \in Models, cooldown'[m] # cooldown[m]
  PROVE  \E t \in Turns :
           /\ EndsRunOn(t, m)
           /\ \/ /\ Finish(t)
                 /\ probe[t] = cooldown[m] /\ probe[t] # None
                 /\ cooldown'[m] = None
              \/ /\ \E status \in Statuses : StreamFails(t, status)
                 /\ cooldown'[m] = now + Cooldown
                 /\ alarm'[m] = IF probe[t] # None THEN "warning" ELSE "error"
<1> USE DEF TypeOK, Expiry, Optional, Final, Phases
<1>1. PICK t \in Turns : TurnStep(t)
  BY DEF Next, Tick, Quiet, vars
<1>2. \/ Finish(t)
      \/ \E status \in Statuses : StreamFails(t, status)
  BY <1>1 DEF TurnStep, Plan, Depart, Show, Rerun, Abort
<1>3. CASE Finish(t)
  BY <1>3 DEF Finish, EndsRunOn
<1>4. ASSUME NEW status \in Statuses, StreamFails(t, status)
      PROVE  /\ EndsRunOn(t, m)
             /\ cooldown'[m] = now + Cooldown
             /\ alarm'[m] = IF probe[t] # None THEN "warning" ELSE "error"
  BY <1>4 DEF StreamFails, ArmCooldown, EndsRunOn
<1> QED
  BY <1>2, <1>3, <1>4

\* A cooldown is released only by a turn that set out after it was armed.
THEOREM NoFlapHolds == Spec => NoFlap
<1>1. ASSUME IInv, [Next]_vars, NEW m \in Models,
             cooldown[m] # None, cooldown'[m] = None
      PROVE  \E t \in Turns : EndsRunOn(t, m) /\ departedAt[t] > ArmedAt(m)
  <2>1. TypeOK
    BY <1>1 DEF IInv
  <2>2. PICK t \in Turns :
          /\ EndsRunOn(t, m)
          /\ \/ probe[t] = cooldown[m] /\ probe[t] # None
             \/ cooldown'[m] = now + Cooldown
    BY <1>1, <2>1, KeyChange
  <2>3. probe[t] = cooldown[m] /\ probe[t] # None
    BY <1>1, <2>1, <2>2 DEF TypeOK
  <2>4. pc[t] = "running"
    BY <2>2 DEF EndsRunOn
  <2>5. departedAt[t] > ArmedAt(m)
    BY <1>1, <2>1, <2>3, <2>4 DEF IInv, ProbesOlder, ArmedAt, TypeOK, Expiry
  <2> QED
    BY <2>2, <2>5
<1>2. IInv /\ [Next]_vars
        => [\A m \in Models :
              cooldown[m] # None /\ cooldown'[m] = None
                => \E t \in Turns :
                     EndsRunOn(t, m) /\ departedAt[t] > ArmedAt(m)]_vars
  BY <1>1
<1> QED
  BY <1>2, Invariance, PTL DEF Spec, NoFlap

\* A key that is there is armed again with an ERROR only by a turn that set out
\* before the key appeared.
THEOREM AlarmHolds == Spec => AlarmMeansUnseen
<1>1. ASSUME IInv, [Next]_vars, NEW m \in Models,
             cooldown[m] # None, cooldown'[m] \notin {None, cooldown[m]},
             alarm'[m] = "error"
      PROVE  \E t \in Turns : EndsRunOn(t, m) /\ departedAt[t] <= ArmedAt(m)
  <2>1. TypeOK
    BY <1>1 DEF IInv
  <2>2. PICK t \in Turns :
          /\ EndsRunOn(t, m)
          /\ alarm'[m] = IF probe[t] # None THEN "warning" ELSE "error"
    BY <1>1, <2>1, KeyChange
  <2>3. probe[t] = None /\ pc[t] = "running" /\ active[t] = m
    BY <1>1, <2>2 DEF EndsRunOn
  <2> QED
    BY <1>1, <2>1, <2>2, <2>3 DEF IInv, UnseenNewer
<1>2. IInv /\ [Next]_vars
        => [\A m \in Models :
              (/\ cooldown[m] # None
               /\ cooldown'[m] \notin {None, cooldown[m]}
               /\ alarm'[m] = "error")
                => \E t \in Turns :
                     EndsRunOn(t, m) /\ departedAt[t] <= ArmedAt(m)]_vars
  BY <1>1
<1> QED
  BY <1>2, Invariance, PTL DEF Spec, AlarmMeansUnseen

\* A turn sets out on a cooling fallback only if the cooldown came after the
\* turn had chosen it.
THEOREM LateCooldownHolds == Spec => LateCooldownOnly
<1>1. ASSUME IInv, [Next]_vars, NEW t \in Turns,
             DepartsOnFallback(t), CoolingDown(fallback[t])
      PROVE  ArmedAt(fallback[t]) >= decidedAt[t]
  <2> USE DEF TypeOK, Expiry, Optional, Final, Phases
  <2>1. TypeOK
    BY <1>1 DEF IInv
  <2>2. PICK u \in Turns : TurnStep(u)
    BY <1>1, <2>1 DEF Next, Tick, Quiet, vars, DepartsOnFallback
  <2>3. u = t
    BY <1>1, <2>1, <2>2 DEF DepartsOnFallback, TurnStep, Plan, Depart, Show,
                            StreamFails, Rerun, Finish, Abort
  <2>4. Depart(t) \/ Rerun(t)
    BY <1>1, <2>1, <2>2, <2>3 DEF DepartsOnFallback, TurnStep, Plan, Show,
                                  StreamFails, Finish, Abort
  <2>5. Chosen(t)
    BY <1>1, <2>1, <2>4 DEF IInv, Distinct, Chosen, DepartsOnFallback, Depart,
                            SwitchTo, Rerun
  <2>6. decidedAt[t] <= now /\ fallback[t] \in Models
    BY <1>1, <2>1, <2>5 DEF IInv, HistoryPast, Chosen
  <2> QED
    BY <1>1, <2>1, <2>5, <2>6 DEF IInv, ChoiceHolds, CoolingDown, ArmedAt
<1>2. IInv /\ [Next]_vars
        => [\A t \in Turns :
              DepartsOnFallback(t) /\ CoolingDown(fallback[t])
                => ArmedAt(fallback[t]) >= decidedAt[t]]_vars
  BY <1>1
<1> QED
  BY <1>2, Invariance, PTL DEF Spec, LateCooldownOnly

-----------------------------------------------------------------------------
(* The settings: what their theorems rest on. *)

\* Edits are counted: what was answered here is not newer than the row.
Counted ==
    /\ acked <= version /\ saved <= version
    /\ saved # 0 => acked <= saved
    /\ \A c \in Callers : ackedBefore[c] <= acked

\* What was read since the last invalidation here holds the edit answered with
\* it; what was read across one is marked.
FreshOrMarked(v, straddled) == v # NoRow /\ ~straddled => acked <= v

FreshCache ==
    cache # NoCache => FreshOrMarked(cache.value.version, cache.value.straddled)

FreshAnswers ==
    \A c \in Callers :
      at[c] = "answered" => FreshOrMarked(fetched[c].version, straddles[c])

SettingsInv == SettingsTypeOK /\ Counted /\ FreshCache /\ FreshAnswers /\ FreshAfterEdit

-----------------------------------------------------------------------------
(* The settings: type correctness. *)

\* What a caller makes of a row is a choice of selectable models.
LEMMA EffectiveChoiceType ==
  ASSUME NEW r \in Rows
  PROVE  EffectiveChoice(r) \in EffectiveChoices
BY DEF EffectiveChoice, Pick, EffectiveChoices, Rows

LEMMA EmptyRowType == EmptyRow \in Rows
BY DEF EmptyRow, Rows, Columns

\* Every step keeps every variable in its type.
LEMMA SettingsTypeStep == SettingsTypeOK /\ [SettingsNext]_settings => SettingsTypeOK'
<1> SUFFICES ASSUME SettingsTypeOK, [SettingsNext]_settings
             PROVE  SettingsTypeOK'
  OBVIOUS
<1> USE DEF SettingsTypeOK, Versions
<1>1. CASE UNCHANGED settings
  BY <1>1 DEF settings
<1>2. ASSUME NEW c \in Callers, Call(c)
      PROVE  SettingsTypeOK'
  <2>1. CASE Hit(c)
    BY <2>1 DEF Hit, Begins, CacheLive, Entries
  <2>2. CASE Miss(c)
    BY <2>2 DEF Miss, Begins
  <2>3. CASE ReadRow(c)
    BY <2>3 DEF ReadRow, Query, Answers
  <2>4. CASE ReadFails(c)
    BY <2>4, EmptyRowType DEF ReadFails, Query, Answers
  <2>5. CASE Fill(c)
    <3> DEFINE value == [choice |-> EffectiveChoice(fetched[c].row),
                         version |-> fetched[c].version,
                         straddled |-> straddles[c]]
    <3>1. value \in Values
      BY EffectiveChoiceType DEF Values, Answers
    <3>2. /\ cache' = [left |-> TTL, value |-> value]
          /\ got' = [got EXCEPT ![c] = value]
          /\ at' = [at EXCEPT ![c] = "served"]
          /\ UNCHANGED <<row, version, fetched, saved, acked, ackedBefore, straddles>>
      BY <2>5 DEF Fill
    <3> HIDE DEF value
    <3> QED
      BY <3>1, <3>2 DEF Entries
  <2>6. CASE GiveUp(c)
    BY <2>6 DEF GiveUp
  <2> QED
    BY <1>2, <2>1, <2>2, <2>3, <2>4, <2>5, <2>6 DEF Call
<1>3. ASSUME NEW r \in SavedRows, Save(r) \/ ForeignSave(r)
      PROVE  SettingsTypeOK'
  BY <1>3 DEF Save, ForeignSave, WriteRow
<1>4. CASE Invalidate
  BY <1>4 DEF Invalidate
<1>5. CASE Expire
  BY <1>5 DEF Expire, CacheLive, Entries
<1> QED
  BY <1>1, <1>2, <1>3, <1>4, <1>5 DEF SettingsNext

-----------------------------------------------------------------------------
(* The settings: the inductive invariant. *)

LEMMA SettingsInitInv == SettingsInit => SettingsInv
<1> SUFFICES ASSUME SettingsInit PROVE SettingsInv
  OBVIOUS
<1>1. SettingsTypeOK
  <2>1. [choice |-> Config, version |-> NoRow, straddled |-> FALSE] \in Values
    BY DEF Values
  <2>2. [row |-> EmptyRow, version |-> NoRow] \in Answers
    BY EmptyRowType DEF Answers
  <2> QED
    BY <2>1, <2>2 DEF SettingsInit, SettingsTypeOK, Versions
<1> QED
  BY <1>1 DEF SettingsInit, SettingsInv, Counted, FreshCache, FreshAnswers, FreshAfterEdit, Outdated

Fresh == Counted /\ FreshCache /\ FreshAnswers /\ FreshAfterEdit

\* Every step keeps what was read fresh or marked.
LEMMA SettingsStepInv == SettingsInv /\ [SettingsNext]_settings => SettingsInv'
<1> SUFFICES ASSUME SettingsInv, [SettingsNext]_settings
             PROVE  Fresh'
  BY SettingsTypeStep DEF SettingsInv, Fresh
<1>0. SettingsTypeOK /\ SettingsTypeOK' /\ Fresh
  BY SettingsTypeStep DEF SettingsInv, Fresh
<1> USE DEF SettingsTypeOK, Versions, Fresh, Counted, FreshCache, FreshAnswers, FreshAfterEdit,
            FreshOrMarked, Outdated
<1>1. CASE UNCHANGED settings
  BY <1>0, <1>1 DEF settings
<1>2. ASSUME NEW c \in Callers, Call(c)
      PROVE  Fresh'
  <2>1. CASE Hit(c)
    BY <1>0, <2>1 DEF Hit, Begins, CacheLive, Entries, Values
  <2>2. CASE Miss(c)
    BY <1>0, <2>2 DEF Miss, Begins
  <2>3. CASE ReadRow(c)
    BY <1>0, <2>3 DEF ReadRow, Query
  <2>4. CASE ReadFails(c)
    BY <1>0, <2>4 DEF ReadFails, Query
  <2>5. CASE Fill(c)
    BY <1>0, <2>5 DEF Fill, Answers
  <2>6. CASE GiveUp(c)
    BY <1>0, <2>6 DEF GiveUp
  <2> QED
    BY <1>2, <2>1, <2>2, <2>3, <2>4, <2>5, <2>6 DEF Call
<1>3. ASSUME NEW r \in SavedRows, Save(r) \/ ForeignSave(r)
      PROVE  Fresh'
  BY <1>0, <1>3 DEF Save, ForeignSave, WriteRow
<1>4. CASE Invalidate
  <2>1. Counted' /\ FreshCache'
    BY <1>0, <1>4 DEF Invalidate
  <2>2. \A c \in Callers : at'[c] = "answered" => straddles'[c]
    BY <1>0, <1>4 DEF Invalidate
  <2>3. FreshAnswers'
    BY <2>2
  <2>4. FreshAfterEdit'
    BY <1>0, <1>4 DEF Invalidate
  <2> QED
    BY <2>1, <2>3, <2>4
<1>5. CASE Expire
  BY <1>0, <1>5 DEF Expire, CacheLive, Entries
<1> QED
  BY <1>1, <1>2, <1>3, <1>4, <1>5 DEF SettingsNext

LEMMA SettingsInvariance == SettingsSpec => []SettingsInv
BY SettingsInitInv, SettingsStepInv, PTL DEF SettingsSpec

-----------------------------------------------------------------------------
(* The settings: theorems. *)

\* No call hands out a model that is not selectable, whatever the row holds
\* and whenever it was edited (effective_choice).
THEOREM ServesSelectableHolds == SettingsSpec => []ServesSelectable
<1>1. SettingsInv => ServesSelectable
  BY DEF SettingsInv, SettingsTypeOK, Values, EffectiveChoices, ServesSelectable
<1> QED
  BY <1>1, SettingsInvariance, PTL

\* A call that begins after an edit here was answered returns that edit, but
\* for values read across the invalidation (current_models,
\* invalidate_cache).
THEOREM FreshAfterEditHolds == SettingsSpec => []FreshAfterEdit
<1>1. SettingsInv => FreshAfterEdit
  BY DEF SettingsInv
<1> QED
  BY <1>1, SettingsInvariance, PTL
-----------------------------------------------------------------------------
(* The two together. *)

\* What a turn of this process plans with: ModelRouting assumes no more of it.
PlannedWith ==
    \A c \in Callers :
      at[c] = "served" => got[c].choice \in [default : Models, fallback : Models \cup {NoModel}]

\* Every choice that is handed to a turn is one that the routing is specified for,
\* where the selectable models are the models of the routing and "" is no model
\* (effective_choice, plan_turn_models).
THEOREM ServesRouting ==
  ASSUME Selectable = Models, Off = NoModel
  PROVE  SettingsSpec => []PlannedWith
<1>1. SettingsInv => PlannedWith
  BY DEF SettingsInv, SettingsTypeOK, Values, EffectiveChoices, PlannedWith
<1> QED
  BY <1>1, SettingsInvariance, PTL

-----------------------------------------------------------------------------
(* How an old row goes out of use. *)

\* A row that is not the one of the database, and not the config.
Old(v) == v # NoRow /\ v # version

\* Who has read an old row and not put it into the cache yet.
StaleReads == {c \in Callers : at[c] = "answered" /\ Old(fetched[c].version)}

\* How long an old row in the cache is still served.
StaleLeft == IF CacheLive /\ Old(cache.value.version) THEN cache.left ELSE 0

RunsOut ==
    version' = version =>
      /\ StaleReads' \subseteq StaleReads
      /\ StaleLeft' <= StaleLeft \/ StaleReads' # StaleReads
      /\ Expire => StaleLeft = 0 \/ StaleLeft' < StaleLeft

StalenessEnds == [][RunsOut]_settings

\* As long as nobody edits the row, nobody reads an old one any more, and the time
\* an old one is still served only gets shorter, by each tick, except that who had
\* read it before the edit may put it into the cache once: a hit does not renew the
\* entry, nor does a failed read bring an old row back (current_models).  With the
\* fairness of FairSpec, Converges.
THEOREM StalenessRunsOut == SettingsSpec => StalenessEnds
<1>1. SettingsTypeOK /\ [SettingsNext]_settings => [RunsOut]_settings
  <2> SUFFICES ASSUME SettingsTypeOK, SettingsNext, version' = version PROVE RunsOut
    BY DEF RunsOut
  <2>0. /\ StaleLeft \in Nat
        /\ DOMAIN at = Callers /\ DOMAIN fetched = Callers
        /\ cache # NoCache => cache.left \in Nat
    BY SettingsAssumption DEF SettingsTypeOK, StaleLeft, CacheLive, Entries
  <2>1. ASSUME UNCHANGED <<at, fetched>> PROVE StaleReads' = StaleReads
    BY <2>1 DEF StaleReads, Old
  <2>2. ASSUME UNCHANGED cache PROVE StaleLeft' = StaleLeft
    BY <2>2 DEF StaleLeft, CacheLive, Old
  <2>3. CASE Expire
    <3>1. StaleReads' = StaleReads
      BY <2>1, <2>3 DEF Expire
    <3>2. cache.left \in Nat /\ cache.left > 0 /\ cache \in Entries
      BY <2>0, <2>3 DEF Expire, CacheLive, SettingsTypeOK
    <3>3. cache'.left = cache.left - 1 /\ cache'.value = cache.value
      BY <2>3, <3>2 DEF Expire, Entries
    <3>4. \/ StaleLeft = 0 /\ StaleLeft' = 0
          \/ StaleLeft' \in Nat /\ StaleLeft' < StaleLeft
      <4>1. Old(cache.value.version)' <=> Old(cache.value.version)
        BY <2>3, <3>3 DEF Old, Expire
      <4>2. CASE Old(cache.value.version)
        <5>1. StaleLeft = cache.left
          BY <2>3, <4>2 DEF StaleLeft, Expire
        <5>2. StaleLeft' \in {0, cache.left - 1}
          BY <3>3 DEF StaleLeft
        <5> QED
          BY <3>2, <5>1, <5>2
      <4>3. CASE ~Old(cache.value.version)
        BY <4>1, <4>3 DEF StaleLeft
      <4> QED
        BY <4>2, <4>3
    <3>5. StaleLeft' <= StaleLeft
      BY <2>0, <3>4
    <3> QED
      BY <3>1, <3>4, <3>5 DEF RunsOut
  <2>4. ASSUME ~Expire, StaleReads' \subseteq StaleReads,
               StaleLeft' <= StaleLeft \/ StaleReads' # StaleReads
        PROVE  RunsOut
    BY <2>4 DEF RunsOut
  <2>5. ASSUME NEW c \in Callers, Hit(c) \/ Miss(c) \/ ReadRow(c) \/ ReadFails(c) \/ GiveUp(c),
               ~Expire
        PROVE  RunsOut
    <3>1. StaleLeft' = StaleLeft
      BY <2>2, <2>5 DEF Hit, Miss, ReadRow, ReadFails, Query, GiveUp
    <3>2. StaleReads' \subseteq StaleReads
      BY <2>0, <2>5 DEF StaleReads, Old, Hit, Miss, Begins, ReadRow, ReadFails, Query, GiveUp
    <3> QED
      BY <2>0, <2>4, <2>5, <3>1, <3>2
  <2>6. ASSUME NEW c \in Callers, Fill(c), ~Expire PROVE RunsOut
    <3>1. StaleReads' = StaleReads \ {c}
      BY <2>0, <2>6 DEF Fill, StaleReads, Old
    <3>2. CASE Old(fetched[c].version)
      <4>1. c \in StaleReads
        BY <2>6, <3>2 DEF Fill, StaleReads
      <4> QED
        BY <2>4, <2>6, <3>1, <4>1
    <3>3. CASE ~Old(fetched[c].version)
      <4>1. cache'.value.version = fetched[c].version
        BY <2>6 DEF Fill
      <4>2. StaleLeft' = 0
        BY <3>3, <4>1 DEF StaleLeft, Old
      <4> QED
        BY <2>0, <2>4, <2>6, <3>1, <4>2
    <3> QED
      BY <3>2, <3>3
  <2>7. ASSUME ~Expire, UNCHANGED <<at, fetched>>, cache' \in {cache, NoCache} PROVE RunsOut
    <3>1. StaleReads' = StaleReads
      BY <2>1, <2>7
    <3>2. StaleLeft' <= StaleLeft
      BY <2>0, <2>2, <2>7 DEF StaleLeft, CacheLive
    <3> QED
      BY <2>4, <2>7, <3>1, <3>2
  <2>8. ASSUME NEW r \in SavedRows, Save(r) \/ ForeignSave(r) PROVE version' # version
    BY <2>8 DEF Save, ForeignSave, WriteRow, SettingsTypeOK, Versions
  <2>9. CASE Invalidate
    BY <2>3, <2>7, <2>9 DEF Invalidate
  <2> QED
    BY <2>3, <2>5, <2>6, <2>8, <2>9 DEF SettingsNext, Call
<1> QED
  BY <1>1, SettingsInvariance, PTL DEF SettingsSpec, SettingsInv, StalenessEnds
=============================================================================
