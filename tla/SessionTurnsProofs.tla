------------------------- MODULE SessionTurnsProofs -------------------------
(***************************************************************************)
(* Proofs about SessionTurns, for any number of turns, deletes, servers and *)
(* sessions.  The inductive invariant IInv adds to TypeOK who holds which    *)
(* lock (LockInv), which session a turn is in (SessionInv), what a purge may *)
(* rely on (ExpiryInv), and one conjunct for each property.  The last part   *)
(* shows that there is no ring of waiters, and ranks the steps of a turn.    *)
(***************************************************************************)
EXTENDS SessionTurns, WellFoundedInduction, TLAPS

Unloaded == {"idle", "waiting", "preparing", "looked"}
Loaded == {"loaded", "running", "settling", "saving", "cleanup", "rescuing", "ended"}
Holding == {"preparing", "looked", "compacting"} \cup Loaded

\* Who is at a place that needs a lock has it, and who has a lock is there.
LockInv ==
    /\ \A t \in Turns : pc[t] \in Holding /\ asked[t] # NoId => lock[Key(t)] = t
    /\ \A t \in Turns, p \in Servers \X Ids :
         lock[p] = t => asked[t] # NoId /\ p = Key(t) /\ pc[t] \in Holding \cup {"leaving"}
    /\ \A d \in Deletes : del[d] = "marking" => lock[where[d]] = d
    /\ \A d \in Deletes, p \in Servers \X Ids :
         lock[p] = d => p = where[d] /\ del[d] = "marking"

\* A turn is in the session it asked for or in its own, which nobody can ask
\* for before the turn has created it.
SessionInv ==
    /\ \A t \in Turns :
         /\ pc[t] = "waiting" => asked[t] # NoId
         /\ pc[t] = "looked" => target[t] \in {NoId, asked[t]}
         /\ pc[t] \in Loaded => sid[t] \in {t, asked[t]} /\ sid[t] # NoId
         /\ pc[t] \in Compaction => sid[t] = asked[t] /\ sid[t] # NoId
         /\ loose[t] => sid[t] \in {t, asked[t]}
         /\ loose[t] /\ identified[t] => pc[t] = "cleanup"
         /\ pc[t] \in Unloaded \cup {"loaded"} => ~identified[t]
    /\ \A t \in Turns : pc[t] \in Unloaded =>
         /\ ~exists[t] /\ t \notin purged
         /\ sid[t] = NoId
         /\ \A u \in Turns : asked[u] # t /\ target[u] # t /\ sid[u] # t

\* Nothing is under way in a session whose retention is over.
ExpiryInv ==
    /\ \A s \in Ids : ~exists[s] => hidden[s] = Nobody
    /\ \A s \in Ids : expired[s] => hidden[s] # Nobody
    /\ \A t \in Turns, s \in Ids : expired[s] =>
         /\ pc[t] \in Loaded \cup Compaction \/ loose[t] \/ late[t] => sid[t] # s
         /\ pc[t] = "looked" => target[t] # s

\* A turn that nobody has disturbed knows the revision of its session.
FreshInv ==
    \A t \in Turns :
        pc[t] \in {"loaded", "running", "settling", "compacting"} /\ ~disturbed[t]
            => base[t] = rev[sid[t]]

\* A delete on its own server has not come past a turn that has looked.
QuietInv ==
    \A t \in Turns :
        /\ pc[t] = "looked" /\ target[t] # NoId => hidden[target[t]] # server[t]
        /\ pc[t] \in Loaded /\ sid[t] # t => hidden[sid[t]] # server[t]

SavedInv ==
    /\ SavedTurnKept
    /\ \A t \in Turns :
         saved[t] => sid[t] # NoId /\ pc[t] \in {"ended", "leaving", "gone"} \cup Compaction

DeadInv ==
    /\ \A s \in deletedOnce : hidden[s] # Nobody \/ s \in purged
    /\ \A t \in Turns :
         /\ askedDead[t] => sid[t] \in {NoId, t} \cup purged
         /\ askedDead[t] /\ pc[t] \in {"waiting", "preparing"} => asked[t] \in deletedOnce
         /\ askedDead[t] /\ pc[t] = "looked" => target[t] \in {NoId} \cup purged

IInv ==
    TypeOK /\ LockInv /\ SessionInv /\ ExpiryInv /\ FreshInv /\ QuietInv /\ SavedInv /\ DeadInv

-----------------------------------------------------------------------------
(* Type correctness. *)

\* A stored turn is one of the turns.
LEMMA StoredType ==
  ASSUME NEW t \in Turns, rows \in [Ids -> SUBSET Turns], Stored(t)
  PROVE  rows' \in [Ids -> SUBSET Turns]
BY DEF Stored

\* Every step keeps every variable in its type.
LEMMA TypeStep == TypeOK /\ SessionInv /\ [Next]_vars => TypeOK'
<1> SUFFICES ASSUME TypeOK, SessionInv, [Next]_vars
             PROVE  TypeOK'
  OBVIOUS
<1> USE SessionAssumption
    DEF TypeOK, Ids, Places, Setup, Stream, Compaction, Goto, Key,
        sessions, turn, detached, deletes, history
<1>0. \A t \in Turns : pc[t] \in Loaded \cup Compaction => sid[t] \in Ids
  BY DEF SessionInv
<1>1. CASE UNCHANGED vars
  BY <1>1 DEF vars
<1>2. ASSUME NEW t \in Turns, TurnStep(t)
      PROVE  TypeOK'
  <2>1. ASSUME NEW s \in Offered, Start(t, s)
        PROVE  TypeOK'
    BY <2>1 DEF Start, Offered
  <2>2. CASE Acquire(t)
    BY <2>2 DEF Acquire
  <2>3. CASE Look(t)
    BY <2>3 DEF Look
  <2>4. CASE Load(t)
    BY <2>4 DEF Load, Reads
  <2>5. CASE Open(t)
    BY <1>0, <2>5 DEF Open, Reads, Loaded
  <2>6. CASE AppendLands(t)
    BY <2>6 DEF AppendLands, Revise
  <2>7. CASE AppendFails(t)
    BY <2>7 DEF AppendFails
  <2>8. CASE LooseLands(t)
    BY <2>8 DEF LooseLands, Revise
  <2>9. CASE LooseFails(t)
    BY <2>9 DEF LooseFails
  <2>10. CASE Settle(t)
    BY <1>0, <2>10 DEF Settle, Reads, Loaded
  <2>11. CASE Persist(t)
    BY <2>11 DEF Persist
  <2>12. CASE SaveLands(t)
    <3>1. saved' \in [Turns -> BOOLEAN]
      BY <2>12 DEF SaveLands, Acknowledged, Writable
    <3> QED
      BY <2>12, <3>1, StoredType DEF SaveLands
  <2>13. CASE Rescue(t)
    BY <2>13 DEF Rescue
  <2>14. CASE Leave(t)
    BY <2>14 DEF Leave, Released
  <2>15. ASSUME NEW compact \in BOOLEAN, End(t, compact)
         PROVE  TypeOK'
    BY <2>15 DEF End, Released
  <2>16. CASE CompactLoad(t)
    <3>1. base' \in [Turns -> Nat] /\ disturbed' \in [Turns -> BOOLEAN]
      BY <1>0, <2>16 DEF CompactLoad, Reads
    <3>2. lock' \in [Servers \X Ids -> Turns \cup Deletes \cup {Free}]
      BY <2>16 DEF CompactLoad
    <3>3. append' \in [Turns -> BOOLEAN] /\ pc' \in [Turns -> Places]
      BY <2>16 DEF CompactLoad
    <3>4. \A u \in Turns :
            append'[u] => pc'[u] \in {"loaded", "running", "settling", "compacting"}
      BY <2>16 DEF CompactLoad
    <3>5. \A u \in Turns : append'[u] \/ loose[u] \/ late[u] => sid[u] # NoId
      BY <1>0, <2>16 DEF CompactLoad
    <3> QED
      BY <2>16, <3>1, <3>2, <3>3, <3>4, <3>5 DEF CompactLoad
  <2>17. CASE Compact(t)
    BY <2>17 DEF Compact, Revise
  <2>18. CASE CompactFails(t)
    BY <2>18 DEF CompactFails
  <2>19. CASE BeginAppend(t)
    BY <1>0, <2>19 DEF BeginAppend, Loaded
  <2>20. CASE Identify(t)
    BY <2>20 DEF Identify
  <2>21. ASSUME NEW landed \in BOOLEAN, SaveFails(t, landed)
         PROVE  TypeOK'
    BY <1>0, <2>21, StoredType DEF SaveFails, Loaded
  <2>22. ASSUME NEW landed \in BOOLEAN, LateEnds(t, landed)
         PROVE  TypeOK'
    BY <2>22, StoredType DEF LateEnds
  <2>23. CASE Abandon(t)
    BY <1>0, <2>23 DEF Abandon, Loaded
  <2> QED
    BY <1>2, <2>1, <2>2, <2>3, <2>4, <2>5, <2>6, <2>7, <2>8, <2>9, <2>10, <2>11, <2>12,
       <2>13, <2>14, <2>15, <2>16, <2>17, <2>18, <2>19, <2>20, <2>21, <2>22, <2>23
    DEF TurnStep, SetUp, Write, Close
<1>3. ASSUME NEW d \in Deletes, DeleteStep(d)
      PROVE  TypeOK'
  <2>1. CASE Check(d)
    BY <2>1 DEF Check
  <2>2. CASE Enter(d)
    BY <2>2 DEF Enter
  <2>3. CASE Mark(d)
    BY <2>3 DEF Mark, Answer
  <2>4. CASE MarkFails(d)
    BY <2>4 DEF MarkFails, Answer
  <2> QED
    BY <1>3, <2>1, <2>2, <2>3, <2>4 DEF DeleteStep
<1>4. ASSUME NEW s \in Ids, Expire(s) \/ Purge(s)
      PROVE  TypeOK'
  <2>1. CASE Expire(s)
    BY <2>1 DEF Expire
  <2>2. CASE Purge(s)
    BY <2>2 DEF Purge
  <2> QED
    BY <1>4, <2>1, <2>2
<1>5. CASE Rest
  BY <1>5 DEF Rest, vars
<1> QED
  BY <1>1, <1>2, <1>3, <1>4, <1>5 DEF Next

\* A turn keeps to the session it asked for or to its own.
LEMMA SessionStep == IInv /\ TypeOK' /\ [Next]_vars => SessionInv'
<1> SUFFICES ASSUME IInv, TypeOK', [Next]_vars
             PROVE  SessionInv'
  OBVIOUS
<1>0. TypeOK /\ SessionInv /\ ExpiryInv
  BY DEF IInv
<1> USE SessionAssumption DEF TypeOK, Ids, Goto, sessions, turn, detached, deletes,
   history, SessionInv, Unloaded, Loaded, Compaction
<1>1. CASE UNCHANGED vars
  BY <1>0, <1>1 DEF vars
<1>2. ASSUME NEW t \in Turns, TurnStep(t)
      PROVE  SessionInv'
  <2>1. ASSUME NEW s \in Offered, Start(t, s)
        PROVE  SessionInv'
    BY <1>0, <2>1 DEF Start, Offered
  <2>2. CASE Acquire(t)
    BY <1>0, <2>2 DEF Acquire
  <2>3. CASE Look(t)
    BY <1>0, <2>3 DEF Look
  <2>4. CASE Load(t)
    BY <1>0, <2>4 DEF Load, Reads
  <2>5. CASE Open(t)
    BY <1>0, <2>5 DEF Open, Reads
  <2>6. CASE \/ AppendLands(t) \/ LooseLands(t) \/ LooseFails(t)
             \/ (\E landed \in BOOLEAN : LateEnds(t, landed)) \/ BeginAppend(t)
    BY <1>0, <2>6 DEF AppendLands, LooseLands, LooseFails, LateEnds, BeginAppend, Revise
  <2>7. CASE Identify(t)
    <3>1. pc[t] = "running" /\ pc' = pc /\ ~loose[t]
      BY <1>0, <2>7 DEF Identify
    <3>2. \A u \in Turns : u # t => identified'[u] = identified[u]
      BY <1>0, <2>7 DEF Identify
    <3> QED
      BY <1>0, <2>7, <3>1, <3>2 DEF Identify
  <2>8. CASE AppendFails(t)
    BY <1>0, <2>8 DEF AppendFails
  <2>9. CASE Settle(t) \/ Persist(t)
    BY <1>0, <2>9 DEF Settle, Persist, Reads
  <2>10. CASE SaveLands(t) \/ (\E landed \in BOOLEAN : SaveFails(t, landed))
    BY <1>0, <2>10 DEF SaveLands, SaveFails
  <2>11. CASE Rescue(t)
    BY <1>0, <2>11 DEF Rescue
  <2>12. CASE Leave(t)
    BY <1>0, <2>12 DEF Leave
  <2>13. ASSUME NEW compact \in BOOLEAN, End(t, compact)
         PROVE  SessionInv'
    BY <1>0, <2>13 DEF End
  <2>14. CASE CompactLoad(t)
    BY <1>0, <2>14 DEF CompactLoad, Reads
  <2>15. CASE Compact(t)
    BY <1>0, <2>15 DEF Compact, Revise
  <2>16. CASE CompactFails(t)
    BY <1>0, <2>16 DEF CompactFails
  <2>17. CASE Abandon(t)
    BY <1>0, <2>17 DEF Abandon, Setup, Stream
  <2> QED
    BY <1>2, <2>1, <2>2, <2>3, <2>4, <2>5, <2>6, <2>7, <2>8, <2>9, <2>10, <2>11, <2>12,
       <2>13, <2>14, <2>15, <2>16, <2>17 DEF TurnStep, SetUp, Write, Close
<1>3. ASSUME NEW d \in Deletes, DeleteStep(d)
      PROVE  SessionInv'
  <2>1. CASE Check(d)
    BY <1>0, <2>1 DEF Check
  <2>2. CASE Enter(d)
    BY <1>0, <2>2 DEF Enter
  <2>3. CASE Mark(d) \/ MarkFails(d)
    BY <1>0, <2>3 DEF Mark, MarkFails, Answer
  <2> QED
    BY <1>3, <2>1, <2>2, <2>3 DEF DeleteStep
<1>4. ASSUME NEW s \in Ids, Expire(s) \/ Purge(s)
      PROVE  SessionInv'
  <2>1. CASE Expire(s)
    BY <1>0, <2>1 DEF Expire
  <2>2. CASE Purge(s)
    BY <1>0, <2>2 DEF Purge, ExpiryInv
  <2> QED
    BY <1>4, <2>1, <2>2
<1>5. CASE Rest
  BY <1>1, <1>5 DEF Rest
<1> QED
  BY <1>1, <1>2, <1>3, <1>4, <1>5 DEF Next

\* A turn that stays where it needs the lock, or is about to give it back.
LEMMA KeepsLocks ==
  ASSUME NEW t \in Turns, LockInv,
         pc[t] \in Holding, pc'[t] \in Holding \cup {"leaving"},
         \A u \in Turns : u # t => pc'[u] = pc[u],
         UNCHANGED <<lock, server, asked, deletes>>
  PROVE  LockInv'
BY DEF LockInv, Key, deletes

\* A turn takes a free lock.
LEMMA TakesLock ==
  ASSUME NEW t \in Turns, TypeOK, LockInv,
         asked[t] # NoId, lock[Key(t)] = Free, pc'[t] \in Holding,
         \A u \in Turns : u # t => pc'[u] = pc[u],
         lock' = [lock EXCEPT ![Key(t)] = t],
         UNCHANGED <<server, asked, deletes>>
  PROVE  LockInv'
<1>1. Key(t) \in Servers \X Ids /\ (\A u \in Turns : Key(u)' = Key(u))
  BY DEF TypeOK, Key
<1>2. \A p \in Servers \X Ids : lock'[p] = IF p = Key(t) THEN t ELSE lock[p]
  BY <1>1 DEF TypeOK
<1>3. t # Free /\ t \notin Deletes /\ Free \notin Turns \cup Deletes
  BY SessionAssumption
<1>4. lock[Key(t)] = Free
  OBVIOUS
<1>5. \A u \in Turns :
        pc[u] \in Holding /\ asked[u] # NoId
          => Key(u) \in Servers \X Ids /\ Key(u) # Key(t)
  BY <1>3, <1>4 DEF LockInv, TypeOK, Key
<1>6. \A d \in Deletes :
        where[d] \in Servers \X Ids /\ (del[d] = "marking" => where[d] # Key(t))
  BY <1>3, <1>4 DEF LockInv, TypeOK
<1> QED
  BY <1>1, <1>2, <1>3, <1>5, <1>6 DEF LockInv, deletes

\* A turn gives its lock back and is gone, or waits for another one.
LEMMA GivesLockBack ==
  ASSUME NEW t \in Turns, TypeOK, LockInv,
         pc'[t] \notin Holding \cup {"leaving"},
         \A u \in Turns : u # t => pc'[u] = pc[u] /\ asked'[u] = asked[u],
         lock' = Released(t),
         UNCHANGED <<server, deletes>>
  PROVE  LockInv'
<1>1. \A p \in Servers \X Ids : lock'[p] = IF lock[p] = t THEN Free ELSE lock[p]
  <2>1. HasLock(t) => Key(t) \in Servers \X Ids /\ lock[Key(t)] = t
    BY DEF TypeOK, HasLock, Key
  <2>2. \A p \in Servers \X Ids : lock[p] = t => HasLock(t) /\ p = Key(t)
    BY DEF LockInv, HasLock
  <2> QED
    BY <2>1, <2>2 DEF TypeOK, Released
<1>2. Free \notin Turns \cup Deletes /\ t \notin Deletes
  BY SessionAssumption
<1>3. \A u \in Turns : asked[u] # NoId => Key(u) \in Servers \X Ids
  BY DEF TypeOK, Key
<1>4. \A u \in Turns : u # t => Key(u)' = Key(u)
  BY DEF Key
<1>5. \A d \in Deletes : where[d] \in Servers \X Ids
  BY DEF TypeOK
<1> QED
  BY <1>1, <1>2, <1>3, <1>4, <1>5 DEF LockInv, deletes

\* A delete takes a free lock, and gives it back.
LEMMA DeletesLock ==
  ASSUME NEW d \in Deletes, TypeOK, LockInv, Enter(d) \/ (del[d] = "marking" /\ Answer(d)),
         UNCHANGED <<pc, asked, server, where>>
  PROVE  LockInv'
<1>1. Free \notin Turns \cup Deletes /\ d \notin Turns
  BY SessionAssumption
<1>2. \A u \in Turns : Key(u)' = Key(u) /\ (asked[u] # NoId => Key(u) \in Servers \X Ids)
  BY DEF TypeOK, Key
<1>3. \A e \in Deletes : where[e] \in Servers \X Ids
  BY DEF TypeOK
<1>4. CASE Enter(d)
  <2>1. \A p \in Servers \X Ids : lock'[p] = IF p = where[d] THEN d ELSE lock[p]
    BY <1>3, <1>4 DEF TypeOK, Enter
  <2>2. lock[where[d]] = Free /\ del' = [del EXCEPT ![d] = "marking"]
    BY <1>4 DEF Enter
  <2> QED
    BY <1>1, <1>2, <1>3, <2>1, <2>2 DEF LockInv, TypeOK
<1>5. CASE del[d] = "marking" /\ Answer(d)
  <2>1. \A p \in Servers \X Ids : lock'[p] = IF lock[p] = d THEN Free ELSE lock[p]
    BY <1>3, <1>5 DEF TypeOK, LockInv, Answer
  <2>2. del' = [del EXCEPT ![d] = "answered"]
    BY <1>5 DEF Answer
  <2> QED
    BY <1>1, <1>2, <1>3, <2>1, <2>2 DEF LockInv, TypeOK
<1> QED
  BY <1>4, <1>5

\* Locks are taken and given back by those who have them.
LEMMA LockStep == IInv /\ TypeOK' /\ [Next]_vars => LockInv'
<1> SUFFICES ASSUME IInv, TypeOK', [Next]_vars
             PROVE  LockInv'
  OBVIOUS
<1>0. TypeOK /\ LockInv /\ SessionInv
  BY DEF IInv
<1> USE DEF Goto, sessions, turn, detached, deletes, history
<1> DEFINE Same == UNCHANGED <<lock, pc, asked, server, deletes>>
<1>a. Same => LockInv'
  BY <1>0 DEF LockInv, Key
<1>1. CASE UNCHANGED vars
  BY <1>0, <1>a, <1>1 DEF vars
<1>2. ASSUME NEW t \in Turns, TurnStep(t)
      PROVE  LockInv'
  <2>1. ASSUME NEW s \in Offered, Start(t, s)
        PROVE  LockInv'
    BY <1>0, <2>1, SessionAssumption DEF Start, TypeOK, LockInv, Holding, Loaded, Key
  <2>2. CASE Acquire(t)

    <3>1. asked[t] # NoId /\ lock[Key(t)] = Free /\ lock' = [lock EXCEPT ![Key(t)] = t]
      BY <1>0, <2>2 DEF Acquire, SessionInv
    <3>2. pc'[t] \in Holding /\ \A u \in Turns : u # t => pc'[u] = pc[u]
      BY <1>0, <2>2 DEF Acquire, TypeOK, Holding
    <3> QED
      BY <1>0, <2>2, <3>1, <3>2, TakesLock DEF Acquire
  <2>3. CASE Look(t) \/ Load(t) \/ Open(t)
    BY <1>0, <2>3, KeepsLocks DEF Look, Load, Open, Reads, TypeOK, Holding, Loaded
  <2>4. CASE \/ AppendLands(t) \/ LooseLands(t) \/ LooseFails(t)
             \/ (\E landed \in BOOLEAN : LateEnds(t, landed)) \/ BeginAppend(t)
             \/ Identify(t)
    BY <1>0, <2>4, <1>a DEF AppendLands, LooseLands, LooseFails, LateEnds, BeginAppend,
       Identify, Revise
  <2>5. CASE AppendFails(t)
    BY <1>0, <2>5, KeepsLocks DEF AppendFails, TypeOK, Holding, Loaded
  <2>6. CASE Settle(t) \/ Persist(t)
    BY <1>0, <2>6, KeepsLocks DEF Settle, Persist, Reads, TypeOK, Holding, Loaded
  <2>7. CASE SaveLands(t) \/ (\E landed \in BOOLEAN : SaveFails(t, landed))
    BY <1>0, <2>7, KeepsLocks DEF SaveLands, SaveFails, TypeOK, Holding, Loaded
  <2>8. CASE Rescue(t)
    BY <1>0, <2>8, KeepsLocks DEF Rescue, TypeOK, Holding, Loaded
  <2>9. CASE Leave(t)
    BY <1>0, <2>9, GivesLockBack DEF Leave, TypeOK, Holding, Loaded
  <2>10. ASSUME NEW compact \in BOOLEAN, End(t, compact)
         PROVE  LockInv'
    BY <1>0, <2>10, GivesLockBack DEF End, TypeOK, Holding, Loaded
  <2>11. CASE CompactLoad(t)

    <3>1. asked[t] # NoId /\ lock[Key(t)] = Free /\ lock' = [lock EXCEPT ![Key(t)] = t]
      BY <1>0, <2>11 DEF CompactLoad, SessionInv, Compaction
    <3>2. pc'[t] \in Holding /\ \A u \in Turns : u # t => pc'[u] = pc[u]
      BY <1>0, <2>11 DEF CompactLoad, TypeOK, Holding
    <3> QED
      BY <1>0, <2>11, <3>1, <3>2, TakesLock DEF CompactLoad
  <2>12. CASE Compact(t) \/ CompactFails(t)
    BY <1>0, <2>12, KeepsLocks DEF Compact, CompactFails, Revise, TypeOK, Holding
  <2>13. CASE Abandon(t)

    <3>1. CASE pc[t] = "waiting"
      BY <1>0, <2>13, <3>1 DEF Abandon, TypeOK, LockInv, Holding, Loaded, Setup, Key
    <3>2. CASE pc[t] # "waiting"
      BY <1>0, <2>13, <3>2, KeepsLocks DEF Abandon, TypeOK, Holding, Loaded, Setup, Stream
    <3> QED
      BY <3>1, <3>2
  <2> QED
    BY <1>2, <2>1, <2>2, <2>3, <2>4, <2>5, <2>6, <2>7, <2>8, <2>9, <2>10, <2>11, <2>12,
       <2>13 DEF TurnStep, SetUp, Write, Close
<1>3. ASSUME NEW d \in Deletes, DeleteStep(d)
      PROVE  LockInv'
  <2>1. CASE Check(d)
    BY <1>0, <2>1 DEF Check, TypeOK, LockInv, Key
  <2>2. CASE Enter(d)
    BY <1>0, <2>2, DeletesLock DEF Enter
  <2>3. CASE Mark(d) \/ MarkFails(d)
    BY <1>0, <2>3, DeletesLock DEF Mark, MarkFails
  <2> QED
    BY <1>3, <2>1, <2>2, <2>3 DEF DeleteStep
<1>4. ASSUME NEW s \in Ids, Expire(s) \/ Purge(s)
      PROVE  LockInv'
  <2>1. CASE Expire(s)
    BY <1>0, <2>1, <1>a DEF Expire
  <2>2. CASE Purge(s)
    BY <1>0, <2>2, <1>a DEF Purge
  <2> QED
    BY <1>4, <2>1, <2>2
<1>5. CASE Rest
  BY <1>1, <1>5 DEF Rest
<1> QED
  BY <1>1, <1>2, <1>3, <1>4, <1>5 DEF Next

\* Nobody enters a session whose retention is over.
LEMMA ExpiryStep == IInv /\ TypeOK' /\ [Next]_vars => ExpiryInv'
<1> SUFFICES ASSUME IInv, TypeOK', [Next]_vars
             PROVE  ExpiryInv'
  OBVIOUS
<1>0. TypeOK /\ SessionInv /\ ExpiryInv
  BY DEF IInv
<1> USE SessionAssumption DEF TypeOK, Ids, Goto, sessions, turn, detached, deletes,
   history, ExpiryInv, Loaded, Compaction
<1>1. CASE UNCHANGED vars
  BY <1>0, <1>1 DEF vars
<1>2. ASSUME NEW t \in Turns, TurnStep(t)
      PROVE  ExpiryInv'
  <2>1. ASSUME NEW s \in Offered, Start(t, s)
        PROVE  ExpiryInv'
    BY <1>0, <2>1 DEF Start
  <2>2. CASE Acquire(t)
    BY <1>0, <2>2 DEF Acquire
  <2>3. CASE Look(t)
    BY <1>0, <2>3 DEF Look
  <2>4. CASE Load(t)
    BY <1>0, <2>4 DEF Load, Reads, SessionInv, Unloaded
  <2>5. CASE Open(t)
    BY <1>0, <2>5 DEF Open, Reads
  <2>6. CASE \/ AppendLands(t) \/ LooseLands(t) \/ LooseFails(t)
             \/ (\E landed \in BOOLEAN : LateEnds(t, landed)) \/ BeginAppend(t)
             \/ Identify(t)
    BY <1>0, <2>6 DEF AppendLands, LooseLands, LooseFails, LateEnds, BeginAppend,
       Identify, Revise
  <2>7. CASE AppendFails(t)
    BY <1>0, <2>7 DEF AppendFails
  <2>8. CASE Settle(t) \/ Persist(t)
    BY <1>0, <2>8 DEF Settle, Persist, Reads
  <2>9. CASE SaveLands(t) \/ (\E landed \in BOOLEAN : SaveFails(t, landed))
    BY <1>0, <2>9 DEF SaveLands, SaveFails
  <2>10. CASE Rescue(t)
    BY <1>0, <2>10 DEF Rescue
  <2>11. CASE Leave(t)
    BY <1>0, <2>11 DEF Leave
  <2>12. ASSUME NEW compact \in BOOLEAN, End(t, compact)
         PROVE  ExpiryInv'
    BY <1>0, <2>12 DEF End
  <2>13. CASE CompactLoad(t)
    BY <1>0, <2>13 DEF CompactLoad, Reads
  <2>14. CASE Compact(t) \/ CompactFails(t)
    BY <1>0, <2>14 DEF Compact, CompactFails, Revise
  <2>15. CASE Abandon(t)
    BY <1>0, <2>15 DEF Abandon, Setup, Stream
  <2> QED
    BY <1>2, <2>1, <2>2, <2>3, <2>4, <2>5, <2>6, <2>7, <2>8, <2>9, <2>10, <2>11, <2>12,
       <2>13, <2>14, <2>15 DEF TurnStep, SetUp, Write, Close
<1>3. ASSUME NEW d \in Deletes, DeleteStep(d)
      PROVE  ExpiryInv'
  <2>1. CASE Check(d) \/ Enter(d)
    BY <1>0, <2>1 DEF Check, Enter
  <2>2. CASE Mark(d) \/ MarkFails(d)
    BY <1>0, <2>2 DEF Mark, MarkFails, Answer, Writable
  <2> QED
    BY <1>3, <2>1, <2>2 DEF DeleteStep
<1>4. ASSUME NEW s \in Ids, Expire(s) \/ Purge(s)
      PROVE  ExpiryInv'
  <2>1. CASE Expire(s)
    <3>1. \A t \in Turns :
            /\ pc[t] \in Loaded \cup Compaction \/ loose[t] \/ late[t] => sid[t] # s
            /\ pc[t] = "looked" => target[t] # s
      <4> SUFFICES ASSUME NEW t \in Turns
                   PROVE  /\ pc[t] \in Loaded \cup Compaction \/ loose[t] \/ late[t]
                               => sid[t] # s
                          /\ pc[t] = "looked" => target[t] # s
        OBVIOUS
      <4>1. (pc[t] \notin {"idle", "gone"} \/ loose[t] \/ late[t])
              => s # asked[t] /\ s # sid[t]
        BY <2>1 DEF Expire
      <4>2. pc[t] = "looked" => target[t] = NoId \/ target[t] = asked[t]
        BY <1>0 DEF SessionInv
      <4> QED
        BY <4>1, <4>2
    <3> QED
      BY <1>0, <2>1, <3>1 DEF Expire
  <2>2. CASE Purge(s)
    BY <1>0, <2>2 DEF Purge
  <2> QED
    BY <1>4, <2>1, <2>2
<1>5. CASE Rest
  BY <1>1, <1>5 DEF Rest
<1> QED
  BY <1>1, <1>2, <1>3, <1>4, <1>5 DEF Next

\* Whoever writes to the session of a turn that is not disturbed has no lock in
\* common with it, or is that turn.
LEMMA FreshStep == IInv /\ TypeOK' /\ [Next]_vars => FreshInv'
<1> SUFFICES ASSUME IInv, TypeOK', [Next]_vars
             PROVE  FreshInv'
  OBVIOUS
<1>0. TypeOK /\ LockInv /\ SessionInv /\ ExpiryInv /\ FreshInv
  BY DEF IInv
<1> USE SessionAssumption DEF TypeOK, Ids, Goto, sessions, turn, detached, deletes,
   history, FreshInv
<1>a. \A u, v \in Turns :
        /\ u # v /\ sid[u] = sid[v] /\ server[u] = server[v] /\ sid[u] # NoId
        /\ pc[u] \in Loaded \cup {"compacting"} /\ ~OwnSession(u)
        => ~(pc[v] \in Loaded \cup {"compacting"} /\ ~OwnSession(v))
  <2> SUFFICES ASSUME NEW u \in Turns, NEW v \in Turns, u # v, sid[u] = sid[v],
                      server[u] = server[v], sid[u] # NoId,
                      pc[u] \in Loaded \cup {"compacting"}, ~OwnSession(u),
                      pc[v] \in Loaded \cup {"compacting"}, ~OwnSession(v)
               PROVE  FALSE
    OBVIOUS
  <2>1. sid[u] = asked[u] /\ sid[v] = asked[v]
    BY <1>0 DEF SessionInv, OwnSession, Compaction, Loaded
  <2>2. lock[Key(u)] = u /\ lock[Key(v)] = v
    BY <1>0, <2>1 DEF LockInv, Holding, Loaded
  <2> QED
    BY <2>1, <2>2 DEF Key
<1>1. CASE UNCHANGED vars
  BY <1>0, <1>1 DEF vars
<1>2. ASSUME NEW t \in Turns, TurnStep(t)
      PROVE  FreshInv'
  <2>1. ASSUME NEW s \in Offered, Start(t, s)
        PROVE  FreshInv'
    BY <1>0, <2>1 DEF Start
  <2>2. CASE Acquire(t) \/ Look(t)
    BY <1>0, <2>2 DEF Acquire, Look
  <2>3. CASE Load(t)
    BY <1>0, <2>3 DEF Load, Reads
  <2>4. CASE Open(t)
    BY <1>0, <2>4 DEF Open, Reads
  <2>5. CASE Settle(t)
    BY <1>0, <2>5 DEF Settle, Reads
  <2>6. CASE AppendLands(t)
    BY <1>0, <2>6, <1>a DEF AppendLands, Revise, Stale, Unordered, Stray, Loaded
  <2>7. CASE LooseLands(t)

    <3>1. pc[t] \notin {"loaded", "running", "settling", "compacting"} /\ sid[t] # NoId
      BY <1>0, <2>7 DEF LooseLands
    <3>2. ASSUME NEW u \in Turns, u # t, sid[u] = sid[t], ~disturbed'[u],
                 pc[u] \in {"loaded", "running", "settling", "compacting"}
          PROVE  FALSE
      <4>1. ~Unordered(u, t)
        BY <2>7, <3>2 DEF LooseLands, Revise
      <4>2. pc[t] \in Loaded
        BY <1>0, <2>7, <4>1 DEF LooseLands, Unordered, Stray, SessionInv, Loaded
      <4> QED
        BY <1>a, <3>1, <3>2, <4>1, <4>2 DEF Unordered, Loaded
    <3>3. \A u \in Turns : u # t /\ ~disturbed'[u] => ~disturbed[u]
      BY <2>7 DEF LooseLands, Revise
    <3>4. \A u \in Turns : sid[u] # sid[t] /\ sid[u] \in Ids => rev'[sid[u]] = rev[sid[u]]
      BY <1>0, <2>7 DEF LooseLands, Revise
    <3>5. \A u \in Turns :
            pc[u] \in {"loaded", "running", "settling", "compacting"} => sid[u] \in Ids
      BY <1>0 DEF SessionInv, Loaded, Compaction
    <3> QED
      BY <1>0, <2>7, <3>1, <3>2, <3>3, <3>4, <3>5 DEF LooseLands
  <2>8. CASE \/ LooseFails(t) \/ (\E landed \in BOOLEAN : LateEnds(t, landed))
             \/ BeginAppend(t) \/ Identify(t)
    BY <1>0, <2>8 DEF LooseFails, LateEnds, BeginAppend, Identify
  <2>9. CASE AppendFails(t) \/ Persist(t)
    BY <1>0, <2>9 DEF AppendFails, Persist
  <2>10. CASE \/ SaveLands(t) \/ (\E landed \in BOOLEAN : SaveFails(t, landed))
              \/ Rescue(t)
    BY <1>0, <2>10 DEF SaveLands, SaveFails, Rescue
  <2>11. CASE Leave(t)
    BY <1>0, <2>11 DEF Leave
  <2>12. ASSUME NEW compact \in BOOLEAN, End(t, compact)
         PROVE  FreshInv'
    BY <1>0, <2>12 DEF End
  <2>13. CASE CompactLoad(t)
    BY <1>0, <2>13 DEF CompactLoad, Reads
  <2>14. CASE Compact(t)
    BY <1>0, <2>14, <1>a DEF Compact, Revise, Stale, Unordered, Stray, Loaded
  <2>15. CASE CompactFails(t)
    BY <1>0, <2>15 DEF CompactFails
  <2>16. CASE Abandon(t)
    BY <1>0, <2>16 DEF Abandon, Setup, Stream
  <2> QED
    BY <1>2, <2>1, <2>2, <2>3, <2>4, <2>5, <2>6, <2>7, <2>8, <2>9, <2>10, <2>11, <2>12,
       <2>13, <2>14, <2>15, <2>16 DEF TurnStep, SetUp, Write, Close
<1>3. ASSUME NEW d \in Deletes, DeleteStep(d)
      PROVE  FreshInv'
  <2>1. CASE Check(d) \/ Enter(d)
    BY <1>0, <2>1 DEF Check, Enter
  <2>2. CASE Mark(d) \/ MarkFails(d)
    BY <1>0, <2>2 DEF Mark, MarkFails, Answer
  <2> QED
    BY <1>3, <2>1, <2>2 DEF DeleteStep
<1>4. ASSUME NEW s \in Ids, Expire(s) \/ Purge(s)
      PROVE  FreshInv'
  <2>1. CASE Expire(s)
    BY <1>0, <2>1 DEF Expire
  <2>2. CASE Purge(s)
    BY <1>0, <2>2 DEF Purge, ExpiryInv, Loaded, Compaction
  <2> QED
    BY <1>4, <2>1, <2>2
<1>5. CASE Rest
  BY <1>1, <1>5 DEF Rest
<1> QED
  BY <1>1, <1>2, <1>3, <1>4, <1>5 DEF Next

\* A delete and a turn of one session on one server exclude one another.
LEMMA QuietStep == IInv /\ TypeOK' /\ [Next]_vars => QuietInv'
<1> SUFFICES ASSUME IInv, TypeOK', [Next]_vars
             PROVE  QuietInv'
  OBVIOUS
<1>0. TypeOK /\ LockInv /\ SessionInv /\ QuietInv
  BY DEF IInv
<1> USE SessionAssumption DEF TypeOK, Ids, Goto, sessions, turn, detached, deletes,
   history, QuietInv, Loaded
<1>1. CASE UNCHANGED vars
  BY <1>0, <1>1 DEF vars
<1>2. ASSUME NEW t \in Turns, TurnStep(t)
      PROVE  QuietInv'
  <2>1. ASSUME NEW s \in Offered, Start(t, s)
        PROVE  QuietInv'
    BY <1>0, <2>1 DEF Start
  <2>2. CASE Acquire(t)
    BY <1>0, <2>2 DEF Acquire
  <2>3. CASE Look(t)
    BY <1>0, <2>3 DEF Look
  <2>4. CASE Load(t)
    BY <1>0, <2>4 DEF Load, Reads
  <2>5. CASE Open(t) \/ Settle(t)
    BY <1>0, <2>5 DEF Open, Settle, Reads
  <2>6. CASE \/ AppendLands(t) \/ LooseLands(t) \/ LooseFails(t)
             \/ (\E landed \in BOOLEAN : LateEnds(t, landed)) \/ BeginAppend(t)
             \/ Identify(t)
    BY <1>0, <2>6 DEF AppendLands, LooseLands, LooseFails, LateEnds, BeginAppend,
       Identify, Revise
  <2>7. CASE AppendFails(t) \/ Persist(t)
    BY <1>0, <2>7 DEF AppendFails, Persist
  <2>8. CASE \/ SaveLands(t) \/ (\E landed \in BOOLEAN : SaveFails(t, landed))
             \/ Rescue(t)
    BY <1>0, <2>8 DEF SaveLands, SaveFails, Rescue
  <2>9. CASE Leave(t)
    BY <1>0, <2>9 DEF Leave
  <2>10. ASSUME NEW compact \in BOOLEAN, End(t, compact)
         PROVE  QuietInv'
    BY <1>0, <2>10 DEF End
  <2>11. CASE CompactLoad(t)
    BY <1>0, <2>11 DEF CompactLoad, Reads
  <2>12. CASE Compact(t) \/ CompactFails(t)
    BY <1>0, <2>12 DEF Compact, CompactFails, Revise
  <2>13. CASE Abandon(t)
    BY <1>0, <2>13 DEF Abandon, Setup, Stream
  <2> QED
    BY <1>2, <2>1, <2>2, <2>3, <2>4, <2>5, <2>6, <2>7, <2>8, <2>9, <2>10, <2>11, <2>12,
       <2>13 DEF TurnStep, SetUp, Write, Close
<1>3. ASSUME NEW d \in Deletes, DeleteStep(d)
      PROVE  QuietInv'
  <2>1. CASE Check(d) \/ Enter(d)
    BY <1>0, <2>1 DEF Check, Enter
  <2>2. CASE Mark(d)
    <3>1. lock[where[d]] = d /\ where[d] = <<where[d][1], where[d][2]>>
      BY <1>0, <2>2 DEF LockInv, Mark
    <3>2. \A t \in Turns : lock[Key(t)] = t => Key(t) # where[d]
      BY <3>1
    <3>3. \A t \in Turns :
            /\ pc[t] = "looked" /\ target[t] # NoId => lock[Key(t)] = t /\ target[t] = asked[t]
            /\ pc[t] \in Loaded /\ sid[t] # t => lock[Key(t)] = t /\ sid[t] = asked[t]
      BY <1>0 DEF LockInv, SessionInv, Holding
    <3> QED
      <4>1. \A t \in Turns :
              lock[Key(t)] = t => server[t] # where[d][1] \/ asked[t] # where[d][2]
        BY <3>1, <3>2 DEF Key
      <4>2. \A s \in Ids :
              hidden'[s] = hidden[s] \/ (s = where[d][2] /\ hidden'[s] = where[d][1])
        BY <1>0, <2>2, <3>1 DEF Mark
      <4>3. pc' = pc /\ target' = target /\ sid' = sid /\ server' = server
        BY <2>2 DEF Mark
      <4>4. \A t \in Turns : target[t] # NoId => target[t] \in Ids
        BY <1>0
      <4>5. \A t \in Turns : pc[t] \in Loaded => sid[t] \in Ids
        BY <1>0 DEF SessionInv
      <4> QED
        BY <1>0, <3>3, <4>1, <4>2, <4>3, <4>4, <4>5
  <2>3. CASE MarkFails(d)
    BY <1>0, <2>3 DEF MarkFails, Answer
  <2> QED
    BY <1>3, <2>1, <2>2, <2>3 DEF DeleteStep
<1>4. ASSUME NEW s \in Ids, Expire(s) \/ Purge(s)
      PROVE  QuietInv'
  <2>1. CASE Expire(s)
    BY <1>0, <2>1 DEF Expire
  <2>2. CASE Purge(s)
    BY <1>0, <2>2 DEF Purge
  <2> QED
    BY <1>4, <2>1, <2>2
<1>5. CASE Rest
  BY <1>1, <1>5 DEF Rest
<1> QED
  BY <1>1, <1>2, <1>3, <1>4, <1>5 DEF Next

\* What was called saved stays stored.
LEMMA SavedStep == IInv /\ TypeOK' /\ [Next]_vars => SavedInv'
<1> SUFFICES ASSUME IInv, TypeOK', [Next]_vars
             PROVE  SavedInv'
  OBVIOUS
<1>0. TypeOK /\ SessionInv /\ SavedInv
  BY DEF IInv
<1> USE DEF Goto, sessions, turn, detached, deletes, history
<1> DEFINE Past == {"ended", "leaving", "gone"} \cup Compaction
<1>a. ASSUME \A u \in Turns : saved'[u] => saved[u] /\ sid'[u] = sid[u] /\ pc'[u] \in Past,
             \A r \in Ids : rows[r] \subseteq rows'[r] \/ r \in purged',
             purged \subseteq purged'
      PROVE  SavedInv'
  <2>1. \A u \in Turns : saved[u] => sid[u] \in Ids
    BY <1>0 DEF SavedInv, TypeOK
  <2> QED
    BY <1>0, <1>a, <2>1 DEF SavedInv, SavedTurnKept
<1>b. \A u \in Turns : saved[u] => pc[u] \in Past
  BY <1>0 DEF SavedInv
<1>c. ASSUME NEW u \in Turns, Stored(u)
      PROVE  \A r \in Ids : rows[r] \subseteq rows'[r]
  BY <1>0, <1>c DEF Stored, TypeOK
<1>d. ASSUME NEW u \in Turns, UNCHANGED <<saved, sid>>, pc[u] \notin Past \/ pc'[u] \in Past,
             \A v \in Turns : v # u => pc'[v] = pc[v]
      PROVE  \A v \in Turns : saved'[v] => saved[v] /\ sid'[v] = sid[v] /\ pc'[v] \in Past
  BY <1>b, <1>d
<1>1. CASE UNCHANGED vars
  BY <1>0, <1>a, <1>b, <1>1 DEF vars
<1>2. ASSUME NEW t \in Turns, TurnStep(t)
      PROVE  SavedInv'
  <2>1. ASSUME NEW s \in Offered, Start(t, s)
        PROVE  SavedInv'
    BY <1>0, <2>1, <1>a, <1>d DEF Start, TypeOK, Compaction
  <2>2. CASE Acquire(t) \/ Look(t)
    BY <1>0, <2>2, <1>a, <1>d DEF Acquire, Look, TypeOK, Compaction
  <2>3. CASE Load(t)

    <3>1. ~saved[t]
      BY <1>b, <2>3 DEF Load, Compaction
    <3>2. \A u \in Turns : u # t => sid'[u] = sid[u]
      BY <2>3 DEF Load
    <3>3. \A u \in Turns : u # t => pc'[u] = pc[u]
      BY <2>3 DEF Load
    <3>4. saved' = saved /\ rows' = rows /\ purged' = purged
      BY <2>3 DEF Load
    <3> QED
      BY <1>a, <1>b, <3>1, <3>2, <3>3, <3>4
  <2>4. CASE Open(t) \/ Settle(t)
    BY <1>0, <2>4, <1>a, <1>d DEF Open, Settle, Reads, TypeOK, Compaction
  <2>5. CASE \/ AppendLands(t) \/ LooseLands(t) \/ LooseFails(t) \/ BeginAppend(t)
             \/ Identify(t)
    BY <1>0, <2>5, <1>a, <1>b DEF AppendLands, LooseLands, LooseFails, BeginAppend,
       Identify, Revise
  <2>6. ASSUME NEW landed \in BOOLEAN, LateEnds(t, landed)
        PROVE  SavedInv'
    BY <1>0, <2>6, <1>a, <1>b, <1>c DEF LateEnds
  <2>7. CASE AppendFails(t) \/ Persist(t)
    BY <1>0, <2>7, <1>a, <1>d DEF AppendFails, Persist, TypeOK, Compaction
  <2>8. CASE SaveLands(t)

    <3>1. \A u \in Turns : u # t => saved'[u] = saved[u] /\ pc'[u] = pc[u]
      BY <1>0, <2>8 DEF SaveLands, TypeOK
    <3>2. sid' = sid /\ purged' = purged /\ (\A r \in Ids : rows[r] \subseteq rows'[r])
      BY <1>c, <2>8 DEF SaveLands
    <3>3. saved'[t] => Writable(sid[t]) /\ pc'[t] = "ended" /\ sid[t] # NoId
      <4>1. sid[t] # NoId
        BY <1>0, <2>8 DEF SaveLands, SessionInv, Loaded
      <4>2. saved'[t] => pc[t] = "saving" /\ Acknowledged(sid[t])
        BY <1>0, <2>8 DEF SaveLands, TypeOK
      <4>3. pc[t] = "saving" => pc'[t] = "ended"
        BY <1>0, <2>8 DEF SaveLands, TypeOK
      <4> QED
        BY <4>1, <4>2, <4>3 DEF Acknowledged
    <3>4. saved'[t] => t \in rows'[sid[t]]
      BY <1>0, <2>8, <3>3 DEF SaveLands, Stored, TypeOK
    <3>5. \A u \in Turns : saved[u] => sid[u] \in Ids
      BY <1>0 DEF SavedInv, TypeOK
    <3> QED
      BY <1>0, <3>1, <3>2, <3>3, <3>4, <3>5 DEF SavedInv, SavedTurnKept
  <2>9. ASSUME NEW landed \in BOOLEAN, SaveFails(t, landed)
        PROVE  SavedInv'

    <3>1. \A r \in Ids : rows[r] \subseteq rows'[r]
      BY <1>c, <2>9 DEF SaveFails
    <3> QED
      BY <1>0, <1>a, <1>d, <2>9, <3>1 DEF SaveFails, TypeOK, Compaction
  <2>10. CASE Rescue(t)
    BY <1>0, <2>10, <1>a, <1>d DEF Rescue, TypeOK, Compaction
  <2>11. CASE Leave(t)
    BY <1>0, <2>11, <1>a, <1>d DEF Leave, TypeOK
  <2>12. ASSUME NEW compact \in BOOLEAN, End(t, compact)
         PROVE  SavedInv'
    BY <1>0, <2>12, <1>a, <1>d DEF End, TypeOK, Compaction
  <2>13. CASE CompactLoad(t)
    BY <1>0, <2>13, <1>a, <1>d DEF CompactLoad, Reads, TypeOK, Compaction
  <2>14. CASE Compact(t)
    BY <1>0, <2>14, <1>a, <1>d DEF Compact, Revise, TypeOK
  <2>15. CASE CompactFails(t)
    BY <1>0, <2>15, <1>a, <1>d DEF CompactFails, TypeOK
  <2>16. CASE Abandon(t)
    BY <1>0, <2>16, <1>a, <1>d DEF Abandon, Setup, Stream, TypeOK, Compaction
  <2> QED
    BY <1>2, <2>1, <2>2, <2>3, <2>4, <2>5, <2>6, <2>7, <2>8, <2>9, <2>10, <2>11, <2>12,
       <2>13, <2>14, <2>15, <2>16 DEF TurnStep, SetUp, Write, Close
<1>3. ASSUME NEW d \in Deletes, DeleteStep(d)
      PROVE  SavedInv'
  <2>1. CASE Check(d) \/ Enter(d)
    BY <1>0, <2>1, <1>a, <1>b DEF Check, Enter
  <2>2. CASE Mark(d) \/ MarkFails(d)
    BY <1>0, <2>2, <1>a, <1>b DEF Mark, MarkFails, Answer
  <2> QED
    BY <1>3, <2>1, <2>2 DEF DeleteStep
<1>4. ASSUME NEW s \in Ids, Expire(s) \/ Purge(s)
      PROVE  SavedInv'
  <2>1. CASE Expire(s)
    BY <1>0, <2>1, <1>a, <1>b DEF Expire
  <2>2. CASE Purge(s)
    BY <1>0, <2>2, <1>a, <1>b DEF Purge, TypeOK
  <2> QED
    BY <1>4, <2>1, <2>2
<1>5. CASE Rest
  BY <1>1, <1>5 DEF Rest
<1> QED
  BY <1>1, <1>2, <1>3, <1>4, <1>5 DEF Next

\* A deletion is known until the purge.
LEMMA DeadStep == IInv /\ TypeOK' /\ [Next]_vars => DeadInv'
<1> SUFFICES ASSUME IInv, TypeOK', [Next]_vars
             PROVE  DeadInv'
  OBVIOUS
<1>0. TypeOK /\ SessionInv /\ DeadInv
  BY DEF IInv
<1> USE SessionAssumption DEF TypeOK, Ids, Goto, sessions, turn, detached, deletes,
   history, DeadInv
<1>1. CASE UNCHANGED vars
  BY <1>0, <1>1 DEF vars
<1>2. ASSUME NEW t \in Turns, TurnStep(t)
      PROVE  DeadInv'
  <2>1. ASSUME NEW s \in Offered, Start(t, s)
        PROVE  DeadInv'
    BY <1>0, <2>1 DEF Start, SessionInv, Unloaded
  <2>2. CASE Acquire(t)
    BY <1>0, <2>2 DEF Acquire
  <2>3. CASE Look(t)
    BY <1>0, <2>3 DEF Look
  <2>4. CASE Load(t)
    BY <1>0, <2>4 DEF Load, Reads
  <2>5. CASE Open(t) \/ Settle(t)
    BY <1>0, <2>5 DEF Open, Settle, Reads
  <2>6. CASE \/ AppendLands(t) \/ LooseLands(t) \/ LooseFails(t)
             \/ (\E landed \in BOOLEAN : LateEnds(t, landed)) \/ BeginAppend(t)
             \/ Identify(t)
    BY <1>0, <2>6 DEF AppendLands, LooseLands, LooseFails, LateEnds, BeginAppend,
       Identify, Revise
  <2>7. CASE AppendFails(t) \/ Persist(t)
    BY <1>0, <2>7 DEF AppendFails, Persist
  <2>8. CASE \/ SaveLands(t) \/ (\E landed \in BOOLEAN : SaveFails(t, landed))
             \/ Rescue(t)
    BY <1>0, <2>8 DEF SaveLands, SaveFails, Rescue
  <2>9. CASE Leave(t)
    BY <1>0, <2>9 DEF Leave
  <2>10. ASSUME NEW compact \in BOOLEAN, End(t, compact)
         PROVE  DeadInv'
    BY <1>0, <2>10 DEF End
  <2>11. CASE CompactLoad(t)
    BY <1>0, <2>11 DEF CompactLoad, Reads
  <2>12. CASE Compact(t) \/ CompactFails(t)
    BY <1>0, <2>12 DEF Compact, CompactFails, Revise
  <2>13. CASE Abandon(t)
    BY <1>0, <2>13 DEF Abandon, Setup, Stream
  <2> QED
    BY <1>2, <2>1, <2>2, <2>3, <2>4, <2>5, <2>6, <2>7, <2>8, <2>9, <2>10, <2>11, <2>12,
       <2>13 DEF TurnStep, SetUp, Write, Close
<1>3. ASSUME NEW d \in Deletes, DeleteStep(d)
      PROVE  DeadInv'
  <2>1. CASE Check(d) \/ Enter(d)
    BY <1>0, <2>1 DEF Check, Enter
  <2>2. CASE Mark(d)
    BY <1>0, <2>2 DEF Mark, Answer
  <2>3. CASE MarkFails(d)
    BY <1>0, <2>3 DEF MarkFails, Answer
  <2> QED
    BY <1>3, <2>1, <2>2, <2>3 DEF DeleteStep
<1>4. ASSUME NEW s \in Ids, Expire(s) \/ Purge(s)
      PROVE  DeadInv'
  <2>1. CASE Expire(s)
    BY <1>0, <2>1 DEF Expire
  <2>2. CASE Purge(s)
    BY <1>0, <2>2 DEF Purge
  <2> QED
    BY <1>4, <2>1, <2>2
<1>5. CASE Rest
  BY <1>1, <1>5 DEF Rest
<1> QED
  BY <1>1, <1>2, <1>3, <1>4, <1>5 DEF Next

-----------------------------------------------------------------------------
(* The invariant and what follows from it. *)

LEMMA InitInv == Init => IInv
<1> SUFFICES ASSUME Init PROVE IInv
  OBVIOUS
<1> USE SessionAssumption DEF Init, Ids
<1>1. TypeOK
  BY DEF TypeOK, Places
<1>2. LockInv
  BY DEF LockInv, Holding, Loaded
<1>3. SessionInv
  BY DEF SessionInv, Unloaded, Loaded, Compaction
<1>4. ExpiryInv /\ FreshInv /\ QuietInv
  BY DEF ExpiryInv, FreshInv, QuietInv, Loaded, Compaction
<1>5. SavedInv /\ DeadInv
  BY DEF SavedInv, SavedTurnKept, DeadInv
<1> QED
  BY <1>1, <1>2, <1>3, <1>4, <1>5 DEF IInv

LEMMA StepInv == IInv /\ [Next]_vars => IInv'
<1> SUFFICES ASSUME IInv, [Next]_vars
             PROVE  IInv'
  OBVIOUS
<1>1. TypeOK'
  BY TypeStep DEF IInv
<1> QED
  BY <1>1, SessionStep, LockStep, ExpiryStep, FreshStep, QuietStep, SavedStep, DeadStep
  DEF IInv

LEMMA Invariance == Spec => []IInv
  BY InitInv, StepInv, PTL DEF Spec

\* Type correctness, with what the place of a turn says of its database
\* operations (TypeOK of a run).
THEOREM TypeCorrect == Spec => []TypeOK
<1>1. IInv => TypeOK
  BY DEF IInv
<1> QED
  BY <1>1, Invariance, PTL

\* What done called saved stays stored until the purge, for any number of
\* turns, deletes and servers (save_turn, mark_deleted, _purge_batch).
THEOREM SavedTurnKeptHolds == Spec => []SavedTurnKept
<1>1. IInv => SavedTurnKept
  BY DEF IInv, SavedInv
<1> QED
  BY <1>1, Invariance, PTL

\* A turn that comes with the id of a deleted session continues it only after
\* the purge (prepare).
THEOREM DeletedNotContinuedHolds == Spec => []DeletedNotContinued
<1>1. IInv => DeletedNotContinued
  BY DEF IInv, DeadInv, DeletedNotContinued
<1> QED
  BY <1>1, Invariance, PTL

\* An append is rejected as stale only if a writer that the lock does not
\* order with the turn has written since the turn read the session: the lock
\* and the waiting of the finally block do their work in every other case.
THEOREM CollisionsExplainedHolds == Spec => CollisionsExplained
<1>1. ASSUME IInv, NEW t \in Turns, Collides(t)
      PROVE  disturbed[t]
  <2>1. append[t] /\ base[t] # rev[sid[t]]
    BY <1>1 DEF Collides, Stale
  <2>2. pc[t] \in {"loaded", "running", "settling", "compacting"}
    BY <1>1, <2>1 DEF IInv, TypeOK
  <2> QED
    BY <1>1, <2>1, <2>2 DEF IInv, FreshInv
<1>2. IInv /\ [Next]_vars => [\A t \in Turns : Collides(t) => disturbed[t]]_vars
  BY <1>1
<1> QED
  BY <1>2, Invariance, PTL DEF Spec, CollisionsExplained

\* After a delete on its server no turn there changes the session but strays,
\* turns in sessions of their own, and compactions (delete_session).
THEOREM HiddenStaysQuietHolds == Spec => HiddenStaysQuiet
<1> DEFINE Writer(t, s) ==
       /\ sid[t] = s
       /\ append[t] # append'[t] \/ loose[t] # loose'[t]
       /\ \/ server[t] # hidden[s]
          \/ OwnSession(t) \/ Stray(t) \/ pc[t] \in Compaction
<1>1. ASSUME IInv, [Next]_vars, NEW s \in Ids,
             hidden[s] # Nobody, rev'[s] # rev[s], exists'[s]
      PROVE  \E t \in Turns : Writer(t, s)
  <2>0. TypeOK /\ SessionInv /\ QuietInv
    BY <1>1 DEF IInv
  <2>1. PICK t \in Turns : AppendLands(t) \/ LooseLands(t) \/ Compact(t)
    <3>1. ASSUME NEW t \in Turns, TurnStep(t),
                 ~(AppendLands(t) \/ LooseLands(t) \/ Compact(t))
          PROVE  rev' = rev
      BY <3>1 DEF TurnStep, SetUp, Write, Close, Start, Acquire, Look, Load, Open, AppendFails,
         LooseFails, Settle, Persist, SaveLands, Rescue, Leave, End, CompactLoad, CompactFails,
         BeginAppend, Identify, SaveFails, LateEnds, Abandon, sessions
    <3>2. ASSUME NEW d \in Deletes, DeleteStep(d)
          PROVE  rev' = rev
      BY <3>2 DEF DeleteStep, Check, Enter, Mark, MarkFails, sessions
    <3>3. ASSUME NEW r \in Ids, Expire(r) \/ Purge(r)
          PROVE  rev'[s] = rev[s] \/ ~exists'[s]
      BY <2>0, <3>3 DEF Expire, Purge, TypeOK
    <3>4. CASE UNCHANGED vars
      BY <1>1, <3>4 DEF vars, sessions
    <3> QED
      BY <1>1, <3>1, <3>2, <3>3, <3>4 DEF Next, Rest
  <2>2. sid[t] = s /\ server[t] \in Servers
    BY <1>1, <2>0, <2>1 DEF AppendLands, LooseLands, Compact, Revise, TypeOK
  <2>3. CASE AppendLands(t)
    <3>1. append[t] # append'[t]
      BY <2>0, <2>3 DEF AppendLands, TypeOK
    <3>2. pc[t] \in {"loaded", "running", "settling"}
      BY <2>0, <2>3 DEF AppendLands, TypeOK
    <3>3. server[t] # hidden[s] \/ OwnSession(t)
      BY <2>0, <2>2, <3>2 DEF QuietInv, OwnSession, Loaded, Compaction
    <3> QED
      BY <2>2, <3>1, <3>3
  <2>4. CASE LooseLands(t)
    <3>1. loose[t] /\ loose[t] # loose'[t]
      BY <2>0, <2>4 DEF LooseLands, TypeOK
    <3>2. ~Stray(t) => pc[t] = "cleanup"
      BY <2>0, <3>1 DEF Stray, SessionInv
    <3>3. ~Stray(t) => server[t] # hidden[s] \/ OwnSession(t)
      BY <2>0, <2>2, <3>2 DEF QuietInv, OwnSession, Loaded, Compaction
    <3> QED
      BY <2>2, <3>1, <3>3
  <2>5. CASE Compact(t)
    <3>1. append[t] # append'[t] /\ pc[t] \in Compaction
      BY <2>0, <2>5 DEF Compact, TypeOK, Compaction
    <3> QED
      BY <2>2, <3>1
  <2> QED
    BY <2>1, <2>3, <2>4, <2>5
<1>2. IInv /\ [Next]_vars
        => [\A s \in Ids : hidden[s] # Nobody /\ rev'[s] # rev[s] /\ exists'[s]
              => \E t \in Turns : Writer(t, s)]_vars
  BY <1>1
<1> QED
  BY <1>2, Invariance, PTL DEF Spec, HiddenStaysQuiet

-----------------------------------------------------------------------------
(* Nobody waits for one who waits. *)

\* A turn whose next step waits for nobody: every place between the start and
\* the end of a turn, but the two waits for a lock, has a step of its own (a
\* place with an append under way, that the append fails; the finally block
\* with a loose append, that this one fails).
Going(t) == pc[t] \in Holding \cup {"leaving"}

LockWaits == {"waiting", "compactWaiting"}

\* The lock of p is free, or with one that goes on and asks for no other lock.
WellHeld(p) ==
    \/ lock[p] = Free
    \/ \E t \in Turns : lock[p] = t /\ Going(t)
    \/ \E d \in Deletes : lock[p] = d /\ del[d] = "marking"

\* A turn or a delete that waits for a lock waits for one that does not wait.
WaitersWaitForRunners ==
    /\ \A t \in Turns : pc[t] \in LockWaits => asked[t] # NoId /\ WellHeld(Key(t))
    /\ \A d \in Deletes : del[d] = "waiting" => WellHeld(where[d])

\* Nobody holds the locks of two sessions, and who waits for one holds none.
OneLockEach ==
    /\ \A p, q \in Servers \X Ids : lock[p] = lock[q] /\ lock[p] # Free => p = q
    /\ \A t \in Turns, p \in Servers \X Ids : pc[t] \in LockWaits => lock[p] # t
    /\ \A d \in Deletes, p \in Servers \X Ids : del[d] = "waiting" => lock[p] # d

\* All turns and deletes are over or have not begun, or one of them can go on.
SomeoneGoesOn ==
    \/ /\ \A t \in Turns : pc[t] \in {"idle", "gone"}
       /\ \A d \in Deletes : del[d] \in {"idle", "answered"}
    \/ \E t \in Turns : Going(t) \/ (pc[t] \in LockWaits /\ lock[Key(t)] = Free)
    \/ \E d \in Deletes : del[d] = "marking" \/ (del[d] = "waiting" /\ lock[where[d]] = Free)

LEMMA LocksAreHeld == IInv => WaitersWaitForRunners /\ OneLockEach
<1> SUFFICES ASSUME IInv PROVE WaitersWaitForRunners /\ OneLockEach
  OBVIOUS
<1>0. TypeOK /\ LockInv /\ SessionInv
  BY DEF IInv
<1>1. ASSUME NEW p \in Servers \X Ids
      PROVE  WellHeld(p)
  BY <1>0 DEF WellHeld, Going, TypeOK, LockInv
<1>2. ASSUME NEW t \in Turns, pc[t] \in LockWaits
      PROVE  asked[t] # NoId /\ Key(t) \in Servers \X Ids
  BY <1>0, <1>2 DEF LockWaits, SessionInv, Compaction, TypeOK, Key
<1>3. \A d \in Deletes : where[d] \in Servers \X Ids
  BY <1>0 DEF TypeOK
<1>4. WaitersWaitForRunners
  BY <1>1, <1>2, <1>3 DEF WaitersWaitForRunners
<1>5. \A p, q \in Servers \X Ids : lock[p] = lock[q] /\ lock[p] # Free => p = q
  <2>1. ASSUME NEW p \in Servers \X Ids, lock[p] # Free
        PROVE  lock[p] \in Turns \/ lock[p] \in Deletes
    BY <1>0, <2>1 DEF TypeOK
  <2>2. \A t \in Turns, p, q \in Servers \X Ids : lock[p] = t /\ lock[q] = t => p = q
    BY <1>0 DEF LockInv
  <2>3. \A d \in Deletes, p, q \in Servers \X Ids : lock[p] = d /\ lock[q] = d => p = q
    BY <1>0 DEF LockInv
  <2> QED
    BY <2>1, <2>2, <2>3
<1>6. \A t \in Turns, p \in Servers \X Ids : pc[t] \in LockWaits => lock[p] # t
  BY <1>0 DEF LockInv, LockWaits, Holding, Loaded
<1>7. \A d \in Deletes, p \in Servers \X Ids : del[d] = "waiting" => lock[p] # d
  BY <1>0 DEF LockInv
<1> QED
  BY <1>4, <1>5, <1>6, <1>7 DEF OneLockEach

\* Every place is before the start, after the end, going on, or a wait.
LEMMA PlacesSplit ==
  ASSUME TypeOK, NEW t \in Turns
  PROVE  pc[t] \in {"idle", "gone"} \/ Going(t) \/ pc[t] \in LockWaits
BY DEF TypeOK, Places, Setup, Stream, Compaction, Going, Holding, Loaded, LockWaits

\* Turns, deletions and compactions never wait in a ring: who waits for a lock of
\* _session_locks waits for one whose holder is at work, nobody holds a second
\* one, and as long as anything has begun something that need not wait can go on
\* (_get_session_lock, taken by run_agent_stream, delete_session and the
\* compaction).  It is NobodyStuck without ENABLED.
THEOREM NoRingOfWaiters ==
  Spec => [](WaitersWaitForRunners /\ OneLockEach /\ SomeoneGoesOn)
<1>1. ASSUME IInv PROVE SomeoneGoesOn
  <2>0. TypeOK /\ WaitersWaitForRunners
    BY <1>1, LocksAreHeld DEF IInv
  <2>1. CASE \A t \in Turns : ~Going(t) /\ pc[t] \notin LockWaits
    <3>1. \A t \in Turns : pc[t] \in {"idle", "gone"}
      BY <2>0, <2>1, PlacesSplit
    <3>2. ASSUME NEW d \in Deletes, del[d] = "waiting", lock[where[d]] # Free
          PROVE  \E e \in Deletes : del[e] = "marking"
      BY <2>0, <2>1, <3>2 DEF WaitersWaitForRunners, WellHeld
    <3>3. \A d \in Deletes : del[d] \in {"idle", "waiting", "marking", "answered"}
      BY <2>0 DEF TypeOK
    <3> QED
      BY <3>1, <3>2, <3>3 DEF SomeoneGoesOn
  <2>2. ASSUME NEW t \in Turns, pc[t] \in LockWaits, lock[Key(t)] # Free
        PROVE  SomeoneGoesOn
    BY <2>0, <2>2 DEF WaitersWaitForRunners, WellHeld, SomeoneGoesOn
  <2> QED
    BY <2>1, <2>2 DEF SomeoneGoesOn
<1>2. IInv => WaitersWaitForRunners /\ OneLockEach /\ SomeoneGoesOn
  BY <1>1, LocksAreHeld
<1> QED
  BY <1>2, Invariance, PTL

-----------------------------------------------------------------------------
(* A turn only goes on: every step of it lowers its rank. *)

\* Ranks are compared from their first part on, and there is no endless descent.
Less == OpToRel(<, Nat)
Below == LexProductOrdering(Less, Nat, 6)
Ranks == [1..6 -> Nat]

LEMMA BelowWellFounded == IsWellFoundedOn(Below, Ranks)
<1>1. IsWellFoundedOn(Less, Nat)
  BY NatLessThanWellFounded, Zenon DEF Less
<1> QED
  BY <1>1, WFLexProductOrdering, Zenon DEF Below, Ranks

\* A rank is lower when one part is and those before it are the same.
LEMMA LowerRank ==
  ASSUME NEW a \in Ranks, NEW b \in Ranks,
         \/ a[1] < b[1]
         \/ a[1] = b[1] /\ a[2] < b[2]
         \/ a[1] = b[1] /\ a[2] = b[2] /\ a[3] < b[3]
         \/ a[1] = b[1] /\ a[2] = b[2] /\ a[3] = b[3] /\ a[4] < b[4]
         \/ a[1] = b[1] /\ a[2] = b[2] /\ a[3] = b[3] /\ a[4] = b[4] /\ a[5] < b[5]
         \/ /\ a[1] = b[1] /\ a[2] = b[2] /\ a[3] = b[3] /\ a[4] = b[4] /\ a[5] = b[5]
            /\ a[6] < b[6]
  PROVE  <<a, b>> \in Below
<1>1. \E j \in 1..6 : a[j] < b[j] /\ \A i \in 1..(j - 1) : a[i] = b[i]
  <2>1. CASE a[1] < b[1]
    BY <2>1
  <2>2. CASE a[1] = b[1] /\ a[2] < b[2]
    BY <2>2
  <2>3. CASE a[1] = b[1] /\ a[2] = b[2] /\ a[3] < b[3]
    BY <2>3
  <2>4. CASE a[1] = b[1] /\ a[2] = b[2] /\ a[3] = b[3] /\ a[4] < b[4]
    BY <2>4
  <2>5. CASE a[1] = b[1] /\ a[2] = b[2] /\ a[3] = b[3] /\ a[4] = b[4] /\ a[5] < b[5]
    BY <2>5
  <2>6. CASE /\ a[1] = b[1] /\ a[2] = b[2] /\ a[3] = b[3] /\ a[4] = b[4] /\ a[5] = b[5]
            /\ a[6] < b[6]
    BY <2>6
  <2> QED
    BY <2>1, <2>2, <2>3, <2>4, <2>5, <2>6
<1>2. PICK j \in 1..6 : a[j] < b[j] /\ \A i \in 1..(j - 1) : a[i] = b[i]
  BY <1>1
<1>3. <<a[j], b[j]>> \in Less
  BY <1>2 DEF OpToRel, Less, Ranks
<1> QED
  BY <1>2, <1>3, Zenon DEF Below, LexProductOrdering, Ranks

Bit(b) == IF b THEN 1 ELSE 0

\* How far the place is from the end.
Distance ==
    [place \in Places |->
        CASE place = "idle" -> 13 [] place = "waiting" -> 12 [] place = "preparing" -> 11
          [] place = "looked" -> 10 [] place = "loaded" -> 9 [] place = "running" -> 8
          [] place = "settling" -> 7 [] place = "saving" -> 6
          [] place \in {"ended", "cleanup"} -> 5
          [] place \in {"rescuing", "compactWaiting"} -> 4
          [] place = "compacting" -> 3 [] place = "leaving" -> 2 [] OTHER -> 0]

\* The rank of a turn: its place, the appends it may still begin, the one it
\* waits for, its id, and what goes on detached.
Rank(t) ==
    <<Distance[pc[t]], MaxAppends - appends[t], Bit(append[t]), Bit(~identified[t]),
      Bit(loose[t]), Bit(late[t])>>

Lowers(t) == <<Rank(t)', Rank(t)>> \in Below

AppendsBounded == \A t \in Turns : appends[t] <= MaxAppends

LEMMA AppendsStep == TypeOK /\ AppendsBounded /\ [Next]_vars => AppendsBounded'
<1> SUFFICES ASSUME TypeOK, AppendsBounded, [Next]_vars
             PROVE  AppendsBounded'
  OBVIOUS
<1>1. ASSUME NEW t \in Turns, TurnStep(t), ~BeginAppend(t)
      PROVE  appends' = appends
  BY <1>1 DEF TurnStep, SetUp, Write, Close, Start, Acquire, Look, Load, Open, AppendFails,
     AppendLands, LooseLands, LooseFails, Settle, Persist, SaveLands, Rescue, Leave, End,
     CompactLoad, Compact, CompactFails, Identify, SaveFails, LateEnds, Abandon, turn
<1>2. ASSUME NEW t \in Turns, BeginAppend(t)
      PROVE  AppendsBounded'
  BY <1>2, SessionAssumption DEF BeginAppend, TypeOK, AppendsBounded
<1>3. ASSUME NEW d \in Deletes, DeleteStep(d)
      PROVE  appends' = appends
  BY <1>3 DEF DeleteStep, Check, Enter, Mark, MarkFails, turn
<1>4. ASSUME NEW s \in Ids, Expire(s) \/ Purge(s)
      PROVE  appends' = appends
  BY <1>4 DEF Expire, Purge, turn
<1>5. CASE UNCHANGED vars
  BY <1>5 DEF vars, turn, AppendsBounded
<1> QED
  BY <1>1, <1>2, <1>3, <1>4, <1>5 DEF Next, Rest, AppendsBounded

LEMMA DistanceType == \A place \in Places : Distance[place] \in Nat
BY DEF Distance

\* The parts of the rank decide.
LEMMA LowersWhen ==
  ASSUME TypeOK, TypeOK', AppendsBounded, AppendsBounded', NEW t \in Turns,
         \/ Distance[pc'[t]] < Distance[pc[t]]
         \/ /\ pc'[t] = pc[t] /\ appends'[t] = appends[t] + 1
         \/ /\ pc'[t] = pc[t] /\ appends'[t] = appends[t]
            /\ \/ append[t] /\ ~append'[t]
               \/ append'[t] = append[t] /\ ~identified[t] /\ identified'[t]
               \/ /\ append'[t] = append[t] /\ identified'[t] = identified[t]
                  /\ \/ loose[t] /\ ~loose'[t]
                     \/ loose'[t] = loose[t] /\ late[t] /\ ~late'[t]
  PROVE  Lowers(t)
<1>1. Distance[pc[t]] \in Nat /\ Distance[pc'[t]] \in Nat
  BY DistanceType DEF TypeOK
<1>2. appends[t] \in 0..MaxAppends /\ appends'[t] \in 0..MaxAppends /\ MaxAppends \in Nat
  BY SessionAssumption DEF TypeOK, AppendsBounded
<1> DEFINE a == Rank(t)'
           b == Rank(t)
<1>3. a \in Ranks /\ b \in Ranks
  BY <1>1, <1>2 DEF Rank, Ranks, Bit
<1>4. /\ pc'[t] = pc[t] => a[1] = b[1]
      /\ Distance[pc'[t]] < Distance[pc[t]] => a[1] < b[1]
  BY DEF Rank
<1>5. /\ appends'[t] = appends[t] => a[2] = b[2]
      /\ appends'[t] = appends[t] + 1 => a[2] < b[2]
  BY <1>2 DEF Rank
<1>6. /\ append[t] /\ ~append'[t] => a[3] < b[3]
      /\ append'[t] = append[t] => a[3] = b[3]
  BY DEF Rank, Bit
<1>7. /\ ~identified[t] /\ identified'[t] => a[4] < b[4]
      /\ identified'[t] = identified[t] => a[4] = b[4]
  BY DEF Rank, Bit
<1>8. /\ loose[t] /\ ~loose'[t] => a[5] < b[5]
      /\ loose'[t] = loose[t] => a[5] = b[5]
      /\ late[t] /\ ~late'[t] => a[6] < b[6]
  BY DEF Rank, Bit
<1> HIDE DEF a, b
<1>9. \/ a[1] < b[1]
      \/ a[1] = b[1] /\ a[2] < b[2]
      \/ a[1] = b[1] /\ a[2] = b[2] /\ a[3] < b[3]
      \/ a[1] = b[1] /\ a[2] = b[2] /\ a[3] = b[3] /\ a[4] < b[4]
      \/ a[1] = b[1] /\ a[2] = b[2] /\ a[3] = b[3] /\ a[4] = b[4] /\ a[5] < b[5]
      \/ /\ a[1] = b[1] /\ a[2] = b[2] /\ a[3] = b[3] /\ a[4] = b[4] /\ a[5] = b[5]
         /\ a[6] < b[6]
  BY <1>4, <1>5, <1>6, <1>7, <1>8
<1>10. <<a, b>> \in Below
  BY <1>3, <1>9, LowerRank
<1> QED
  BY <1>10 DEF Lowers, a, b

\* Every step of a turn lowers its rank, but that closing it reads the session
\* anew as often as it likes (twice, in the code).
LEMMA TurnStepLowers ==
  ASSUME TypeOK, TypeOK', AppendsBounded, AppendsBounded', NEW t \in Turns, TurnStep(t),
         ~(Settle(t) /\ pc[t] = "settling")
  PROVE  Lowers(t)
<1> USE DEF Setup, Stream, Goto, turn, detached
<1>0. /\ Distance["idle"] = 13 /\ Distance["waiting"] = 12 /\ Distance["preparing"] = 11
      /\ Distance["looked"] = 10 /\ Distance["loaded"] = 9 /\ Distance["running"] = 8
      /\ Distance["settling"] = 7 /\ Distance["saving"] = 6 /\ Distance["ended"] = 5
      /\ Distance["cleanup"] = 5 /\ Distance["rescuing"] = 4
      /\ Distance["compactWaiting"] = 4 /\ Distance["compacting"] = 3
      /\ Distance["leaving"] = 2 /\ Distance["gone"] = 0
  BY DEF Distance, Places, Setup, Stream, Compaction
<1>t. /\ pc \in [Turns -> Places] /\ appends \in [Turns -> Nat]
      /\ append \in [Turns -> BOOLEAN] /\ identified \in [Turns -> BOOLEAN]
      /\ loose \in [Turns -> BOOLEAN] /\ late \in [Turns -> BOOLEAN]
      /\ append[t] => pc[t] \in {"loaded", "running", "settling", "compacting"}
  BY DEF TypeOK
<1>1. CASE Acquire(t)
  BY <1>0, <1>t, <1>1, LowersWhen DEF Acquire
<1>2. CASE Look(t)
  BY <1>0, <1>t, <1>2, LowersWhen DEF Look
<1>3. CASE Load(t)
  BY <1>0, <1>t, <1>3, LowersWhen DEF Load
<1>4. CASE Open(t)
  BY <1>0, <1>t, <1>4, LowersWhen DEF Open
<1>5. CASE AppendLands(t)
  BY <1>0, <1>t, <1>5, LowersWhen DEF AppendLands
<1>6. CASE AppendFails(t)
  <2>1. pc[t] = "settling" => /\ pc'[t] = pc[t] /\ appends'[t] = appends[t]
                              /\ append[t] /\ ~append'[t]
    BY <1>t, <1>6 DEF AppendFails
  <2>2. pc[t] # "settling" => Distance[pc'[t]] < Distance[pc[t]]
    BY <1>0, <1>t, <1>6 DEF AppendFails
  <2> QED
    BY <2>1, <2>2, LowersWhen
<1>7. CASE LooseLands(t)
  BY <1>0, <1>t, <1>7, LowersWhen DEF LooseLands
<1>8. CASE LooseFails(t)
  BY <1>0, <1>t, <1>8, LowersWhen DEF LooseFails
<1>9. CASE Settle(t)
  BY <1>0, <1>t, <1>9, LowersWhen DEF Settle
<1>10. CASE Persist(t)
  BY <1>0, <1>t, <1>10, LowersWhen DEF Persist
<1>11. CASE SaveLands(t)
  BY <1>0, <1>t, <1>11, LowersWhen DEF SaveLands
<1>12. CASE Rescue(t)
  BY <1>0, <1>t, <1>12, LowersWhen DEF Rescue
<1>13. CASE Leave(t)
  BY <1>0, <1>t, <1>13, LowersWhen DEF Leave
<1>14. CASE CompactLoad(t)
  <2>1. Distance[pc'[t]] < Distance[pc[t]]
    BY <1>0, <1>t, <1>14 DEF CompactLoad
  <2> QED
    BY <2>1, LowersWhen
<1>15. CASE Compact(t)
  <2>1. Distance[pc'[t]] < Distance[pc[t]]
    BY <1>0, <1>t, <1>15 DEF Compact
  <2> QED
    BY <2>1, LowersWhen
<1>16. CASE CompactFails(t)
  <2>1. Distance[pc'[t]] < Distance[pc[t]]
    BY <1>0, <1>t, <1>16 DEF CompactFails
  <2> QED
    BY <2>1, LowersWhen
<1>17. CASE BeginAppend(t)
  BY <1>0, <1>t, <1>17, LowersWhen DEF BeginAppend
<1>18. CASE Identify(t)
  BY <1>0, <1>t, <1>18, LowersWhen DEF Identify
<1>19. CASE Abandon(t)
  <2>1. pc[t] \in Setup \cup Stream
        /\ pc'[t] = IF pc[t] \in Setup THEN "leaving" ELSE "cleanup"
    BY <1>t, <1>19 DEF Abandon
  <2>2. Distance[pc'[t]] < Distance[pc[t]]
    BY <1>0, <2>1
  <2> QED
    BY <2>2, LowersWhen
<1>20. ASSUME NEW s \in Offered, Start(t, s)
       PROVE  Lowers(t)
  BY <1>0, <1>t, <1>20, LowersWhen DEF Start
<1>21. ASSUME NEW compact \in BOOLEAN, End(t, compact)
       PROVE  Lowers(t)
  BY <1>0, <1>t, <1>21, LowersWhen DEF End
<1>22. ASSUME NEW landed \in BOOLEAN, SaveFails(t, landed)
       PROVE  Lowers(t)
  BY <1>0, <1>t, <1>22, LowersWhen DEF SaveFails
<1>23. ASSUME NEW landed \in BOOLEAN, LateEnds(t, landed)
       PROVE  Lowers(t)
  BY <1>0, <1>t, <1>23, LowersWhen DEF LateEnds
<1> QED
  BY <1>1, <1>2, <1>3, <1>4, <1>5, <1>6, <1>7, <1>8, <1>9, <1>10, <1>11, <1>12,
     <1>13, <1>14, <1>15, <1>16, <1>17, <1>18, <1>19, <1>20, <1>21, <1>22, <1>23 DEF TurnStep, SetUp, Write, Close

\* A step that is none of a turn leaves its rank alone.
LEMMA OthersKeepRank ==
  ASSUME TypeOK, NEW u \in Turns, NEW t \in Turns, t # u, TurnStep(u)
  PROVE  Rank(t)' = Rank(t)
<1>1. /\ pc \in [Turns -> Places] /\ appends \in [Turns -> Nat]
      /\ append \in [Turns -> BOOLEAN] /\ identified \in [Turns -> BOOLEAN]
      /\ loose \in [Turns -> BOOLEAN] /\ late \in [Turns -> BOOLEAN]
  BY DEF TypeOK
<1>2. /\ pc'[t] = pc[t] /\ appends'[t] = appends[t] /\ append'[t] = append[t]
      /\ identified'[t] = identified[t] /\ loose'[t] = loose[t] /\ late'[t] = late[t]
  BY <1>1 DEF TurnStep, SetUp, Write, Close, Start, Acquire, Look, Load, Open, AppendFails,
     AppendLands, LooseLands, LooseFails, Settle, Persist, SaveLands, Rescue, Leave, End,
     CompactLoad, Compact, CompactFails, BeginAppend, Identify, SaveFails, LateEnds, Abandon,
     Goto, turn, detached
<1> QED
  BY <1>2 DEF Rank

\* A turn is closing and reads its session anew.
Rereads(t) == pc[t] = "settling" /\ Settle(t)

TurnsGoOn ==
    [][\A t \in Turns :
         /\ Lowers(t) \/ Rank(t)' = Rank(t)
         /\ TurnStep(t) => Lowers(t) \/ Rereads(t)]_vars

\* A turn only goes on: no step of anyone, another server and the purge included,
\* takes it, its append or its save further from its end, and its own steps take
\* it nearer in a rank without endless descent, but for reading its session again
\* while it closes (run_agent_stream; the code does that for the sources and for
\* the title, the model as often as it likes).
THEOREM TurnsOnlyGoOn == IsWellFoundedOn(Below, Ranks) /\ (Spec => TurnsGoOn)
<1>2. Spec => []AppendsBounded
  <2>1. Init => AppendsBounded
    <3> SUFFICES ASSUME Init, NEW t \in Turns
                 PROVE  appends[t] <= MaxAppends
      BY DEF AppendsBounded
    <3>1. appends[t] = 0
      BY DEF Init
    <3> QED
      BY <3>1, SessionAssumption
  <2>2. IInv /\ AppendsBounded /\ [Next]_vars => AppendsBounded'
    BY AppendsStep DEF IInv
  <2> QED
    BY <2>1, <2>2, Invariance, PTL DEF Spec
<1>3. ASSUME TypeOK, TypeOK', AppendsBounded, AppendsBounded', [Next]_vars, NEW t \in Turns
      PROVE  /\ Lowers(t) \/ Rank(t)' = Rank(t)
             /\ TurnStep(t) => Lowers(t) \/ Rereads(t)
  <2>1. TurnStep(t) => Lowers(t) \/ Rereads(t)
    BY <1>3, TurnStepLowers DEF Rereads
  <2>2. Rereads(t) => Rank(t)' = Rank(t)
    BY <1>3 DEF Rereads, Settle, Goto, Rank, TypeOK, turn, detached
  <2>3. ASSUME NEW u \in Turns, TurnStep(u), u # t
        PROVE  Rank(t)' = Rank(t)
    BY <1>3, <2>3, OthersKeepRank
  <2>4. ASSUME NEW d \in Deletes, DeleteStep(d)
        PROVE  Rank(t)' = Rank(t)
    BY <2>4 DEF DeleteStep, Check, Enter, Mark, MarkFails, turn, detached, Rank
  <2>5. ASSUME NEW s \in Ids, Expire(s) \/ Purge(s)
        PROVE  Rank(t)' = Rank(t)
    BY <2>5 DEF Expire, Purge, turn, detached, Rank
  <2>6. ASSUME UNCHANGED vars
        PROVE  Rank(t)' = Rank(t)
    BY <2>6 DEF vars, turn, detached, Rank
  <2> QED
    BY <1>3, <2>1, <2>2, <2>3, <2>4, <2>5, <2>6 DEF Next, Rest
<1>4. TypeOK /\ TypeOK' /\ AppendsBounded /\ AppendsBounded' /\ [Next]_vars
        => [\A t \in Turns :
              /\ Lowers(t) \/ Rank(t)' = Rank(t)
              /\ TurnStep(t) => Lowers(t) \/ Rereads(t)]_vars
  BY <1>3
<1> QED
  BY <1>2, <1>4, TypeCorrect, BelowWellFounded, PTL DEF Spec, TurnsGoOn
=============================================================================
