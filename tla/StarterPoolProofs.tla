-------------------------- MODULE StarterPoolProofs --------------------------
(***************************************************************************)
(* For any processes, days, questions and events: who saves the pool of a   *)
(* slot, that a save switches on nothing that was off when its run read the *)
(* pool, that what was saved serves (but for what ServedAfterOk names), and *)
(* that the pool comes to rest.                                             *)
(***************************************************************************)
EXTENDS StarterPool, FiniteSetTheorems, WellFoundedInduction, TLAPS

Used == {i \in Ids : rows[i].day # 0}

Work == [pc : {"idle", "read", "save", "finish"}, day : Days, token : Nat,
         replace : BOOLEAN, seen : SUBSET Materials, previous : SUBSET Ids]

Shape ==
    /\ today \in Days
    /\ claims \in [Days -> Nat]
    /\ run \in [Days -> [status : {"none", "running", "ok", "failed"}, token : Nat,
                         aged : BOOLEAN]]
    /\ work \in [Procs -> Work]
    /\ DOMAIN rows = Ids

(* A run that is under way has the token of the last claim; and a question  *)
(* that is or was switched on, or was read as such, has a row, so that no   *)
(* new question gets its id.                                                *)
IInv ==
    /\ Shape
    /\ \A d \in Days : run[d].status = "running" => run[d].token = claims[d]
    /\ active \cup off \subseteq Used
    /\ \A p \in Procs : work[p].previous \subseteq Used

-----------------------------------------------------------------------------

\* What is kept beside the new questions was switched on when the pool was read.
LEMMA KeptIsPrevious ==
    ASSUME NEW w, NEW made PROVE Kept(w, made) \subseteq w.previous
BY DEF Kept, Retained, Distinct, Latest

LEMMA NewIdsAreFree == ASSUME NEW n PROVE NextIds(n) \subseteq Free
BY DEF NextIds

\* An idle process, and one at the end of its work.
LEMMA WorkEnds ==
    ASSUME ConstantsAssumption
    PROVE  Idle \in Work /\ \A w \in Work : Ending(w) \in Work
<1>1. 1 \in Days
  BY DEF ConstantsAssumption, Days
<1>2. Idle \in Work
  BY <1>1 DEF Idle, Work
<1>3. ASSUME NEW w \in Work PROVE Ending(w) \in Work
  <2>1. [w EXCEPT !.pc = "finish"] \in Work
    BY DEF Work
  <2>2. \A v \in Work : [v EXCEPT !.seen = {}] \in Work
    BY DEF Work
  <2>3. \A v \in Work : [v EXCEPT !.previous = {}] \in Work
    BY DEF Work
  <2>4. Ending(w) = [[[w EXCEPT !.pc = "finish"] EXCEPT !.seen = {}] EXCEPT !.previous = {}]
    BY DEF Ending
  <2> QED
    BY <2>1, <2>2, <2>3, <2>4
<1> QED
  BY <1>2, <1>3

\* What such a process has read of the pool, and when its work is.
LEMMA EndsEmpty ==
    ASSUME NEW w \in Work
    PROVE  Ending(w).previous = {} /\ Ending(w).pc = "finish" /\ Idle.previous = {}
BY DEF Ending, Idle, Work

LEMMA IInvInit == Init => IInv
<1> SUFFICES ASSUME Init PROVE IInv
  OBVIOUS
<1>1. 1 \in Days /\ 0 \in Nat
  BY ConstantsAssumption DEF ConstantsAssumption, Days
<1>2. Shape
  BY <1>1, WorkEnds, ConstantsAssumption DEF Init, Shape
<1> QED
  BY <1>2 DEF Init, IInv, Idle

-----------------------------------------------------------------------------
(* The steps that preserve IInv. *)

LEMMA ClaimKeeps ==
    ASSUME IInv, NEW p \in Procs, NEW force \in BOOLEAN, Claim(p, force) PROVE IInv'
<1> USE DEF IInv, Shape
<1>1. /\ claims' = [claims EXCEPT ![today] = @ + 1]
      /\ run' = [run EXCEPT ![today] = [status |-> "running", aged |-> FALSE,
                                        token |-> claims'[today]]]
      /\ UNCHANGED <<today, rows, active, off>>
  BY DEF Claim
<1>2. claims'[today] \in Nat
  BY <1>1
<1>3. work' \in [Procs -> Work]
  <2>1. [Idle EXCEPT !.pc = "read", !.day = today, !.token = claims'[today],
                     !.replace = (run[today].status = "none") \/ force] \in Work
    BY <1>2 DEF Idle, Work
  <2> QED
    BY <2>1 DEF Claim
<1>4. Shape'
  BY <1>1, <1>2, <1>3
<1>5. \A d \in Days : run'[d].status = "running" => run'[d].token = claims'[d]
  BY <1>1
<1>6. \A q \in Procs : work'[q].previous \subseteq Used'
  BY <1>1 DEF Claim, Idle, Used
<1> QED
  BY <1>1, <1>4, <1>5, <1>6 DEF Used

LEMMA SaveKeeps ==
    ASSUME IInv, NEW p \in Procs, work[p].pc = "save",
           NEW made \in New(work[p]), NEW dropped \in BOOLEAN, Save(p, made, dropped)
    PROVE  IInv'
<1> DEFINE w == work[p]
           ids == NextIds(Cardinality(made))
<1>1. work' = [work EXCEPT ![p] = Ending(w)] /\ UNCHANGED <<today, claims>>
  BY DEF Save
<1>2. work' \in [Procs -> Work]
  BY <1>1, WorkEnds, ConstantsAssumption DEF IInv, Shape
<1>3. \A q \in Procs : work'[q].previous \subseteq Used
  BY <1>1, EndsEmpty DEF IInv, Shape
<1>4. CASE PoolPreserved(w, made) \/ ~Owns(w)
  <2>1. UNCHANGED <<rows, active, run, off>>
    BY <1>4 DEF Save
  <2> QED
    BY <1>1, <1>2, <1>3, <2>1 DEF IInv, Shape, Used
<1>5. CASE ~(PoolPreserved(w, made) \/ ~Owns(w))
  <2>1. /\ Inserted(w, made, ids)
        /\ active' = Kept(w, made) \cup ids
        /\ run' = [run EXCEPT ![w.day] = [status |-> Verdict(w, made, dropped), token |-> 0,
                                          aged |-> FALSE]]
        /\ off' = off \ Kept(w, made)
    BY <1>5 DEF Save
  <2>2. w.day \in Days /\ w.day # 0 /\ w.previous \subseteq Used
    BY DEF IInv, Shape, Work, Days
  <2>3. DOMAIN rows' = Ids /\ \A i \in Ids : rows'[i].day = IF i \in ids THEN w.day ELSE rows[i].day
    BY <2>1 DEF Inserted
  <2>4. Used' = Used \cup ids
    BY <2>2, <2>3, NewIdsAreFree DEF Used, Free
  <2>5. Verdict(w, made, dropped) \in {"ok", "failed"}
    BY DEF Verdict
  <2>6. run' \in [Days -> [status : {"none", "running", "ok", "failed"}, token : Nat,
                           aged : BOOLEAN]]
    BY <2>1, <2>2, <2>5 DEF IInv, Shape
  <2>7. \A d \in Days : run'[d].status = "running" => run'[d].token = claims'[d]
    BY <1>1, <2>1, <2>2, <2>5 DEF IInv, Shape
  <2>8. active' \cup off' \subseteq Used'
    BY <2>1, <2>2, <2>4, KeptIsPrevious DEF IInv
  <2> QED
    BY <1>1, <1>2, <1>3, <2>3, <2>4, <2>6, <2>7, <2>8 DEF IInv, Shape
<1> QED
  BY <1>4, <1>5

LEMMA IInvPreserved == ASSUME IInv, [Next]_vars PROVE IInv'
<1>1. ASSUME NEW p \in Procs, Process(p) PROVE IInv'
  <2>1. ASSUME NEW force \in BOOLEAN, Claim(p, force) PROVE IInv'
    BY <2>1, ClaimKeeps
  <2>2. ASSUME NEW seen \in SUBSET Materials, Read(p, seen) PROVE IInv'
    <3>1. active \in SUBSET Ids
      BY DEF IInv, Used
    <3>2. work[p] \in Work
      BY DEF IInv, Shape
    <3>3. [work[p] EXCEPT !.pc = "finish"] \in Work
      BY <3>2 DEF Work
    <3>4. [work[p] EXCEPT !.pc = "save", !.seen = seen, !.previous = active] \in Work
      BY <3>1, <3>2 DEF Work
    <3>5. CASE seen = {}
      <4>1. work' = [work EXCEPT ![p].pc = "finish"]
        BY <2>2, <3>5 DEF Read
      <4>2. work' \in [Procs -> Work]
        BY <3>3, <4>1 DEF IInv, Shape
      <4>3. \A q \in Procs : work'[q].previous = work[q].previous
        BY <3>2, <4>1 DEF IInv, Shape, Work
      <4> QED
        BY <2>2, <4>2, <4>3 DEF IInv, Shape, Used, Read
    <3>6. CASE seen # {}
      <4>1. work' = [work EXCEPT ![p] = [work[p] EXCEPT !.pc = "save", !.seen = seen,
                                                        !.previous = active]]
        BY <2>2, <3>6 DEF Read, IInv, Shape
      <4>2. work' \in [Procs -> Work]
        BY <3>4, <4>1 DEF IInv, Shape
      <4>3. \A q \in Procs : work'[q].previous \in {work[q].previous, active}
        BY <3>2, <4>1 DEF IInv, Shape, Work
      <4> QED
        BY <2>2, <4>2, <4>3 DEF IInv, Shape, Used, Read
    <3> QED
      BY <3>5, <3>6
  <2>3. CASE SaveSome(p)
    BY <2>3, SaveKeeps DEF SaveSome
  <2>4. CASE Break(p)
    <3>1. work' = [work EXCEPT ![p] = Ending(work[p])]
      BY <2>4 DEF Break
    <3>2. work' \in [Procs -> Work]
      BY <3>1, WorkEnds, ConstantsAssumption DEF IInv, Shape
    <3>3. \A q \in Procs : work'[q].previous \subseteq Used
      BY <3>1, EndsEmpty DEF IInv, Shape
    <3> QED
      BY <2>4, <3>2, <3>3 DEF IInv, Shape, Used, Break
  <2>5. CASE Finish(p)
    <3>1. work[p].day \in Days
      BY DEF IInv, Shape, Work
    <3>2. work' = [work EXCEPT ![p] = Idle] /\ UNCHANGED <<today, claims, rows, active, off>>
      BY <2>5 DEF Finish
    <3>3. work' \in [Procs -> Work]
      BY <3>2, WorkEnds, ConstantsAssumption DEF IInv, Shape
    <3>4. \A q \in Procs : work'[q].previous \subseteq Used
      BY <3>2 DEF IInv, Shape, Idle
    <3>5. \/ run' = [run EXCEPT ![work[p].day] = [status |-> "failed", token |-> 0,
                                                 aged |-> FALSE]]
          \/ run' = run
      BY <2>5 DEF Finish
    <3>6. run' \in [Days -> [status : {"none", "running", "ok", "failed"}, token : Nat,
                             aged : BOOLEAN]]
      <4>1. CASE run' = run
        BY <4>1 DEF IInv, Shape
      <4>2. CASE run' # run
        <5>1. run' = [run EXCEPT ![work[p].day] = [status |-> "failed", token |-> 0,
                                                   aged |-> FALSE]]
          BY <3>5, <4>2
        <5> QED
          BY <3>1, <5>1 DEF IInv, Shape
      <4> QED
        BY <4>1, <4>2
    <3>7. \A d \in Days : run'[d].status = "running" => run'[d] = run[d]
      <4>1. CASE run' = run
        BY <4>1
      <4>2. CASE run' # run
        <5>1. \A d \in Days : run'[d] = IF d = work[p].day
                 THEN [status |-> "failed", token |-> 0, aged |-> FALSE] ELSE run[d]
          BY <3>5, <4>2 DEF IInv, Shape
        <5> QED
          BY <5>1
      <4> QED
        BY <4>1, <4>2
    <3> QED
      BY <3>2, <3>3, <3>4, <3>6, <3>7 DEF IInv, Shape, Used
  <2>6. CASE Crash(p)
    <3>1. work' = [work EXCEPT ![p] = Idle]
      BY <2>6 DEF Crash
    <3>2. work' \in [Procs -> Work]
      BY <3>1, WorkEnds, ConstantsAssumption DEF IInv, Shape
    <3>3. \A q \in Procs : work'[q].previous \subseteq Used
      BY <3>1 DEF IInv, Shape, Idle
    <3> QED
      BY <2>6, <3>2, <3>3 DEF IInv, Shape, Used, Crash
  <2> QED
    BY <1>1, <2>1, <2>2, <2>3, <2>4, <2>5, <2>6 DEF Process
<1>2. CASE Expire
  BY <1>2 DEF IInv, Shape, Used, Expire, Age
<1>3. CASE Stall
  BY <1>3 DEF IInv, Shape, Used, Stall, Age
<1>4. CASE NextDay
  BY <1>4, ConstantsAssumption DEF IInv, Shape, Used, NextDay, Days, ConstantsAssumption
<1>5. ASSUME NEW i \in Ids, SwitchOff(i) PROVE IInv'
  BY <1>5 DEF IInv, Shape, Used, SwitchOff
<1>6. ASSUME NEW i \in Ids, SwitchOn(i) PROVE IInv'
  BY <1>6 DEF IInv, Shape, Used, SwitchOn
<1>7. CASE UNCHANGED vars
  BY <1>7 DEF IInv, Shape, Used, vars
<1> QED
  BY <1>1, <1>2, <1>3, <1>4, <1>5, <1>6, <1>7 DEF Next

LEMMA IInvHolds == Spec => []IInv
<1> QED BY IInvInit, IInvPreserved, PTL DEF Spec

-----------------------------------------------------------------------------
(* What a process may do from its saving state. *)

\* A step that changes what a process is at is a step of that process, and from its
\* saving state it saves, breaks off or dies.
LEMMA StepsOfSaver ==
    ASSUME IInv, Next, NEW p \in Procs, work[p].pc = "save", work'[p] # work[p]
    PROVE  SaveSome(p) \/ Break(p) \/ Crash(p)
<1>1. PICK q \in Procs : Process(q)
  BY DEF Next, Expire, Stall, Age, NextDay, SwitchOff, SwitchOn
<1>2. q = p
  <2>1. ASSUME q # p PROVE work'[p] = work[p]
    BY <1>1, <2>1 DEF Process, Claim, Read, SaveSome, Save, Break, Finish, Crash, IInv, Shape
  <2> QED
    BY <2>1
<1>3. /\ \A force \in BOOLEAN : ~Claim(p, force)
      /\ \A seen \in SUBSET Materials : ~Read(p, seen)
      /\ ~Finish(p)
  BY DEF Claim, Read, Finish
<1> QED
  BY <1>1, <1>2, <1>3 DEF Process

\* A process that stalled and whose run was taken over saves nothing: whoever saves
\* the pool of a day has made the day's last claim.
THEOREM SavesInClaimOrderHolds == Spec => SavesInClaimOrder
<1>1. ASSUME IInv, [Next]_vars, NEW p \in Procs, work[p].pc = "save",
             <<rows, active, run>>' # <<rows, active, run>>
      PROVE  work'[p] = work[p] \/ work[p].token = claims[work[p].day]
  <2> SUFFICES ASSUME work'[p] # work[p] PROVE work[p].token = claims[work[p].day]
    OBVIOUS
  <2>1. Next
    BY <1>1 DEF vars
  <2>2. SaveSome(p) \/ Break(p) \/ Crash(p)
    BY <1>1, <2>1, StepsOfSaver
  <2>3. PICK made \in New(work[p]), dropped \in BOOLEAN : Save(p, made, dropped)
    BY <1>1, <2>2 DEF SaveSome, Break, Crash
  <2>4. Owns(work[p])
    BY <1>1, <2>3 DEF Save
  <2>5. work[p].day \in Days
    BY <1>1 DEF IInv, Shape, Work
  <2> QED
    BY <1>1, <2>4, <2>5 DEF Owns, IInv
<1>2. IInv /\ [Next]_vars =>
        [\A p \in Procs : work[p].pc = "save" /\ <<rows, active, run>>' # <<rows, active, run>>
            => work'[p] = work[p] \/ work[p].token = claims[work[p].day]]_vars
  BY <1>1
<1> QED
  BY <1>2, IInvHolds, PTL DEF Spec, SavesInClaimOrder

\* A question that an administrator had switched off when a run read the pool stays
\* off when that run saves.
THEOREM OffStaysOffHolds == Spec => OffStaysOff
<1>1. ASSUME IInv, [Next]_vars, NEW p \in Procs, work[p].pc = "save", work'[p].pc # "save"
      PROVE  (off \ (active \cup work[p].previous)) \cap active' = {}
  <2>1. Next
    BY <1>1 DEF vars
  <2>2. SaveSome(p) \/ Break(p) \/ Crash(p)
    BY <1>1, <2>1, StepsOfSaver
  <2>3. CASE Break(p) \/ Crash(p)
    BY <2>3 DEF Break, Crash
  <2>4. CASE SaveSome(p)
    <3>1. PICK made \in New(work[p]), dropped \in BOOLEAN : Save(p, made, dropped)
      BY <2>4 DEF SaveSome
    <3>2. \/ active' = active
          \/ active' = Kept(work[p], made) \cup NextIds(Cardinality(made))
      BY <3>1 DEF Save
    <3>3. off \cap NextIds(Cardinality(made)) = {}
      BY <1>1, NewIdsAreFree DEF IInv, Used, Free
    <3> QED
      BY <3>2, <3>3, KeptIsPrevious
  <2> QED
    BY <2>2, <2>3, <2>4
<1>2. IInv /\ [Next]_vars =>
        [\A p \in Procs : work[p].pc = "save" /\ work'[p].pc # "save"
            => (off \ (active \cup work[p].previous)) \cap active' = {}]_vars
  BY <1>1
<1> QED
  BY <1>2, IInvHolds, PTL DEF Spec, OffStaysOff


-----------------------------------------------------------------------------
(* What serves. *)

\* A saved question is on, or an administrator switched it off since; its row is
\* not written again, and of a dated slot it is of the day of the save.
ServeInv ==
    /\ \A i \in Ids : rows[i].day \in Nat
    /\ lastSave.ids \subseteq active \cup off
    /\ dated => \A i \in lastSave.ids : rows[i].day = lastSave.day

LEMMA ServeInit == Init => ServeInv
BY DEF Init, ServeInv

LEMMA SaveServes ==
    ASSUME IInv, ServeInv, NEW p \in Procs,
           NEW made \in New(work[p]), NEW dropped \in BOOLEAN, Save(p, made, dropped)
    PROVE  ServeInv'
<1> DEFINE w == work[p]
           kept == Kept(w, made)
           ids == NextIds(Cardinality(made))
<1>1. dated' = dated
  BY DEF Save
<1>2. CASE PoolPreserved(w, made) \/ ~Owns(w)
  <2>1. UNCHANGED <<rows, active, lastSave, off>>
    BY <1>2 DEF Save
  <2> QED
    BY <1>1, <2>1 DEF ServeInv
<1>3. CASE ~(PoolPreserved(w, made) \/ ~Owns(w))
  <2>1. /\ Inserted(w, made, ids)
        /\ active' = kept \cup ids
        /\ lastSave' = [day |-> w.day, ids |-> kept \cup ids]
    BY <1>3 DEF Save
  <2>2. w.day \in Days /\ w.day \in Nat /\ w.previous \subseteq Used
    BY DEF IInv, Shape, Work, Days
  <2>3. \A i \in Ids : rows'[i].day = IF i \in ids THEN w.day ELSE rows[i].day
    BY <2>1 DEF Inserted
  <2>4. kept \subseteq Used \ ids
    BY <2>2, KeptIsPrevious, NewIdsAreFree DEF Used, Free
  <2>5. dated => \A i \in kept : rows[i].day = w.day
    BY DEF Kept, Retained, Distinct, Latest
  <2>6. ids \subseteq Ids /\ kept \subseteq Ids
    BY <2>4, NewIdsAreFree DEF Free, Used
  <2> HIDE DEF w, kept, ids
  <2> QED
    BY <1>1, <2>1, <2>2, <2>3, <2>4, <2>5, <2>6 DEF ServeInv
<1> QED
  BY <1>2, <1>3

LEMMA ServePreserved == ASSUME IInv, ServeInv, [Next]_vars PROVE ServeInv'
<1>1. ASSUME NEW p \in Procs, Process(p) PROVE ServeInv'
  <2>1. CASE SaveSome(p)
    BY <2>1, SaveServes DEF SaveSome
  <2>2. CASE ~SaveSome(p)
    <3>1. UNCHANGED <<dated, rows, active, lastSave, off>>
      BY <1>1, <2>2 DEF Process, Claim, Read, Break, Finish, Crash
    <3> QED
      BY <3>1 DEF ServeInv
  <2> QED
    BY <2>1, <2>2
<1>2. CASE Expire \/ Stall \/ NextDay \/ UNCHANGED vars
  <2>1. UNCHANGED <<dated, rows, active, lastSave, off>>
    BY <1>2 DEF Expire, Stall, Age, NextDay, vars
  <2> QED
    BY <2>1 DEF ServeInv
<1>3. ASSUME NEW i \in Ids, SwitchOff(i) \/ SwitchOn(i) PROVE ServeInv'
  BY <1>3 DEF SwitchOff, SwitchOn, ServeInv
<1> QED
  BY <1>1, <1>2, <1>3 DEF Next

\* After a run of the day that ended well, every question of its save serves, but
\* for what was switched off since and a retained one older than the pool's days
\* (_save_pool and live_clauses).
THEOREM ServedAfterOkHolds == Spec => []ServedAfterOk
<1>1. IInv /\ ServeInv => ServedAfterOk
  <2> SUFFICES ASSUME IInv, ServeInv, lastSave.day = today, NEW i \in lastSave.ids, i \notin off
               PROVE  Live(i) \/ (~dated /\ rows[i].day < today - PoolDays)
    BY DEF ServedAfterOk
  <2>1. i \in active /\ rows[i].day \in Nat /\ today \in Nat /\ PoolDays \in Nat
    BY ConstantsAssumption DEF IInv, ServeInv, Shape, Used, Days, ConstantsAssumption
  <2>2. dated => rows[i].day = today
    BY DEF ServeInv
  <2> QED
    BY <2>1, <2>2 DEF Live
<1> QED
  BY <1>1, ServeInit, ServePreserved, IInvHolds, PTL DEF Spec

-----------------------------------------------------------------------------
(* The pool comes to rest. *)

\* Ranks are compared from their first part on, and there is no endless descent.
Less == OpToRel(<, Nat)
Below == LexProductOrdering(Less, Nat, 6)
Ranks == [1..6 -> Nat]

LEMMA BelowWellFounded == IsWellFoundedOn(Below, Ranks)
<1>1. IsWellFoundedOn(Less, Nat)
  BY NatLessThanWellFounded, Zenon DEF Less
<1> QED
  BY <1>1, WFLexProductOrdering, Zenon DEF Below, Ranks

\* A rank is lower when one part is and those before it are the same.
LEMMA LowerRank ==
  ASSUME NEW a \in Ranks, NEW b \in Ranks,
         \/ a[1] < b[1]
         \/ a[1] = b[1] /\ a[2] < b[2]
         \/ a[1] = b[1] /\ a[2] = b[2] /\ a[3] < b[3]
         \/ a[1] = b[1] /\ a[2] = b[2] /\ a[3] = b[3] /\ a[4] < b[4]
         \/ a[1] = b[1] /\ a[2] = b[2] /\ a[3] = b[3] /\ a[4] = b[4] /\ a[5] < b[5]
         \/ /\ a[1] = b[1] /\ a[2] = b[2] /\ a[3] = b[3] /\ a[4] = b[4] /\ a[5] = b[5]
            /\ a[6] < b[6]
  PROVE  <<a, b>> \in Below
<1>1. \E j \in 1..6 : a[j] < b[j] /\ \A i \in 1..(j - 1) : a[i] = b[i]
  <2>1. CASE a[1] < b[1]
    BY <2>1
  <2>2. CASE a[1] = b[1] /\ a[2] < b[2]
    BY <2>2
  <2>3. CASE a[1] = b[1] /\ a[2] = b[2] /\ a[3] < b[3]
    BY <2>3
  <2>4. CASE a[1] = b[1] /\ a[2] = b[2] /\ a[3] = b[3] /\ a[4] < b[4]
    BY <2>4
  <2>5. CASE a[1] = b[1] /\ a[2] = b[2] /\ a[3] = b[3] /\ a[4] = b[4] /\ a[5] < b[5]
    BY <2>5
  <2>6. CASE /\ a[1] = b[1] /\ a[2] = b[2] /\ a[3] = b[3] /\ a[4] = b[4] /\ a[5] = b[5]
            /\ a[6] < b[6]
    BY <2>6
  <2> QED
    BY <2>1, <2>2, <2>3, <2>4, <2>5, <2>6
<1>2. PICK j \in 1..6 : a[j] < b[j] /\ \A i \in 1..(j - 1) : a[i] = b[i]
  BY <1>1
<1>3. <<a[j], b[j]>> \in Less
  BY <1>2 DEF OpToRel, Less, Ranks
<1> QED
  BY <1>2, <1>3, Zenon DEF Below, LexProductOrdering, Ranks

\* The processes at a place.
At(place) == {p \in Procs : work[p].pc = place}

\* How far the run of the day is from its end: not claimed, nobody's, given up by
\* the clock, somebody's, ended; a run that failed may still grow old.
RunLeft ==
    CASE run[today].status = "none" -> 5
      [] run[today].status = "running" ->
           (IF run[today].aged THEN 3 ELSE IF AtWork(today) THEN 2 ELSE 4)
      [] run[today].status = "failed" /\ ~run[today].aged -> 1
      [] OTHER -> 0

Rank ==
    <<LastDay - today, MaxEvents - events, RunLeft, Cardinality(At("read")),
      Cardinality(At("save")), Cardinality(At("finish"))>>

Lowers == <<Rank', Rank>> \in Below

Bounds ==
    /\ IsFiniteSet(Procs)
    /\ today \in Days /\ events \in 0..MaxEvents
    /\ work \in [Procs -> Work]

RankOK ==
    /\ Rank \in Ranks
    /\ Rank[1] = LastDay - today /\ Rank[2] = MaxEvents - events /\ Rank[3] = RunLeft
    /\ Rank[4] = Cardinality(At("read")) /\ Rank[5] = Cardinality(At("save"))
    /\ Rank[6] = Cardinality(At("finish"))

LEMMA PlacesFinite ==
  ASSUME IsFiniteSet(Procs)
  PROVE  \A place : IsFiniteSet(At(place)) /\ Cardinality(At(place)) \in Nat
BY FS_Subset, FS_CardinalityType DEF At

LEMMA RunLeftIs == RunLeft \in 0..5
BY DEF RunLeft

LEMMA RankType == Bounds => RankOK
<1> SUFFICES ASSUME Bounds PROVE RankOK
  OBVIOUS
<1>1. LastDay - today \in Nat /\ MaxEvents - events \in Nat
  BY ConstantsAssumption DEF ConstantsAssumption, Bounds, Days
<1>2. RunLeft \in Nat
  BY RunLeftIs
<1>3. /\ Cardinality(At("read")) \in Nat /\ Cardinality(At("save")) \in Nat
      /\ Cardinality(At("finish")) \in Nat
  BY PlacesFinite DEF Bounds
<1> QED
  BY <1>1, <1>2, <1>3 DEF RankOK, Rank, Ranks

\* A difference is lower when what is taken away is more.
LEMMA LessIsLeft ==
  ASSUME NEW m \in Nat, NEW u \in 0..m, NEW v \in 0..m, u < v
  PROVE  m - v < m - u
OBVIOUS

\* When a step lowers the rank.
LEMMA LowersWhen ==
  ASSUME Bounds, Bounds',
         \/ today < today'
         \/ today' = today /\ events < events'
         \/ UNCHANGED <<today, events>> /\ RunLeft' < RunLeft
         \/ /\ UNCHANGED <<today, events>> /\ RunLeft' <= RunLeft
            /\ Cardinality(At("read"))' < Cardinality(At("read"))
         \/ /\ UNCHANGED <<today, events>> /\ RunLeft' <= RunLeft
            /\ Cardinality(At("read"))' = Cardinality(At("read"))
            /\ Cardinality(At("save"))' < Cardinality(At("save"))
         \/ /\ UNCHANGED <<today, events>> /\ RunLeft' <= RunLeft
            /\ Cardinality(At("read"))' = Cardinality(At("read"))
            /\ Cardinality(At("save"))' = Cardinality(At("save"))
            /\ Cardinality(At("finish"))' < Cardinality(At("finish"))
  PROVE  Lowers
<1>1. RankOK /\ RankOK'
  BY RankType, PTL
<1> DEFINE a == Rank'
           b == Rank
<1>2. /\ a \in Ranks /\ b \in Ranks
      /\ a[1] = LastDay - today' /\ b[1] = LastDay - today
      /\ a[2] = MaxEvents - events' /\ b[2] = MaxEvents - events
      /\ a[3] = RunLeft' /\ b[3] = RunLeft
      /\ a[4] = Cardinality(At("read"))' /\ b[4] = Cardinality(At("read"))
      /\ a[5] = Cardinality(At("save"))' /\ b[5] = Cardinality(At("save"))
      /\ a[6] = Cardinality(At("finish"))' /\ b[6] = Cardinality(At("finish"))
  BY <1>1 DEF RankOK
<1>3. /\ today < today' => LastDay - today' < LastDay - today
      /\ events < events' => MaxEvents - events' < MaxEvents - events
  <2>1. /\ LastDay \in Nat /\ MaxEvents \in Nat
        /\ today \in 0..LastDay /\ today' \in 0..LastDay
        /\ events \in 0..MaxEvents /\ events' \in 0..MaxEvents
    BY ConstantsAssumption DEF ConstantsAssumption, Bounds, Days
  <2> QED
    BY <2>1, LessIsLeft
<1>4. RunLeft' <= RunLeft => RunLeft' = RunLeft \/ RunLeft' < RunLeft
  <2>1. RunLeft \in Nat /\ RunLeft' \in Nat
    BY <1>1, <1>2 DEF Ranks
  <2> QED
    BY <2>1
<1> HIDE DEF a, b
<1>5. <<a, b>> \in Below
  BY <1>2, <1>3, <1>4, LowerRank
<1> QED
  BY <1>5 DEF Lowers, a, b

-----------------------------------------------------------------------------

\* One process leaves a place and no other comes there.
LEMMA Leaves ==
  ASSUME IsFiniteSet(Procs), NEW p \in Procs, NEW place,
         work[p].pc = place, work'[p].pc # place,
         \A q \in Procs \ {p} : work'[q] = work[q]
  PROVE  Cardinality(At(place))' < Cardinality(At(place))
<1>1. At(place)' = At(place) \ {p} /\ p \in At(place)
  BY DEF At
<1>2. IsFiniteSet(At(place)) /\ Cardinality(At(place)) \in Nat
  BY PlacesFinite
<1>3. Cardinality(At(place) \ {p}) = Cardinality(At(place)) - 1
  BY <1>1, <1>2, FS_RemoveElement
<1> QED
  BY <1>1, <1>2, <1>3

\* A place that the process neither leaves nor comes to.
LEMMA Stays ==
  ASSUME NEW p \in Procs, NEW place, work[p].pc # place, work'[p].pc # place,
         \A q \in Procs \ {p} : work'[q] = work[q]
  PROVE  At(place)' = At(place)
BY DEF At

\* A step that leaves the run of the day alone, and whoever is at work on it.
LEMMA RunStays ==
  ASSUME today' = today, run'[today] = run[today], AtWork(today) => AtWork(today)'
  PROVE  RunLeft' <= RunLeft
<1>1. today' = today
  OBVIOUS
<1>2. run'[today'] = run[today]
  OBVIOUS
<1>3. AtWork(today) => AtWork(today)'
  OBVIOUS
<1> QED
  BY <1>1, <1>2, <1>3 DEF RunLeft

\* The work of a process that keeps its day and token, and of the others.
LEMMA WorkStays ==
  ASSUME NEW p \in Procs, today' = today, run'[today] = run[today],
         \/ work'[p].day = work[p].day /\ work'[p].token = work[p].token
         \/ ~(Owns(work[p]) /\ work[p].day = today),
         \A q \in Procs \ {p} : work'[q] = work[q]
  PROVE  RunLeft' <= RunLeft
<1>1. ASSUME AtWork(today) PROVE AtWork(today)'
  <2>1. PICK q \in Procs : Owns(work[q]) /\ work[q].day = today
    BY <1>1 DEF AtWork
  <2>2. work'[q].day = work[q].day /\ work'[q].token = work[q].token
    BY <2>1
  <2> QED
    BY <2>1, <2>2 DEF AtWork, Owns
<1> QED
  BY <1>1, RunStays

\* A claim takes the run of the day, or counts as an event.
LEMMA ClaimLowers ==
  ASSUME IInv, Bounds, Bounds', NEW p \in Procs, NEW force \in BOOLEAN, Claim(p, force)
  PROVE  Lowers
<1>1. CASE events' = events + 1
  <2>1. today' = today /\ events < events'
    BY <1>1 DEF Claim, Bounds
  <2> QED
    BY <2>1, LowersWhen
<1>2. CASE events' # events + 1
  <2>1. /\ run[today].status = "none" \/ run[today].status = "running"
        /\ events' = events /\ today' = today
    BY <1>2 DEF Claim
  <2>2. run[today].status = "running" => run[today].aged
    BY <2>1 DEF Claim, Retriable
  <2>3. RunLeft \in {5, 3}
    BY <2>1, <2>2 DEF RunLeft
  <2>4. /\ run'[today] = [status |-> "running", aged |-> FALSE, token |-> claims'[today]]
        /\ work'[p].day = today /\ work'[p].token = claims'[today]
    <3>1. work'[p] = [Idle EXCEPT !.pc = "read", !.day = today, !.token = claims'[today],
                                  !.replace = (run[today].status = "none") \/ force]
      BY DEF Claim, IInv, Shape
    <3> QED
      BY <3>1 DEF Claim, Idle, IInv, Shape
  <2>5. AtWork(today)'
    BY <2>1, <2>4 DEF AtWork, Owns
  <2>6. RunLeft' = 2
    BY <2>1, <2>4, <2>5 DEF RunLeft
  <2> QED
    BY <2>1, <2>3, <2>6, LowersWhen
<1> QED
  BY <1>1, <1>2

LEMMA ReadLowers ==
  ASSUME IInv, Bounds, Bounds', NEW p \in Procs, NEW seen, Read(p, seen)
  PROVE  Lowers
<1>1. /\ UNCHANGED <<today, events, run>> /\ work[p].pc = "read"
      /\ \A q \in Procs \ {p} : work'[q] = work[q]
      /\ work'[p].day = work[p].day /\ work'[p].token = work[p].token
      /\ work'[p].pc # "read"
  BY DEF Read, IInv, Shape, Work
<1>2. RunLeft' <= RunLeft
  BY <1>1, WorkStays
<1>3. Cardinality(At("read"))' < Cardinality(At("read"))
  BY <1>1, Leaves DEF Bounds
<1> QED
  BY <1>1, <1>2, <1>3, LowersWhen

\* Work that comes to its end keeps its day and token.
LEMMA EndingIs ==
  ASSUME NEW w \in Work
  PROVE  /\ Ending(w).day = w.day /\ Ending(w).token = w.token /\ Ending(w).pc = "finish"
BY DEF Ending, Work

LEMMA BreakLowers ==
  ASSUME IInv, Bounds, Bounds', NEW p \in Procs, Break(p)
  PROVE  Lowers
<1>1. /\ UNCHANGED <<today, events, run>> /\ work[p].pc \in {"read", "save"}
      /\ \A q \in Procs \ {p} : work'[q] = work[q]
      /\ work'[p] = Ending(work[p])
  BY DEF Break, IInv, Shape
<1>2. /\ work'[p].day = work[p].day /\ work'[p].token = work[p].token
      /\ work'[p].pc = "finish"
  BY <1>1, EndingIs DEF IInv, Shape
<1>3. RunLeft' <= RunLeft
  BY <1>1, <1>2, WorkStays
<1>4. CASE work[p].pc = "read"
  <2>1. Cardinality(At("read"))' < Cardinality(At("read"))
    BY <1>1, <1>2, <1>4, Leaves DEF Bounds
  <2> QED
    BY <1>1, <1>3, <2>1, LowersWhen
<1>5. CASE work[p].pc = "save"
  <2>1. Cardinality(At("save"))' < Cardinality(At("save"))
    BY <1>1, <1>2, <1>5, Leaves DEF Bounds
  <2>2. At("read")' = At("read")
    BY <1>1, <1>2, <1>5, Stays
  <2> QED
    BY <1>1, <1>3, <2>1, <2>2, LowersWhen
<1> QED
  BY <1>1, <1>4, <1>5

\* The run of the day ends, or it stays as it is.
LEMMA RunEnded ==
  ASSUME IInv, NEW p \in Procs, today' = today, Owns(work[p]),
         NEW r, run' = [run EXCEPT ![work[p].day] = r], r.status \in {"ok", "failed"},
         \/ work'[p].day = work[p].day /\ work'[p].token = work[p].token
         \/ work[p].day = today,
         \A q \in Procs \ {p} : work'[q] = work[q]
  PROVE  RunLeft' <= RunLeft
<1>1. run'[today] = IF work[p].day = today THEN r ELSE run[today]
  BY DEF IInv, Shape
<1>2. CASE work[p].day = today
  <2>1. RunLeft \in {2, 3, 4}
    BY <1>2 DEF RunLeft, Owns
  <2>2. today' = today /\ run'[today'] = r
    BY <1>1, <1>2
  <2>3. RunLeft' \in {0, 1}
    BY <2>2 DEF RunLeft
  <2> QED
    BY <2>1, <2>3
<1>3. CASE work[p].day # today
  BY <1>1, <1>3, WorkStays
<1> QED
  BY <1>2, <1>3

LEMMA SaveLowers ==
  ASSUME IInv, Bounds, Bounds', NEW p \in Procs, SaveSome(p)
  PROVE  Lowers
<1>1. PICK made \in New(work[p]), dropped \in BOOLEAN : Save(p, made, dropped)
  BY DEF SaveSome
<1>2. /\ UNCHANGED <<today, events>> /\ work[p].pc = "save"
      /\ \A q \in Procs \ {p} : work'[q] = work[q]
      /\ work'[p] = Ending(work[p])
  BY <1>1 DEF SaveSome, Save, IInv, Shape
<1>3. /\ work'[p].day = work[p].day /\ work'[p].token = work[p].token
      /\ work'[p].pc = "finish"
  BY <1>2, EndingIs DEF IInv, Shape
<1>4. RunLeft' <= RunLeft
  <2>1. CASE PoolPreserved(work[p], made) \/ ~Owns(work[p])
    <3>1. run' = run
      BY <1>1, <2>1 DEF Save
    <3> QED
      BY <1>2, <1>3, <3>1, WorkStays
  <2>2. CASE ~(PoolPreserved(work[p], made) \/ ~Owns(work[p]))
    <3> DEFINE r == [status |-> Verdict(work[p], made, dropped), token |-> 0, aged |-> FALSE]
    <3>1. run' = [run EXCEPT ![work[p].day] = r] /\ Owns(work[p])
      BY <1>1, <2>2 DEF Save
    <3>2. r.status \in {"ok", "failed"}
      BY DEF Verdict
    <3> HIDE DEF r
    <3> QED
      BY <1>2, <1>3, <3>1, <3>2, RunEnded
  <2> QED
    BY <2>1, <2>2
<1>5. Cardinality(At("save"))' < Cardinality(At("save")) /\ At("read")' = At("read")
  BY <1>2, <1>3, Leaves, Stays DEF Bounds
<1> QED
  BY <1>2, <1>4, <1>5, LowersWhen

LEMMA FinishLowers ==
  ASSUME IInv, Bounds, Bounds', NEW p \in Procs, Finish(p)
  PROVE  Lowers
<1>1. /\ UNCHANGED <<today, events>> /\ work[p].pc = "finish"
      /\ \A q \in Procs \ {p} : work'[q] = work[q]
      /\ work'[p] = Idle
  BY DEF Finish, IInv, Shape
<1>2. work'[p].pc = "idle"
  BY <1>1 DEF Idle
<1>3. RunLeft' <= RunLeft
  <2>1. CASE ~Owns(work[p])
    <3>1. run' = run
      BY <2>1 DEF Finish
    <3> QED
      BY <1>1, <2>1, <3>1, WorkStays
  <2>2. CASE Owns(work[p])
    <3> DEFINE r == [status |-> "failed", token |-> 0, aged |-> FALSE]
    <3>1. run' = [run EXCEPT ![work[p].day] = r] /\ r.status \in {"ok", "failed"}
      BY <2>2 DEF Finish
    <3>2. CASE work[p].day = today
      <4> HIDE DEF r
      <4> QED
        BY <1>1, <2>2, <3>1, <3>2, RunEnded
    <3>3. CASE work[p].day # today
      <4>1. run'[today] = run[today]
        BY <3>1, <3>3 DEF IInv, Shape
      <4> QED
        BY <1>1, <3>3, <4>1, WorkStays
    <3> QED
      BY <3>2, <3>3
  <2> QED
    BY <2>1, <2>2
<1>4. /\ Cardinality(At("finish"))' < Cardinality(At("finish"))
      /\ At("read")' = At("read") /\ At("save")' = At("save")
  BY <1>1, <1>2, Leaves, Stays DEF Bounds
<1> QED
  BY <1>1, <1>3, <1>4, LowersWhen

\* The clock gives up a run that is nobody's, or lets one that failed grow old.
LEMMA ExpireLowers ==
  ASSUME IInv, Bounds, Bounds', Expire
  PROVE  Lowers
<1>1. /\ UNCHANGED <<today, events, work>> /\ ~AtWork(today)
      /\ run[today].status \in {"running", "failed"} /\ ~run[today].aged
      /\ run'[today].status = run[today].status /\ run'[today].aged
  BY DEF Expire, Age, IInv, Shape
<1>2. RunLeft = (IF run[today].status = "running" THEN 4 ELSE 1)
  BY <1>1 DEF RunLeft
<1>3. RunLeft' = (IF run[today].status = "running" THEN 3 ELSE 0)
  BY <1>1 DEF RunLeft
<1> QED
  BY <1>1, <1>2, <1>3, LowersWhen

\* An event, and the next day.
LEMMA EventLowers ==
  ASSUME Bounds, Bounds', Event, today' = today
  PROVE  Lowers
<1>1. events < events'
  BY DEF Event, Bounds
<1> QED
  BY <1>1, LowersWhen

LEMMA NextDayLowers == ASSUME Bounds, Bounds', NextDay PROVE Lowers
<1>1. today < today'
  BY DEF NextDay, Bounds, Days
<1> QED
  BY <1>1, LowersWhen

LEMMA BoundsStep == IInv /\ Bounds /\ [Next]_vars => Bounds'
<1> SUFFICES ASSUME IInv, Bounds, [Next]_vars PROVE Bounds'
  OBVIOUS
<1>1. today' \in Days /\ work' \in [Procs -> Work]
  BY IInvPreserved DEF IInv, Shape
<1>2. MaxEvents \in Nat
  BY ConstantsAssumption DEF ConstantsAssumption
<1>3. events' \in 0..MaxEvents
  <2>1. ASSUME NEW p \in Procs, Process(p) PROVE events' \in 0..MaxEvents
    <3>1. events' = events \/ (events < MaxEvents /\ events' = events + 1)
      <4>1. ASSUME NEW force \in BOOLEAN, Claim(p, force)
            PROVE  events' = events \/ (events < MaxEvents /\ events' = events + 1)
        BY <4>1 DEF Claim, Retriable
      <4> QED
        BY <2>1, <4>1 DEF Process, Read, SaveSome, Save, Break, Finish, Crash, Event
    <3> QED
      BY <1>2, <3>1 DEF Bounds
  <2>2. CASE Expire \/ Stall \/ NextDay
    BY <1>2, <2>2 DEF Expire, Stall, NextDay, Age, Event, Bounds
  <2>3. CASE \E i \in Ids : SwitchOff(i) \/ SwitchOn(i)
    BY <1>2, <2>3 DEF SwitchOff, SwitchOn, Event, Bounds
  <2> QED
    BY <2>1, <2>2, <2>3 DEF Next, vars, Bounds
<1> QED
  BY <1>1, <1>3 DEF Bounds

\* Every step lowers the rank.
LEMMA StepLowers == IInv /\ Bounds /\ [Next]_vars => [Lowers]_vars
<1> SUFFICES ASSUME IInv, Bounds, Next PROVE Lowers
  OBVIOUS
<1>1. Bounds'
  BY BoundsStep
<1>2. ASSUME NEW p \in Procs, Process(p) PROVE Lowers
  <2>1. CASE Crash(p)
    BY <1>1, <2>1, EventLowers DEF Crash
  <2> QED
    BY <1>1, <1>2, <2>1, ClaimLowers, ReadLowers, SaveLowers, BreakLowers, FinishLowers
    DEF Process
<1>3. CASE Stall
  BY <1>1, <1>3, EventLowers DEF Stall, Age
<1>4. ASSUME NEW i \in Ids, SwitchOff(i) \/ SwitchOn(i) PROVE Lowers
  BY <1>1, <1>4, EventLowers DEF SwitchOff, SwitchOn
<1> QED
  BY <1>1, <1>2, <1>3, <1>4, ExpireLowers, NextDayLowers DEF Next

PoolDescends == [][Lowers]_vars

\* With finitely many processes, days and events (a fault, an administrator's
\* edit, one more run after one that has ended) the pool comes to rest: every step
\* lowers a rank below which there is no endless descent.  So a claimed run is
\* taken over only after its time or its owner's fault, and is not passed from
\* process to process for ever (_claim_run with _RETRY_RUN_WHERE, the finally of
\* run_generation).  With the fairness of FairSpec, RunEnds.
THEOREM PoolComesToRest ==
  ASSUME IsFiniteSet(Procs)
  PROVE  IsWellFoundedOn(Below, Ranks) /\ (Spec => PoolDescends)
<1>1. Init => Bounds
  <2> SUFFICES ASSUME Init PROVE Bounds
    OBVIOUS
  <2>1. today \in Days /\ work \in [Procs -> Work]
    BY IInvInit DEF IInv, Shape
  <2>2. events \in 0..MaxEvents
    BY ConstantsAssumption DEF ConstantsAssumption, Init
  <2> QED
    BY <2>1, <2>2 DEF Bounds
<1> QED
  BY <1>1, IInvHolds, BoundsStep, StepLowers, BelowWellFounded, PTL DEF Spec, PoolDescends
=============================================================================
