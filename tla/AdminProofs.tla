------------------------------ MODULE AdminProofs ------------------------------
(***************************************************************************)
(* What administrators do, for any number of them, of members and of days:  *)
(*   - the event (GiftPeriods): which periods overlap, what may become of a *)
(*     period that has begun, on which period a result is booked            *)
(*     (MemberInv) and what the banner shows (BannerInv);                   *)
(*   - signing in (LoginAttempts): the limit of attempts (AttemptInv) and   *)
(*     the sessions that a new password leaves.                             *)
(***************************************************************************)
EXTENDS GiftPeriods, LoginAttempts, FiniteSetTheorems, WellFoundedInduction, TLAPS

Edits == [pc : {"idle", "asked", "write", "clear", "done"},
          op : {"none", "add", "update", "delete"}, id : {0} \cup Ids, asked : Nat,
          new : Periods \cup {Free}, since : SUBSET Ids]

Shape ==
    /\ today \in Nat
    /\ periods \in [Ids -> Periods \cup {Free}]
    /\ edit \in [Editors -> Edits]

(* The ids are given out in order, and that of a deleted row not again.     *)
Numbered ==
    /\ \E n \in 0 .. MaxRows : Rows(periods) \cup gone = 1 .. n
    /\ Rows(periods) \cap gone = {}

(* What an edit that is about to write has found out still holds: of its own *)
(* row, which it has locked, all of it; of the other rows only that those    *)
(* its period meets were written since.                                      *)
Judged(w) ==
    /\ w.op = "add" => w.id = 0 /\ w.new \in Periods
    /\ w.op # "add" => w.id \in Rows(periods) /\ w.asked <= today
    /\ w.op = "update" => w.new \in Periods /\ Changeable(periods[w.id], w.new, w.asked)
    /\ w.op = "delete" => w.new = Free /\ Deletable(periods[w.id], w.asked)
    /\ w.op \in {"add", "update", "delete"}
    /\ w.op # "delete" =>
         \A j \in Rows(periods) \ {w.id} : Meet(periods[j], w.new) => j \in w.since

Writes(e) == edit[e].pc = "write"

IInv ==
    /\ Shape
    /\ Numbered
    /\ \A e \in Editors : Writes(e) => Judged(edit[e])
    /\ \A e \in Editors : edit[e].pc = "asked" => edit[e].op = "update" /\ edit[e].asked <= today
    /\ \A e, x \in Editors :
         e # x /\ Writes(e) /\ Writes(x) /\ edit[e].op # "add" /\ edit[x].op # "add"
            => edit[e].id # edit[x].id
    /\ OverlapOnlyByRace

-----------------------------------------------------------------------------

LEMMA Constants ==
    /\ Days \subseteq Nat /\ 1 \in Days /\ Ids \subseteq Nat \ {0}
    /\ Free \notin Periods
    /\ Idle \in Edits
    /\ \A p \in Periods : p.from \in Days /\ p.to \in Days
<1>1. Days \subseteq Nat /\ 1 \in Days /\ Ids \subseteq Nat \ {0}
  BY GiftAssumption DEF GiftAssumption, Days, Ids
<1>2. \A p \in Periods : p.from \in Days /\ p.to \in Days
  BY DEF Periods, Spans
<1>3. Free \notin Periods
  BY <1>2 DEF Free, Days
<1>4. Idle \in Edits
  BY DEF Idle, Edits
<1> QED
  BY <1>1, <1>2, <1>3, <1>4

LEMMA IInvInit == Init => IInv
<1> SUFFICES ASSUME Init PROVE IInv
  OBVIOUS
<1>1. Shape
  BY Constants DEF Init, Shape
<1>2. PICK n \in 0 .. MaxRows - 1 : Rows(periods) = 1 .. n
  BY DEF Init
<1>3. Numbered
  BY <1>2, GiftAssumption DEF Init, Numbered, GiftAssumption
<1>4. OverlapOnlyByRace
  BY DEF Init, OverlapOnlyByRace
<1>5. \A e \in Editors : edit[e].pc = "idle"
  BY DEF Init, Idle
<1> QED
  BY <1>1, <1>3, <1>4, <1>5 DEF IInv, Writes

(* A step of one edit that leaves the table alone: what it has found out    *)
(* must hold, and the row it locks must not be locked.                      *)
LEMMA OneEdit ==
    ASSUME IInv, NEW e \in Editors, NEW w \in Edits, edit' = [edit EXCEPT ![e] = w],
           UNCHANGED <<today, periods, gone, raced>>,
           w.pc = "write" => Judged(w),
           w.pc = "asked" => w.op = "update" /\ w.asked <= today,
           w.pc = "write" /\ w.op # "add" => ~Locked(w.id)
    PROVE  IInv'
<1>1. Shape' /\ Numbered'
  BY DEF IInv, Shape, Numbered
<1>2. \A x \in Editors : edit'[x] = IF x = e THEN w ELSE edit[x]
  BY DEF IInv, Shape
<1>3. \A x \in Editors : Writes(x)' => Judged(edit[x])'
  <2>1. \A v : Judged(v)' <=> Judged(v)
    BY DEF Judged
  <2>2. \A x \in Editors : Writes(x)' => Judged(edit'[x])
    BY <1>2 DEF IInv, Writes
  <2>3. \A x \in Editors : Judged(edit[x])' <=> Judged(edit'[x])
    BY DEF Judged
  <2> QED
    BY <2>2, <2>3
<1>4. \A x \in Editors : edit'[x].pc = "asked" => edit'[x].op = "update" /\ edit'[x].asked <= today'
  BY <1>2 DEF IInv
<1>5. \A x, y \in Editors :
        x # y /\ Writes(x)' /\ Writes(y)' /\ edit'[x].op # "add" /\ edit'[y].op # "add"
            => edit'[x].id # edit'[y].id
  BY <1>2 DEF IInv, Writes, Locked
<1>6. OverlapOnlyByRace'
  BY DEF IInv, OverlapOnlyByRace
<1> QED
  BY <1>1, <1>3, <1>4, <1>5, <1>6 DEF IInv

-----------------------------------------------------------------------------
(* The write of an edit. *)

\* A new period gets an id that no row has, or had.
LEMMA NewIdIsFree ==
    ASSUME IInv
    PROVE  /\ NewId \notin Rows(periods) \cup gone
           /\ \A m \in Nat : Rows(periods) \cup gone = 1 .. m => NewId = m + 1
<1> SUFFICES ASSUME NEW m \in Nat, Rows(periods) \cup gone = 1 .. m
             PROVE  NewId = m + 1 /\ NewId \notin Rows(periods) \cup gone
  BY GiftAssumption DEF IInv, Numbered, GiftAssumption
<1>1. IsFiniteSet(1 .. m) /\ Cardinality(1 .. m) = m
  BY FS_Interval
<1>2. IsFiniteSet(Rows(periods)) /\ IsFiniteSet(gone)
  BY <1>1, FS_Subset, Rows(periods) \subseteq 1 .. m, gone \subseteq 1 .. m
<1>3. Cardinality(Rows(periods)) \in Nat /\ Cardinality(gone) \in Nat
  BY <1>2, FS_CardinalityType
<1>4. Cardinality(Rows(periods) \cap gone) = 0
  BY FS_EmptySet DEF IInv, Numbered
<1>5. Cardinality(Rows(periods)) + Cardinality(gone) = m
  <2>1. Cardinality(Rows(periods) \cup gone) =
            Cardinality(Rows(periods)) + Cardinality(gone) - Cardinality(Rows(periods) \cap gone)
    BY <1>2, FS_Union
  <2>2. Cardinality(Rows(periods) \cup gone) = m
    BY <1>1
  <2> QED
    BY <1>3, <1>4, <2>1, <2>2
<1> QED
  BY <1>3, <1>5 DEF NewId

\* What a commit does to the rows.
LEMMA CommitRows ==
    ASSUME IInv, NEW e \in Editors, Commit(e)
    PROVE  LET w == edit[e]
               i == IF w.op = "add" THEN NewId ELSE w.id
           IN  /\ i \in Ids /\ Judged(w) /\ w \in Edits
               /\ periods' = [periods EXCEPT ![i] = w.new]
               /\ w.op = "add" <=> i \notin Rows(periods)
               /\ Rows(periods') = IF w.op = "delete" THEN Rows(periods) \ {i}
                                   ELSE Rows(periods) \cup {i}
<1> DEFINE w == edit[e]
           i == IF w.op = "add" THEN NewId ELSE w.id
<1>1. i \in Ids /\ Judged(w) /\ w \in Edits /\ periods' = [periods EXCEPT ![i] = w.new]
  BY DEF Commit, IInv, Writes, Shape
<1>2. w.op = "add" <=> i \notin Rows(periods)
  BY <1>1, NewIdIsFree DEF Judged
<1>3. IF w.op = "delete" THEN w.new = Free ELSE w.new # Free
  BY <1>1, Constants DEF Judged
<1>4. Rows(periods') = IF w.op = "delete" THEN Rows(periods) \ {i} ELSE Rows(periods) \cup {i}
  <2>1. DOMAIN periods' = Ids /\ DOMAIN periods = Ids
        /\ \A j \in Ids : periods'[j] = IF j = i THEN w.new ELSE periods[j]
    BY <1>1 DEF IInv, Shape
  <2> QED
    BY <1>1, <1>3, <2>1 DEF Rows
<1> QED
  BY <1>1, <1>2, <1>4

LEMMA CommitKeeps == ASSUME IInv, NEW e \in Editors, Commit(e) PROVE IInv'
<1> DEFINE w == edit[e]
           i == IF w.op = "add" THEN NewId ELSE w.id
<1>1. /\ i \in Ids /\ Judged(w) /\ w \in Edits
      /\ periods' = [periods EXCEPT ![i] = w.new]
      /\ w.op = "add" <=> i \notin Rows(periods)
      /\ Rows(periods') = IF w.op = "delete" THEN Rows(periods) \ {i} ELSE Rows(periods) \cup {i}
  BY CommitRows
<1>2. /\ w.pc = "write" /\ today' = today
      /\ \A j \in Rows(periods) \ {i} : periods[j].from # w.new.from
      /\ raced' = {r \in raced : i \notin r} \cup {{i, j} : j \in w.since}
      /\ gone' = IF w.op = "delete" THEN gone \cup {i} ELSE gone
      /\ edit' = [x \in Editors |->
                     IF x = e THEN [w EXCEPT !.pc = "clear", !.id = i]
                     ELSE IF edit[x].pc = "write" THEN [edit[x] EXCEPT !.since = @ \cup {i}]
                     ELSE edit[x]]
  BY DEF Commit
<1>3. \A j \in Ids : periods'[j] = IF j = i THEN w.new ELSE periods[j]
  BY <1>1 DEF IInv, Shape
<1> HIDE DEF i, w
<1>4. Shape'
  <2>1. periods' \in [Ids -> Periods \cup {Free}]
    BY <1>1 DEF IInv, Shape, Edits
  <2>2. [w EXCEPT !.pc = "clear", !.id = i] \in Edits
    BY <1>1 DEF Edits
  <2>3. \A x \in Editors : [edit[x] EXCEPT !.since = @ \cup {i}] \in Edits
    <3>1. \A v \in Edits : [v EXCEPT !.since = @ \cup {i}] \in Edits
      BY <1>1 DEF Edits
    <3> QED
      BY <3>1 DEF IInv, Shape
  <2>4. edit' \in [Editors -> Edits]
    BY <1>2, <2>2, <2>3 DEF IInv, Shape
  <2> QED
    BY <1>2, <2>1, <2>4 DEF IInv, Shape
<1>5. Numbered'
  <2>1. PICK n \in 0 .. MaxRows : Rows(periods) \cup gone = 1 .. n
    BY DEF IInv, Numbered
  <2>2. n \in Nat /\ MaxRows \in Nat
    BY GiftAssumption DEF GiftAssumption
  <2>3. CASE w.op = "add"
    <3>1. i = n + 1 /\ i \notin gone
      BY <2>1, <2>2, <2>3, NewIdIsFree DEF i, w
    <3>2. i \in 0 .. MaxRows
      BY <1>1, <2>2 DEF Ids
    <3>3. 1 .. i = (1 .. n) \cup {i}
      BY <2>2, <3>1
    <3>4. Rows(periods') \cup gone' = Rows(periods) \cup gone \cup {i}
      BY <1>1, <1>2, <2>3
    <3> QED
      BY <1>1, <1>2, <2>1, <2>3, <3>1, <3>2, <3>3, <3>4 DEF IInv, Numbered
  <2>4. CASE w.op # "add"
    <3>1. Rows(periods') \cup gone' = 1 .. n
      BY <1>1, <1>2, <2>1, <2>4
    <3>2. Rows(periods') \cap gone' = {}
      BY <1>1, <1>2, <2>4 DEF IInv, Numbered
    <3> QED
      BY <3>1, <3>2 DEF Numbered
  <2> QED
    BY <2>3, <2>4
<1>6. \A x \in Editors : edit'[x] =
          IF x = e THEN [w EXCEPT !.pc = "clear", !.id = i]
          ELSE IF edit[x].pc = "write" THEN [edit[x] EXCEPT !.since = @ \cup {i}] ELSE edit[x]
  BY <1>2
<1>7. edit'[e].pc = "clear"
  BY <1>1, <1>6 DEF Edits
<1>8. \A x \in Editors \ {e} : Writes(x) =>
        /\ edit'[x].pc = "write" /\ edit'[x].op = edit[x].op /\ edit'[x].id = edit[x].id
        /\ edit'[x].asked = edit[x].asked /\ edit'[x].new = edit[x].new
        /\ edit'[x].since = edit[x].since \cup {i}
  BY <1>6 DEF IInv, Shape, Edits, Writes
<1>9. \A x \in Editors \ {e} : ~Writes(x) => edit'[x] = edit[x]
  BY <1>6 DEF Writes
<1>10. \A x \in Editors : Writes(x)' => x # e /\ Writes(x)
  BY <1>7, <1>9 DEF Writes
<1>11. \A x \in Editors \ {e} : Writes(x) /\ edit[x].op # "add" => edit[x].id # i
  <2> SUFFICES ASSUME NEW x \in Editors \ {e}, Writes(x), edit[x].op # "add", edit[x].id = i
               PROVE  FALSE
    OBVIOUS
  <2>1. i \in Rows(periods)
    BY DEF IInv, Judged
  <2>2. w.op # "add"
    BY <1>1, <2>1
  <2> QED
    BY <1>2, <2>2 DEF IInv, Writes, w, i
<1>12. \A x \in Editors : Writes(x)' => Judged(edit[x])'
  <2> SUFFICES ASSUME NEW x \in Editors, Writes(x)' PROVE Judged(edit[x])'
    OBVIOUS
  <2>1. x # e /\ Writes(x) /\ Judged(edit[x])
    BY <1>10 DEF IInv
  <2>2. /\ edit'[x].op = edit[x].op /\ edit'[x].id = edit[x].id
        /\ edit'[x].asked = edit[x].asked /\ edit'[x].new = edit[x].new
        /\ edit'[x].since = edit[x].since \cup {i}
    BY <1>8, <2>1
  <2>3. edit[x].op # "add" =>
          edit[x].id \in Rows(periods') /\ periods'[edit[x].id] = periods[edit[x].id]
    <3> SUFFICES ASSUME edit[x].op # "add"
                 PROVE  edit[x].id \in Rows(periods') /\ periods'[edit[x].id] = periods[edit[x].id]
      OBVIOUS
    <3>1. edit[x].id # i /\ edit[x].id \in Rows(periods)
      BY <1>11, <2>1 DEF Judged
    <3>2. edit[x].id \in Ids
      BY <3>1 DEF Rows, IInv, Shape
    <3> QED
      BY <1>1, <1>3, <3>1, <3>2
  <2>4. \A j \in Rows(periods') \ {i} : j \in Rows(periods) /\ periods'[j] = periods[j]
    BY <1>1, <1>3 DEF Rows, IInv, Shape
  <2>5. edit[x].op # "delete" =>
          \A j \in Rows(periods') \ {edit[x].id} :
             Meet(periods'[j], edit[x].new) => j \in edit[x].since \cup {i}
    BY <2>1, <2>4 DEF Judged
  <2> QED
    BY <1>2, <2>1, <2>2, <2>3, <2>5 DEF Judged
<1>13. \A x \in Editors : edit'[x].pc = "asked" => edit'[x].op = "update" /\ edit'[x].asked <= today'
  BY <1>2, <1>7, <1>8, <1>9 DEF IInv
<1>14. \A x, y \in Editors :
        x # y /\ Writes(x)' /\ Writes(y)' /\ edit'[x].op # "add" /\ edit'[y].op # "add"
            => edit'[x].id # edit'[y].id
  BY <1>8, <1>10 DEF IInv
<1>15. OverlapOnlyByRace'
  <2> SUFFICES ASSUME NEW j \in Rows(periods'), NEW k \in Rows(periods'), j # k,
                      Meet(periods'[j], periods'[k])
               PROVE  {j, k} \in raced' /\ periods'[j].from # periods'[k].from
    BY DEF OverlapOnlyByRace
  <2>1. \A l \in Rows(periods') \ {i} : l \in Rows(periods) /\ periods'[l] = periods[l]
    BY <1>1, <1>3 DEF Rows, IInv, Shape
  <2>2. CASE j # i /\ k # i
    BY <1>2, <2>1, <2>2 DEF IInv, OverlapOnlyByRace
  <2>3. ASSUME NEW l \in Rows(periods') \ {i}, i \in Rows(periods'),
               Meet(periods'[l], periods'[i]) \/ Meet(periods'[i], periods'[l])
        PROVE  {i, l} \in raced' /\ periods'[l].from # periods'[i].from
    <3>1. periods'[i] = w.new /\ w.op # "delete"
      BY <1>1, <1>3, <2>3
    <3>2. l \in Rows(periods) \ {w.id} /\ periods'[l] = periods[l]
      <4>1. CASE w.op = "add"
        <5>1. w.id = 0
          BY <1>1, <4>1 DEF Judged
        <5>2. l \in Ids
          BY <2>1, <2>3 DEF Rows, IInv, Shape
        <5> QED
          BY <2>1, <2>3, <5>1, <5>2, Constants
      <4>2. CASE w.op # "add"
        BY <2>1, <2>3, <4>2 DEF i
      <4> QED
        BY <4>1, <4>2
    <3>3. Meet(periods[l], w.new)
      BY <2>3, <3>1, <3>2 DEF Meet
    <3>4. l \in w.since
      BY <1>1, <3>1, <3>2, <3>3 DEF Judged
    <3> QED
      BY <1>2, <2>1, <2>3, <3>1, <3>2, <3>4
  <2>4. CASE j = i
    BY <2>3, <2>4
  <2>5. CASE k = i
    <3>1. {i, j} = {j, k}
      BY <2>5
    <3> QED
      BY <2>3, <2>5, <3>1
  <2> QED
    BY <2>2, <2>4, <2>5
<1> QED
  BY <1>4, <1>5, <1>12, <1>13, <1>14, <1>15 DEF IInv

-----------------------------------------------------------------------------

LEMMA IInvPreserved == ASSUME IInv, [Next]_vars PROVE IInv'
<1>1. CASE Midnight
  <2>1. today' = today + 1 /\ today \in Nat /\ UNCHANGED <<periods, edit, raced, gone>>
    BY <1>1 DEF Midnight, IInv, Shape
  <2>2. \A x \in Editors : edit[x].asked \in Nat
    BY DEF IInv, Shape, Edits
  <2>3. Shape' /\ Numbered' /\ OverlapOnlyByRace'
    BY <2>1 DEF IInv, Shape, Numbered, OverlapOnlyByRace
  <2>4. \A x \in Editors : Writes(x)' => Judged(edit[x])'
    BY <2>1, <2>2 DEF IInv, Writes, Judged
  <2> QED
    BY <2>1, <2>2, <2>3, <2>4 DEF IInv, Writes
<1>2. ASSUME NEW e \in Editors, NEW p \in Periods, LookAdd(e, p) PROVE IInv'
  <2> DEFINE w == [Idle EXCEPT !.pc = "write", !.op = "add", !.new = p]
  <2>1. w \in Edits /\ w.pc = "write" /\ w.op = "add" /\ w.id = 0 /\ w.new = p
    BY DEF Idle, Edits
  <2>2. edit' = [edit EXCEPT ![e] = w] /\ UNCHANGED <<today, periods, gone, raced>>
    BY <1>2 DEF LookAdd
  <2>3. \A j \in Rows(periods) \ {0} : ~Meet(periods[j], p)
    BY <1>2 DEF LookAdd, Overlaps
  <2> HIDE DEF w
  <2>4. Judged(w)
    BY <2>1, <2>3 DEF Judged
  <2> QED
    BY <2>1, <2>2, <2>4, OneEdit
<1>3. ASSUME NEW e \in Editors, AskUpdate(e) PROVE IInv'
  <2> DEFINE w == [Idle EXCEPT !.pc = "asked", !.op = "update", !.asked = today]
  <2>1. w \in Edits /\ w.pc = "asked" /\ w.op = "update" /\ w.asked = today /\ today \in Nat
    BY DEF Idle, Edits, IInv, Shape
  <2>2. edit' = [edit EXCEPT ![e] = w] /\ UNCHANGED <<today, periods, gone, raced>>
    BY <1>3 DEF AskUpdate
  <2> HIDE DEF w
  <2>3. w.pc # "write" /\ w.asked <= today
    BY <2>1
  <2> QED
    BY <2>1, <2>2, <2>3, OneEdit
<1>4. ASSUME NEW e \in Editors, NEW i \in Ids, NEW q \in Periods, LookUpdate(e, i, q) PROVE IInv'
  <2> DEFINE w == [edit[e] EXCEPT !.pc = "write", !.id = i, !.new = q]
  <2>1. edit[e] \in Edits /\ edit[e].op = "update" /\ edit[e].asked <= today
    BY <1>4 DEF LookUpdate, IInv, Shape
  <2>2. /\ w \in Edits /\ w.pc = "write" /\ w.op = "update" /\ w.id = i /\ w.new = q
        /\ w.asked = edit[e].asked
    BY <2>1 DEF Edits
  <2>3. edit' = [edit EXCEPT ![e] = w] /\ UNCHANGED <<today, periods, gone, raced>>
    BY <1>4, <2>1 DEF LookUpdate, IInv, Shape
  <2>4. /\ i \in Rows(periods) /\ ~Locked(i) /\ Changeable(periods[i], q, edit[e].asked)
        /\ \A j \in Rows(periods) \ {i} : ~Meet(periods[j], q)
    BY <1>4 DEF LookUpdate, Overlaps
  <2> HIDE DEF w
  <2>5. Judged(w)
    BY <2>1, <2>2, <2>4 DEF Judged
  <2> QED
    BY <2>2, <2>3, <2>4, <2>5, OneEdit
<1>5. ASSUME NEW e \in Editors, NEW i \in Ids, LookDelete(e, i) PROVE IInv'
  <2> DEFINE w == [Idle EXCEPT !.pc = "write", !.op = "delete", !.id = i, !.asked = today]
  <2>1. /\ w \in Edits /\ w.pc = "write" /\ w.op = "delete" /\ w.id = i /\ w.asked = today
        /\ w.new = Free /\ today \in Nat
    BY DEF Idle, Edits, IInv, Shape
  <2>2. edit' = [edit EXCEPT ![e] = w] /\ UNCHANGED <<today, periods, gone, raced>>
    BY <1>5 DEF LookDelete
  <2>3. i \in Rows(periods) /\ ~Locked(i) /\ Deletable(periods[i], today)
    BY <1>5 DEF LookDelete
  <2> HIDE DEF w
  <2>4. Judged(w)
    BY <2>1, <2>3 DEF Judged
  <2> QED
    BY <2>1, <2>2, <2>3, <2>4, OneEdit
<1>6. ASSUME NEW e \in Editors, Reject(e) \/ Clear(e) PROVE IInv'
  <2> DEFINE w == [Idle EXCEPT !.pc = "done"]
  <2>1. w \in Edits /\ w.pc = "done"
    BY DEF Idle, Edits
  <2>2. edit' = [edit EXCEPT ![e] = w] /\ UNCHANGED <<today, periods, gone, raced>>
    BY <1>6 DEF Reject, Clear
  <2> HIDE DEF w
  <2> QED
    BY <2>1, <2>2, OneEdit
<1>7. CASE UNCHANGED <<today, periods, edit, raced, gone>>
  <2>1. Shape' /\ Numbered' /\ OverlapOnlyByRace'
    BY <1>7 DEF IInv, Shape, Numbered, OverlapOnlyByRace
  <2>2. \A x \in Editors : Writes(x)' => Judged(edit[x])'
    BY <1>7 DEF IInv, Writes, Judged
  <2> QED
    BY <1>7, <2>1, <2>2 DEF IInv, Writes
<1>8. CASE Expire \/ Banner \/ Take \/ UNCHANGED vars
  BY <1>7, <1>8 DEF Expire, Banner, AskBanner, ReadPeriod, ReadPausedKey, ReadSpan, Store,
                    Take, Eligible, Attribute, Record, GiveUp, vars
<1>9. CASE Administrate
  BY <1>2, <1>3, <1>4, <1>5, <1>6, <1>9, CommitKeeps DEF Administrate
<1> QED
  BY <1>1, <1>8, <1>9 DEF Next

LEMMA IInvHolds == Spec => []IInv
<1> QED BY IInvInit, IInvPreserved, PTL DEF Spec

\* Two periods share a day only if the edits that wrote them overlapped in time, and
\* never their first day.
THEOREM OverlapHolds == Spec => []OverlapOnlyByRace
<1>1. IInv => OverlapOnlyByRace
  BY DEF IInv
<1> QED
  BY <1>1, IInvHolds, PTL

\* A period that began is neither deleted nor moved, and one that ended is not
\* touched, but by an edit that was judged on an earlier day.
THEOREM StartedStayHolds == Spec => StartedStay
<1>1. ASSUME IInv, [Next]_vars, NEW i \in Ids, periods'[i] # periods[i], periods[i] # Free
      PROVE  \E e \in Editors :
                /\ edit[e].pc = "write" /\ edit'[e].pc = "clear"
                /\ \/ edit[e].asked < today
                   \/ periods[i].from > today
                   \/ /\ periods[i].to >= today /\ periods'[i].to >= today
                      /\ periods'[i] = [periods[i] EXCEPT !.to = periods'[i].to]
  <2>1. PICK e \in Editors : Commit(e)
    BY <1>1 DEF Next, Midnight, Administrate, LookAdd, AskUpdate, LookUpdate, LookDelete, Reject,
                Clear, Expire, Banner, AskBanner, ReadPeriod, ReadPausedKey, ReadSpan, Store,
                Take, Eligible, Attribute, Record, GiveUp, vars
  <2> DEFINE w == edit[e]
             n == IF w.op = "add" THEN NewId ELSE w.id
  <2>2. /\ n \in Ids /\ Judged(w) /\ w \in Edits /\ periods' = [periods EXCEPT ![n] = w.new]
        /\ w.op = "add" <=> n \notin Rows(periods)
    BY <1>1, <2>1, CommitRows
  <2>3. i = n /\ periods'[i] = w.new
    BY <1>1, <2>2 DEF IInv, Shape
  <2>4. i \in Rows(periods) /\ periods[i] \in Periods
    BY <1>1 DEF Rows, IInv, Shape
  <2>5. w.op \in {"update", "delete"} /\ i = w.id
    BY <2>2, <2>3, <2>4 DEF Judged
  <2>6. w.pc = "write" /\ edit'[e].pc = "clear"
    BY <2>1, <2>2 DEF Commit, Edits
  <2>7. w.asked \in Nat /\ w.asked <= today /\ today \in Nat
    BY <1>1, <2>2, <2>5 DEF Judged, Edits, IInv, Shape
  <2>8. periods[i].from \in Nat /\ periods[i].to \in Nat
    BY <2>4, Constants
  <2>9. CASE w.asked < today
    BY <2>6, <2>9
  <2>10. CASE w.asked = today /\ w.op = "delete"
    BY <2>2, <2>5, <2>6, <2>8, <2>10 DEF Judged, Deletable, Status
  <2>11. CASE w.asked = today /\ w.op = "update"
    <3>1. w.new \in Periods /\ Changeable(periods[i], w.new, today)
      BY <2>2, <2>5, <2>11 DEF Judged
    <3>2. \/ periods[i].from > today
          \/ /\ periods[i].to >= today /\ w.new.key = periods[i].key
             /\ w.new.from = periods[i].from
             /\ w.new.to # periods[i].to => w.new.to >= today
      BY <2>7, <2>8, <3>1 DEF Changeable, Status
    <3>3. \A p, q \in Periods : q.key = p.key /\ q.from = p.from => q = [p EXCEPT !.to = q.to]
      BY DEF Periods
    <3> QED
      BY <2>3, <2>4, <2>6, <3>1, <3>2, <3>3
  <2> QED
    BY <2>5, <2>7, <2>9, <2>10, <2>11
<1>2. IInv /\ [Next]_vars =>
        [\A i \in Ids : periods'[i] # periods[i] /\ periods[i] # Free =>
           \E e \in Editors :
              /\ edit[e].pc = "write" /\ edit'[e].pc = "clear"
              /\ \/ edit[e].asked < today
                 \/ periods[i].from > today
                 \/ /\ periods[i].to >= today /\ periods'[i].to >= today
                    /\ periods'[i] = [periods[i] EXCEPT !.to = periods'[i].to]]_vars
  BY <1>1
<1> QED
  BY <1>2, IInvHolds, PTL DEF Spec, StartedStay


-----------------------------------------------------------------------------
(* Where results land. *)

\* A period that has begun: only an edit judged on an earlier day takes it away.
Begun(i) == i \in late \/ (i \in Rows(periods) /\ periods[i].from <= today)

\* A period that ran on a day.
Ran(i, day) ==
    /\ day \in Nat /\ day <= today
    /\ i \in late \/ (i \in Rows(periods) /\ periods[i].from <= day /\ day <= periods[i].to)

\* What is booked on the day on which another period was named began while that
\* one ran, so the two share a day.
Landed(booked, told, since) ==
    /\ Begun(booked) /\ Ran(told, since)
    /\ booked # told /\ booked \notin late /\ told \notin late =>
         periods[told].from <= periods[booked].from /\ periods[booked].from <= since

Told == [pc : {"away", "told", "booking"}, told : {0} \cup Ids, day : Nat, booked : {0} \cup Ids]

MemberInv ==
    /\ member \in [Members -> Told]
    /\ \A u \in Members :
         /\ member[u].pc # "away" => Ran(member[u].told, member[u].day)
         /\ member[u].pc = "booking" =>
              /\ Begun(member[u].booked)
              /\ member[u].day < today \/ Landed(member[u].booked, member[u].told, member[u].day)
    /\ \A r \in results :
         /\ Begun(r.period)
         /\ r.day > r.since \/ Landed(r.period, r.told, r.since)

\* The days of a row.
LEMMA RowDays ==
    ASSUME IInv, NEW i \in Rows(periods)
    PROVE  /\ i \in Ids /\ periods[i] \in Periods
           /\ periods[i].from \in Nat /\ periods[i].to \in Nat /\ periods[i].from <= periods[i].to
<1>1. i \in Ids /\ periods[i] \in Periods
  BY DEF IInv, Shape, Rows
<1>2. \A p \in Periods : p.from \in Days /\ p.to \in Days /\ p.from <= p.to
  BY DEF Periods, Spans
<1> QED
  BY <1>1, <1>2, Constants

\* Time goes on, and what is late stays so.
LEMMA LateGrows ==
    ASSUME IInv, [Next]_vars
    PROVE  late \subseteq late' /\ today \in Nat /\ today' \in Nat /\ today <= today'
<1>1. today \in Nat
  BY DEF IInv, Shape
<1>2. today' \in {today, today + 1} /\ late \subseteq late'
  BY DEF Next, Midnight, Administrate, LookAdd, AskUpdate, LookUpdate, LookDelete, Reject, Commit,
         Clear, Expire, Banner, AskBanner, ReadPeriod, ReadPausedKey, ReadSpan, Store,
         Take, Eligible, Attribute, Record, GiveUp, vars
<1> QED
  BY <1>1, <1>2

\* Unless an edit was judged on an earlier day, a period that has begun keeps its
\* first day and every day of it that is not to come.
LEMMA BegunStays ==
    ASSUME IInv, [Next]_vars, NEW i \in Rows(periods), periods[i].from <= today, i \notin late'
    PROVE  /\ i \in Rows(periods') /\ periods'[i].from = periods[i].from
           /\ \A d \in Nat : d <= today /\ d <= periods[i].to => d <= periods'[i].to
<1> SUFFICES ASSUME periods'[i] # periods[i] \/ DOMAIN periods' # DOMAIN periods
             PROVE  /\ i \in Rows(periods') /\ periods'[i].from = periods[i].from
                    /\ \A d \in Nat : d <= today /\ d <= periods[i].to => d <= periods'[i].to
  BY DEF Rows
<1>1. PICK e \in Editors : Commit(e)
  BY DEF Next, Midnight, Administrate, LookAdd, AskUpdate, LookUpdate, LookDelete, Reject,
         Clear, Expire, Banner, AskBanner, ReadPeriod, ReadPausedKey, ReadSpan, Store,
         Take, Eligible, Attribute, Record, GiveUp, vars
<1> DEFINE w == edit[e]
           n == IF w.op = "add" THEN NewId ELSE w.id
<1>2. /\ n \in Ids /\ Judged(w) /\ w \in Edits /\ periods' = [periods EXCEPT ![n] = w.new]
      /\ w.op = "add" <=> n \notin Rows(periods)
      /\ Rows(periods') = IF w.op = "delete" THEN Rows(periods) \ {n} ELSE Rows(periods) \cup {n}
  BY <1>1, CommitRows
<1>3. i = n /\ periods'[i] = w.new
  BY <1>2 DEF IInv, Shape
<1>4. /\ i \in Ids /\ periods[i].from \in Nat /\ periods[i].to \in Nat /\ today \in Nat
      /\ w.asked \in Nat
  BY <1>2, RowDays DEF IInv, Shape, Edits
<1>5. w.op \in {"update", "delete"} /\ i = w.id /\ w.asked <= today
  BY <1>2, <1>3 DEF Judged
<1>6. w.asked = today
  <2>1. late' = IF w.op # "add" /\ w.asked < today THEN late \cup {n} ELSE late
    BY <1>1 DEF Commit
  <2> QED
    BY <1>3, <1>4, <1>5, <2>1
<1>7. w.op = "update"
  BY <1>2, <1>4, <1>5, <1>6 DEF Judged, Deletable, Status
<1>8. w.new \in Periods /\ Changeable(periods[i], w.new, today)
  BY <1>2, <1>5, <1>6, <1>7 DEF Judged
<1>9. w.new.from = periods[i].from /\ (w.new.to # periods[i].to => w.new.to >= today)
  BY <1>4, <1>8 DEF Changeable, Status
<1>10. w.new.to \in Nat
  BY <1>8, Constants
<1>11. i \in Rows(periods')
  BY <1>2, <1>3, <1>7
<1> HIDE DEF w
<1> QED
  BY <1>3, <1>4, <1>9, <1>10, <1>11

\* What is known of periods that have begun stays true.
LEMMA Lasting ==
    ASSUME IInv, [Next]_vars
    PROVE  /\ \A i : Begun(i) => i \in late' \/ (i \in Rows(periods') /\ periods'[i].from <= today')
           /\ \A i, d : Ran(i, d) =>
                /\ d \in Nat /\ d <= today'
                /\ \/ i \in late'
                   \/ i \in Rows(periods') /\ periods'[i].from <= d /\ d <= periods'[i].to
           /\ \A i, j, d :
                Landed(i, j, d) /\ i # j /\ i \notin late' /\ j \notin late' =>
                  (periods'[j].from <= periods'[i].from /\ periods'[i].from <= d)
<1>1. late \subseteq late' /\ today \in Nat /\ today' \in Nat /\ today <= today'
  BY LateGrows
<1>2. ASSUME NEW i, Begun(i)
      PROVE  i \in late' \/ (i \in Rows(periods') /\ periods'[i].from <= today')
  <2>1. CASE i \in late
    BY <1>1, <2>1
  <2>2. CASE i \in Rows(periods) /\ periods[i].from <= today /\ i \notin late'
    <3>1. i \in Rows(periods') /\ periods'[i].from = periods[i].from
      BY <2>2, BegunStays
    <3>2. periods[i].from \in Nat
      BY <2>2, RowDays
    <3> QED
      BY <1>1, <2>2, <3>1, <3>2
  <2> QED
    BY <1>2, <2>1, <2>2 DEF Begun
<1>3. ASSUME NEW i, NEW d, Ran(i, d)
      PROVE  /\ d \in Nat /\ d <= today'
             /\ \/ i \in late'
                \/ i \in Rows(periods') /\ periods'[i].from <= d /\ d <= periods'[i].to
  <2>1. d \in Nat /\ d <= today
    BY <1>3 DEF Ran
  <2>2. CASE i \in late
    BY <1>1, <2>1, <2>2
  <2>3. CASE i \in Rows(periods) /\ periods[i].from <= d /\ d <= periods[i].to /\ i \notin late'
    <3>1. periods[i].from \in Nat /\ periods[i].to \in Nat
      BY <2>3, RowDays
    <3>2. periods[i].from <= today
      BY <1>1, <2>1, <2>3, <3>1
    <3>3. /\ i \in Rows(periods') /\ periods'[i].from = periods[i].from
          /\ \A c \in Nat : c <= today /\ c <= periods[i].to => c <= periods'[i].to
      BY <2>3, <3>2, BegunStays
    <3> QED
      BY <1>1, <2>1, <2>3, <3>3
  <2> QED
    BY <1>1, <1>3, <2>1, <2>2, <2>3 DEF Ran
<1>4. ASSUME NEW i, NEW j, NEW d, Landed(i, j, d), i # j, i \notin late', j \notin late'
      PROVE  periods'[j].from <= periods'[i].from /\ periods'[i].from <= d
  <2>1. i \notin late /\ j \notin late
    BY <1>1, <1>4
  <2>2. /\ i \in Rows(periods) /\ periods[i].from <= today
        /\ j \in Rows(periods) /\ periods[j].from <= d /\ d \in Nat /\ d <= today
        /\ periods[j].from <= periods[i].from /\ periods[i].from <= d
    BY <1>4, <2>1 DEF Landed, Begun, Ran
  <2>3. periods[j].from <= today
    BY <1>1, <2>2, RowDays
  <2>4. periods'[i].from = periods[i].from
    BY <1>4, <2>2, BegunStays
  <2>5. periods'[j].from = periods[j].from
    BY <1>4, <2>2, <2>3, BegunStays
  <2> QED
    BY <2>2, <2>4, <2>5
<1> QED
  BY <1>2, <1>3, <1>4

LEMMA MemberInit == Init => MemberInv
<1> SUFFICES ASSUME Init PROVE MemberInv
  OBVIOUS
<1>1. Away \in Told /\ Away.pc = "away"
  BY DEF Away, Told
<1> QED
  BY <1>1 DEF Init, MemberInv

\* A step that leaves what members do alone.
LEMMA MembersWait ==
    ASSUME IInv, MemberInv, [Next]_vars, UNCHANGED <<member, results>>
    PROVE  MemberInv'
<1>1. \A u \in Members : member[u].pc # "away" => Ran(member[u].told, member[u].day)'
  BY Lasting DEF MemberInv, Ran
<1>2. \A u \in Members : member[u].pc = "booking" =>
        /\ Begun(member[u].booked)'
        /\ member[u].day < today' \/ Landed(member[u].booked, member[u].told, member[u].day)'
  <2> SUFFICES ASSUME NEW u \in Members, member[u].pc = "booking"
               PROVE  /\ Begun(member[u].booked)'
                      /\ \/ member[u].day < today'
                         \/ Landed(member[u].booked, member[u].told, member[u].day)'
    OBVIOUS
  <2>1. Begun(member[u].booked)' /\ Ran(member[u].told, member[u].day)'
    BY Lasting DEF MemberInv, Begun, Ran
  <2>2. CASE member[u].day < today
    <3>1. member[u].day \in Nat
      BY DEF MemberInv, Told
    <3> QED
      BY <2>1, <2>2, <3>1, LateGrows
  <2>3. CASE Landed(member[u].booked, member[u].told, member[u].day)
    BY <2>1, <2>3, Lasting DEF Landed
  <2> QED
    BY <2>1, <2>2, <2>3 DEF MemberInv
<1>3. \A r \in results : Begun(r.period)' /\ (r.day > r.since \/ Landed(r.period, r.told, r.since)')
  <2> SUFFICES ASSUME NEW r \in results
               PROVE  Begun(r.period)' /\ (r.day > r.since \/ Landed(r.period, r.told, r.since)')
    OBVIOUS
  <2>1. Begun(r.period)'
    BY Lasting DEF MemberInv, Begun
  <2>2. CASE Landed(r.period, r.told, r.since)
    <3>1. Ran(r.told, r.since)'
      BY <2>2, Lasting DEF Landed, Ran
    <3> QED
      BY <2>1, <2>2, <3>1, Lasting DEF Landed
  <2> QED
    BY <2>1, <2>2 DEF MemberInv
<1> QED
  BY <1>1, <1>2, <1>3 DEF MemberInv


\* A step of one member that leaves the table and the days alone.
LEMMA OneMember ==
    ASSUME IInv, MemberInv, NEW u \in Members, NEW m \in Told, member' = [member EXCEPT ![u] = m],
           UNCHANGED <<today, periods, late>>,
           m.pc # "away" => Ran(m.told, m.day),
           m.pc = "booking" => Begun(m.booked) /\ (m.day < today \/ Landed(m.booked, m.told, m.day)),
           \A r \in results' \ results :
             Begun(r.period) /\ (r.day > r.since \/ Landed(r.period, r.told, r.since))
    PROVE  MemberInv'
<1>1. /\ \A i : Begun(i)' <=> Begun(i)
      /\ \A i, d : Ran(i, d)' <=> Ran(i, d)
      /\ \A i, j, d : Landed(i, j, d)' <=> Landed(i, j, d)
  BY DEF Begun, Ran, Landed
<1>2. \A v \in Members : member'[v] = IF v = u THEN m ELSE member[v]
  BY DEF MemberInv
<1>3. member' \in [Members -> Told]
  BY DEF MemberInv
<1>4. ASSUME NEW v \in Members
      PROVE  /\ member'[v].pc # "away" => Ran(member'[v].told, member'[v].day)
             /\ member'[v].pc = "booking" =>
                  /\ Begun(member'[v].booked)
                  /\ member'[v].day < today \/ Landed(member'[v].booked, member'[v].told, member'[v].day)
  BY <1>2 DEF MemberInv
<1>5. \A v \in Members :
        /\ Ran(member[v].told, member[v].day)' <=> Ran(member'[v].told, member'[v].day)
        /\ Begun(member[v].booked)' <=> Begun(member'[v].booked)
        /\ Landed(member[v].booked, member[v].told, member[v].day)'
             <=> Landed(member'[v].booked, member'[v].told, member'[v].day)
  BY DEF Begun, Ran, Landed
<1>6. \A r \in results' : Begun(r.period)' /\ (r.day > r.since \/ Landed(r.period, r.told, r.since)')
  BY <1>1 DEF MemberInv
<1> QED
  BY <1>3, <1>4, <1>5, <1>6 DEF MemberInv

LEMMA TakeKeeps == ASSUME IInv, MemberInv, Take PROVE MemberInv'
<1>1. ASSUME NEW u \in Members, Eligible(u) PROVE MemberInv'
  <2>1. PICK i \in Newest(Current(today)) :
          member' = [member EXCEPT ![u] = [Away EXCEPT !.pc = "told", !.told = i, !.day = today]]
    BY <1>1 DEF Eligible
  <2> DEFINE m == [Away EXCEPT !.pc = "told", !.told = i, !.day = today]
  <2>2. i \in Rows(periods) /\ periods[i].from <= today /\ periods[i].to >= today /\ today \in Nat
    BY DEF Newest, Current, Started, IInv, Shape
  <2>3. i \in Ids /\ periods[i].from \in Nat /\ periods[i].to \in Nat
    BY <2>2, RowDays
  <2>4. m \in Told /\ m.pc = "told" /\ m.told = i /\ m.day = today
    BY <2>2, <2>3 DEF Away, Told
  <2>5. Ran(i, today)
    BY <2>2, <2>3 DEF Ran
  <2>6. member' = [member EXCEPT ![u] = m] /\ UNCHANGED <<today, periods, late, results>>
    BY <1>1, <2>1 DEF Eligible
  <2> HIDE DEF m
  <2>7. m.pc # "booking" /\ Ran(m.told, m.day)
    BY <2>4, <2>5
  <2> QED
    BY <2>4, <2>6, <2>7, OneMember
<1>2. ASSUME NEW u \in Members, Attribute(u) PROVE MemberInv'
  <2>1. PICK j \in Booked(today) : member' = [member EXCEPT ![u].pc = "booking", ![u].booked = j]
    BY <1>2 DEF Attribute
  <2> DEFINE m == [member[u] EXCEPT !.pc = "booking", !.booked = j]
             i == member[u].told
             d == member[u].day
  <2>2. /\ j \in Rows(periods) /\ periods[j].from <= today
        /\ \A k \in Rows(periods) : periods[k].from <= today => periods[k].from <= periods[j].from
        /\ today \in Nat
    BY DEF Booked, Newest, Started, IInv, Shape
  <2>3. j \in Ids /\ member[u] \in Told /\ member[u].pc = "told"
    BY <1>2, <2>2, RowDays DEF Attribute, MemberInv
  <2>4. m \in Told /\ m.pc = "booking" /\ m.told = i /\ m.day = d /\ m.booked = j /\ d \in Nat
    BY <2>3 DEF Told
  <2>5. Ran(i, d) /\ Begun(j)
    BY <2>2, <2>3 DEF MemberInv, Begun
  <2>6. d < today \/ Landed(j, i, d)
    <3> SUFFICES ASSUME d = today PROVE Landed(j, i, d)
      BY <2>2, <2>4, <2>5 DEF Ran
    <3> SUFFICES ASSUME i \notin late
                 PROVE  periods[i].from <= periods[j].from /\ periods[j].from <= d
      BY <2>5 DEF Landed
    <3>1. i \in Rows(periods) /\ periods[i].from <= today
      BY <2>5 DEF Ran
    <3> QED
      BY <2>2, <3>1
  <2>7. member' = [member EXCEPT ![u] = m] /\ UNCHANGED <<today, periods, late, results>>
    BY <1>2, <2>1 DEF Attribute, MemberInv
  <2> HIDE DEF m
  <2> QED
    BY <2>4, <2>5, <2>6, <2>7, OneMember
<1>3. ASSUME NEW u \in Members, Record(u) \/ GiveUp(u) PROVE MemberInv'
  <2>1. member' = [member EXCEPT ![u] = Away] /\ UNCHANGED <<today, periods, late>>
    BY <1>3 DEF Record, GiveUp
  <2>2. Away \in Told /\ Away.pc = "away"
    BY DEF Away, Told
  <2>3. ASSUME NEW r \in results' \ results
        PROVE  Begun(r.period) /\ (r.day > r.since \/ Landed(r.period, r.told, r.since))
    <3>1. /\ member[u].pc = "booking" /\ r.period = member[u].booked /\ r.told = member[u].told
          /\ r.since = member[u].day /\ r.day = today
      BY <1>3, <2>3 DEF Record, GiveUp
    <3>2. today \in Nat /\ member[u].day \in Nat
      BY DEF IInv, Shape, MemberInv, Told
    <3> QED
      BY <3>1, <3>2 DEF MemberInv
  <2> QED
    BY <2>1, <2>2, <2>3, OneMember
<1> QED
  BY <1>1, <1>2, <1>3 DEF Take

LEMMA MemberPreserved == ASSUME IInv, MemberInv, [Next]_vars PROVE MemberInv'
<1>1. CASE ~Take
  <2>1. UNCHANGED <<member, results>>
    BY <1>1 DEF Next, Midnight, Administrate, LookAdd, AskUpdate, LookUpdate, LookDelete, Reject,
                Commit, Clear, Expire, Banner, AskBanner, ReadPeriod, ReadPausedKey, ReadSpan,
                Store, vars
  <2> QED
    BY <2>1, MembersWait
<1> QED
  BY <1>1, TakeKeeps

\* A result is booked on the period its member was told of, unless a midnight came
\* between or one of the two periods was written by an edit judged on an earlier
\* day or in a race with another; and no booked period is deleted but by an edit
\* judged on an earlier day (_reject_overlaps, register_giftcard.result).
THEOREM ResultsLandRightHolds == Spec => []ResultsLandRight
<1>1. ASSUME IInv, MemberInv, NEW r \in results
      PROVE  /\ r.period # r.told =>
                  r.day > r.since \/ {r.period, r.told} \cap (late \cup UNION raced) # {}
             /\ periods[r.period] = Free => r.period \in late
  <2>1. periods[r.period] = Free => r.period \in late
    BY <1>1 DEF MemberInv, Begun, Rows
  <2>2. ASSUME r.period # r.told, ~(r.day > r.since), r.period \notin late, r.told \notin late
        PROVE  {r.period, r.told} \in raced
    <3>1. /\ r.period \in Rows(periods) /\ r.told \in Rows(periods) /\ r.since \in Nat
          /\ periods[r.told].from <= periods[r.period].from
          /\ periods[r.period].from <= r.since /\ r.since <= periods[r.told].to
      BY <1>1, <2>2 DEF MemberInv, Landed, Begun, Ran
    <3>2. Meet(periods[r.period], periods[r.told])
      BY <1>1, <3>1, RowDays DEF Meet
    <3> QED
      BY <1>1, <2>2, <3>1, <3>2 DEF IInv, OverlapOnlyByRace
  <2> QED
    BY <2>1, <2>2
<1>2. IInv /\ MemberInv => ResultsLandRight
  BY <1>1 DEF ResultsLandRight
<1>3. IInv /\ MemberInv /\ [Next]_vars => MemberInv'
  BY MemberPreserved
<1> QED
  BY <1>2, <1>3, MemberInit, IInvHolds, PTL DEF Spec


-----------------------------------------------------------------------------
(* What the banner shows. *)

Reading == [pc : {"idle", "period", "key", "span", "store", "kept"}, day : Nat,
            period : {0} \cup Ids, row : Periods \cup {Free}, key : Keys \cup {"none"},
            from : Nat, to : Nat, torn : BOOLEAN, behind : SUBSET Editors]

\* The days of an event fit the period that runs, or the day the event is paused.
Fits(r) ==
    /\ r.period # 0 =>
         r.from <= r.row.from /\ r.row.from <= r.day /\ r.day <= r.row.to /\ r.row.to <= r.to
    /\ r.period = 0 /\ r.key # "none" => r.from < r.day /\ r.day < r.to

\* The period that was read is still in the table.
Runs(r) ==
    /\ r.period \in Rows(periods) /\ r.row = periods[r.period] /\ r.key = r.row.key
    /\ r.row.from <= r.day /\ r.day <= r.row.to

Reads(r) ==
    /\ r.behind = {}
    /\ r.pc \in {"period", "key"} => r.period = 0 /\ r.key = "none"
    /\ ~r.torn /\ r.pc = "span" => IF r.period = 0 THEN r.key \in PausedKeys(r.day) ELSE Runs(r)
    /\ ~r.torn /\ r.pc = "store" => Fits(r)

MemoInv ==
    memo # NoMemo =>
      /\ memo \in Reading
      /\ ~memo.torn => Fits(memo)
      /\ \A e \in memo.behind \cap Near : edit[e].pc = "clear"

BannerInv ==
    /\ reader \in [Readers -> Reading]
    /\ \A b \in Readers : Reads(reader[b])
    /\ MemoInv

\* Of days one is the first, and of days in a bounded time one is the last.
LEMMA LeastNat ==
  ASSUME NEW T \in SUBSET Nat, T # {}
  PROVE  \E n \in T : \A m \in T : n <= m
<1>1. PICK n \in T : \A m \in T : ~(<<m, n>> \in OpToRel(<, Nat))
  BY WFMin, NatLessThanWellFounded, Zenon
<1>2. \A m \in T : ~(m < n)
  BY <1>1, Zenon DEF OpToRel
<1> QED BY <1>2

LEMMA SpanOf ==
    ASSUME IInv, NEW R \in SUBSET Rows(periods), R # {}
    PROVE  /\ FirstDay(R) \in Nat /\ \A i \in R : FirstDay(R) <= periods[i].from
           /\ LastDayOf(R) \in Nat /\ \A i \in R : LastDayOf(R) >= periods[i].to
<1>1. \A i \in R : periods[i].from \in Nat /\ periods[i].to \in Nat /\ periods[i].to <= LastDay
  BY RowDays, Constants DEF Days
<1>2. \E d \in {periods[i].from : i \in R} : \A i \in R : d <= periods[i].from
  <2>1. {periods[i].from : i \in R} \in SUBSET Nat /\ {periods[i].from : i \in R} # {}
    BY <1>1
  <2>2. \E d \in {periods[i].from : i \in R} : \A c \in {periods[i].from : i \in R} : d <= c
    BY <2>1, LeastNat
  <2> QED
    BY <2>2
<1>3. \E d \in {periods[i].to : i \in R} : \A i \in R : d >= periods[i].to
  <2> DEFINE T == {LastDay - periods[i].to : i \in R}
  <2>1. T \in SUBSET Nat /\ T # {} /\ LastDay \in Nat
    BY <1>1, GiftAssumption DEF GiftAssumption
  <2> HIDE DEF T
  <2>2. PICK d \in T : \A c \in T : d <= c
    BY <2>1, LeastNat
  <2> USE DEF T
  <2>3. PICK j \in R : d = LastDay - periods[j].to
    OBVIOUS
  <2>4. \A i \in R : LastDay - periods[j].to <= LastDay - periods[i].to
    BY <2>2, <2>3
  <2>5. \A i \in R : periods[j].to >= periods[i].to
    BY <1>1, <2>1, <2>4
  <2> QED
    BY <2>5
<1> QED
  BY <1>1, <1>2, <1>3 DEF FirstDay, LastDayOf

LEMMA BannerInit == Init => BannerInv
<1>1. Asleep \in Reading /\ Reads(Asleep)
  BY DEF Asleep, Reading, Reads
<1> QED
  BY <1>1 DEF Init, BannerInv, MemoInv

\* A step of one reader that leaves the table alone.
LEMMA OneReader ==
    ASSUME BannerInv, NEW b \in Readers, NEW r \in Reading, Reads(r),
           reader' = [reader EXCEPT ![b] = r], UNCHANGED periods, MemoInv'
    PROVE  BannerInv'
<1>1. \A c \in Readers : reader'[c] = IF c = b THEN r ELSE reader[c]
  BY DEF BannerInv
<1>2. \A c \in Readers : Reads(reader'[c])
  BY <1>1 DEF BannerInv
<1>3. \A c \in Readers : Reads(reader[c])' <=> Reads(reader'[c])
  BY DEF Reads, Runs, PausedKeys, Fits, Rows
<1>4. reader' \in [Readers -> Reading]
  BY DEF BannerInv
<1> QED
  BY <1>2, <1>3, <1>4 DEF BannerInv

LEMMA ReadsKeep == ASSUME IInv, BannerInv, Banner PROVE BannerInv'
<1>1. ASSUME NEW b \in Readers, AskBanner(b) PROVE BannerInv'
  <2> DEFINE r == [Asleep EXCEPT !.pc = "period", !.day = today]
  <2>1. r \in Reading /\ Reads(r)
    BY DEF Asleep, Reading, Reads, IInv, Shape
  <2>2. MemoInv' /\ reader' = [reader EXCEPT ![b] = r] /\ UNCHANGED periods
    BY <1>1 DEF AskBanner, BannerInv, MemoInv
  <2> QED
    BY <2>1, <2>2, OneReader
<1>2. ASSUME NEW b \in Readers, ReadPeriod(b) PROVE BannerInv'
  <2>0. MemoInv' /\ UNCHANGED periods /\ reader[b] \in Reading /\ Reads(reader[b])
    BY <1>2 DEF ReadPeriod, BannerInv, MemoInv
  <2>1. ASSUME NEW i \in Newest(Current(reader[b].day)),
               reader' = [reader EXCEPT ![b].pc = "span", ![b].period = i, ![b].row = periods[i],
                             ![b].key = periods[i].key, ![b].torn = FALSE]
        PROVE  BannerInv'
    <3> DEFINE r == [reader[b] EXCEPT !.pc = "span", !.period = i, !.row = periods[i],
                                      !.key = periods[i].key, !.torn = FALSE]
    <3>1. i \in Rows(periods) /\ periods[i].from <= reader[b].day /\ periods[i].to >= reader[b].day
      BY DEF Newest, Current, Started
    <3>2. i \in Ids /\ periods[i] \in Periods /\ periods[i].key \in Keys
          /\ periods[i].from \in Nat /\ periods[i].to \in Nat
      BY <3>1, RowDays DEF Periods
    <3>3. /\ r \in Reading /\ r.pc = "span" /\ r.period = i /\ r.row = periods[i]
          /\ r.key = periods[i].key /\ r.day = reader[b].day /\ r.behind = reader[b].behind
          /\ r.day \in Nat /\ i # 0
      BY <2>0, <3>2, Constants DEF Reading
    <3>4. reader' = [reader EXCEPT ![b] = r]
      BY <2>1 DEF BannerInv
    <3> HIDE DEF r
    <3>5. Reads(r)
      BY <2>0, <3>1, <3>2, <3>3 DEF Reads, Runs
    <3> QED
      BY <2>0, <3>3, <3>4, <3>5, OneReader
  <2>2. ASSUME reader' = [reader EXCEPT ![b].pc = "key", ![b].torn = FALSE]
        PROVE  BannerInv'
    <3> DEFINE r == [reader[b] EXCEPT !.pc = "key", !.torn = FALSE]
    <3>1. /\ r \in Reading /\ r.pc = "key" /\ r.period = reader[b].period /\ r.key = reader[b].key
          /\ r.behind = reader[b].behind
      BY <2>0 DEF Reading
    <3>2. reader' = [reader EXCEPT ![b] = r] /\ reader[b].pc = "period"
      BY <1>2, <2>2 DEF BannerInv, ReadPeriod
    <3> HIDE DEF r
    <3>3. Reads(r)
      BY <2>0, <3>1, <3>2 DEF Reads
    <3> QED
      BY <2>0, <3>1, <3>2, <3>3, OneReader
  <2> QED
    BY <1>2, <2>1, <2>2 DEF ReadPeriod
<1>3. ASSUME NEW b \in Readers, ReadPausedKey(b) PROVE BannerInv'
  <2>0. /\ MemoInv' /\ UNCHANGED periods /\ reader[b] \in Reading /\ Reads(reader[b])
        /\ reader[b].pc = "key" /\ reader[b].period = 0 /\ reader[b].key = "none"
    BY <1>3 DEF ReadPausedKey, BannerInv, MemoInv, Reads
  <2>1. ASSUME NEW k \in PausedKeys(reader[b].day),
               reader' = [reader EXCEPT ![b].pc = "span", ![b].key = k]
        PROVE  BannerInv'
    <3> DEFINE r == [reader[b] EXCEPT !.pc = "span", !.key = k]
    <3>1. k \in Keys
      BY RowDays DEF PausedKeys, Periods
    <3>2. /\ r \in Reading /\ r.pc = "span" /\ r.period = 0 /\ r.key = k /\ r.day = reader[b].day
          /\ r.behind = reader[b].behind
      BY <2>0, <3>1 DEF Reading
    <3>3. reader' = [reader EXCEPT ![b] = r]
      BY <2>1 DEF BannerInv
    <3> HIDE DEF r
    <3>4. Reads(r)
      BY <2>0, <3>2 DEF Reads
    <3> QED
      BY <2>0, <3>2, <3>3, <3>4, OneReader
  <2>2. ASSUME reader' = [reader EXCEPT ![b].pc = "store"]
        PROVE  BannerInv'
    <3> DEFINE r == [reader[b] EXCEPT !.pc = "store"]
    <3>1. /\ r \in Reading /\ r.pc = "store" /\ r.period = 0 /\ r.key = "none"
          /\ r.behind = reader[b].behind
      BY <2>0 DEF Reading
    <3>2. reader' = [reader EXCEPT ![b] = r]
      BY <2>2 DEF BannerInv
    <3> HIDE DEF r
    <3>3. Reads(r)
      BY <2>0, <3>1 DEF Reads, Fits
    <3> QED
      BY <2>0, <3>1, <3>2, <3>3, OneReader
  <2> QED
    BY <1>3, <2>1, <2>2 DEF ReadPausedKey
<1>4. ASSUME NEW b \in Readers, ReadSpan(b) PROVE BannerInv'
  <2> DEFINE R == {i \in Rows(periods) : periods[i].key = reader[b].key}
             from == IF R = {} THEN 0 ELSE FirstDay(R)
             to == IF R = {} THEN 0 ELSE LastDayOf(R)
             r == [reader[b] EXCEPT !.pc = "store", !.from = from, !.to = to]
  <2>0. /\ MemoInv' /\ UNCHANGED periods /\ reader[b] \in Reading /\ Reads(reader[b])
        /\ reader[b].pc = "span"
    BY <1>4 DEF ReadSpan, BannerInv, MemoInv
  <2>1. from \in Nat /\ to \in Nat
    BY SpanOf
  <2>2. \A i \in R : from <= periods[i].from /\ to >= periods[i].to
    BY SpanOf
  <2>3. reader' = [reader EXCEPT ![b] = r]
    BY <1>4 DEF ReadSpan, BannerInv
  <2> HIDE DEF from, to
  <2>4. /\ r \in Reading /\ r.pc = "store" /\ r.from = from /\ r.to = to /\ r.day = reader[b].day
        /\ r.period = reader[b].period /\ r.row = reader[b].row /\ r.key = reader[b].key
        /\ r.torn = reader[b].torn /\ r.behind = reader[b].behind /\ r.day \in Nat
    BY <2>0, <2>1 DEF Reading
  <2> HIDE DEF r
  <2>5. ASSUME ~r.torn, r.period # 0 PROVE Fits(r)
    <3>1. Runs(reader[b])
      BY <2>0, <2>4, <2>5 DEF Reads
    <3>2. r.period \in R /\ r.row = periods[r.period] /\ r.row.from <= r.day /\ r.day <= r.row.to
      BY <2>4, <3>1 DEF Runs
    <3> QED
      BY <2>2, <2>4, <2>5, <3>2 DEF Fits
  <2>6. ASSUME ~r.torn, r.period = 0 PROVE Fits(r)
    <3>1. reader[b].key \in PausedKeys(r.day)
      BY <2>0, <2>4, <2>6 DEF Reads
    <3>2. PICK i \in R, j \in R : periods[i].to < r.day /\ periods[j].from > r.day
      BY <3>1 DEF PausedKeys
    <3>3. /\ periods[i].from \in Nat /\ periods[i].to \in Nat /\ periods[i].from <= periods[i].to
          /\ periods[j].from \in Nat /\ periods[j].to \in Nat /\ periods[j].from <= periods[j].to
      BY <3>2, RowDays
    <3>4. from <= periods[i].from /\ to >= periods[j].to
      BY <2>2
    <3>5. r.from < r.day /\ r.day < r.to
      BY <2>1, <2>4, <3>2, <3>3, <3>4
    <3> QED
      BY <2>6, <3>5 DEF Fits
  <2>7. Reads(r)
    BY <2>0, <2>4, <2>5, <2>6 DEF Reads
  <2> QED
    BY <2>0, <2>3, <2>4, <2>7, OneReader
<1>5. ASSUME NEW b \in Readers, Store(b) PROVE BannerInv'
  <2>0. reader[b] \in Reading /\ Reads(reader[b]) /\ reader[b].pc = "store"
    BY <1>5 DEF Store, BannerInv
  <2> DEFINE m == [reader[b] EXCEPT !.pc = "kept"]
  <2>1. /\ m \in Reading /\ m.behind = {} /\ m.torn = reader[b].torn /\ m.from = reader[b].from
        /\ m.to = reader[b].to /\ m.day = reader[b].day /\ m.row = reader[b].row
        /\ m.period = reader[b].period /\ m.key = reader[b].key
    BY <2>0 DEF Reading, Reads
  <2>2. memo' = m
    BY <1>5 DEF Store
  <2> HIDE DEF m
  <2>3. ~m.torn => Fits(m)
    BY <2>0, <2>1 DEF Reads, Fits
  <2>4. MemoInv'
    <3>1. memo' \in Reading /\ memo'.behind = {} /\ (~memo'.torn => Fits(memo'))
      BY <2>1, <2>2, <2>3
    <3>2. Fits(memo') <=> Fits(memo)'
      BY DEF Fits
    <3> QED
      BY <3>1, <3>2 DEF MemoInv
  <2>5. Asleep \in Reading /\ Reads(Asleep)
    BY DEF Asleep, Reading, Reads
  <2> QED
    BY <1>5, <2>4, <2>5, OneReader DEF Store
<1> QED
  BY <1>1, <1>2, <1>3, <1>4, <1>5 DEF Banner

\* A commit marks the banners under way, and the memo, until it is emptied.
LEMMA CommitBanner == ASSUME IInv, BannerInv, NEW e \in Editors, Commit(e) PROVE BannerInv'
<1>1. /\ edit[e].pc = "write" /\ edit[e] \in Edits
      /\ reader' = [b \in Readers |-> IF reader[b].pc = "idle" THEN reader[b]
                                      ELSE [reader[b] EXCEPT !.torn = TRUE]]
      /\ memo' = IF memo = NoMemo THEN memo ELSE [memo EXCEPT !.behind = @ \cup {e}]
  BY DEF Commit, IInv, Shape
<1>2. \A x \in Editors : x = e \/ edit[x].pc = "clear" => edit'[x].pc = "clear"
  <2>1. \A x \in Editors \ {e} : edit[x].pc # "write" => edit'[x] = edit[x]
    BY DEF Commit
  <2>2. edit'[e].pc = "clear"
    BY <1>1 DEF Commit, Edits
  <2> QED
    BY <2>1, <2>2
<1>3. ASSUME NEW b \in Readers PROVE reader'[b] \in Reading /\ Reads(reader[b])'
  <2>1. reader[b] \in Reading /\ Reads(reader[b])
    BY DEF BannerInv
  <2>2. CASE reader[b].pc = "idle"
    BY <1>1, <2>1, <2>2 DEF Reads
  <2>3. CASE reader[b].pc # "idle"
    <3> DEFINE r == [reader[b] EXCEPT !.torn = TRUE]
    <3>1. /\ r \in Reading /\ r.torn /\ r.pc = reader[b].pc /\ r.period = reader[b].period
          /\ r.key = reader[b].key /\ r.behind = reader[b].behind
      BY <2>1 DEF Reading
    <3>2. reader'[b] = r
      BY <1>1, <2>3
    <3> HIDE DEF r
    <3> QED
      BY <2>1, <3>1, <3>2 DEF Reads
  <2> QED
    BY <2>2, <2>3
<1>4. MemoInv'
  <2> SUFFICES ASSUME memo # NoMemo PROVE MemoInv'
    BY <1>1 DEF MemoInv
  <2> DEFINE m == [memo EXCEPT !.behind = @ \cup {e}]
  <2>1. memo \in Reading /\ (~memo.torn => Fits(memo))
    BY DEF BannerInv, MemoInv
  <2>2. /\ m \in Reading /\ m.behind = memo.behind \cup {e} /\ m.torn = memo.torn
        /\ m.from = memo.from /\ m.to = memo.to /\ m.day = memo.day /\ m.row = memo.row
        /\ m.period = memo.period /\ m.key = memo.key
    BY <2>1 DEF Reading
  <2>3. memo' = m
    BY <1>1
  <2> HIDE DEF m
  <2>4. ~m.torn => Fits(m)
    BY <2>1, <2>2 DEF Fits
  <2>5. \A x \in m.behind \cap Near : edit'[x].pc = "clear"
    BY <1>2, <2>2, GiftAssumption DEF BannerInv, MemoInv, GiftAssumption
  <2>6. Fits(memo)' <=> Fits(m)
    BY <2>3 DEF Fits
  <2> QED
    BY <2>2, <2>3, <2>4, <2>5, <2>6 DEF MemoInv
<1>5. reader' \in [Readers -> Reading]
  BY <1>1, <1>3
<1> QED
  BY <1>3, <1>4, <1>5 DEF BannerInv

LEMMA BannerPreserved == ASSUME IInv, BannerInv, [Next]_vars PROVE BannerInv'
<1>1. ASSUME UNCHANGED <<periods, reader>>, MemoInv' PROVE BannerInv'
  <2>1. \A b \in Readers : Reads(reader[b])' <=> Reads(reader[b])
    BY <1>1 DEF Reads, Runs, PausedKeys, Fits, Rows
  <2> QED
    BY <1>1, <2>1 DEF BannerInv
<1>2. CASE Midnight \/ Take \/ UNCHANGED vars
  <2>1. UNCHANGED <<periods, reader, memo, edit>>
    BY <1>2 DEF Midnight, Take, Eligible, Attribute, Record, GiveUp, vars
  <2>2. MemoInv'
    BY <2>1 DEF BannerInv, MemoInv, Fits
  <2> QED
    BY <1>1, <2>1, <2>2
<1>3. CASE Expire
  BY <1>1, <1>3 DEF Expire, MemoInv
<1>4. ASSUME NEW e \in Editors, edit[e].pc # "clear", NEW w, edit' = [edit EXCEPT ![e] = w],
             UNCHANGED <<periods, reader, memo>>
      PROVE  BannerInv'
  <2>1. \A x \in Editors : edit[x].pc = "clear" => edit'[x] = edit[x]
    BY <1>4 DEF IInv, Shape
  <2>2. MemoInv'
    BY <1>4, <2>1, GiftAssumption DEF BannerInv, MemoInv, Fits, GiftAssumption
  <2> QED
    BY <1>1, <1>4, <2>2
<1>5. ASSUME NEW e \in Editors, Clear(e) PROVE BannerInv'
  <2>1. edit' = [edit EXCEPT ![e] = [Idle EXCEPT !.pc = "done"]] /\ UNCHANGED <<periods, reader>>
        /\ memo' = IF e \in Near THEN NoMemo ELSE memo
    BY <1>5 DEF Clear
  <2>2. \A x \in Near : x = e \/ edit'[x] = edit[x]
    BY <2>1, GiftAssumption DEF GiftAssumption, IInv, Shape
  <2>3. MemoInv'
    BY <2>1, <2>2 DEF BannerInv, MemoInv, Fits
  <2> QED
    BY <1>1, <2>1, <2>3
<1>6. ASSUME NEW e \in Editors, NEW i \in Ids, NEW q \in Periods, LookUpdate(e, i, q) PROVE BannerInv'
  <2>1. edit' = [edit EXCEPT ![e] = [edit[e] EXCEPT !.pc = "write", !.id = i, !.new = q]]
    BY <1>6 DEF LookUpdate, IInv, Shape
  <2> QED
    BY <1>4, <1>6, <2>1 DEF LookUpdate
<1>7. CASE Administrate
  BY <1>4, <1>5, <1>6, <1>7, CommitBanner DEF Administrate, LookAdd, AskUpdate, LookDelete, Reject
<1> QED
  BY <1>2, <1>3, <1>7, ReadsKeep DEF Next

\* The days a banner gives fit together unless an edit was committed between its
\* reads, and no edit of the same server is done while the memo is of the table
\* before it (_EVENT_MEMO, register_giftcard.event).
THEOREM BannerExplainedHolds == Spec => []BannerExplained
<1>1. IInv /\ BannerInv => BannerExplained
  BY DEF BannerInv, MemoInv, Fits, BannerExplained
<1>2. IInv /\ BannerInv /\ [Next]_vars => BannerInv'
  BY BannerPreserved
<1> QED
  BY <1>1, <1>2, BannerInit, IInvHolds, PTL DEF Spec

-----------------------------------------------------------------------------
(* Signing in. *)

Asks == [pc : {"idle", "read", "reserve", "count", "unreserve", "verify", "open", "clean",
               "change", "done"},
         kind : {"login", "change"}, session : Requests \cup {"none"},
         since : Nat, hash : Nat, right : BOOLEAN]

(* Why it holds: the attempt whose count ran last saw every booking that    *)
(* counts now, since a request books before it counts and the baseline only *)
(* moves forward; what it saw was within the limit.                         *)
AttemptInv ==
    /\ LoginTypeOK
    /\ IsFiniteSet(failed)
    /\ \A a \in Requests : request[a].since <= changedAt
    /\ \A a \in Requests : request[a].pc \in {"idle", "read", "reserve", "count"} => a \notin passed
    /\ AttemptsBounded

(* The guesses that count are finitely many, and so a smaller set of them   *)
(* stays within the limit: all steps but the count only make the set        *)
(* smaller.                                                                 *)
LEMMA FewerGuesses ==
    ASSUME AttemptInv, LoginTypeOK', Guesses' \subseteq Guesses
    PROVE  AttemptsBounded'
<1>1. IsFiniteSet(Guesses)
  BY FS_Subset, Guesses \subseteq failed DEF AttemptInv, Guesses
<1>2. IsFiniteSet(Guesses') /\ Cardinality(Guesses') <= Cardinality(Guesses)
  BY <1>1, FS_Subset
<1>3. Cardinality(Guesses) \in Nat /\ Cardinality(Guesses') \in Nat
  BY <1>1, <1>2, FS_CardinalityType
<1> QED
  BY <1>2, <1>3, LoginAssumption DEF AttemptInv, AttemptsBounded, LoginAssumption

LEMMA AttemptInvInit == LoginInit => AttemptInv
<1> SUFFICES ASSUME LoginInit PROVE AttemptInv
  OBVIOUS
<1>1. LoginTypeOK
  BY DEF LoginInit, LoginTypeOK, NotAsked
<1>2. Guesses = {}
  BY DEF LoginInit, Guesses
<1>3. AttemptsBounded
  BY <1>2, FS_EmptySet, LoginAssumption DEF AttemptsBounded, LoginAssumption
<1> QED
  BY <1>1, <1>3, FS_EmptySet DEF LoginInit, AttemptInv, NotAsked

LEMMA TypePreserved == ASSUME AttemptInv, [LoginNext]_loginVars PROVE LoginTypeOK'
<1> USE DEF AttemptInv, LoginTypeOK
<1>1. ASSUME NEW a \in Requests, NEW right \in BOOLEAN, Read(a, right) PROVE LoginTypeOK'
  <2>1. request \in [Requests -> Asks] /\ changedAt \in Nat /\ password \in Nat
    BY DEF Asks
  <2>2. \A w \in Asks :
          [w EXCEPT !.pc = "reserve", !.since = changedAt, !.hash = password, !.right = right] \in Asks
    BY <2>1 DEF Asks
  <2>3. request' = [request EXCEPT ![a] =
                      [request[a] EXCEPT !.pc = "reserve", !.since = changedAt,
                                         !.hash = password, !.right = right]]
    BY <1>1 DEF Read
  <2>4. request' \in [Requests -> Asks]
    <3> HIDE DEF AttemptInv, LoginTypeOK
    <3> QED BY <2>1, <2>2, <2>3
  <2>5. UNCHANGED <<now, failed, lastOk, changedAt, password, sessions, passed>>
    BY <1>1 DEF Read
  <2> QED BY <2>4, <2>5 DEF Asks
<1>a. ASSUME NEW a \in Requests, NEW s \in Requests, Admit(a, s) PROVE LoginTypeOK'
  BY <1>a DEF Admit, NotAsked, At
<1>2. ASSUME NEW a \in Requests, Reserve(a) PROVE LoginTypeOK'
  BY <1>2 DEF Reserve, At, GoTo
<1>3. ASSUME NEW a \in Requests, Count(a) PROVE LoginTypeOK'
  <2>1. request' \in [Requests -> Asks]
    <3>1. CASE Cardinality(Counted(a)) > MaxFailures
      BY <1>3, <3>1 DEF Count, At, GoTo, Asks
    <3>2. CASE ~(Cardinality(Counted(a)) > MaxFailures)
      BY <1>3, <3>2 DEF Count, At, GoTo, Asks
    <3> QED BY <3>1, <3>2
  <2> QED BY <1>3, <2>1 DEF Count, Asks
<1>4. ASSUME NEW a \in Requests, Unreserve(a) PROVE LoginTypeOK'
  BY <1>4 DEF Unreserve, Cancelled, At, GoTo
<1>5. ASSUME NEW a \in Requests, Verify(a) PROVE LoginTypeOK'
  BY <1>5 DEF Verify, At, GoTo
<1>6. ASSUME NEW a \in Requests, Open(a) PROVE LoginTypeOK'
  BY <1>6 DEF Open, Cancelled, At, GoTo
<1>7. ASSUME NEW a \in Requests, Clean(a) PROVE LoginTypeOK'
  BY <1>7 DEF Clean, Cancelled, At, GoTo
<1>8. ASSUME NEW a \in Requests, Change(a) PROVE LoginTypeOK'
  BY <1>8 DEF Change, Kept, At, GoTo
<1>9. ASSUME NEW a \in Requests, Stop(a) PROVE LoginTypeOK'
  BY <1>9 DEF Stop, At, GoTo
<1>10. CASE Reset
  BY <1>10 DEF Reset
<1>11. CASE Tick
  BY <1>11 DEF Tick
<1>12. ASSUME NEW x \in sessions, EndSession(x) PROVE LoginTypeOK'
  BY <1>12 DEF EndSession
<1>13. CASE UNCHANGED loginVars
  BY <1>13 DEF loginVars
<1> HIDE DEF AttemptInv, LoginTypeOK
<1>14. ASSUME NEW a \in Requests, Attempt(a) PROVE LoginTypeOK'
  BY <1>1, <1>a, <1>2, <1>3, <1>4, <1>5, <1>6, <1>7, <1>8, <1>9, <1>14 DEF Attempt
<1> QED
  BY <1>10, <1>11, <1>12, <1>13, <1>14 DEF LoginNext

LEMMA AttemptInvStep == AttemptInv /\ [LoginNext]_loginVars => AttemptInv'
<1> SUFFICES ASSUME AttemptInv, [LoginNext]_loginVars PROVE AttemptInv'
  OBVIOUS
<1>t. LoginTypeOK'
  BY TypePreserved
<1> USE <1>t DEF AttemptInv
<1>1. ASSUME NEW a \in Requests, NEW right \in BOOLEAN, Read(a, right) PROVE AttemptInv'
  <2>1. AttemptsBounded'
    BY <1>1, FewerGuesses DEF Read, Guesses, Recent
  <2> QED
    BY <1>1, <2>1 DEF Read, At, LoginTypeOK
<1>a. ASSUME NEW a \in Requests, NEW s \in Requests, Admit(a, s) PROVE AttemptInv'
  <2>1. AttemptsBounded'
    BY <1>a, FewerGuesses DEF Admit, Guesses, Recent
  <2> QED
    BY <1>a, <2>1 DEF Admit, NotAsked, At, LoginTypeOK
<1>2. ASSUME NEW a \in Requests, Reserve(a) PROVE AttemptInv'
  <2>1. a \notin passed
    BY <1>2 DEF Reserve, At
  <2>2. Guesses' \subseteq Guesses
    BY <1>2, <2>1 DEF Reserve, Guesses, Recent
  <2>3. AttemptsBounded'
    BY <2>2, FewerGuesses
  <2>4. IsFiniteSet(failed')
    BY <1>2, FS_AddElement DEF Reserve
  <2> QED
    BY <1>2, <2>3, <2>4 DEF Reserve, At, GoTo, LoginTypeOK
<1>3. ASSUME NEW a \in Requests, Count(a) PROVE AttemptInv'
  <2>1. AttemptsBounded'
    <3>1. CASE Cardinality(Counted(a)) > MaxFailures
      <4>1. Guesses' \subseteq Guesses
        BY <1>3, <3>1 DEF Count, Guesses, Recent
      <4> QED BY <4>1, FewerGuesses
    <3>2. CASE ~(Cardinality(Counted(a)) > MaxFailures)
      <4>1. Guesses' \subseteq Counted(a)
        BY <1>3 DEF Count, Guesses, Recent, Counted, LoginTypeOK
      <4>2. IsFiniteSet(Counted(a))
        BY FS_Subset, Counted(a) \subseteq failed DEF Counted
      <4>3. IsFiniteSet(Guesses') /\ Cardinality(Guesses') <= Cardinality(Counted(a))
        BY <4>1, <4>2, FS_Subset
      <4>4. Cardinality(Guesses') \in Nat /\ Cardinality(Counted(a)) \in Nat
        BY <4>2, <4>3, FS_CardinalityType
      <4> QED
        BY <3>2, <4>3, <4>4, LoginAssumption DEF AttemptsBounded, LoginAssumption
    <3> QED BY <3>1, <3>2
  <2>2. /\ \A b \in Requests : request'[b].since = request[b].since
        /\ \A b \in Requests : b # a => request'[b].pc = request[b].pc
        /\ request'[a].pc \notin {"idle", "read", "reserve", "count"}
    <3>1. CASE Cardinality(Counted(a)) > MaxFailures
      BY <1>3, <3>1 DEF Count, GoTo, LoginTypeOK
    <3>2. CASE ~(Cardinality(Counted(a)) > MaxFailures)
      BY <1>3, <3>2 DEF Count, GoTo, LoginTypeOK
    <3> QED BY <3>1, <3>2
  <2>3. passed' \subseteq passed \cup {a} /\ UNCHANGED <<failed, changedAt>>
    BY <1>3 DEF Count
  <2> QED
    BY <2>1, <2>2, <2>3
<1>4. ASSUME NEW a \in Requests,
             \/ Unreserve(a) \/ Clean(a)
      PROVE  AttemptInv'
  <2>1. failed' \subseteq failed
    BY <1>4 DEF Unreserve, Clean, Cancelled
  <2>2. Guesses' \subseteq Guesses
    BY <1>4, <2>1 DEF Unreserve, Clean, Guesses, Recent
  <2>3. AttemptsBounded' /\ IsFiniteSet(failed')
    BY <2>1, <2>2, FewerGuesses, FS_Subset
  <2> QED
    BY <1>4, <2>3 DEF Unreserve, Clean, At, GoTo, LoginTypeOK
<1>5. ASSUME NEW a \in Requests, Verify(a) PROVE AttemptInv'
  <2>1. AttemptsBounded'
    BY <1>5, FewerGuesses DEF Verify, Guesses, Recent
  <2> QED
    BY <1>5, <2>1 DEF Verify, At, GoTo, LoginTypeOK
<1>6. ASSUME NEW a \in Requests, Open(a) PROVE AttemptInv'
  <2>1. failed' \subseteq failed
    BY <1>6 DEF Open, Cancelled
  <2>2. Guesses' \subseteq Guesses
    BY <1>6, <2>1 DEF Open, Guesses, Recent, LoginTypeOK
  <2>3. AttemptsBounded' /\ IsFiniteSet(failed')
    BY <2>1, <2>2, FewerGuesses, FS_Subset
  <2> QED
    BY <1>6, <2>3 DEF Open, At, GoTo, LoginTypeOK
<1>7. ASSUME NEW a \in Requests, Change(a) PROVE AttemptInv'
  <2>1. Guesses' \subseteq Guesses
    BY <1>7 DEF Change, Guesses, Recent, LoginTypeOK
  <2>2. AttemptsBounded'
    BY <2>1, FewerGuesses
  <2> QED
    BY <1>7, <2>2 DEF Change, At, GoTo, LoginTypeOK
<1>8. ASSUME NEW a \in Requests, Stop(a) PROVE AttemptInv'
  <2>1. AttemptsBounded'
    BY <1>8, FewerGuesses DEF Stop, Guesses, Recent
  <2> QED
    BY <1>8, <2>1 DEF Stop, At, GoTo, LoginTypeOK
<1>9. CASE Reset
  <2>1. Guesses' \subseteq Guesses
    BY <1>9 DEF Reset, Guesses, Recent, LoginTypeOK
  <2>2. AttemptsBounded'
    BY <2>1, FewerGuesses
  <2> QED
    BY <1>9, <2>2 DEF Reset, LoginTypeOK
<1>10. CASE Tick
  <2>1. Guesses' \subseteq Guesses
    BY <1>10, LoginAssumption DEF Tick, Guesses, Recent, LoginTypeOK, LoginAssumption
  <2>2. AttemptsBounded'
    BY <2>1, FewerGuesses
  <2> QED
    BY <1>10, <2>2 DEF Tick
<1>11. ASSUME NEW x \in sessions, EndSession(x) PROVE AttemptInv'
  <2>1. AttemptsBounded'
    BY <1>11, FewerGuesses DEF EndSession, Guesses, Recent
  <2> QED
    BY <1>11, <2>1 DEF EndSession
<1>12. CASE UNCHANGED loginVars
  <2>1. AttemptsBounded'
    BY <1>12, FewerGuesses DEF loginVars, Guesses, Recent
  <2> QED
    BY <1>12, <2>1 DEF loginVars
<1> HIDE DEF AttemptInv
<1>13. ASSUME NEW a \in Requests, Attempt(a) PROVE AttemptInv'
  BY <1>1, <1>a, <1>2, <1>3, <1>4, <1>5, <1>6, <1>7, <1>8, <1>13 DEF Attempt
<1> QED
  BY <1>9, <1>10, <1>11, <1>12, <1>13 DEF LoginNext

\* Everything the model keeps has its type (the tables and requests of admin_auth.py).
THEOREM LoginTypes == LoginSpec => []LoginTypeOK
<1>1. AttemptInv => LoginTypeOK
  BY DEF AttemptInv
<1> QED
  BY <1>1, AttemptInvInit, AttemptInvStep, PTL DEF LoginSpec

\* The limit of _attempt holds for every number of concurrent requests.
THEOREM LimitHolds == LoginSpec => []AttemptsBounded
<1>1. AttemptInv => AttemptsBounded
  BY DEF AttemptInv
<1> QED
  BY <1>1, AttemptInvInit, AttemptInvStep, PTL DEF LoginSpec

(* The sessions that are left.  Only two steps add to them or change one: a *)
(* login records the password that holds when it ends, and a change puts    *)
(* its own mark on the one session it keeps.                                *)
LEMMA SessionsStep == AttemptInv /\ OldSessionsEnd /\ [LoginNext]_loginVars => OldSessionsEnd'
<1> SUFFICES ASSUME AttemptInv, OldSessionsEnd, [LoginNext]_loginVars PROVE OldSessionsEnd'
  OBVIOUS
<1> USE DEF OldSessionsEnd
<1>1. CASE UNCHANGED password /\ sessions' \subseteq sessions
  BY <1>1
<1>2. ASSUME NEW a \in Requests, Open(a) PROVE OldSessionsEnd'
  <2>1. UNCHANGED password
    BY <1>2 DEF Open
  <2>2. \A x \in sessions' : x \in sessions \/ x.born = password
    BY <1>2 DEF Open
  <2> QED BY <2>1, <2>2
<1>3. ASSUME NEW a \in Requests, Change(a) PROVE OldSessionsEnd'
  <2>1. ASSUME NEW x \in sessions' PROVE x.by = password'
    <3>1. PICK y \in Kept(request[a].session) :
            x = IF y.of = request[a].session THEN [y EXCEPT !.by = password + 1] ELSE y
      BY <1>3, <2>1 DEF Change
    <3>2. y.of = request[a].session /\ y \in [of : Requests, hash : Nat, born : Nat, by : Nat]
      BY <3>1 DEF Kept, AttemptInv, LoginTypeOK
    <3> QED BY <1>3, <3>1, <3>2 DEF Change
  <2> QED BY <2>1
<1>4. CASE Reset
  BY <1>4 DEF Reset
<1>5. CASE Tick \/ UNCHANGED loginVars \/ \E x \in sessions : EndSession(x)
  BY <1>1, <1>5 DEF Tick, EndSession, loginVars
<1>6. ASSUME NEW a \in Requests, Attempt(a) PROVE OldSessionsEnd'
  <2>1. CASE Open(a) \/ Change(a)
    BY <1>2, <1>3, <2>1
  <2>2. CASE ~Open(a) /\ ~Change(a)
    BY <1>1, <1>6, <2>2 DEF Attempt, Admit, Read, Reserve, Count, Unreserve, Verify, Clean, Stop
  <2> QED BY <2>1, <2>2
<1> QED
  BY <1>4, <1>5, <1>6 DEF LoginNext

\* Whatever signs in, changes and resets: a session opened with an earlier password
\* is the one that changed it, or its login was on its way (change_password).
THEOREM OldSessionsEndHolds == LoginSpec => []OldSessionsEnd
<1>1. LoginInit => OldSessionsEnd
  BY DEF LoginInit, OldSessionsEnd
<1> QED
  BY <1>1, AttemptInvInit, AttemptInvStep, SessionsStep, PTL DEF LoginSpec
=============================================================================
