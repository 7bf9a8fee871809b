------------------------------ MODULE GiftPeriods ------------------------------
(***************************************************************************)
(* The gift card event (giftcard.py): periods that administrators add,      *)
(* change and delete, the banner put together from three reads and kept in  *)
(* a memo of the process, and members who are told of a period and whose    *)
(* results are booked on one.                                               *)
(*                                                                          *)
(* Edits are transactions: the row is locked, other rows are looked up by a *)
(* plain read, and the write is seen by others when it commits.  Days pass  *)
(* at any moment.  The number of the gift card and the audit are left out.  *)
(***************************************************************************)
EXTENDS Integers, FiniteSets

CONSTANTS
    Keys,       \* names of events
    Editors,    \* requests of administrators
    Near,       \* those served by the process whose memo is modelled
    Readers,    \* requests of the banner, served by that process
    Members,
    LastDay,    \* bound of the runs: days
    MaxRows     \* bound of the runs: periods ever added

ASSUME GiftAssumption ==
    LastDay \in Nat \ {0} /\ MaxRows \in Nat /\ Near \subseteq Editors

VARIABLES
    today,
    periods,    \* the table giftcard_period
    edit,       \* what each request of an administrator has done so far
    reader,     \* what each request of the banner has read so far
    memo,       \* _EVENT_MEMO
    member,     \* what each member was told and is doing
    results,    \* the table giftcard_issue
    raced,      \* history: pairs of rows written by edits that overlapped in time
    gone,       \* history: deleted rows
    late        \* history: rows written by an edit judged on an earlier day

vars == <<today, periods, edit, reader, memo, member, results, raced, gone, late>>

Days    == 1 .. LastDay
Ids     == 1 .. MaxRows
Free    == [key |-> "none", from |-> 0, to |-> 0]
Spans   == {s \in Days \X Days : s[1] <= s[2]}
Periods == {[key |-> k, from |-> s[1], to |-> s[2]] : k \in Keys, s \in Spans}
Rows(t) == {i \in DOMAIN t : t[i] # Free}

Meet(p, q) == p.from <= q.to /\ q.from <= p.to

Idle   == [pc |-> "idle", op |-> "none", id |-> 0, asked |-> 0, new |-> Free, since |-> {}]
Asleep == [pc |-> "idle", day |-> 0, period |-> 0, row |-> Free, key |-> "none",
           from |-> 0, to |-> 0, torn |-> FALSE, behind |-> {}]
NoMemo == [Asleep EXCEPT !.pc = "empty"]
Away   == [pc |-> "away", told |-> 0, day |-> 0, booked |-> 0]

\* Any table an administrator may have left, one row short of the bound.
Init ==
    /\ today = 1
    /\ periods \in {t \in [Ids -> Periods \cup {Free}] :
                       /\ \E n \in 0 .. MaxRows - 1 : Rows(t) = 1 .. n
                       /\ \A i, j \in Rows(t) : i # j => ~Meet(t[i], t[j])}
    /\ edit = [e \in Editors |-> Idle]
    /\ reader = [b \in Readers |-> Asleep]
    /\ memo = NoMemo
    /\ member = [u \in Members |-> Away]
    /\ results = {} /\ raced = {} /\ gone = {} /\ late = {}

Midnight ==
    /\ today < LastDay /\ today' = today + 1
    /\ UNCHANGED <<periods, edit, reader, memo, member, results, raced, gone, late>>

-----------------------------------------------------------------------------
(* Administrators *)

Status(p, day) ==
    IF p.from > day THEN "scheduled" ELSE IF p.to >= day THEN "active" ELSE "ended"

\* (A mistake: periods that share only a day are not taken to overlap.)
OverlapsInside(p, except) ==
    {i \in Rows(periods) \ {except} : periods[i].from < p.to /\ p.from < periods[i].to}

Overlaps(p, except) == {i \in Rows(periods) \ {except} : Meet(periods[i], p)}

Locked(i) == \E e \in Editors : edit[e].pc = "write" /\ edit[e].op # "add" /\ edit[e].id = i

LookAdd(e, p) ==
    /\ edit[e].pc = "idle" /\ Overlaps(p, 0) = {}
    /\ edit' = [edit EXCEPT ![e] = [Idle EXCEPT !.pc = "write", !.op = "add", !.new = p]]
    /\ UNCHANGED <<today, periods, reader, memo, member, results, raced, gone, late>>

\* The day an update is judged on is read before its transaction begins.
AskUpdate(e) ==
    /\ edit[e].pc = "idle"
    /\ edit' = [edit EXCEPT ![e] = [Idle EXCEPT !.pc = "asked", !.op = "update", !.asked = today]]
    /\ UNCHANGED <<today, periods, reader, memo, member, results, raced, gone, late>>

\* What may become of a period: all of one to come, of a running one only the
\* last day, to one that is not past, and nothing of one that has ended.
Changeable(p, q, day) ==
    CASE Status(p, day) = "ended"  -> FALSE
      [] Status(p, day) = "active" -> q.key = p.key /\ q.from = p.from /\ (q.to # p.to => q.to >= day)
      [] OTHER                     -> TRUE

LookUpdate(e, i, q) ==
    /\ edit[e].pc = "asked" /\ i \in Rows(periods) /\ ~Locked(i)
    /\ periods[i] # q /\ Changeable(periods[i], q, edit[e].asked)
    /\ Overlaps(q, i) = {}
    /\ edit' = [edit EXCEPT ![e].pc = "write", ![e].id = i, ![e].new = q]
    /\ UNCHANGED <<today, periods, reader, memo, member, results, raced, gone, late>>

Deletable(p, day) == Status(p, day) = "scheduled"

LookDelete(e, i) ==
    /\ edit[e].pc = "idle" /\ i \in Rows(periods) /\ ~Locked(i)
    /\ Deletable(periods[i], today)
    /\ edit' = [edit EXCEPT ![e] = [Idle EXCEPT !.pc = "write", !.op = "delete", !.id = i,
                                                 !.asked = today]]
    /\ UNCHANGED <<today, periods, reader, memo, member, results, raced, gone, late>>

\* A rejected or failed edit is rolled back.
Reject(e) ==
    /\ edit[e].pc \in {"asked", "write"}
    /\ edit' = [edit EXCEPT ![e] = [Idle EXCEPT !.pc = "done"]]
    /\ UNCHANGED <<today, periods, reader, memo, member, results, raced, gone, late>>

NewId == 1 + Cardinality(Rows(periods)) + Cardinality(gone)

\* The write and its commit: two periods never begin on the same day.  History:
\* edits under way and banners being read note what was committed meanwhile.
Commit(e) ==
    LET w == edit[e]
        i == IF w.op = "add" THEN NewId ELSE w.id
    IN /\ w.pc = "write" /\ i \in Ids
       /\ \A j \in Rows(periods) \ {i} : periods[j].from # w.new.from
       /\ periods' = [periods EXCEPT ![i] = w.new]
       /\ edit' = [x \in Editors |->
                     IF x = e THEN [w EXCEPT !.pc = "clear", !.id = i]
                     ELSE IF edit[x].pc = "write" THEN [edit[x] EXCEPT !.since = @ \cup {i}]
                     ELSE edit[x]]
       /\ raced' = {r \in raced : i \notin r} \cup {{i, j} : j \in w.since}
       /\ gone' = IF w.op = "delete" THEN gone \cup {i} ELSE gone
       /\ late' = IF w.op # "add" /\ w.asked < today THEN late \cup {i} ELSE late
       /\ reader' = [b \in Readers |->
                       IF reader[b].pc = "idle" THEN reader[b]
                       ELSE [reader[b] EXCEPT !.torn = TRUE]]
       /\ memo' = IF memo = NoMemo THEN memo ELSE [memo EXCEPT !.behind = @ \cup {e}]
       /\ UNCHANGED <<today, member, results>>

\* The memo of the process that served the edit is emptied after the commit.
Clear(e) ==
    /\ edit[e].pc = "clear"
    /\ edit' = [edit EXCEPT ![e] = [Idle EXCEPT !.pc = "done"]]
    /\ memo' = IF e \in Near THEN NoMemo ELSE memo
    /\ UNCHANGED <<today, periods, reader, member, results, raced, gone, late>>

-----------------------------------------------------------------------------
(* The banner *)

Started(day) == {i \in Rows(periods) : periods[i].from <= day}
Current(day) == {i \in Started(day) : periods[i].to >= day}
Newest(S)    == {i \in S : \A j \in S : periods[j].from <= periods[i].from}

Expire ==
    /\ memo # NoMemo /\ memo' = NoMemo
    /\ UNCHANGED <<today, periods, edit, reader, member, results, raced, gone, late>>

\* A memo of today is given as it stands; otherwise the table is read.
AskBanner(b) ==
    /\ reader[b].pc = "idle" /\ memo.day # today
    /\ reader' = [reader EXCEPT ![b] = [Asleep EXCEPT !.pc = "period", !.day = today]]
    /\ UNCHANGED <<today, periods, edit, memo, member, results, raced, gone, late>>

ReadPeriod(b) ==
    LET now == Newest(Current(reader[b].day))
    IN /\ reader[b].pc = "period"
       /\ \/ \E i \in now :
               reader' = [reader EXCEPT ![b].pc = "span", ![b].period = i, ![b].row = periods[i],
                             ![b].key = periods[i].key, ![b].torn = FALSE]
          \/ now = {} /\ reader' = [reader EXCEPT ![b].pc = "key", ![b].torn = FALSE]
       /\ UNCHANGED <<today, periods, edit, memo, member, results, raced, gone, late>>

\* (A mistake: an event that is only to come counts as paused.)
PausedKeysAhead(day) ==
    {periods[j].key : j \in {j \in Rows(periods) : periods[j].from > day}}

\* An event is between two of its periods.
PausedKeys(day) ==
    {periods[i].key : i \in {i \in Rows(periods) : /\ periods[i].to < day
                                                   /\ \E j \in Rows(periods) :
                                                        /\ periods[j].key = periods[i].key
                                                        /\ periods[j].from > day}}

ReadPausedKey(b) ==
    /\ reader[b].pc = "key"
    /\ \/ \E k \in PausedKeys(reader[b].day) :
            reader' = [reader EXCEPT ![b].pc = "span", ![b].key = k]
       \/ PausedKeys(reader[b].day) = {} /\ reader' = [reader EXCEPT ![b].pc = "store"]
    /\ UNCHANGED <<today, periods, edit, memo, member, results, raced, gone, late>>

FirstDay(R) == CHOOSE d \in {periods[i].from : i \in R} : \A i \in R : d <= periods[i].from
LastDayOf(R) == CHOOSE d \in {periods[i].to : i \in R} : \A i \in R : d >= periods[i].to

ReadSpan(b) ==
    LET R == {i \in Rows(periods) : periods[i].key = reader[b].key}
    IN /\ reader[b].pc = "span"
       /\ reader' = [reader EXCEPT ![b].pc = "store",
                       ![b].from = IF R = {} THEN 0 ELSE FirstDay(R),
                       ![b].to = IF R = {} THEN 0 ELSE LastDayOf(R)]
       /\ UNCHANGED <<today, periods, edit, memo, member, results, raced, gone, late>>

Store(b) ==
    /\ reader[b].pc = "store"
    /\ memo' = [reader[b] EXCEPT !.pc = "kept"]
    /\ reader' = [reader EXCEPT ![b] = Asleep]
    /\ UNCHANGED <<today, periods, edit, member, results, raced, gone, late>>

-----------------------------------------------------------------------------
(* Members *)

\* The answer names the running period, unless the member has had its gift.
Eligible(u) ==
    /\ member[u].pc = "away"
    /\ \E i \in Newest(Current(today)) :
         /\ \A r \in results : ~(r.member = u /\ r.period = i)
         /\ member' = [member EXCEPT ![u] = [Away EXCEPT !.pc = "told", !.told = i, !.day = today]]
    /\ UNCHANGED <<today, periods, edit, reader, memo, results, raced, gone, late>>

\* (A mistake: a result is booked on the period that runs when it arrives, or
\* else on the one that began first.)
BookedFirst(day) == {i \in Started(day) : \A j \in Started(day) : periods[i].from <= periods[j].from}

Booked(day) == Newest(Started(day))

\* A result is booked on the period that began last; without one it is refused.
Attribute(u) ==
    /\ member[u].pc = "told"
    /\ \E i \in Booked(today) : member' = [member EXCEPT ![u].pc = "booking", ![u].booked = i]
    /\ UNCHANGED <<today, periods, edit, reader, memo, results, raced, gone, late>>

Record(u) ==
    /\ member[u].pc = "booking"
    /\ results' = results \cup {[member |-> u, period |-> member[u].booked, told |-> member[u].told,
                                  since |-> member[u].day, day |-> today]}
    /\ member' = [member EXCEPT ![u] = Away]
    /\ UNCHANGED <<today, periods, edit, reader, memo, raced, gone, late>>

GiveUp(u) ==
    /\ member[u].pc = "told"
    /\ member' = [member EXCEPT ![u] = Away]
    /\ UNCHANGED <<today, periods, edit, reader, memo, results, raced, gone, late>>

-----------------------------------------------------------------------------
Administrate ==
    \E e \in Editors :
        \/ \E p \in Periods : LookAdd(e, p)
        \/ AskUpdate(e)
        \/ \E i \in Ids, q \in Periods : LookUpdate(e, i, q)
        \/ \E i \in Ids : LookDelete(e, i)
        \/ Reject(e) \/ Commit(e) \/ Clear(e)

Banner ==
    \E b \in Readers :
        AskBanner(b) \/ ReadPeriod(b) \/ ReadPausedKey(b) \/ ReadSpan(b) \/ Store(b)

Take == \E u \in Members : Eligible(u) \/ Attribute(u) \/ Record(u) \/ GiveUp(u)

Next == Midnight \/ Administrate \/ Expire \/ Banner \/ Take

Spec == Init /\ [][Next]_vars

-----------------------------------------------------------------------------
TypeOK ==
    /\ today \in Days
    /\ periods \in [Ids -> Periods \cup {Free}]
    /\ raced \subseteq SUBSET Ids
    /\ gone \cup late \subseteq Ids
    /\ \A r \in results : r.period \in Ids /\ r.told \in Ids

\* Periods share a day only if the two edits that wrote them overlapped in time,
\* and even then they begin on different days (_reject_overlaps, uq starts_on).
OverlapOnlyByRace ==
    \A i, j \in Rows(periods) :
        i # j /\ Meet(periods[i], periods[j]) =>
            {i, j} \in raced /\ periods[i].from # periods[j].from

\* A period that began is not deleted, renamed or moved, and one that ended is
\* not touched: but for an edit judged on the day before and committed after
\* midnight.
StartedStay ==
    [][\A i \in Ids : periods'[i] # periods[i] /\ periods[i] # Free =>
         \E e \in Editors :
            /\ edit[e].pc = "write" /\ edit'[e].pc = "clear"
            /\ \/ edit[e].asked < today
               \/ periods[i].from > today
               \/ /\ periods[i].to >= today /\ periods'[i].to >= today
                  /\ periods'[i] = [periods[i] EXCEPT !.to = periods'[i].to]]_vars

\* A member's result is booked on the period the member was told of, unless a
\* midnight passed in between, or one of the two was written by an edit that was
\* judged before a midnight or raced another; and a booked period is there,
\* unless its deletion was judged on an earlier day than it was carried out.
ResultsLandRight ==
    \A r \in results :
        /\ r.period # r.told =>
              r.day > r.since \/ {r.period, r.told} \cap (late \cup UNION raced) # {}
        /\ periods[r.period] = Free => r.period \in late

\* The days a banner gives fit together unless an edit was committed between its
\* reads; and after an edit on the same server has emptied the memo, only a
\* banner whose reads had begun before the edit can still show the old table.
BannerExplained ==
    memo # NoMemo =>
        /\ ~memo.torn /\ memo.period # 0 =>
              /\ memo.from <= memo.row.from /\ memo.row.from <= memo.day
              /\ memo.day <= memo.row.to /\ memo.row.to <= memo.to
        /\ ~memo.torn /\ memo.period = 0 /\ memo.key # "none" =>
              memo.from < memo.day /\ memo.day < memo.to
        /\ \A e \in memo.behind \cap Near : edit[e].pc = "clear" \/ memo.torn
=============================================================================
