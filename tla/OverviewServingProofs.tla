------------------------ MODULE OverviewServingProofs ------------------------
(* What is proved of OverviewServing, for any number of callers, chats and  *)
(* generations and any times to live: how old what it serves may be, that   *)
(* it implements SharedFetch, and that nobody waits in vain.                *)
EXTENDS OverviewServing, FiniteSetTheorems, TLAPS

-----------------------------------------------------------------------------
(* The inductive invariant. *)

\* Generations begin one after the other, and the one that runs is the last
\* one and is in the table.
OrderInv ==
    /\ \A g \in Gens : g > begun <=> gen[g].at = "idle"
    /\ \A g \in Running : g = begun /\ inflight = g

\* A seed is kept only from the latest verdict.
SeedInv == Live(seeds) => seeds.of \in Verdicts /\ \A g \in Verdicts : g <= seeds.of

\* How old rows can be when a generation begins with them.
RowsAge == IF RowsTTL > 0 THEN RowsTTL - 1 + Patience ELSE 0

Written == {"writing", "again", "closing"}

Generation ==
    [at : {"idle", "spawned", "searching", "writing", "again", "closing", "over"},
     outcome : {"none", "answer", "degraded", "failed"},
     began : 0..MaxTime, searched : 0..MaxTime, again : 0..MaxTime,
     found : BOOLEAN, cut : BOOLEAN, closed : BOOLEAN]

AgeInv ==
    /\ \A g \in Running : gen[g].began <= now /\ now <= gen[g].began + Patience
    /\ \A g \in Running : gen[g].at \in Written => gen[g].began - gen[g].searched <= RowsAge
    /\ \A g \in Running :
         gen[g].at = "again" => gen[g].began <= gen[g].again /\ gen[g].again <= now
    /\ Live(rows) =>
         /\ RowsTTL > 0 /\ now < rows.until
         /\ rows.until <= rows.since + Patience + RowsTTL
    /\ Live(responses) =>
         /\ now < responses.until
         /\ responses.until <= responses.since + RowsAge + Patience + ResponseTTL

IInv == TypeOK /\ OrderInv /\ SeedInv /\ AgeInv /\ NoStaleSeed

-----------------------------------------------------------------------------
(* Lemmas. *)

LEMMA InitInv == Init => IInv
BY ServingAssumption
   DEF Init, IInv, TypeOK, OrderInv, SeedInv, AgeInv, NoStaleSeed, EntryOf, Nothing, Live, Gens,
       Running, Idle, Away, Quiet, Idling, Joined, Written

\* The latest verdict is the one that no other is later than.
LEMMA LatestIs ==
  ASSUME NEW g \in Verdicts, Verdicts \subseteq Nat, \A h \in Verdicts : h <= g
  PROVE  LatestVerdict = g
<1>1. \E h \in Verdicts : \A k \in Verdicts : k <= h
  OBVIOUS
<1>2. LatestVerdict \in Verdicts /\ \A k \in Verdicts : k <= LatestVerdict
  BY <1>1 DEF LatestVerdict
<1>3. g <= LatestVerdict /\ LatestVerdict <= g
  BY <1>2
<1> QED
  BY <1>2, <1>3

LEMMA EntryType ==
  ASSUME now \in 0..MaxTime, begun \in Nat,
         NEW of \in 0..begun, NEW since \in 0..MaxTime, NEW ttl \in Nat
  PROVE  EntryOf(Entry(of, since, ttl))
BY ServingAssumption DEF Entry, EntryOf, Nothing

\* Everything that has begun is over or under way, and a verdict is one of those.
LEMMA VerdictsBegun ==
  ASSUME TypeOK, OrderInv
  PROVE  Verdicts \subseteq 0..begun
BY ServingAssumption DEF TypeOK, OrderInv, Verdicts, Over, Gens

\* Only requests and chats move, and entries go.
LEMMA CallersInv ==
  ASSUME IInv, UNCHANGED <<now, begun, gen, inflight>>,
         responses' \in {responses, Nothing}, negatives' \in {negatives, Nothing},
         seeds' \in {seeds, Nothing}, rows' \in {rows, Nothing},
         req' \in [Requests -> [at : Idling \cup Joined, of : 0..begun, after : Nat]],
         chat' \in [Chats -> [at : {"away", "awaiting", "seeding"},
                              of : 0..begun, verdict : 0..begun]],
         \A c \in Chats : chat'[c].at = "seeding" => chat'[c].of = chat'[c].verdict
  PROVE  IInv'
<1>1. TypeOK'
  <2>1. EntryOf(Nothing)
    BY ServingAssumption DEF IInv, TypeOK, EntryOf, Nothing
  <2>2. EntryOf(responses)' /\ EntryOf(negatives)' /\ EntryOf(seeds)' /\ EntryOf(rows)'
    BY <2>1 DEF IInv, TypeOK, EntryOf
  <2>3. Running' = Running
    BY DEF Running
  <2> QED
    BY <2>2, <2>3 DEF IInv, TypeOK
<1>2. OrderInv' /\ SeedInv'
  BY DEF IInv, OrderInv, SeedInv, Live, Running, Verdicts, Over
<1>3. AgeInv'
  BY DEF IInv, AgeInv, Live, Running
<1>4. NoStaleSeed'
  BY DEF NoStaleSeed
<1> QED
  BY <1>1, <1>2, <1>3, <1>4 DEF IInv

\* A step of a running generation that does not end it.
LEMMA GenerationInv ==
  ASSUME IInv, NEW g \in Gens, gen[g].at \notin {"idle", "over"},
         UNCHANGED <<now, begun, inflight, responses, negatives, seeds, req, chat>>,
         NEW new \in Generation, new.at \notin {"idle", "over"},
         gen' = [gen EXCEPT ![g] = new],
         new.began = gen[g].began,
         new.at \in Written => new.began - new.searched <= RowsAge,
         new.at = "again" => new.began <= new.again /\ new.again <= now,
         EntryOf(rows)',
         Live(rows)' => /\ RowsTTL > 0 /\ now < rows'.until
                        /\ rows'.until <= rows'.since + Patience + RowsTTL
  PROVE  IInv'
<1>1. Running' = Running /\ Over' = Over /\ \A h \in Over : gen'[h] = gen[h]
  BY DEF IInv, TypeOK, Running, Over, Gens
<1>2. TypeOK'
  BY <1>1 DEF IInv, TypeOK, EntryOf, Generation
<1>3. OrderInv'
  BY <1>1 DEF IInv, OrderInv, TypeOK
<1>4. SeedInv'
  BY <1>1 DEF IInv, SeedInv, Verdicts, Live
<1>5. AgeInv'
  <2>1. \A h \in Running : h # g => gen'[h] = gen[h]
    BY DEF IInv, TypeOK, Running
  <2>2. gen'[g] = new /\ g \in Running
    BY DEF IInv, TypeOK, Running
  <2> QED
    BY <1>1, <2>1, <2>2 DEF IInv, AgeInv, Live
<1>6. NoStaleSeed'
  BY DEF IInv, NoStaleSeed
<1> QED
  BY <1>2, <1>3, <1>4, <1>5, <1>6 DEF IInv

-----------------------------------------------------------------------------
(* The steps of a generation. *)

LEMMA BeginInv ==
  ASSUME IInv, NEW g \in Gens, Begin(g)
  PROVE  IInv'
<1>0. gen[g] \in Generation /\ gen[g].at = "spawned" /\ g \in Running
  BY DEF Begin, IInv, TypeOK, Generation, Running
<1>1. CASE Live(rows)
  <2> DEFINE new == [gen[g] EXCEPT !.at = "writing", !.searched = rows.since, !.found = TRUE]
  <2>1. gen' = [gen EXCEPT ![g] = new]
    BY <1>1 DEF Begin
  <2>2. /\ new \in Generation /\ new.at = "writing"
        /\ new.began = gen[g].began /\ new.searched = rows.since
    BY <1>0 DEF IInv, TypeOK, EntryOf, Generation
  <2>3. gen[g].began - rows.since <= RowsAge
    BY <1>0, <1>1, ServingAssumption DEF IInv, AgeInv, RowsAge, TypeOK, EntryOf, Generation
  <2>4. EntryOf(rows)' /\ (Live(rows)' => /\ RowsTTL > 0 /\ now < rows'.until
                                          /\ rows'.until <= rows'.since + Patience + RowsTTL)
    BY DEF Begin, Untouched, stores, IInv, TypeOK, EntryOf, AgeInv, Live
  <2>5. UNCHANGED <<now, begun, inflight, responses, negatives, seeds, req, chat>>
    BY DEF Begin, Untouched, stores
  <2> HIDE DEF new
  <2> QED
    BY <1>0, <2>1, <2>2, <2>3, <2>4, <2>5, GenerationInv
<1>2. CASE ~Live(rows)
  <2> DEFINE new == [gen[g] EXCEPT !.at = "searching"]
  <2>1. gen' = [gen EXCEPT ![g] = new]
    BY <1>0, <1>2 DEF Begin, IInv, TypeOK, Generation
  <2>2. new \in Generation /\ new.at = "searching" /\ new.began = gen[g].began
    BY <1>0 DEF Generation
  <2>3. EntryOf(rows)' /\ ~Live(rows)'
    BY <1>2 DEF Begin, Untouched, stores, IInv, TypeOK, EntryOf, Live
  <2>4. UNCHANGED <<now, begun, inflight, responses, negatives, seeds, req, chat>>
    BY DEF Begin, Untouched, stores
  <2> HIDE DEF new
  <2> QED
    BY <1>0, <2>1, <2>2, <2>3, <2>4, GenerationInv DEF Written
<1> QED
  BY <1>1, <1>2

\* What a search leaves in the store of rows.
LEMMA RowsKept ==
  ASSUME IInv, NEW since \in 0..MaxTime, since <= now, now <= since + Patience,
         NEW found \in BOOLEAN, NEW cut \in BOOLEAN, StoreRows(since, found, cut),
         UNCHANGED <<now, begun>>
  PROVE  /\ EntryOf(rows)'
         /\ Live(rows)' => /\ RowsTTL > 0 /\ now < rows'.until
                           /\ rows'.until <= rows'.since + Patience + RowsTTL
<1>1. CASE rows' = rows
  BY <1>1 DEF IInv, TypeOK, EntryOf, AgeInv, Live
<1>2. CASE rows' = Entry(0, since, RowsTTL)
  <2>1. EntryOf(Entry(0, since, RowsTTL))
    BY EntryType, ServingAssumption DEF IInv, TypeOK
  <2> QED
    BY <1>2, <2>1, ServingAssumption DEF IInv, TypeOK, EntryOf, Entry, Live, Nothing
<1> QED
  BY <1>1, <1>2 DEF StoreRows

LEMMA SearchedInv ==
  ASSUME IInv, NEW g \in Gens, NEW found \in BOOLEAN, NEW cut \in BOOLEAN,
         Searched(g, found, cut)
  PROVE  IInv'
<1> DEFINE new == [gen[g] EXCEPT !.at = "writing", !.searched = now, !.found = found, !.cut = cut]
<1>1. gen[g] \in Generation /\ gen[g].at = "searching" /\ g \in Running
  BY DEF Searched, IInv, TypeOK, Generation, Running
<1>2. gen' = [gen EXCEPT ![g] = new]
  BY DEF Searched
<1>3. now \in 0..MaxTime /\ gen[g].began <= now
  BY <1>1 DEF IInv, TypeOK, AgeInv
<1>4. /\ new \in Generation /\ new.at = "writing"
      /\ new.began = gen[g].began /\ new.searched = now
  BY <1>1, <1>3 DEF Generation
<1>5. gen[g].began - now <= RowsAge
  BY <1>1, <1>3, ServingAssumption DEF Generation, RowsAge
<1>6. UNCHANGED <<now, begun, inflight, responses, negatives, seeds, req, chat>>
  BY DEF Searched, Untouched
<1>7. EntryOf(rows)' /\ (Live(rows)' => /\ RowsTTL > 0 /\ now < rows'.until
                                        /\ rows'.until <= rows'.since + Patience + RowsTTL)
  BY <1>3, <1>6, RowsKept, ServingAssumption DEF Searched
<1> HIDE DEF new
<1> QED
  BY <1>1, <1>2, <1>4, <1>5, <1>6, <1>7, GenerationInv

LEMMA SearchAgainInv ==
  ASSUME IInv, NEW g \in Gens, NEW cut \in BOOLEAN, SearchAgain(g, cut)
  PROVE  IInv'
<1> DEFINE new == [gen[g] EXCEPT !.at = "again", !.again = now, !.cut = @ \/ cut]
<1>1. gen[g] \in Generation /\ gen[g].at = "writing" /\ g \in Running
  BY DEF SearchAgain, IInv, TypeOK, Generation, Running
<1>2. gen' = [gen EXCEPT ![g] = new]
  BY DEF SearchAgain
<1>3. /\ now \in 0..MaxTime /\ gen[g].began <= now
      /\ gen[g].began - gen[g].searched <= RowsAge
  BY <1>1 DEF IInv, TypeOK, AgeInv, Written
<1>4. new \in Generation
  BY <1>1, <1>3 DEF Generation
<1>5. /\ new.at = "again" /\ new.again = now /\ now <= now
      /\ new.began = gen[g].began /\ new.searched = gen[g].searched
  BY <1>1, <1>3 DEF Generation
<1>6. UNCHANGED <<now, begun, inflight, responses, negatives, seeds, rows, req, chat>>
  BY DEF SearchAgain, Untouched, stores
<1>7. EntryOf(rows)' /\ (Live(rows)' => /\ RowsTTL > 0 /\ now < rows'.until
                                        /\ rows'.until <= rows'.since + Patience + RowsTTL)
  BY <1>6 DEF IInv, TypeOK, EntryOf, AgeInv, Live
<1> HIDE DEF new
<1> QED
  BY <1>1, <1>2, <1>3, <1>4, <1>5, <1>6, <1>7, GenerationInv

LEMMA WrittenAgainInv ==
  ASSUME IInv, NEW g \in Gens, WrittenAgain(g)
  PROVE  IInv'
<1> DEFINE new == [gen[g] EXCEPT !.at = "closing", !.searched = gen[g].again, !.again = 0]
<1>1. gen[g] \in Generation /\ gen[g].at = "again" /\ g \in Running
  BY DEF WrittenAgain, IInv, TypeOK, Generation, Running
<1>2. gen' = [gen EXCEPT ![g] = new]
  BY DEF WrittenAgain
<1>3. /\ now \in 0..MaxTime /\ now <= gen[g].began + Patience
      /\ gen[g].began <= gen[g].again /\ gen[g].again <= now
  BY <1>1 DEF IInv, TypeOK, AgeInv
<1>4. /\ new \in Generation /\ new.at = "closing"
      /\ new.began = gen[g].began /\ new.searched = gen[g].again
  <2> DEFINE old == gen[g]
  <2>1. old \in Generation /\ 0 \in 0..MaxTime
    BY <1>1, ServingAssumption
  <2>2. new = [old EXCEPT !.at = "closing", !.searched = old.again, !.again = 0]
    OBVIOUS
  <2> HIDE DEF old, new
  <2>3. new \in Generation
    BY <2>1, <2>2 DEF Generation
  <2>4. new.at = "closing" /\ new.began = old.began /\ new.searched = old.again
    BY <2>1, <2>2 DEF Generation
  <2> QED
    BY <2>3, <2>4 DEF old
<1>5. gen[g].began - gen[g].again <= RowsAge
  BY <1>1, <1>3, ServingAssumption DEF Generation, RowsAge
<1>6. UNCHANGED <<now, begun, inflight, responses, negatives, seeds, req, chat>>
  BY DEF WrittenAgain, Untouched
<1>7. EntryOf(rows)' /\ (Live(rows)' => /\ RowsTTL > 0 /\ now < rows'.until
                                        /\ rows'.until <= rows'.since + Patience + RowsTTL)
  <2>1. gen[g].again \in 0..MaxTime /\ gen[g].cut \in BOOLEAN
        /\ now <= gen[g].again + Patience
    BY <1>1, <1>3, ServingAssumption DEF Generation
  <2> QED
    BY <1>3, <1>6, <2>1, RowsKept DEF WrittenAgain
<1> HIDE DEF new
<1> QED
  BY <1>1, <1>2, <1>4, <1>5, <1>6, <1>7, GenerationInv

-----------------------------------------------------------------------------
(* The end of a generation. *)

\* The one that runs is the only one and the last one; when it is over nothing
\* runs, and a verdict of its is the latest.
LEMMA EndsOrder ==
  ASSUME IInv, NEW g \in Running, NEW outcome \in {"answer", "degraded", "failed"},
         Ends(g, outcome)
  PROVE  /\ g = begun /\ Running' = {} /\ inflight' = 0
         /\ Verdicts' = IF outcome = "failed" THEN Verdicts ELSE Verdicts \cup {g}
         /\ gen' \in [Gens -> Generation]
         /\ Over' = Over \cup {g} /\ g \notin Over
         /\ OrderInv'
<1>1. g = begun /\ inflight = g /\ Running = {g} /\ g \in Gens
  BY DEF IInv, OrderInv, Running
<1>2. gen' \in [Gens -> Generation]
  <2> DEFINE done == [Idle EXCEPT !.at = "over", !.outcome = outcome, !.closed = TRUE]
  <2>1. done \in Generation
    <3>1. 0 \in 0..MaxTime
      BY ServingAssumption
    <3>2. Idle \in Generation
      BY <3>1 DEF Idle, Generation
    <3> HIDE DEF Idle
    <3> QED
      BY <3>2 DEF Generation
  <2>2. gen \in [Gens -> Generation] /\ gen' = [gen EXCEPT ![g] = done]
    BY DEF Ends, IInv, TypeOK, Generation
  <2> HIDE DEF done
  <2> QED
    BY <2>1, <2>2
<1>3. \A h \in Gens : h # g => gen'[h] = gen[h]
  BY DEF Ends, IInv, TypeOK
<1>4. gen'[g].at = "over" /\ gen'[g].outcome = outcome
  BY <1>1 DEF Ends, Idle, IInv, TypeOK
<1>5. Running' = {}
  BY <1>1, <1>3, <1>4 DEF Running
<1>6. Over' = Over \cup {g} /\ g \notin Over
  BY <1>1, <1>3, <1>4 DEF Over, Running
<1>7. Verdicts' = IF outcome = "failed" THEN Verdicts ELSE Verdicts \cup {g}
  BY <1>3, <1>4, <1>6 DEF Verdicts, Over
<1>8. OrderInv'
  BY <1>1, <1>3, <1>4, <1>5 DEF IInv, OrderInv, Ends, Untouched, Running
<1> QED
  BY <1>1, <1>2, <1>5, <1>6, <1>7, <1>8 DEF Ends

\* What is left to show of a step that ends a generation: the stores.
LEMMA EndsInv ==
  ASSUME IInv, NEW g \in Running, NEW outcome \in {"answer", "degraded", "failed"},
         Ends(g, outcome), UNCHANGED rows,
         EntryOf(responses)', EntryOf(negatives)', EntryOf(seeds)',
         SeedInv',
         Live(responses)' =>
           /\ now < responses'.until
           /\ responses'.until <= responses'.since + RowsAge + Patience + ResponseTTL
  PROVE  IInv'
<1>1. /\ Running' = {} /\ inflight' = 0 /\ gen' \in [Gens -> Generation] /\ OrderInv'
      /\ UNCHANGED <<now, begun, req, chat, rows>>
  BY EndsOrder DEF Ends, Untouched
<1>2. TypeOK'
  BY <1>1 DEF IInv, TypeOK, Generation, EntryOf
<1>3. AgeInv'
  BY <1>1 DEF IInv, AgeInv, Live
<1>4. NoStaleSeed'
  BY <1>1 DEF IInv, NoStaleSeed
<1> QED
  BY <1>1, <1>2, <1>3, <1>4 DEF IInv

LEMMA FailInv ==
  ASSUME IInv, NEW g \in Gens, Fail(g)
  PROVE  IInv'
<1>1. g \in Running /\ Ends(g, "failed") /\ UNCHANGED <<responses, negatives, seeds, rows, now, begun>>
  BY DEF Fail, stores, Ends, Untouched
<1>2. Verdicts' = Verdicts
  BY <1>1, EndsOrder
<1>3. SeedInv'
  BY <1>1, <1>2 DEF IInv, SeedInv, Live
<1>4. EntryOf(responses)' /\ EntryOf(negatives)' /\ EntryOf(seeds)'
  BY <1>1 DEF IInv, TypeOK, EntryOf
<1>5. Live(responses)' =>
        /\ now < responses'.until
        /\ responses'.until <= responses'.since + RowsAge + Patience + ResponseTTL
  BY <1>1 DEF IInv, AgeInv, Live
<1> QED
  BY <1>1, <1>3, <1>4, <1>5, EndsInv

\* An answer is written from rows that are not older than the ones a generation
\* may begin with, and its seed is of the latest verdict.
LEMMA ConcludeInv ==
  ASSUME IInv, NEW g \in Gens, NEW outcome \in {"answer", "degraded"}, Conclude(g, outcome)
  PROVE  IInv'
<1>1. /\ g \in Running /\ gen[g].at \in Written /\ gen[g] \in Generation
      /\ now \in 0..MaxTime /\ begun \in Nat
  BY ServingAssumption DEF Conclude, Running, Written, IInv, TypeOK, Generation
<1>2. Ends(g, outcome) /\ StorePayload(g, outcome) /\ UNCHANGED <<rows, now, begun>>
  BY DEF Conclude, Ends, Untouched
<1>3. g = begun /\ Verdicts' = Verdicts \cup {g}
  BY <1>1, <1>2, EndsOrder
<1>4. /\ EntryOf(Entry(g, 0, SeedTTL)) /\ EntryOf(Entry(g, 0, NegativeTTL))
      /\ EntryOf(Entry(g, gen[g].searched, ResponseTTL)) /\ EntryOf(Nothing)
  <2>1. g \in 0..begun /\ 0 \in 0..MaxTime /\ gen[g].searched \in 0..MaxTime
    BY <1>1, <1>3, ServingAssumption DEF Generation
  <2>2. EntryOf(Nothing)
    BY <1>1, ServingAssumption DEF EntryOf, Nothing
  <2> QED
    BY <1>1, <2>1, <2>2, EntryType, ServingAssumption
<1>5. EntryOf(responses)' /\ EntryOf(negatives)' /\ EntryOf(seeds)'
  BY <1>2, <1>4 DEF StorePayload, IInv, TypeOK, EntryOf
<1>6. SeedInv'
  <2>1. CASE outcome = "answer"
    <3>1. Live(seeds)' => seeds'.of = g
      BY <1>2, <2>1 DEF StorePayload, Entry, Live, Nothing
    <3>2. \A h \in Verdicts' : h <= g
      BY <1>1, <1>3, VerdictsBegun DEF IInv
    <3> QED
      BY <1>3, <3>1, <3>2 DEF SeedInv
  <2>2. CASE outcome = "degraded"
    BY <1>2, <2>2 DEF StorePayload, SeedInv, Live
  <2> QED
    BY <2>1, <2>2
<1>7. Live(responses)' =>
        /\ now < responses'.until
        /\ responses'.until <= responses'.since + RowsAge + Patience + ResponseTTL
  <2>1. CASE responses' = responses
    BY <1>2, <2>1 DEF IInv, AgeInv, Live
  <2>2. CASE responses' = Entry(g, gen[g].searched, ResponseTTL)
    <3>1. /\ gen[g].began \in Int /\ gen[g].searched \in Int /\ RowsAge \in Int
          /\ gen[g].began - gen[g].searched <= RowsAge
          /\ now <= gen[g].began + Patience
      BY <1>1, ServingAssumption DEF IInv, AgeInv, Generation, RowsAge
    <3>2. CASE ResponseTTL > 0
      <4>1. responses'.until = now + ResponseTTL /\ responses'.since = gen[g].searched
        BY <2>2, <3>2 DEF Entry
      <4> QED
        BY <1>1, <3>1, <3>2, <4>1, ServingAssumption
    <3>3. CASE ~(ResponseTTL > 0)
      BY <2>2, <3>3 DEF Entry, Live
    <3> QED
      BY <3>2, <3>3
  <2> QED
    BY <1>2, <2>1, <2>2 DEF StorePayload
<1> QED
  BY <1>1, <1>2, <1>5, <1>6, <1>7, EndsInv

-----------------------------------------------------------------------------
(* The steps of requests, of chats and of the rest of the process. *)

LEMMA OverCounted == IsFiniteSet(Over) /\ Cardinality(Over) \in Nat
<1>1. IsFiniteSet(1..MaxGens)
  BY FS_Interval, ServingAssumption
<1>2. IsFiniteSet(Over)
  BY <1>1, FS_Subset DEF Over, Gens
<1> QED
  BY <1>2, FS_CardinalityType

LEMMA RequestInv ==
  ASSUME IInv, NEW r \in Requests, Request(r)
  PROVE  IInv'
<1>1. CASE ServeKept(r) \/ Join(r) \/ Refuse(r) \/ Answered(r) \/ Leave(r)
  <2>1. Cardinality(Over) \in Nat /\ begun \in Nat
    BY OverCounted, ServingAssumption DEF IInv, TypeOK
  <2>2. req' \in [Requests -> [at : Idling \cup Joined, of : 0..begun, after : Nat]]
    <3>1. CASE ServeKept(r)
      BY <2>1, <3>1 DEF ServeKept, Comes, Idling, Joined, IInv, TypeOK, EntryOf
    <3>2. CASE Join(r)
      BY <2>1, <3>2, ServingAssumption
         DEF Join, Comes, Idling, Joined, IInv, TypeOK, OrderInv, Running, Gens
    <3>3. CASE Refuse(r) \/ Leave(r)
      <4>1. Away \in [at : Idling \cup Joined, of : 0..begun, after : Nat]
        BY <2>1 DEF Away, Idling
      <4> QED
        BY <3>3, <4>1 DEF Refuse, Leave, IInv, TypeOK
    <3>4. CASE Answered(r)
      <4> DEFINE new == [req[r] EXCEPT !.at = "given", !.after = 0]
      <4>1. new \in [at : Idling \cup Joined, of : 0..begun, after : Nat]
        BY DEF Idling, IInv, TypeOK
      <4>2. req' = [req EXCEPT ![r] = new]
        BY <3>4 DEF Answered
      <4> HIDE DEF new
      <4> QED
        BY <4>1, <4>2 DEF IInv, TypeOK
    <3> QED
      BY <1>1, <3>1, <3>2, <3>3, <3>4
  <2>3. UNCHANGED <<now, begun, gen, inflight, responses, negatives, seeds, rows, chat>>
    BY <1>1 DEF ServeKept, Join, Refuse, Answered, Leave, stores
  <2>4. /\ chat' \in [Chats -> [at : {"away", "awaiting", "seeding"},
                                of : 0..begun, verdict : 0..begun]]
        /\ \A c \in Chats : chat'[c].at = "seeding" => chat'[c].of = chat'[c].verdict
    BY <2>3 DEF IInv, TypeOK, NoStaleSeed
  <2> QED
    BY <2>2, <2>3, <2>4, CallersInv
<1>2. CASE Spawn(r)
  <2> DEFINE new == [Idle EXCEPT !.at = "spawned", !.began = now]
  <2>1. Running = {} /\ begun + 1 \in Gens /\ gen[begun + 1].at = "idle" /\ begun \in Nat
    BY <1>2, ServingAssumption DEF Spawn, IInv, TypeOK, OrderInv, Running, Gens
  <2>2. /\ gen' = [gen EXCEPT ![begun + 1] = new]
        /\ begun' = begun + 1 /\ inflight' = begun + 1
        /\ UNCHANGED <<now, responses, negatives, seeds, rows, chat>>
    BY <1>2 DEF Spawn, stores
  <2>3. new \in Generation /\ new.at = "spawned" /\ new.began = now
    <3>1. 0 \in 0..MaxTime /\ now \in 0..MaxTime
      BY ServingAssumption DEF IInv, TypeOK
    <3>2. Idle \in Generation
      BY <3>1 DEF Idle, Generation
    <3> HIDE DEF Idle
    <3> QED
      BY <3>1, <3>2 DEF Generation
  <2> HIDE DEF new
  <2>4. gen' \in [Gens -> Generation] /\ gen'[begun + 1] = new
        /\ \A h \in Gens : h # begun + 1 => gen'[h] = gen[h]
    BY <2>1, <2>2, <2>3 DEF IInv, TypeOK, Generation
  <2>5. Running' = {begun + 1} /\ Over' = Over /\ \A h \in Over : gen'[h] = gen[h]
    BY <2>1, <2>3, <2>4 DEF Running, Over
  <2>6. req' \in [Requests -> [at : Idling \cup Joined, of : 0..begun', after : Nat]]
    <3>1. Cardinality(Over) \in Nat
      BY OverCounted
    <3>2. req \in [Requests -> [at : Idling \cup Joined, of : 0..begun', after : Nat]]
      BY <2>1, <2>2 DEF IInv, TypeOK
    <3> QED
      BY <1>2, <2>1, <2>2, <3>1, <3>2 DEF Spawn, Comes, Joined
  <2>7. chat' \in [Chats -> [at : {"away", "awaiting", "seeding"},
                             of : 0..begun', verdict : 0..begun']]
    BY <2>1, <2>2 DEF IInv, TypeOK
  <2>8. EntryOf(responses)' /\ EntryOf(negatives)' /\ EntryOf(seeds)' /\ EntryOf(rows)'
    BY <2>1, <2>2 DEF IInv, TypeOK, EntryOf
  <2>9. TypeOK'
    <3>1. now' \in 0..MaxTime /\ begun' \in 0..MaxGens /\ inflight' \in Running'
      BY <2>1, <2>2, <2>5, ServingAssumption DEF IInv, TypeOK, Gens
    <3> QED
      BY <2>4, <2>6, <2>7, <2>8, <3>1 DEF TypeOK, Generation, Gens
  <2>10. OrderInv'
    BY <2>1, <2>2, <2>3, <2>4, <2>5 DEF IInv, OrderInv, Gens
  <2>11. SeedInv'
    BY <2>2, <2>5 DEF IInv, SeedInv, Verdicts, Live
  <2>12. AgeInv'
    <3>1. now <= now + Patience /\ now <= now
      BY ServingAssumption DEF IInv, TypeOK
    <3> QED
      BY <2>2, <2>3, <2>4, <2>5, <3>1 DEF IInv, AgeInv, Live, Written
  <2>13. NoStaleSeed'
    BY <2>2 DEF IInv, NoStaleSeed
  <2> QED
    BY <2>9, <2>10, <2>11, <2>12, <2>13 DEF IInv
<1> QED
  BY <1>1, <1>2 DEF Request

\* A seed that is kept is of the latest verdict, so the chat that takes it is not
\* of an older one.
LEMMA ContinueInv ==
  ASSUME IInv, NEW c \in Chats, Continue(c)
  PROVE  IInv'
<1> DEFINE Chat == [at : {"away", "awaiting", "seeding"}, of : 0..begun, verdict : 0..begun]
<1>1. Live(seeds) => WithSeed \in Chat /\ WithSeed.of = WithSeed.verdict
  <2>1. SUFFICES ASSUME Live(seeds)
                 PROVE  WithSeed \in Chat /\ WithSeed.of = WithSeed.verdict
    OBVIOUS
  <2>2. Verdicts \subseteq Nat
    BY VerdictsBegun DEF IInv
  <2>3. LatestVerdict = seeds.of
    BY <2>1, <2>2, LatestIs DEF IInv, SeedInv
  <2>4. seeds.of \in 0..begun
    BY DEF IInv, TypeOK, EntryOf
  <2> QED
    BY <2>3, <2>4 DEF WithSeed
<1>2. begun \in Nat /\ Quiet \in Chat /\ Quiet.at = "away"
  BY ServingAssumption DEF IInv, TypeOK, Quiet
<1>3. ASSUME NEW new \in Chat, new.at = "seeding" => new.of = new.verdict, Turns(c, new)
      PROVE  IInv'
  <2>1. UNCHANGED <<now, begun, gen, inflight, responses, negatives, seeds, rows, req>>
    BY <1>3 DEF Turns, stores
  <2>2. chat \in [Chats -> Chat] /\ chat' = [chat EXCEPT ![c] = new]
    BY <1>3 DEF Turns, IInv, TypeOK
  <2>3. chat' \in [Chats -> Chat]
    BY <1>3, <2>2
  <2>4. \A d \in Chats : chat'[d].at = "seeding" => chat'[d].of = chat'[d].verdict
    BY <1>3, <2>2 DEF IInv, NoStaleSeed
  <2>5. req' \in [Requests -> [at : Idling \cup Joined, of : 0..begun, after : Nat]]
    BY <2>1 DEF IInv, TypeOK
  <2> QED
    BY <2>1, <2>3, <2>4, <2>5, CallersInv
<1>4. CASE TakeSeed(c)
  BY <1>1, <1>3, <1>4 DEF TakeSeed
<1>5. CASE Await(c)
  <2> DEFINE new == [Quiet EXCEPT !.at = "awaiting", !.of = inflight]
  <2>1. inflight \in 0..begun
    BY <1>2 DEF IInv, TypeOK, OrderInv, Running
  <2>2. new \in Chat /\ new.at = "awaiting"
    BY <1>2, <2>1 DEF Quiet
  <2> QED
    BY <1>3, <1>5, <2>2 DEF Await
<1>6. CASE Resume(c)
  BY <1>1, <1>2, <1>3, <1>6 DEF Resume
<1>7. CASE Settle(c)
  BY <1>2, <1>3, <1>7 DEF Settle
<1> QED
  BY <1>4, <1>5, <1>6, <1>7 DEF Continue

LEMMA EvictInv ==
  ASSUME IInv, Evict
  PROVE  IInv'
<1>1. /\ UNCHANGED <<now, begun, gen, inflight, req, chat>>
      /\ responses' \in {responses, Nothing} /\ negatives' \in {negatives, Nothing}
      /\ seeds' \in {seeds, Nothing} /\ rows' \in {rows, Nothing}
  BY DEF Evict
<1>2. /\ req' \in [Requests -> [at : Idling \cup Joined, of : 0..begun, after : Nat]]
      /\ chat' \in [Chats -> [at : {"away", "awaiting", "seeding"},
                              of : 0..begun, verdict : 0..begun]]
      /\ \A c \in Chats : chat'[c].at = "seeding" => chat'[c].of = chat'[c].verdict
  BY <1>1 DEF IInv, TypeOK, NoStaleSeed
<1> QED
  BY <1>1, <1>2, CallersInv

LEMMA TickInv ==
  ASSUME IInv, Tick
  PROVE  IInv'
<1>1. /\ now' = now + 1 /\ now \in Nat /\ now' \in 0..MaxTime
      /\ UNCHANGED <<begun, gen, inflight, req, chat>>
      /\ \A g \in Running : now < gen[g].began + Patience
  BY ServingAssumption DEF Tick, IInv, TypeOK
<1>2. /\ responses' \in {responses, Nothing} /\ negatives' \in {negatives, Nothing}
      /\ seeds' \in {seeds, Nothing} /\ rows' \in {rows, Nothing}
      /\ Live(responses)' => responses' = responses /\ now' < responses.until
      /\ Live(rows)' => rows' = rows /\ now' < rows.until
  <2>1. /\ responses' = InTime(responses) /\ negatives' = InTime(negatives)
        /\ seeds' = InTime(seeds) /\ rows' = InTime(rows)
    BY DEF Tick
  <2>2. responses.until \in Nat /\ rows.until \in Nat
    BY DEF IInv, TypeOK, EntryOf
  <2> QED
    BY <1>1, <2>1, <2>2 DEF InTime, Live
<1>3. TypeOK'
  <2>1. EntryOf(Nothing)
    BY ServingAssumption DEF IInv, TypeOK, EntryOf, Nothing
  <2>2. EntryOf(responses)' /\ EntryOf(negatives)' /\ EntryOf(seeds)' /\ EntryOf(rows)'
    BY <1>1, <1>2, <2>1 DEF IInv, TypeOK, EntryOf
  <2>3. Running' = Running
    BY <1>1 DEF Running
  <2> QED
    BY <1>1, <2>2, <2>3 DEF IInv, TypeOK
<1>4. OrderInv' /\ SeedInv'
  BY <1>1, <1>2 DEF IInv, OrderInv, SeedInv, Live, Running, Verdicts, Over
<1>5. AgeInv'
  <2>1. \A g \in Running : /\ gen[g].began \in Nat /\ gen[g].again \in Nat
                           /\ now' <= gen[g].began + Patience /\ gen[g].began <= now'
                           /\ gen[g].at = "again" => gen[g].again <= now'
    BY <1>1, ServingAssumption DEF IInv, TypeOK, AgeInv, Running
  <2>2. Running' = Running
    BY <1>1 DEF Running
  <2> QED
    BY <1>1, <1>2, <2>1, <2>2 DEF IInv, AgeInv, Live
<1>6. NoStaleSeed'
  BY <1>1 DEF IInv, NoStaleSeed
<1> QED
  BY <1>3, <1>4, <1>5, <1>6 DEF IInv

LEMMA StepInv == IInv /\ [Next]_vars => IInv'
<1> SUFFICES ASSUME IInv, [Next]_vars
             PROVE  IInv'
  OBVIOUS
<1>1. ASSUME NEW g \in Gens, Generate(g)
      PROVE  IInv'
  BY <1>1, BeginInv, SearchAgainInv, SearchedInv, WrittenAgainInv, ConcludeInv, FailInv
     DEF Generate
<1>2. CASE UNCHANGED vars
  <2>1. UNCHANGED <<now, begun, gen, inflight, responses, negatives, seeds, rows, req, chat>>
    BY <1>2 DEF vars
  <2>2. /\ req' \in [Requests -> [at : Idling \cup Joined, of : 0..begun, after : Nat]]
        /\ chat' \in [Chats -> [at : {"away", "awaiting", "seeding"},
                                of : 0..begun, verdict : 0..begun]]
        /\ \A c \in Chats : chat'[c].at = "seeding" => chat'[c].of = chat'[c].verdict
    BY <2>1 DEF IInv, TypeOK, NoStaleSeed
  <2> QED
    BY <2>1, <2>2, CallersInv
<1> QED
  BY <1>1, <1>2, RequestInv, ContinueInv, EvictInv, TickInv DEF Next

LEMMA Invariant == Spec => []IInv
BY InitInv, StepInv, PTL DEF Spec

-----------------------------------------------------------------------------
(* The theorems. *)

\* Types, and that the generation in the table of those under way is running
\* (overview.py: _inflight, _run).
THEOREM TypeCorrect == Spec => []TypeOK
<1>1. IInv => TypeOK
  BY DEF IInv
<1> QED
  BY <1>1, Invariant, PTL

\* A chat never goes on from an answer that a later verdict has withdrawn, for
\* any number of callers, chats and generations and any times to live
\* (_store_payload, continue_overview).
THEOREM NoStaleSeedHolds == Spec => []NoStaleSeed
<1>1. IInv => NoStaleSeed
  BY DEF IInv
<1> QED
  BY <1>1, Invariant, PTL

\* The rows behind an answer that can be served are not older than the two times
\* to live and twice the time a generation takes (_cached_rows, _TtlLru).
THEOREM AnswerAgeHolds == Spec => []AnswerAge
<1>1. IInv => AnswerAge
  <2> SUFFICES ASSUME IInv, Live(responses)
               PROVE  now - responses.since <= (RowsTTL - 1) + (ResponseTTL - 1) + 2 * Patience
    BY DEF AnswerAge
  <2>1. /\ now \in Nat /\ responses.since \in Nat /\ responses.until \in Nat
        /\ now < responses.until
        /\ responses.until <= responses.since + RowsAge + Patience + ResponseTTL
    BY ServingAssumption DEF IInv, TypeOK, EntryOf, AgeInv
  <2> QED
    BY <2>1, ServingAssumption DEF RowsAge
<1> QED
  BY <1>1, Invariant, PTL

\* What is served or gone on from is neither withdrawn nor too old.
THEOREM ServedFreshHolds == Spec => []ServedFresh
<1>1. NoStaleSeed /\ AnswerAge => ServedFresh
  BY DEF ServedFresh
<1> QED
  BY <1>1, NoStaleSeedHolds, AnswerAgeHolds, PTL

-----------------------------------------------------------------------------
(* How it implements SharedFetch: the generation under way is the fetch, a  *)
(* generation that is over is a result, and its number is the order in      *)
(* which they began, since one runs at a time.                              *)

\* What is kept is the latest result, and nothing is kept while one is made; who
\* joined waits for the first result after it came.
SharedInv ==
    /\ Running # {} => Missed
    /\ Live(responses) => responses.of = begun
    /\ Live(negatives) => negatives.of = begun
    /\ \A r \in Requests : req[r].at \in Joined => req[r].of = req[r].after + 1

LEMMA UnderWay ==
  ASSUME IInv
  PROVE  /\ Running = {} => Cardinality(Running) = 0 /\ Cardinality(Over) = begun
         /\ Running # {} => /\ Cardinality(Running) = 1 /\ Cardinality(Over) = begun - 1
                            /\ inflight = begun /\ Running = {begun}
         /\ inflight # 0 => Running # {}
         /\ begun \in Nat /\ \A g \in Over : g <= Cardinality(Over)
<1>0. begun \in Nat /\ MaxGens \in Nat /\ begun <= MaxGens /\ Gens = 1..MaxGens
  BY ServingAssumption DEF IInv, TypeOK, Gens
<1>1. Running \cup Over = 1..begun /\ Running \cap Over = {}
  BY <1>0 DEF IInv, OrderInv, Running, Over
<1>2. CASE Running = {}
  <2>1. Over = 1..begun
    BY <1>1, <1>2
  <2>2. Cardinality(Over) = begun
    BY <1>0, <2>1, FS_Interval
  <2> QED
    BY <1>0, <1>2, <2>1, <2>2, FS_EmptySet DEF IInv, TypeOK
<1>3. CASE Running # {}
  <2>1. Running = {begun} /\ inflight = begun
    BY <1>3 DEF IInv, OrderInv
  <2>2. Over = 1..(begun - 1) /\ begun > 0
    <3>1. begun > 0
      BY <1>0, <2>1 DEF Running
    <3>2. \A g : g \in Over <=> g \in 1..begun /\ g # begun
      BY <1>1, <2>1
    <3>3. \A g : g \in Over <=> g \in 1..(begun - 1)
      BY <1>0, <3>1, <3>2
    <3> QED
      BY <3>1, <3>3
  <2>3. Cardinality(Over) = begun - 1
    BY <1>0, <2>2, FS_Interval
  <2>4. Cardinality(Running) = 1
    BY <2>1, FS_Singleton
  <2> QED
    BY <1>0, <1>3, <2>1, <2>2, <2>3, <2>4
<1> QED
  BY <1>2, <1>3

LEMMA SharedInit == Init => SharedInv /\ Shared!Init
<1> SUFFICES ASSUME Init PROVE SharedInv /\ Shared!Init
  OBVIOUS
<1>1. Running = {} /\ Over = {}
  BY DEF Init, Running, Over, Idle
<1>2. Cardinality(Running) = 0 /\ Cardinality(Over) = 0
  BY <1>1, FS_EmptySet
<1>3. \A r \in Requests : req[r] = Away /\ Away.at = "away"
  BY DEF Init, Away
<1>4. ~Live(responses) /\ ~Live(negatives) /\ Missed
  BY DEF Init, Live, Missed
<1> QED
  BY <1>1, <1>2, <1>3, <1>4 DEF SharedInv, Shared!Init, Shared!Away, Joined, Idling

\* What a request is to SharedFetch.
Seen(q) ==
    CASE q.at \in Joined -> [at |-> "asking", no |-> q.after]
      [] q.at = "given" -> [at |-> "given", no |-> q.of]
      [] OTHER -> [at |-> "away", no |-> 0]

Askers == [r \in Requests |-> Seen(req[r])]

LEMMA AskersAre ==
  /\ Askers = [r \in Requests |->
                 CASE req[r].at \in Joined -> [at |-> "asking", no |-> req[r].after]
                   [] req[r].at = "given" -> [at |-> "given", no |-> req[r].of]
                   [] OTHER -> [at |-> "away", no |-> 0]]
  /\ Askers' = [r \in Requests |->
                 CASE req'[r].at \in Joined -> [at |-> "asking", no |-> req'[r].after]
                   [] req'[r].at = "given" -> [at |-> "given", no |-> req'[r].of]
                   [] OTHER -> [at |-> "away", no |-> 0]]
  BY DEF Askers, Seen

LEMMA OneAsker ==
  ASSUME IInv, NEW r \in Requests, NEW q, req' = [req EXCEPT ![r] = q]
  PROVE  /\ Askers' = [Askers EXCEPT ![r] = Seen(q)] /\ Askers[r] = Seen(req[r])
         /\ req'[r] = q /\ \A x \in Requests : x # r => req'[x] = req[x]
<1>1. req'[r] = q /\ \A x \in Requests : x # r => req'[x] = req[x]
  BY DEF IInv, TypeOK
<1>2. \A x \in Requests : Askers'[x] = IF x = r THEN Seen(q) ELSE Seen(req[x])
  BY <1>1 DEF Askers
<1>3. Askers' = [x \in Requests |-> IF x = r THEN Seen(q) ELSE Seen(req[x])]
  BY <1>1 DEF Askers
<1>4. [Askers EXCEPT ![r] = Seen(q)] = [x \in Requests |-> IF x = r THEN Seen(q) ELSE Seen(req[x])]
  BY DEF Askers
<1> QED
  BY <1>1, <1>3, <1>4 DEF Askers

SharedStep == [Shared!Next]_(Shared!vars)

\* The steps in which no request moves and nothing ends: the generation goes on,
\* a chat does something, or an entry goes.
LEMMA QuietShared ==
  ASSUME IInv, SharedInv, Running' = Running, Over' = Over,
         UNCHANGED <<begun, req>>,
         responses' \in {responses, Nothing}, negatives' \in {negatives, Nothing}
  PROVE  SharedInv' /\ SharedStep
<1>1. SharedInv'
  BY DEF SharedInv, Missed, Live
<1>2. Askers' = Askers
  BY DEF Askers
<1>3. Missed => Missed'
  BY DEF Missed, Live
<1>4. ASSUME Missed' <=> Missed PROVE SharedStep
  <2>1. (~Missed)' = (~Missed)
    BY <1>4 DEF Missed
  <2> QED
    BY <1>2, <2>1, AskersAre DEF SharedStep, Shared!vars
<1>5. ASSUME ~(Missed' <=> Missed) PROVE SharedStep
  <2>1. ~Missed /\ Missed'
    BY <1>3, <1>5 DEF Missed
  <2>2. Shared!Lapse
    BY <1>2, <2>1, AskersAre DEF Shared!Lapse
  <2> QED BY <2>2 DEF SharedStep, Shared!Next
<1> QED
  BY <1>1, <1>4, <1>5

LEMMA GenerateShared ==
  ASSUME IInv, IInv', SharedInv, NEW g \in Gens, Generate(g)
  PROVE  SharedInv' /\ SharedStep
<1>1. CASE Begin(g) \/ (\E cut \in BOOLEAN : SearchAgain(g, cut) \/ \E found \in BOOLEAN : Searched(g, found, cut)) \/ WrittenAgain(g)
  <2>0. gen[g].at \in {"spawned", "searching", "writing", "again"}
    BY <1>1 DEF Begin, SearchAgain, Searched, WrittenAgain
  <2>1. /\ g \in Running /\ gen'[g].at \notin {"idle", "over"}
        /\ \A h \in Gens : h # g => gen'[h] = gen[h]
    <3> DEFINE old == gen[g]
    <3>1. gen \in [Gens -> Generation] /\ old \in Generation
      BY DEF IInv, TypeOK, Generation
    <3>2. \A h \in Gens : h # g => gen'[h] = gen[h]
      BY <1>1, <3>1 DEF Begin, SearchAgain, Searched, WrittenAgain
    <3>3. ASSUME Begin(g) PROVE gen'[g].at \in {"writing", "searching"}
      BY <3>1, <3>3 DEF Begin, Generation
    <3>4. ASSUME WrittenAgain(g) PROVE gen'[g].at = "closing"
      BY <3>1, <3>4 DEF WrittenAgain, Generation
    <3>5. ASSUME NEW cut \in BOOLEAN, SearchAgain(g, cut) PROVE gen'[g].at = "again"
      BY <3>1, <3>5 DEF SearchAgain, Generation
    <3>6. ASSUME NEW cut \in BOOLEAN, NEW found \in BOOLEAN, Searched(g, found, cut)
          PROVE  gen'[g].at = "writing"
      BY <3>1, <3>6 DEF Searched, Generation
    <3> QED
      BY <1>1, <2>0, <3>2, <3>3, <3>4, <3>5, <3>6 DEF Running
  <2>2. Running' = Running /\ Over' = Over
    BY <2>1 DEF Running, Over
  <2>3. UNCHANGED <<begun, req, responses, negatives>>
    BY <1>1 DEF Begin, SearchAgain, Searched, WrittenAgain, Untouched, stores
  <2> QED BY <2>2, <2>3, QuietShared
<1>2. ASSUME NEW outcome \in {"answer", "degraded", "failed"}, g \in Running, Ends(g, outcome),
             \/ outcome # "failed" /\ StorePayload(g, outcome)
             \/ UNCHANGED <<responses, negatives>>
      PROVE  SharedInv' /\ SharedStep
  <2>1. g = begun /\ Running' = {} /\ UNCHANGED <<begun, req>>
    BY <1>2, EndsOrder DEF Ends, Untouched
  <2>2. /\ Cardinality(Running) = 1 /\ Cardinality(Running') = 0
        /\ Cardinality(Over') = Cardinality(Over) + 1 /\ begun \in Nat
    <3>1. Cardinality(Running) = 1 /\ begun \in Nat
      BY <1>2, UnderWay
    <3>2. IsFiniteSet(Over)
      BY OverCounted
    <3>3. Over' = Over \cup {g} /\ g \notin Over
      BY <1>2, EndsOrder
    <3>4. Cardinality(Over') = Cardinality(Over) + 1
      BY <3>2, <3>3, FS_AddElement
    <3> QED
      BY <2>1, <3>1, <3>4, FS_EmptySet
  <2>3. Missed
    BY <1>2 DEF SharedInv
  <2>4. /\ Live(responses)' => responses'.of = g
        /\ Live(negatives)' => negatives'.of = g
    BY <1>2, <2>3 DEF StorePayload, Entry, Live, Missed, Nothing
  <2>5. SharedInv'
    BY <2>1, <2>4 DEF SharedInv
  <2>6. Askers' = Askers
    BY <2>1 DEF Askers
  <2>7. Shared!Make
    BY <2>2, <2>6, AskersAre DEF Shared!Make, Missed
  <2> QED BY <2>5, <2>7 DEF SharedStep, Shared!Next
<1>3. CASE \E outcome \in {"answer", "degraded"} : Conclude(g, outcome)
  BY <1>2, <1>3 DEF Conclude, Running
<1>4. CASE Fail(g)
  BY <1>2, <1>4 DEF Fail, stores
<1> QED
  BY <1>1, <1>3, <1>4 DEF Generate

LEMMA RequestShared ==
  ASSUME IInv, IInv', SharedInv, NEW r \in Requests, Request(r)
  PROVE  SharedInv' /\ SharedStep
<1> DEFINE Req == [at : Idling \cup Joined, of : 0..begun, after : Nat]
           Kept(q) == /\ UNCHANGED <<begun, gen, responses, negatives>>
                      /\ req' = [req EXCEPT ![r] = q]
                      /\ q.at \in Joined => q.of = q.after + 1
<1>0. req \in [Requests -> Req] /\ req[r] \in Req
  BY DEF IInv, TypeOK
<1>1. ASSUME NEW q, Kept(q)
      PROVE  /\ SharedInv'
             /\ Running' = Running /\ Over' = Over /\ (Missed' <=> Missed)
             /\ Askers' = [Askers EXCEPT ![r] = Seen(q)] /\ Askers[r] = Seen(req[r])
  <2>1. Running' = Running /\ Over' = Over /\ (Missed' <=> Missed)
    BY <1>1 DEF Running, Over, Missed, Live
  <2>2. /\ Askers' = [Askers EXCEPT ![r] = Seen(q)] /\ Askers[r] = Seen(req[r])
        /\ req'[r] = q /\ \A x \in Requests : x # r => req'[x] = req[x]
    BY <1>1, OneAsker
  <2>3. SharedInv'
    BY <1>1, <2>1, <2>2 DEF SharedInv, Live
  <2> QED
    BY <2>1, <2>2, <2>3
<1>2. CASE ServeKept(r)
  <2> DEFINE of == IF Live(responses) THEN responses.of ELSE negatives.of
             q == [at |-> "given", of |-> of, after |-> 0]
  <2>1. Kept(q)
    BY <1>2 DEF ServeKept, Comes, stores, Joined
  <2>2. ~Missed /\ req[r].at \in Idling
    BY <1>2 DEF ServeKept
  <2>3. Running = {}
    BY <2>2 DEF SharedInv
  <2>4. of = Cardinality(Over)
    BY <2>2, <2>3, UnderWay DEF SharedInv, Missed
  <2>5. Seen(q) = [at |-> "given", no |-> Cardinality(Over)]
    BY <2>4 DEF Seen, Joined
  <2>6. Seen(req[r]).at # "asking"
    BY <2>2 DEF Seen, Idling, Joined
  <2> HIDE DEF q, Kept
  <2>7. Shared!Hit(r)
    BY <1>1, <2>1, <2>2, <2>5, <2>6, AskersAre DEF Shared!Hit
  <2> QED BY <1>1, <2>1, <2>7 DEF SharedStep, Shared!Next
<1>3. CASE Join(r)
  <2> DEFINE q == [at |-> "waiting", of |-> inflight, after |-> Cardinality(Over)]
  <2>1. /\ Missed /\ req[r].at \in Idling /\ inflight # 0
        /\ UNCHANGED <<begun, gen, responses, negatives>> /\ req' = [req EXCEPT ![r] = q]
    BY <1>3 DEF Join, Comes, stores
  <2>2. /\ Cardinality(Running) = 1
        /\ inflight = Cardinality(Over) + 1
    BY <2>1, UnderWay
  <2>3. Kept(q)
    BY <2>1, <2>2
  <2>4. Seen(q) = [at |-> "asking", no |-> Cardinality(Over)] /\ Seen(req[r]).at # "asking"
    BY <2>1 DEF Seen, Joined, Idling
  <2> HIDE DEF q, Kept
  <2>5. Shared!Ask(r)
    BY <1>1, <2>1, <2>2, <2>3, <2>4, AskersAre DEF Shared!Ask
  <2> QED BY <1>1, <2>3, <2>5 DEF SharedStep, Shared!Next
<1>4. CASE Refuse(r) \/ Leave(r)
  <2>1. Kept(Away)
    BY <1>4 DEF Refuse, Leave, stores, Away, Joined
  <2>2. Seen(Away) = [at |-> "away", no |-> 0]
    BY DEF Seen, Away, Joined
  <2> HIDE DEF Kept
  <2>3. Shared!Leave(r)
    BY <1>1, <2>1, <2>2, AskersAre DEF Shared!Leave, Shared!Away
  <2> QED BY <1>1, <2>1, <2>3 DEF SharedStep, Shared!Next
<1>5. CASE Answered(r)
  <2> DEFINE q == [req[r] EXCEPT !.at = "given", !.after = 0]
  <2>1. /\ req[r].at \in Joined /\ gen[req[r].of].at = "over"
        /\ UNCHANGED <<begun, gen, responses, negatives>> /\ req' = [req EXCEPT ![r] = q]
    BY <1>5 DEF Answered, stores
  <2>2. q.at = "given" /\ q.of = req[r].of
    BY <1>0
  <2>3. Kept(q)
    BY <2>1, <2>2 DEF Joined
  <2>4. req[r].of = req[r].after + 1 /\ req[r].after \in Nat
    BY <1>0, <2>1 DEF SharedInv
  <2>5. req[r].of \in Over
    BY <1>0, <2>1, <2>4, ServingAssumption DEF Over, Gens, IInv, TypeOK
  <2>6. req[r].after < Cardinality(Over)
    BY <2>4, <2>5, UnderWay, OverCounted
  <2>7. /\ Seen(req[r]) = [at |-> "asking", no |-> req[r].after]
        /\ Seen(q) = [at |-> "given", no |-> req[r].after + 1]
    BY <2>1, <2>2, <2>4 DEF Seen, Joined
  <2> HIDE DEF q, Kept
  <2>8. Askers[r].at = "asking" /\ Askers[r].no = req[r].after
    BY <1>1, <2>3, <2>7
  <2>9. Shared!Give(r)
    BY <1>1, <2>3, <2>6, <2>7, <2>8, AskersAre, OverCounted DEF Shared!Give
  <2> QED BY <1>1, <2>3, <2>9 DEF SharedStep, Shared!Next
<1>6. CASE Spawn(r)
  <2> DEFINE q == [at |-> "live", of |-> begun + 1, after |-> Cardinality(Over)]
  <2>1. /\ Missed /\ req[r].at \in Idling /\ inflight = 0 /\ begun < MaxGens
        /\ begun' = begun + 1 /\ UNCHANGED <<responses, negatives>>
        /\ req' = [req EXCEPT ![r] = q]
        /\ gen' = [gen EXCEPT ![begun + 1] = [Idle EXCEPT !.at = "spawned", !.began = now]]
    BY <1>6 DEF Spawn, Comes, stores
  <2>2. Running = {} /\ begun \in Nat /\ begun + 1 \in Gens
    BY <2>1, ServingAssumption DEF IInv, TypeOK, OrderInv, Running, Gens
  <2>3. gen[begun + 1].at = "idle"
    BY <2>2 DEF IInv, OrderInv
  <2>4. /\ gen'[begun + 1].at = "spawned"
        /\ \A h \in Gens : h # begun + 1 => gen'[h] = gen[h]
    BY <2>1, <2>2 DEF IInv, TypeOK, Idle
  <2>5. Over' = Over /\ Running' = {begun + 1}
    BY <2>2, <2>3, <2>4 DEF Over, Running
  <2>6. Cardinality(Running) = 0 /\ Cardinality(Running') = 1 /\ Cardinality(Over) = begun
    BY <2>2, <2>5, UnderWay, FS_Singleton
  <2>7. /\ Askers' = [Askers EXCEPT ![r] = Seen(q)] /\ Askers[r] = Seen(req[r])
        /\ req'[r] = q /\ \A x \in Requests : x # r => req'[x] = req[x]
    BY <2>1, OneAsker
  <2>8. Missed' /\ SharedInv'
    BY <2>1, <2>6, <2>7 DEF SharedInv, Missed, Live
  <2>9. Seen(q) = [at |-> "asking", no |-> Cardinality(Over)] /\ Seen(req[r]).at # "asking"
    BY <2>1 DEF Seen, Joined, Idling
  <2> HIDE DEF q
  <2>10. Shared!Ask(r)
    BY <2>1, <2>5, <2>6, <2>7, <2>8, <2>9, AskersAre DEF Shared!Ask
  <2> QED BY <2>8, <2>10 DEF SharedStep, Shared!Next
<1> QED
  BY <1>2, <1>3, <1>4, <1>5, <1>6 DEF Request

LEMMA SharedStepHolds == IInv /\ IInv' /\ SharedInv /\ [Next]_vars => SharedInv' /\ SharedStep
<1> SUFFICES ASSUME IInv, IInv', SharedInv, [Next]_vars
             PROVE  SharedInv' /\ SharedStep
  OBVIOUS
<1>1. CASE UNCHANGED vars \/ Evict \/ Tick \/ \E c \in Chats : Continue(c)
  <2>1. UNCHANGED <<begun, gen, req>>
    BY <1>1 DEF vars, Evict, Tick, Continue, TakeSeed, Await, Resume, Settle, Turns
  <2>2. responses' \in {responses, Nothing} /\ negatives' \in {negatives, Nothing}
    BY <1>1 DEF vars, Evict, Tick, InTime, Continue, TakeSeed, Await, Resume, Settle, Turns, stores
  <2>3. Running' = Running /\ Over' = Over
    BY <2>1 DEF Running, Over
  <2> QED BY <2>1, <2>2, <2>3, QuietShared
<1> QED
  BY <1>1, GenerateShared, RequestShared DEF Next

\* One generation is under way at most; who comes meanwhile gets what it makes, who
\* comes later the latest result or a new one, for any callers, chats, generations
\* and times to live (start_overview, _spawn_generation).
THEOREM OneForAllHolds == Spec => OneForAll
<1>1. Spec => []SharedInv
  BY SharedInit, SharedStepHolds, Invariant, PTL DEF Spec
<1>2. Init => Shared!Init
  BY SharedInit
<1>3. IInv /\ IInv' /\ SharedInv /\ [Next]_vars => [Shared!Next]_(Shared!vars)
  BY SharedStepHolds DEF SharedStep
<1> QED
  BY <1>1, <1>2, <1>3, Invariant, PTL DEF Spec, OneForAll, Shared!Spec

-----------------------------------------------------------------------------
(* Waiting, as far as it is no liveness: what a caller waits for lives, and  *)
(* it lives for a few steps only.                                            *)

\* A generation that runs, or has ended with its live stream.
Lives(g) == g \in Gens /\ gen[g].at # "idle" /\ (gen[g].at = "over" => gen[g].closed)

Awaited ==
    /\ \A r \in Requests : req[r].at \in Joined => Lives(req[r].of)
    /\ \A c \in Chats : chat[c].at = "awaiting" => Lives(chat[c].of)

ClosedInv ==
    /\ \A g \in Over : gen[g].closed
    /\ \A c \in Chats : chat[c].at = "awaiting" => chat[c].of # 0

\* How many steps a generation has before it at most.
StepsLeft(at) ==
    CASE at = "idle" -> 6 [] at = "spawned" -> 5 [] at = "searching" -> 4
      [] at = "writing" -> 3 [] at = "again" -> 2 [] at = "closing" -> 1 [] OTHER -> 0

StepsOf(g) == StepsLeft(gen[g].at)

Descends ==
    /\ \A g \in Gens : StepsOf(g)' <= StepsOf(g) /\ (Generate(g) => StepsOf(g)' < StepsOf(g))
    /\ \A r \in Requests : {req[r].at, req'[r].at} \subseteq Joined => req'[r] = req[r]
    /\ \A c \in Chats : chat[c].at = "awaiting" /\ chat'[c].at = "awaiting" => chat'[c] = chat[c]

ServingDescends == [][Descends]_vars

LEMMA AwaitedLive == IInv /\ SharedInv /\ ClosedInv => Awaited
<1> SUFFICES ASSUME IInv, SharedInv, ClosedInv PROVE Awaited
  OBVIOUS
<1>1. begun \in Nat /\ MaxGens \in Nat /\ begun <= MaxGens /\ Gens = 1..MaxGens
  BY ServingAssumption DEF IInv, TypeOK, Gens
<1>2. ASSUME NEW g \in 0..begun, g # 0 PROVE Lives(g)
  <2>1. g \in 1..begun /\ g \in Gens
    BY <1>1, <1>2
  <2>2. g \in Running \cup Over
    BY <1>1, <2>1 DEF IInv, OrderInv, Running, Over
  <2> QED
    BY <2>1, <2>2 DEF Running, Over, Lives, ClosedInv
<1>3. ASSUME NEW r \in Requests, req[r].at \in Joined PROVE Lives(req[r].of)
  <2>1. req[r].of \in 0..begun /\ req[r].after \in Nat /\ req[r].of = req[r].after + 1
    BY <1>3 DEF IInv, TypeOK, SharedInv
  <2>2. req[r].of # 0
    BY <2>1
  <2> QED
    BY <1>2, <2>1, <2>2
<1>4. ASSUME NEW c \in Chats, chat[c].at = "awaiting" PROVE Lives(chat[c].of)
  BY <1>2, <1>4 DEF ClosedInv, IInv, TypeOK
<1> QED
  BY <1>3, <1>4 DEF Awaited

\* What a step of a generation does to it and to the others.
LEMMA GenerateMoves ==
  ASSUME IInv, NEW g \in Gens, Generate(g)
  PROVE  /\ \A h \in Gens : h # g => gen'[h] = gen[h]
         /\ StepsOf(g)' < StepsOf(g)
         /\ gen'[g].at = "over" => gen'[g].closed
         /\ UNCHANGED <<req, chat>>
<1>1. \A h \in Gens : gen[h] = [at |-> gen[h].at, outcome |-> gen[h].outcome,
         began |-> gen[h].began, searched |-> gen[h].searched, again |-> gen[h].again,
         found |-> gen[h].found, cut |-> gen[h].cut, closed |-> gen[h].closed]
  BY DEF IInv, TypeOK
<1>2. DOMAIN gen = Gens
  BY DEF IInv, TypeOK
<1>3. gen[g].at \in {"idle", "spawned", "searching", "writing", "again", "closing", "over"}
  BY DEF IInv, TypeOK
<1>4. CASE Begin(g)
  BY <1>1, <1>2, <1>4 DEF Begin, Untouched, StepsOf, StepsLeft
<1>5. ASSUME NEW cut \in BOOLEAN, NEW found \in BOOLEAN, Searched(g, found, cut)
      PROVE  /\ \A h \in Gens : h # g => gen'[h] = gen[h]
             /\ StepsOf(g)' < StepsOf(g)
             /\ gen'[g].at = "over" => gen'[g].closed
             /\ UNCHANGED <<req, chat>>
  BY <1>1, <1>2, <1>5 DEF Searched, Untouched, StepsOf, StepsLeft
<1>6. ASSUME NEW cut \in BOOLEAN, SearchAgain(g, cut)
      PROVE  /\ \A h \in Gens : h # g => gen'[h] = gen[h]
             /\ StepsOf(g)' < StepsOf(g)
             /\ gen'[g].at = "over" => gen'[g].closed
             /\ UNCHANGED <<req, chat>>
  BY <1>1, <1>2, <1>6 DEF SearchAgain, Untouched, StepsOf, StepsLeft
<1>7. CASE WrittenAgain(g)
  BY <1>1, <1>2, <1>7 DEF WrittenAgain, Untouched, StepsOf, StepsLeft
<1>8. ASSUME NEW outcome, Ends(g, outcome), gen[g].at # "over"
      PROVE  /\ \A h \in Gens : h # g => gen'[h] = gen[h]
             /\ StepsOf(g)' < StepsOf(g)
             /\ gen'[g].at = "over" => gen'[g].closed
             /\ UNCHANGED <<req, chat>>
  BY <1>2, <1>3, <1>8 DEF Ends, Idle, Untouched, StepsOf, StepsLeft
<1>9. ASSUME NEW outcome \in {"answer", "degraded"}, Conclude(g, outcome)
      PROVE  Ends(g, outcome) /\ gen[g].at # "over"
  BY <1>9 DEF Conclude
<1>10. CASE Fail(g)
  BY <1>8, <1>10 DEF Fail, Running
<1> QED
  BY <1>4, <1>5, <1>6, <1>7, <1>8, <1>9, <1>10 DEF Generate

LEMMA StaysPut ==
  ASSUME IInv, UNCHANGED gen, ClosedInv
  PROVE  /\ \A g \in Gens : StepsOf(g)' <= StepsOf(g) /\ StepsOf(g) \in 0..6
         /\ \A g \in Over' : gen'[g].closed
BY DEF StepsOf, StepsLeft, Over, ClosedInv

\* A request or a chat moves, and no generation but one that is begun.
LEMMA CallersMove ==
  ASSUME IInv, ClosedInv,
         \/ \E r \in Requests : Request(r)
         \/ \E c \in Chats : Continue(c)
  PROVE  ClosedInv' /\ \A g \in Gens : StepsOf(g)' <= StepsOf(g)
<1>0. begun \in Nat /\ MaxGens \in Nat /\ Gens = 1..MaxGens /\ DOMAIN gen = Gens
      /\ DOMAIN chat = Chats
  BY ServingAssumption DEF IInv, TypeOK, Gens
<1>1. ASSUME NEW r \in Requests, Request(r)
      PROVE  ClosedInv' /\ \A g \in Gens : StepsOf(g)' <= StepsOf(g)
  <2>1. CASE Spawn(r)
    <3>1. begun + 1 \in Gens
      BY <1>0, <2>1 DEF Spawn
    <3>2. gen[begun + 1].at = "idle"
      BY <1>0, <3>1 DEF IInv, OrderInv
    <3>3. gen' = [gen EXCEPT ![begun + 1] = [Idle EXCEPT !.at = "spawned", !.began = now]]
          /\ UNCHANGED chat
      BY <2>1 DEF Spawn
    <3>4. /\ gen'[begun + 1].at = "spawned"
          /\ \A g \in Gens : g # begun + 1 => gen'[g] = gen[g]
      BY <1>0, <3>1, <3>3 DEF Idle
    <3>5. \A g \in Gens : StepsOf(g)' <= StepsOf(g)
      BY <3>2, <3>4 DEF StepsOf, StepsLeft
    <3> QED
      BY <3>3, <3>4, <3>5 DEF ClosedInv, Over
  <2>2. CASE ~Spawn(r)
    <3>1. UNCHANGED <<gen, chat>>
      BY <1>1, <2>2 DEF Request, ServeKept, Join, Refuse, Answered, Leave
    <3> QED
      BY <3>1, StaysPut DEF ClosedInv, Over
  <2> QED
    BY <2>1, <2>2
<1>2. ASSUME NEW c \in Chats, Continue(c)
      PROVE  ClosedInv' /\ \A g \in Gens : StepsOf(g)' <= StepsOf(g)
  <2>1. UNCHANGED gen
    BY <1>2 DEF Continue, TakeSeed, Await, Resume, Settle, Turns
  <2>2. \A d \in Chats : chat'[d].at = "awaiting" => chat'[d].of # 0
    <3>1. \A d \in Chats : d # c => chat'[d] = chat[d]
      BY <1>0, <1>2 DEF Continue, TakeSeed, Await, Resume, Settle, Turns
    <3>2. CASE Await(c)
      BY <1>0, <3>1, <3>2 DEF Await, Turns, ClosedInv, Quiet
    <3>3. CASE ~Await(c)
      <4>1. chat'[c].at # "awaiting"
        BY <1>0, <1>2, <3>3 DEF Continue, TakeSeed, Resume, Settle, Turns, WithSeed, Quiet
      <4> QED
        BY <3>1, <4>1 DEF ClosedInv
    <3> QED
      BY <3>2, <3>3
  <2> QED
    BY <2>1, <2>2, StaysPut DEF ClosedInv, Over
<1> QED
  BY <1>1, <1>2

LEMMA StepClosed ==
  ASSUME IInv, ClosedInv, [Next]_vars
  PROVE  ClosedInv' /\ \A g \in Gens : StepsOf(g)' <= StepsOf(g)
<1>1. ASSUME NEW g \in Gens, Generate(g)
      PROVE  ClosedInv' /\ \A h \in Gens : StepsOf(h)' <= StepsOf(h)
  <2>1. \A h \in Gens : StepsOf(h)' <= StepsOf(h)
    <3>1. \A h \in Gens : StepsOf(h) \in 0..6 /\ StepsOf(h)' \in 0..6
      BY DEF StepsOf, StepsLeft
    <3>2. \A h \in Gens : h # g => StepsOf(h)' = StepsOf(h)
      BY <1>1, GenerateMoves DEF StepsOf
    <3>3. StepsOf(g)' < StepsOf(g)
      BY <1>1, GenerateMoves
    <3> HIDE DEF StepsOf
    <3> QED
      BY <3>1, <3>2, <3>3
  <2> QED
    BY <1>1, <2>1, GenerateMoves DEF ClosedInv, Over
<1>2. CASE UNCHANGED <<gen, chat>>
  BY <1>2, StaysPut DEF ClosedInv, Over
<1> QED
  BY <1>1, <1>2, CallersMove DEF Next, Evict, Tick, vars

\* Who waits stays with the generation it joined.
LEMMA WaitersStay ==
  ASSUME IInv, [Next]_vars
  PROVE  /\ \A r \in Requests : {req[r].at, req'[r].at} \subseteq Joined => req'[r] = req[r]
         /\ \A c \in Chats : chat[c].at = "awaiting" /\ chat'[c].at = "awaiting"
                               => chat'[c] = chat[c]
<1>0. DOMAIN req = Requests /\ DOMAIN chat = Chats
  BY DEF IInv, TypeOK
<1> DEFINE Same ==
      /\ \A r \in Requests : {req[r].at, req'[r].at} \subseteq Joined => req'[r] = req[r]
      /\ \A c \in Chats : chat[c].at = "awaiting" /\ chat'[c].at = "awaiting"
                            => chat'[c] = chat[c]
<1>1. CASE UNCHANGED <<req, chat>>
  BY <1>1
<1>2. ASSUME NEW r \in Requests, Request(r) PROVE Same
  <2>1. UNCHANGED chat
    BY <1>2 DEF Request, ServeKept, Join, Refuse, Spawn, Answered, Leave
  <2>2. \A s \in Requests : s # r => req'[s] = req[s]
    BY <1>0, <1>2 DEF Request, ServeKept, Join, Refuse, Spawn, Answered, Leave, Comes
  <2>3. req[r].at \in Idling \/ req'[r].at \in Idling
    <3>1. CASE ServeKept(r) \/ Join(r) \/ Refuse(r) \/ Spawn(r)
      BY <3>1 DEF ServeKept, Join, Refuse, Spawn
    <3>2. CASE Answered(r)
      BY <1>0, <3>2 DEF Answered, Idling
    <3>3. CASE Leave(r)
      BY <1>0, <3>3 DEF Leave, Idling, Away
    <3> QED
      BY <1>2, <3>1, <3>2, <3>3 DEF Request
  <2> QED
    BY <2>1, <2>2, <2>3 DEF Idling, Joined
<1>3. ASSUME NEW c \in Chats, Continue(c) PROVE Same
  <2>1. UNCHANGED req /\ \A d \in Chats : d # c => chat'[d] = chat[d]
    BY <1>0, <1>3 DEF Continue, TakeSeed, Await, Resume, Settle, Turns
  <2>2. chat[c].at # "awaiting" \/ chat'[c].at # "awaiting"
    BY <1>0, <1>3 DEF Continue, TakeSeed, Await, Resume, Settle, Turns, Quiet, WithSeed
  <2> QED
    BY <2>1, <2>2
<1>4. ASSUME NEW g \in Gens, Generate(g) PROVE Same
  BY <1>1, <1>4, GenerateMoves
<1> QED
  BY <1>1, <1>2, <1>3, <1>4 DEF Next, Evict, Tick, vars

LEMMA ClosedInvariance == Spec => [](IInv /\ SharedInv /\ ClosedInv)
<1>1. Init => ClosedInv
  BY DEF Init, ClosedInv, Over, Idle, Quiet
<1>2. IInv /\ ClosedInv /\ [Next]_vars => ClosedInv'
  BY StepClosed
<1> QED
  BY <1>1, <1>2, Invariant, SharedInit, SharedStepHolds, PTL DEF Spec

\* Nobody waits in vain: who has joined a generation, live or not, and a chat that
\* waits for its seed, wait for one that runs, or has ended with its live stream,
\* so that they can be answered; whoever left, failed or took its place in the
\* table (_run ends the stream in a finally, before it leaves the table).
THEOREM NobodyWaitsInVain == Spec => []Awaited
BY ClosedInvariance, AwaitedLive, PTL

\* ... and the wait is a matter of the generation's own steps, of which it has five
\* at most: no step of anyone adds to them, as it searches a second time only
\* once, and who waits is not moved to another one.  With the fairness of FairSpec,
\* StayersAnswered.
THEOREM WaitIsFinite == Spec => ServingDescends
<1>1. IInv /\ ClosedInv /\ [Next]_vars => [Descends]_vars
  BY StepClosed, WaitersStay, GenerateMoves DEF Descends
<1> QED
  BY <1>1, ClosedInvariance, PTL DEF Spec, ServingDescends
=============================================================================
