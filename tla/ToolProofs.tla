----------------------------- MODULE ToolProofs -----------------------------
(***************************************************************************)
(* Proofs about what the tools of a turn use, for any number of turns,      *)
(* calls, pages and callers and all limits.                                 *)
(*                                                                          *)
(* PageFetch, the rate: of every stretch of time, the requests sent in it   *)
(* and the tokens still in the bucket are together no more than the bucket  *)
(* holds and what came back.  The bucket is written by whoever holds the    *)
(* lock, so that a sleeper finds a token when its time is over.  The shared *)
(* fetch: a page is held once at most, so that what a caller is given is    *)
(* what was found to count; all else touches other pages, or ends the time  *)
(* in which a page counts.  Waiting: a rank that each step of a fetch       *)
(* lowers, and that who asks has a fetch.                                   *)
(*                                                                          *)
(* WebSearch: once a call has taken the turn's prefetch the turn holds it   *)
(* no more; the backends that failed a call are those before the one it     *)
(* asks, from some first one on; who asks under a mark began before it and  *)
(* knows so.  A rank for each search and each prefetch, as for the fetches. *)
(*                                                                          *)
(* SourceRegistry: the numbers of the session and those given out in the    *)
(* open turn are one-to-one with their pages, and nothing a call writes is  *)
(* outside them nor worse than what is saved.                               *)
(***************************************************************************)
EXTENDS PageFetch, WebSearch, SourceRegistry, SequenceTheorems, FiniteSetTheorems,
        WellFoundedInduction, TLAPS

Entries == [key : Keys, left : 0..Ttl]

\* A page is held once at most.
Once(s) == \A i, j \in DOMAIN s : s[i].key = s[j].key => i = j
HeldOnce == Once(entries)

\* A page is held and its time is not over.
Counts(s, k) == \E i \in DOMAIN s : s[i].key = k /\ s[i].left > 0

\* The requests of a stretch of time and the tokens left, in parts of a token.
Budget == \A a \in 0..Window : Unit * sent[a] + tokens <= Full + a

\* Who sleeps has its token when the time it sleeps is over.
SleepersPaid ==
    \A x \in Tasks : task[x].st = "sleep" => tokens + task[x].left >= Unit

IInv == TypeOK /\ HeldOnce /\ Budget /\ SleepersPaid

-----------------------------------------------------------------------------
(* Sequences of entries. *)

\* The sequence without one of its members: the others keep their order.
LEMMA Removed ==
  ASSUME NEW S, NEW s \in Seq(S), NEW i \in 1..Len(s)
  PROVE  /\ RemoveAt(s, i) \in Seq(S)
         /\ Len(RemoveAt(s, i)) = Len(s) - 1
         /\ \A j \in 1..(Len(s) - 1) :
              RemoveAt(s, i)[j] = IF j < i THEN s[j] ELSE s[j + 1]
<1> DEFINE a == SubSeq(s, 1, i - 1)
           b == SubSeq(s, i + 1, Len(s))
<1>1. /\ a \in Seq(S) /\ Len(a) = i - 1
      /\ \A j \in 1..(i - 1) : a[j] = s[j]
  OBVIOUS
<1>2. /\ b \in Seq(S) /\ Len(b) = Len(s) - i
      /\ \A j \in 1..(Len(s) - i) : b[j] = s[i + j]
  OBVIOUS
<1>3. RemoveAt(s, i) = a \o b
  BY DEF RemoveAt
<1> HIDE DEF a, b
<1>4. /\ a \o b \in Seq(S) /\ Len(a \o b) = Len(a) + Len(b)
      /\ \A j \in 1..(Len(a) + Len(b)) : (a \o b)[j] = IF j <= Len(a) THEN a[j] ELSE b[j - Len(a)]
  BY <1>1, <1>2, ConcatProperties
<1>5. Len(a \o b) = Len(s) - 1
  BY <1>1, <1>2, <1>4
<1>6. ASSUME NEW j \in 1..(Len(s) - 1)
      PROVE  (a \o b)[j] = IF j < i THEN s[j] ELSE s[j + 1]
  <2>1. CASE j < i
    <3>1. j \in 1..(i - 1) /\ j <= Len(a) /\ j \in 1..(Len(a) + Len(b))
      BY <1>1, <1>2, <2>1
    <3> QED
      BY <1>1, <1>4, <2>1, <3>1
  <2>2. CASE ~(j < i)
    <3>1. /\ j - Len(a) \in 1..(Len(s) - i) /\ i + (j - Len(a)) = j + 1
          /\ ~(j <= Len(a)) /\ j \in 1..(Len(a) + Len(b))
      BY <1>1, <1>2, <2>2
    <3> QED
      BY <1>2, <1>4, <2>2, <3>1
  <2> QED
    BY <2>1, <2>2
<1> QED
  BY <1>3, <1>5, <1>4, <1>6

\* What the cache is without a page: no entry of it, and the others as they were.
LEMMA WithoutIs ==
  ASSUME TypeOK, HeldOnce, NEW k \in Keys
  PROVE  /\ Without(k) \in Seq(Entries)
         /\ Len(Without(k)) <= Len(entries)
         /\ Positions(k) # {} => Len(Without(k)) = Len(entries) - 1
         /\ \A i \in DOMAIN Without(k) :
              /\ Without(k)[i].key # k
              /\ \E j \in DOMAIN entries : entries[j] = Without(k)[i]
         /\ \A j \in DOMAIN entries :
              entries[j].key # k => \E i \in DOMAIN Without(k) : Without(k)[i] = entries[j]
         /\ Once(Without(k))
<1>1. entries \in Seq(Entries)
  BY DEF TypeOK, Entries
<1>2. CASE Positions(k) = {}
  <2>1. Without(k) = entries
    BY <1>2 DEF Without
  <2>2. \A i \in DOMAIN entries : entries[i].key # k
    BY <1>2 DEF Positions
  <2> QED
    BY <1>1, <1>2, <2>1, <2>2 DEF HeldOnce, Once
<1>3. CASE Positions(k) # {}
  <2> DEFINE at == CHOOSE i \in Positions(k) : TRUE
             w  == Without(k)
  <2>1. at \in Positions(k)
    BY <1>3
  <2>2. at \in 1..Len(entries) /\ entries[at].key = k
    BY <1>1, <2>1 DEF Positions
  <2>3. w = RemoveAt(entries, at)
    BY <1>3 DEF Without
  <2> HIDE DEF at, w
  <2>4. /\ w \in Seq(Entries) /\ Len(w) = Len(entries) - 1
        /\ \A j \in 1..(Len(entries) - 1) : w[j] = IF j < at THEN entries[j] ELSE entries[j + 1]
    BY <1>1, <2>2, <2>3, Removed
  <2>5. ASSUME NEW i \in DOMAIN w
        PROVE  \E j \in 1..Len(entries) : j # at /\ entries[j] = w[i]
                                          /\ j = IF i < at THEN i ELSE i + 1
    <3>1. i \in 1..(Len(entries) - 1)
      BY <2>4
    <3> QED
      BY <1>1, <2>2, <2>4, <3>1
  <2>6. ASSUME NEW j \in 1..Len(entries), j # at
        PROVE  \E i \in DOMAIN w : w[i] = entries[j]
    <3>1. CASE j < at
      <4>1. j \in 1..(Len(entries) - 1) /\ w[j] = entries[j]
        BY <1>1, <2>2, <2>4, <3>1
      <4> QED
        BY <4>1, <2>4
    <3>2. CASE j > at
      <4>1. j - 1 \in 1..(Len(entries) - 1) /\ w[j - 1] = entries[(j - 1) + 1]
        BY <1>1, <2>2, <2>4, <3>2
      <4>2. w[j - 1] = entries[j]
        BY <4>1
      <4> QED
        BY <4>1, <4>2, <2>4
    <3> QED
      BY <2>2, <2>6, <3>1, <3>2
  <2>7. DOMAIN entries = 1..Len(entries) /\ DOMAIN w = 1..Len(w)
    BY <1>1, <2>4
  <2>8. ASSUME NEW i \in DOMAIN w
        PROVE  w[i].key # k /\ \E j \in DOMAIN entries : entries[j] = w[i]
    BY <2>2, <2>5, <2>7 DEF HeldOnce, Once
  <2>9. ASSUME NEW j \in DOMAIN entries, entries[j].key # k
        PROVE  \E i \in DOMAIN w : w[i] = entries[j]
    BY <2>2, <2>6, <2>7, <2>9
  <2>10. ASSUME NEW i \in DOMAIN w, NEW j \in DOMAIN w, w[i].key = w[j].key
         PROVE  i = j
    <3>1. PICK m \in 1..Len(entries) : m # at /\ entries[m] = w[i] /\ m = IF i < at THEN i ELSE i + 1
      BY <2>5
    <3>2. PICK n \in 1..Len(entries) : n # at /\ entries[n] = w[j] /\ n = IF j < at THEN j ELSE j + 1
      BY <2>5
    <3>3. m = n
      BY <2>7, <2>10, <3>1, <3>2 DEF HeldOnce, Once
    <3>4. i \in Nat /\ j \in Nat /\ at \in Nat
      BY <2>2, <2>7
    <3> QED
      BY <3>1, <3>2, <3>3, <3>4
  <2>11. Len(w) <= Len(entries) /\ Len(entries) \in Nat
    BY <1>1, <2>4
  <2> QED
    BY <2>4, <2>8, <2>9, <2>10, <2>11 DEF w, Once
<1> QED
  BY <1>2, <1>3

\* A page is at one place of the cache, if at any.
LEMMA PlaceOf ==
  ASSUME TypeOK, HeldOnce, NEW k \in Keys, Positions(k) # {}
  PROVE  LET e == entries[CHOOSE i \in Positions(k) : TRUE]
         IN  e \in Entries /\ e.key = k /\ (e.left > 0 <=> Counts(entries, k))
<1> DEFINE at == CHOOSE i \in Positions(k) : TRUE
<1>1. at \in Positions(k)
  OBVIOUS
<1> HIDE DEF at
<1>2. entries \in Seq(Entries)
  BY DEF TypeOK, Entries
<1>3. at \in DOMAIN entries /\ entries[at].key = k
  BY <1>1 DEF Positions
<1>4. entries[at] \in Entries
  BY <1>2, <1>3
<1>5. entries[at].left > 0 <=> Counts(entries, k)
  BY <1>3 DEF Counts, HeldOnce, Once
<1> QED
  BY <1>3, <1>4, <1>5 DEF at

\* An entry put at the end of a cache without its page.
LEMMA Appended ==
  ASSUME NEW s \in Seq(Entries), Once(s), NEW e \in Entries,
         \A i \in DOMAIN s : s[i].key # e.key
  PROVE  /\ Append(s, e) \in Seq(Entries) /\ Len(Append(s, e)) = Len(s) + 1
         /\ Once(Append(s, e))
         /\ \A k \in Keys : Counts(Append(s, e), k)
                             <=> Counts(s, k) \/ (k = e.key /\ e.left > 0)
<1> DEFINE t == Append(s, e)
<1>1. /\ t \in Seq(Entries) /\ Len(t) = Len(s) + 1
      /\ \A i \in 1..Len(s) : t[i] = s[i]
      /\ t[Len(s) + 1] = e
  OBVIOUS
<1>2. DOMAIN t = DOMAIN s \cup {Len(s) + 1} /\ DOMAIN s = 1..Len(s) /\ Len(s) \in Nat
  BY <1>1
<1> HIDE DEF t
<1>3. Once(t)
  BY <1>1, <1>2 DEF Once
<1>4. ASSUME NEW k \in Keys
      PROVE  Counts(t, k) <=> Counts(s, k) \/ (k = e.key /\ e.left > 0)
  BY <1>1, <1>2 DEF Counts
<1> QED
  BY <1>1, <1>3, <1>4 DEF t

\* The latest entries of a cache that holds one too many at most.
LEMMA LatestIs ==
  ASSUME NEW s \in Seq(Entries), Once(s), Len(s) <= MaxEntries + 1
  PROVE  /\ Latest(s, MaxEntries) \in Seq(Entries) /\ Len(Latest(s, MaxEntries)) <= MaxEntries
         /\ Once(Latest(s, MaxEntries))
         /\ \A k \in Keys : Counts(Latest(s, MaxEntries), k) => Counts(s, k)
<1>0. Len(s) \in Nat /\ MaxEntries \in Nat
  BY FetchAssumption
<1>1. CASE Len(s) <= MaxEntries
  BY <1>0, <1>1 DEF Latest
<1>2. CASE Len(s) > MaxEntries
  <2> DEFINE t == SubSeq(s, 2, Len(s))
  <2>1. Len(s) - MaxEntries + 1 = 2 /\ Len(s) - 1 = MaxEntries
    BY <1>0, <1>2
  <2>2. Latest(s, MaxEntries) = t
    BY <1>2, <2>1 DEF Latest
  <2>3. /\ t \in Seq(Entries) /\ Len(t) = Len(s) - 1
        /\ \A i \in 1..(Len(s) - 1) : t[i] = s[i + 1]
    <3>1. \A i \in 2..Len(s) : s[i] \in Entries
      BY <1>0
    <3>2. /\ t \in Seq(Entries)
          /\ Len(t) = IF 2 <= Len(s) THEN Len(s) - 2 + 1 ELSE 0
          /\ \A i \in 1..(Len(s) - 2 + 1) : t[i] = s[2 + i - 1]
      BY <1>0, <3>1, SubSeqProperties
    <3> HIDE DEF t
    <3>3. 2 <= Len(s) /\ Len(s) - 2 + 1 = Len(s) - 1 /\ \A i \in Nat : 2 + i - 1 = i + 1
      BY <1>0, <2>1, FetchAssumption
    <3> QED
      BY <3>2, <3>3
  <2> HIDE DEF t
  <2>4. DOMAIN t = 1..(Len(s) - 1)
    BY <2>3
  <2>5. \A i \in DOMAIN t : i + 1 \in DOMAIN s /\ t[i] = s[i + 1] /\ i \in Nat
    BY <1>0, <2>3, <2>4
  <2>6. Once(t)
    <3>1. SUFFICES ASSUME NEW i \in DOMAIN t, NEW j \in DOMAIN t, t[i].key = t[j].key
                   PROVE  i = j
      BY DEF Once
    <3>2. i + 1 = j + 1
      BY <2>5, <3>1 DEF Once
    <3> QED
      BY <2>5, <3>2
  <2>7. \A k \in Keys : Counts(t, k) => Counts(s, k)
    BY <2>5 DEF Counts
  <2> QED
    BY <2>1, <2>2, <2>3, <2>6, <2>7
<1> QED
  BY <1>0, <1>1, <1>2

\* Without a page the others count as they did.
LEMMA WithoutCounts ==
  ASSUME TypeOK, HeldOnce, NEW k \in Keys
  PROVE  /\ ~Counts(Without(k), k)
         /\ \A j \in Keys : j # k => (Counts(Without(k), j) <=> Counts(entries, j))
BY WithoutIs DEF Counts

LEMMA HeldCounts == ASSUME NEW k \in Keys PROVE Held(k) <=> Counts(entries, k)
BY DEF Held, Counts, Positions
-----------------------------------------------------------------------------
(* What the steps do to the cache. *)

EntriesOK == entries \in Seq(Entries) /\ Len(entries) <= MaxEntries /\ Once(entries)

\* A page that is given counts as before, and so do the others.
LEMMA HitEntries ==
  ASSUME TypeOK, HeldOnce, NEW c \in Callers, NEW k \in Keys, Hit(c, k)
  PROVE  EntriesOK' /\ \A j \in Keys : Held(j)' <=> Held(j)
<1> DEFINE e == entries[CHOOSE i \in Positions(k) : TRUE]
<1>1. Positions(k) # {} /\ Held(k) /\ entries' = Append(Without(k), e)
  BY DEF Hit, Held
<1>2. e \in Entries /\ e.key = k /\ e.left > 0
  BY <1>1, PlaceOf, HeldCounts
<1> HIDE DEF e
<1>3. /\ Without(k) \in Seq(Entries) /\ Once(Without(k))
      /\ Len(Without(k)) = Len(entries) - 1
      /\ \A i \in DOMAIN Without(k) : Without(k)[i].key # e.key
  BY <1>1, <1>2, WithoutIs
<1>4. /\ entries' \in Seq(Entries) /\ Len(entries') = Len(entries) /\ Once(entries')
      /\ \A j \in Keys : Counts(entries', j) <=> Counts(Without(k), j) \/ (j = e.key /\ e.left > 0)
  <2>1. Len(entries) \in Nat
    BY DEF TypeOK
  <2> QED
    BY <1>1, <1>2, <1>3, <2>1, Appended
<1>5. EntriesOK'
  BY <1>4 DEF EntriesOK, TypeOK
<1>6. \A j \in Keys : Counts(entries', j) <=> Counts(entries, j)
  BY <1>1, <1>2, <1>4, WithoutCounts, HeldCounts
<1>7. \A j \in Keys : Held(j)' <=> Counts(entries', j)
  BY DEF Held, Counts, Positions
<1> QED
  BY <1>5, <1>6, <1>7, HeldCounts

\* A page that has expired is dropped.
LEMMA MissEntries ==
  ASSUME TypeOK, HeldOnce, NEW c \in Callers, NEW k \in Keys, Miss(c, k)
  PROVE  EntriesOK' /\ \A j \in Keys : Held(j)' <=> Held(j)
<1>1. entries' = Without(k) /\ ~Held(k)
  BY DEF Miss
<1>2. EntriesOK'
  <2>1. Len(entries) \in Nat /\ Len(entries) <= MaxEntries /\ MaxEntries \in Nat
    BY FetchAssumption DEF TypeOK
  <2>2. /\ Without(k) \in Seq(Entries) /\ Once(Without(k)) 
        /\ Len(Without(k)) <= Len(entries)
    BY WithoutIs
  <2>3. Len(Without(k)) \in Nat
    BY <2>2
  <2> QED
    BY <1>1, <2>1, <2>2, <2>3 DEF EntriesOK
<1>3. \A j \in Keys : Counts(entries', j) <=> Counts(entries, j)
  BY <1>1, WithoutCounts, HeldCounts
<1>4. \A j \in Keys : Held(j)' <=> Counts(entries', j)
  BY DEF Held, Counts, Positions
<1> QED
  BY <1>2, <1>3, <1>4, HeldCounts

\* A page that was fetched is kept; what is evicted no longer counts.
LEMMA EndEntries ==
  ASSUME TypeOK, HeldOnce, NEW x \in Tasks, NEW ok \in BOOLEAN, End(x, ok)
  PROVE  EntriesOK' /\ \A j \in Keys : j # x /\ Held(j)' => Held(j)
<1>0. \A j \in Keys : (Held(j)' <=> Counts(entries', j)) /\ (Held(j) <=> Counts(entries, j))
  BY DEF Held, Counts, Positions
<1>1. CASE UNCHANGED entries
  BY <1>0, <1>1 DEF EntriesOK, TypeOK, HeldOnce, Entries
<1>2. CASE x \in Keys /\ ok
  <2> DEFINE e == [key |-> x, left |-> Ttl]
             s == Append(Without(x), e)
  <2>1. e \in Entries /\ e.key = x
    BY <1>2, FetchAssumption DEF Entries
  <2>2. entries' = Latest(s, MaxEntries)
    BY <1>2 DEF End
  <2> HIDE DEF e
  <2>3. /\ Without(x) \in Seq(Entries) /\ Once(Without(x))
        /\ Len(Without(x)) <= Len(entries)
        /\ \A i \in DOMAIN Without(x) : Without(x)[i].key # e.key
    BY <1>2, <2>1, WithoutIs
  <2>4. /\ s \in Seq(Entries) /\ Len(s) = Len(Without(x)) + 1 /\ Once(s)
        /\ \A j \in Keys : Counts(s, j) <=> Counts(Without(x), j) \/ (j = e.key /\ e.left > 0)
    BY <2>1, <2>3, Appended
  <2> HIDE DEF s
  <2>5. Len(s) <= MaxEntries + 1
    <3>1. Len(entries) \in Nat /\ Len(entries) <= MaxEntries /\ MaxEntries \in Nat
      BY FetchAssumption DEF TypeOK
    <3>2. Len(Without(x)) \in Nat
      BY <2>3
    <3> QED
      BY <2>3, <2>4, <3>1, <3>2
  <2>6. /\ entries' \in Seq(Entries) /\ Len(entries') <= MaxEntries /\ Once(entries')
        /\ \A j \in Keys : Counts(entries', j) => Counts(s, j)
    BY <2>2, <2>4, <2>5, LatestIs
  <2>7. \A j \in Keys : j # x => (Counts(Without(x), j) <=> Counts(entries, j))
    BY <1>2, WithoutCounts
  <2> QED
    BY <1>0, <2>1, <2>4, <2>6, <2>7 DEF EntriesOK
<1> QED
  BY <1>1, <1>2 DEF End

\* Time passes: what counts afterwards counted before.
LEMMA TickEntries ==
  ASSUME TypeOK, HeldOnce, Tick
  PROVE  EntriesOK' /\ \A j \in Keys : Held(j)' => Held(j)
<1>0. \A j \in Keys : (Held(j)' <=> Counts(entries', j)) /\ (Held(j) <=> Counts(entries, j))
  BY DEF Held, Counts, Positions
<1>1. entries \in Seq(Entries) /\ Len(entries) \in Nat /\ Ttl \in Nat
  BY FetchAssumption DEF TypeOK, Entries
<1>2. entries' = [i \in 1..Len(entries) |-> [entries[i] EXCEPT !.left = Less(@)]]
  BY DEF Tick
<1>3. \A i \in 1..Len(entries) :
        /\ entries'[i] \in Entries /\ entries'[i].key = entries[i].key
        /\ entries'[i].left > 0 => entries[i].left > 0
  <2> SUFFICES ASSUME NEW i \in 1..Len(entries)
               PROVE  /\ entries'[i] \in Entries /\ entries'[i].key = entries[i].key
                      /\ entries'[i].left > 0 => entries[i].left > 0
    OBVIOUS
  <2>1. entries[i] \in Entries
    BY <1>1
  <2>2. entries'[i] = [entries[i] EXCEPT !.left = Less(entries[i].left)]
    BY <1>2
  <2>3. Less(entries[i].left) \in 0..Ttl /\ (Less(entries[i].left) > 0 => entries[i].left > 0)
    BY <1>1, <2>1 DEF Entries, Less
  <2> QED
    BY <2>1, <2>2, <2>3 DEF Entries
<1>4. entries' \in Seq(Entries) /\ DOMAIN entries' = DOMAIN entries /\ Len(entries') = Len(entries)
  BY <1>1, <1>2, <1>3
<1>5. DOMAIN entries = 1..Len(entries)
  BY <1>1
<1>6. EntriesOK'
  BY <1>3, <1>4, <1>5 DEF EntriesOK, TypeOK, HeldOnce, Once
<1>7. \A j \in Keys : Counts(entries', j) => Counts(entries, j)
  BY <1>3, <1>4, <1>5 DEF Counts
<1> QED
  BY <1>0, <1>6, <1>7
-----------------------------------------------------------------------------
(* The inductive invariant: the client. *)

Fetches == [st : {"none", "slot", "pace", "sleep", "sent", "pause"},
            tries : 0..MaxRetries, hops : 0..MaxRedirects, left : Nat]

CallerType == [at : {"away", "asking", "given"}, key : Keys \cup {"none"}, no : Nat]

\* What the invariant says besides the cache.
ClientOK ==
    /\ task \in [Tasks -> Fetches]
    /\ lock = {x \in Tasks : task[x].st = "sleep"} /\ \A x, y \in lock : x = y
    /\ tokens \in 0..Full /\ sent \in [0..Window -> Nat]
    /\ made \in [Keys -> Nat]
    /\ caller \in [Callers -> CallerType]
    /\ Budget /\ SleepersPaid

LEMMA Parts == /\ IInv <=> EntriesOK /\ ClientOK
               /\ IInv' <=> EntriesOK' /\ ClientOK'
<1>1. IInv <=> EntriesOK /\ ClientOK
  BY DEF IInv, TypeOK, HeldOnce, EntriesOK, Entries, ClientOK, Fetches, CallerType
<1>2. IInv' <=> EntriesOK' /\ ClientOK'
  BY DEF IInv, TypeOK, HeldOnce, EntriesOK, Entries, ClientOK, Fetches, CallerType
<1> QED
  BY <1>1, <1>2

\* A token has parts, and the bucket holds one at least.
LEMMA Bucket ==
  /\ Unit \in Nat \ {0} /\ Full \in Nat /\ Full >= Unit
  /\ \A n \in Nat : Unit * n \in Nat /\ Unit * (n + 1) = Unit * n + Unit
<1>1. Unit \in Nat \ {0} /\ Burst \in Nat \ {0} /\ Burst - 1 \in Nat
  BY FetchAssumption
<1>2. \A n \in Nat : Unit * n \in Nat /\ Unit * (n + 1) = Unit * n + Unit
  BY <1>1
<1>3. Burst * Unit = Unit * ((Burst - 1) + 1)
  BY <1>1
<1>4. Unit * ((Burst - 1) + 1) = Unit * (Burst - 1) + Unit /\ Unit * (Burst - 1) \in Nat
  BY <1>1, <1>2
<1>5. Full = Unit * (Burst - 1) + Unit
  BY <1>3, <1>4 DEF Full
<1> QED
  BY <1>1, <1>2, <1>4, <1>5

LEMMA Spent ==
  ASSUME NEW m \in Nat, NEW t \in Nat, NEW u \in Nat, NEW v \in Nat, NEW f \in Nat,
         NEW a \in Nat, m + t <= f + a, v + u <= t, t <= f
  PROVE  m + u + v <= f + a /\ v \in 0..f
OBVIOUS

LEMMA Earned ==
  ASSUME NEW m \in Nat, NEW t \in Nat, NEW v \in Nat, NEW f \in Nat,
         NEW a \in Nat, m + t <= f + (a - 1), v <= t + 1
  PROVE  m + v <= f + a
OBVIOUS

\* A fetch moves on, neither to sleep nor to a request: who sleeps still does.
LEMMA Moves ==
  ASSUME ClientOK, NEW x \in Tasks, NEW t \in Fetches, t.st # "sleep",
         task' = [task EXCEPT ![x] = t],
         lock' = lock \ {x}, UNCHANGED <<tokens, sent>>,
         made' \in [Keys -> Nat], caller' \in [Callers -> CallerType]
  PROVE  ClientOK'
<1>1. task' \in [Tasks -> Fetches]
  BY DEF ClientOK
<1>2. \A y \in Tasks : task'[y] = IF y = x THEN t ELSE task[y]
  BY DEF ClientOK
<1>3. lock' = {y \in Tasks : task'[y].st = "sleep"}
  BY <1>2 DEF ClientOK
<1>4. \A y, z \in lock' : y = z
  BY DEF ClientOK
<1>5. Budget'
  BY DEF ClientOK, Budget
<1>6. SleepersPaid'
  BY <1>2 DEF ClientOK, SleepersPaid
<1>7. /\ tokens' \in 0..Full /\ sent' \in [0..Window -> Nat]
      /\ made' \in [Keys -> Nat] /\ caller' \in [Callers -> CallerType]
  BY DEF ClientOK
<1> QED
  BY <1>1, <1>3, <1>4, <1>5, <1>6, <1>7 DEF ClientOK

\* A request goes out for a token, by nobody else's sleep.
LEMMA Sends ==
  ASSUME ClientOK, NEW x \in Tasks, Send(x), lock' = {}, lock \subseteq {x},
         tokens' \in Nat, tokens' + Unit <= tokens, UNCHANGED <<made, caller>>
  PROVE  ClientOK'
<1>1. task' \in [Tasks -> Fetches]
  BY DEF ClientOK, Send, Fetches
<1>2. \A y \in Tasks : task'[y].st = IF y = x THEN "sent" ELSE task[y].st
  BY DEF ClientOK, Send, Fetches
<1>3. \A y \in Tasks : task'[y].st # "sleep"
  BY <1>2 DEF ClientOK
<1>4. tokens' \in 0..Full /\ Unit \in Nat /\ tokens \in Nat
  <2>1. Unit \in Nat /\ Full \in Nat
    BY Bucket
  <2>2. tokens \in Nat /\ tokens <= Full
    BY <2>1 DEF ClientOK
  <2>3. 0 + tokens <= Full + 0
    BY <2>1, <2>2
  <2> QED
    BY <2>1, <2>2, <2>3, Spent
<1>5. sent' = [a \in 0..Window |-> sent[a] + 1]
  BY DEF Send
<1>6. sent' \in [0..Window -> Nat]
  BY <1>5 DEF ClientOK
<1>7. Budget'
  <2> SUFFICES ASSUME NEW a \in 0..Window
               PROVE  Unit * sent'[a] + tokens' <= Full + a
    BY DEF Budget
  <2>1. sent[a] \in Nat /\ sent'[a] = sent[a] + 1 /\ a \in Nat
    BY <1>5, FetchAssumption DEF ClientOK
  <2>2. Unit * sent[a] + tokens <= Full + a
    BY DEF ClientOK, Budget
  <2>3. Unit * sent[a] \in Nat /\ Unit * sent'[a] = Unit * sent[a] + Unit /\ Full \in Nat
    BY <2>1, Bucket
  <2> DEFINE m == Unit * sent[a]
             n == Unit * sent'[a]
  <2>4. m \in Nat /\ n = m + Unit /\ m + tokens <= Full + a
    BY <2>2, <2>3
  <2> HIDE DEF m, n
  <2>5. n + tokens' <= Full + a
    <3>1. Full \in Nat /\ a \in Nat
      BY <2>1, <2>3
    <3> QED
      <4>1. tokens <= Full /\ tokens \in Nat /\ Unit \in Nat
        BY <1>4, <3>1 DEF ClientOK
      <4>2. m + Unit + tokens' <= Full + a
        BY <2>4, <3>1, <4>1, Spent
      <4> QED
        BY <2>4, <4>2
  <2> QED
    BY <2>5 DEF n
<1> QED
  BY <1>1, <1>3, <1>4, <1>6, <1>7 DEF ClientOK, SleepersPaid

\* The next in turn takes a token, or sleeps until what is missing has come back.
LEMMA ThrottleKeeps ==
  ASSUME ClientOK, NEW x \in Tasks, Throttle(x)
  PROVE  ClientOK'
<1>0. tokens \in Nat /\ Unit \in Nat /\ lock = {} /\ task[x].st = "pace"
  BY Bucket DEF ClientOK, Throttle
<1>1. CASE tokens >= Unit
  <2>1. Send(x) /\ tokens' = tokens - Unit /\ lock' = {} /\ UNCHANGED <<made, caller>>
    BY <1>0, <1>1 DEF Throttle
  <2>2. tokens' \in Nat /\ tokens' + Unit <= tokens
    BY <1>0, <1>1, <2>1
  <2> QED
    BY <1>0, <2>1, <2>2, Sends
<1>2. CASE ~(tokens >= Unit)
  <2>1. /\ lock' = {x} /\ UNCHANGED <<tokens, sent, made, caller>>
        /\ task' = [task EXCEPT ![x].st = "sleep", ![x].left = Unit - tokens]
    BY <1>0, <1>2 DEF Throttle
  <2>2. Unit - tokens \in Nat
    BY <1>0, <1>2
  <2>3. /\ task' \in [Tasks -> Fetches]
        /\ task'[x].st = "sleep" /\ task'[x].left = Unit - tokens
        /\ \A y \in Tasks : y # x => task'[y] = task[y]
    BY <2>1, <2>2 DEF ClientOK, Fetches
  <2>4. \A y \in Tasks : task[y].st # "sleep"
    BY <1>0 DEF ClientOK
  <2>5. lock' = {y \in Tasks : task'[y].st = "sleep"} /\ \A y, z \in lock' : y = z
    BY <2>1, <2>3, <2>4
  <2>6. SleepersPaid'
    BY <1>0, <2>1, <2>3, <2>4 DEF SleepersPaid
  <2>7. /\ tokens' \in 0..Full /\ sent' \in [0..Window -> Nat] /\ Budget'
        /\ made' \in [Keys -> Nat] /\ caller' \in [Callers -> CallerType]
    BY <2>1 DEF ClientOK, Budget
  <2> QED
    BY <2>3, <2>5, <2>6, <2>7 DEF ClientOK
<1> QED
  BY <1>1, <1>2

\* The sleeper's token is there when it wakes, and it leaves an empty bucket.
LEMMA WakeKeeps ==
  ASSUME ClientOK, NEW x \in Tasks, WakeUp(x)
  PROVE  ClientOK'
<1>1. /\ task[x].st = "sleep" /\ task[x].left = 0 /\ Send(x)
      /\ tokens' = 0 /\ lock' = {} /\ UNCHANGED <<made, caller>>
  BY DEF WakeUp, AfterSleep
<1>2. tokens \in Nat /\ Unit \in Nat /\ tokens >= Unit
  BY <1>1, Bucket DEF ClientOK, SleepersPaid
<1>3. lock \subseteq {x}
  BY <1>1 DEF ClientOK
<1> QED
  BY <1>1, <1>2, <1>3, Sends

\* Time passes: a part of a token comes back for every tick of a stretch.
LEMMA TickKeeps ==
  ASSUME ClientOK, Tick
  PROVE  ClientOK'
<1>1. /\ tokens' = Refilled /\ UNCHANGED <<lock, made, caller>>
      /\ sent' = [a \in 0..Window |-> IF a = 0 THEN 0 ELSE sent[a - 1]]
      /\ task' = [x \in Tasks |-> [task[x] EXCEPT !.left = Less(@)]]
  BY DEF Tick
<1>2. tokens \in 0..Full /\ Full \in Nat /\ Unit \in Nat \ {0} /\ Full >= Unit /\ Window \in Nat
  BY Bucket, FetchAssumption DEF ClientOK
<1>3. /\ tokens' \in 0..Full /\ tokens' <= tokens + 1
      /\ tokens' = tokens + 1 \/ tokens' = Full
  BY <1>1, <1>2 DEF Refilled
<1>4. \A x \in Tasks : /\ task'[x] \in Fetches /\ task'[x].st = task[x].st
                       /\ task'[x].left = Less(task[x].left) /\ task[x].left \in Nat
  <2> SUFFICES ASSUME NEW x \in Tasks
               PROVE  /\ task'[x] \in Fetches /\ task'[x].st = task[x].st
                      /\ task'[x].left = Less(task[x].left) /\ task[x].left \in Nat
    OBVIOUS
  <2>1. task[x] \in Fetches
    BY DEF ClientOK
  <2>2. task'[x] = [task[x] EXCEPT !.left = Less(task[x].left)]
    BY <1>1
  <2>3. task[x].left \in Nat /\ Less(task[x].left) \in Nat
    BY <2>1 DEF Fetches, Less
  <2> QED
    BY <2>1, <2>2, <2>3 DEF Fetches
<1>5. task' \in [Tasks -> Fetches]
  BY <1>1, <1>4
<1>6. \A a \in 0..Window : sent[a] \in Nat
  BY DEF ClientOK
<1>7. \A a \in 0..Window : a # 0 => a - 1 \in 0..Window /\ sent'[a] = sent[a - 1]
  BY <1>1, <1>2
<1>8. sent'[0] = 0
  BY <1>1, <1>2
<1>9. sent' \in [0..Window -> Nat]
  BY <1>1, <1>2, <1>6
<1>10. Budget'
  <2> SUFFICES ASSUME NEW a \in 0..Window
               PROVE  Unit * sent'[a] + tokens' <= Full + a
    BY DEF Budget
  <2>1. CASE a = 0
    <3>1. Unit * sent'[a] = 0
      BY <1>2, <1>8, <2>1
    <3> QED
      BY <1>2, <1>3, <2>1, <3>1
  <2>2. CASE a # 0
    <3>1. a - 1 \in 0..Window /\ sent'[a] = sent[a - 1]
      BY <1>7, <2>2
    <3> DEFINE n == Unit * sent[a - 1]
    <3>2. n \in Nat /\ n + tokens <= Full + (a - 1)
      BY <1>6, <3>1, Bucket DEF ClientOK, Budget
    <3>3. Unit * sent'[a] = n
      BY <3>1
    <3> HIDE DEF n
    <3>4. n + tokens' <= Full + a
      <4>1. tokens \in Nat /\ tokens' \in Nat /\ tokens' <= tokens + 1 /\ a \in Nat /\ Full \in Nat
        BY <1>2, <1>3
      <4> QED
        BY <3>2, <4>1, Earned
    <3> QED
      BY <3>3, <3>4
  <2> QED
    BY <2>1, <2>2
<1>11. SleepersPaid'
  <2> SUFFICES ASSUME NEW x \in Tasks, task'[x].st = "sleep"
               PROVE  tokens' + task'[x].left >= Unit
    BY DEF SleepersPaid
  <2>1. tokens + task[x].left >= Unit
    BY <1>4 DEF ClientOK, SleepersPaid
  <2> QED
    BY <1>2, <1>3, <1>4, <2>1 DEF Less
<1>12. lock' = {x \in Tasks : task'[x].st = "sleep"} /\ \A x, y \in lock' : x = y
  BY <1>1, <1>4 DEF ClientOK
<1> QED
  BY <1>1, <1>3, <1>5, <1>9, <1>10, <1>11, <1>12 DEF ClientOK
-----------------------------------------------------------------------------
(* The inductive invariant: every step. *)

LEMMA InitInv == Init => IInv
<1> SUFFICES ASSUME Init PROVE EntriesOK /\ ClientOK
  BY Parts
<1>1. EntriesOK
  <2>1. entries = <<>> /\ MaxEntries \in Nat
    BY FetchAssumption DEF Init
  <2> QED
    BY <2>1 DEF EntriesOK, Once
<1>2. \A x \in Tasks : task[x] = None
  BY DEF Init
<1>3. None \in Fetches /\ None.st = "none"
  BY FetchAssumption DEF None, Fetches
<1>4. task \in [Tasks -> Fetches] /\ \A x \in Tasks : task[x].st # "sleep"
  BY <1>2, <1>3 DEF Init
<1>5. tokens = Full /\ Full \in Nat /\ sent = [a \in 0..Window |-> 0]
  BY Bucket DEF Init
<1>6. Budget
  <2> SUFFICES ASSUME NEW a \in 0..Window
               PROVE  Unit * sent[a] + tokens <= Full + a
    BY DEF Budget
  <2>1. sent[a] = 0 /\ a \in Nat /\ Unit \in Nat
    BY <1>5, FetchAssumption
  <2>2. Unit * sent[a] = 0
    BY <2>1
  <2> QED
    BY <1>5, <2>1, <2>2
<1>7. made \in [Keys -> Nat] /\ caller \in [Callers -> CallerType] /\ lock = {}
  BY DEF Init, CallerType, Away
<1> QED
  BY <1>1, <1>4, <1>5, <1>6, <1>7 DEF ClientOK, SleepersPaid

\* A caller comes, is answered or leaves.
LEMMA CallerKeeps ==
  ASSUME IInv, NEW c \in Callers,
         Give(c) \/ Leave(c) \/ \E k \in Keys : Hit(c, k) \/ Miss(c, k)
  PROVE  IInv'
<1>0. TypeOK /\ HeldOnce /\ EntriesOK /\ ClientOK
  BY Parts DEF IInv
<1>1. ASSUME caller' \in [Callers -> CallerType], UNCHANGED <<task, lock, tokens, sent, made>>
      PROVE  ClientOK'
  BY <1>0, <1>1 DEF ClientOK, Budget, SleepersPaid
<1>2. ASSUME NEW k \in Keys, Hit(c, k) PROVE IInv'
  <2>1. EntriesOK'
    BY <1>0, <1>2, HitEntries
  <2>2. caller' = [caller EXCEPT ![c] = [at |-> "given", key |-> k, no |-> made[k]]]
    BY <1>2 DEF Hit
  <2>3. made[k] \in Nat
    BY <1>0 DEF ClientOK
  <2>4. caller' \in [Callers -> CallerType]
    BY <1>0, <2>2, <2>3 DEF ClientOK, CallerType
  <2> QED
    BY <1>1, <1>2, <2>1, <2>4, Parts DEF Hit
<1>3. ASSUME NEW k \in Keys, Miss(c, k) PROVE IInv'
  <2>1. EntriesOK'
    BY <1>0, <1>3, MissEntries
  <2>2. caller' = [caller EXCEPT ![c] = [at |-> "asking", key |-> k, no |-> made[k]]]
    BY <1>3 DEF Miss
  <2>3. made[k] \in Nat
    BY <1>0 DEF ClientOK
  <2>4. caller' \in [Callers -> CallerType]
    BY <1>0, <2>2, <2>3 DEF ClientOK, CallerType
  <2>5. UNCHANGED <<lock, tokens, sent, made>> /\ task' = [task EXCEPT ![k] = Joined(task[k])]
    BY <1>3 DEF Miss
  <2>6. k \in Tasks /\ task[k] \in Fetches
    BY <1>0 DEF Tasks, ClientOK
  <2>7. CASE task[k].st = "none"
    <3>1. Start \in Fetches /\ Start.st # "sleep" /\ task' = [task EXCEPT ![k] = Start]
      BY <2>5, <2>7, FetchAssumption DEF Start, None, Fetches, Joined
    <3>2. lock' = lock \ {k} /\ made' \in [Keys -> Nat]
      BY <1>0, <2>5, <2>7 DEF ClientOK
    <3> QED
      BY <1>0, <2>1, <2>4, <2>5, <2>6, <3>1, <3>2, Moves, Parts
  <2>8. CASE task[k].st # "none"
    <3>1. task' = task
      BY <1>0, <2>5, <2>6, <2>8 DEF Joined, ClientOK
    <3> QED
      BY <1>1, <2>1, <2>4, <2>5, <3>1, Parts
  <2> QED
    BY <2>7, <2>8
<1>4. CASE Give(c)
  <2>1. caller' = [caller EXCEPT ![c] = [at |-> "given", key |-> caller[c].key, no |-> caller[c].no + 1]]
    BY <1>4 DEF Give
  <2>2. caller' \in [Callers -> CallerType]
    <3>1. caller \in [Callers -> CallerType] /\ caller[c] \in CallerType /\ caller[c].no \in Nat
      BY <1>0 DEF ClientOK, CallerType
    <3>2. caller[c].no + 1 \in Nat
      BY <3>1
    <3>3. [at |-> "given", key |-> caller[c].key, no |-> caller[c].no + 1] \in CallerType
      BY <3>1, <3>2 DEF CallerType
    <3> QED
      BY <2>1, <3>1, <3>3
  <2>3. EntriesOK'
    BY <1>0, <1>4 DEF Give, EntriesOK
  <2> QED
    BY <1>1, <1>4, <2>2, <2>3, Parts DEF Give
<1>5. CASE Leave(c)
  <2>1. caller' \in [Callers -> CallerType]
    BY <1>0, <1>5 DEF Leave, Away, ClientOK, CallerType
  <2>2. EntriesOK'
    BY <1>0, <1>5 DEF Leave, EntriesOK
  <2> QED
    BY <1>1, <1>5, <2>1, <2>2, Parts DEF Leave
<1> QED
  BY <1>2, <1>3, <1>4, <1>5

\* A fetch ends.
LEMMA EndKeeps ==
  ASSUME IInv, NEW x \in Tasks, NEW ok \in BOOLEAN, End(x, ok),
         task[x].st # "sleep", UNCHANGED <<lock, tokens, sent, caller>>
  PROVE  IInv'
<1>0. TypeOK /\ HeldOnce /\ ClientOK
  BY Parts DEF IInv
<1>1. EntriesOK'
  BY <1>0, EndEntries
<1>2. None \in Fetches /\ None.st # "sleep" /\ task' = [task EXCEPT ![x] = None]
  BY FetchAssumption DEF None, Fetches, End
<1>3. lock' = lock \ {x}
  BY <1>0 DEF ClientOK
<1>4. made' \in [Keys -> Nat] /\ caller' \in [Callers -> CallerType]
  BY <1>0 DEF ClientOK, End
<1> QED
  BY <1>0, <1>1, <1>2, <1>3, <1>4, Moves, Parts

\* A step of a fetch by itself.
LEMMA FetchKeeps ==
  ASSUME IInv, NEW x \in Tasks,
         Acquire(x) \/ Proceed(x) \/ StartSide(x) \/ CancelSide(x)
  PROVE  IInv'
<1>0. ClientOK /\ EntriesOK /\ task[x] \in Fetches
  BY Parts DEF ClientOK
<1>1. ASSUME UNCHANGED entries, ClientOK' PROVE IInv'
  BY <1>0, <1>1, Parts DEF EntriesOK
<1>2. ASSUME NEW t \in Fetches, t.st # "sleep", task' = [task EXCEPT ![x] = t],
             lock' = lock \ {x}, UNCHANGED <<entries, tokens, sent, made, caller>>
      PROVE  IInv'
  <2>1. made' \in [Keys -> Nat] /\ caller' \in [Callers -> CallerType]
    BY <1>0, <1>2 DEF ClientOK
  <2>2. ClientOK'
    BY <1>0, <1>2, <2>1, Moves
  <2> QED
    BY <1>1, <1>2, <2>2
<1>3. task[x].st # "sleep" => lock \ {x} = lock
  BY <1>0 DEF ClientOK
<1>4. CASE StartSide(x)
  <2>1. Start \in Fetches /\ Start.st # "sleep"
    BY FetchAssumption DEF Start, None, Fetches
  <2> QED
    BY <1>2, <1>3, <1>4, <2>1 DEF StartSide
<1>5. CASE CancelSide(x)
  <2>1. None \in Fetches /\ None.st # "sleep"
    BY FetchAssumption DEF None, Fetches
  <2> QED
    BY <1>2, <1>5, <2>1 DEF CancelSide
<1>6. CASE TakeSlot(x)
  <2> DEFINE t == [task[x] EXCEPT !.st = "pace"]
  <2>1. t \in Fetches /\ t.st # "sleep"
    BY <1>0 DEF Fetches
  <2>2. task' = [task EXCEPT ![x] = t] /\ task[x].st # "sleep" /\ UNCHANGED <<entries, lock, tokens, sent, made, caller>>
    BY <1>6 DEF TakeSlot
  <2> QED
    BY <1>2, <1>3, <2>1, <2>2
<1>7. CASE Throttle(x)
  BY <1>0, <1>1, <1>7, ThrottleKeeps DEF Throttle
<1>8. CASE WakeUp(x)
  BY <1>0, <1>1, <1>8, WakeKeeps DEF WakeUp
<1>9. CASE Answer(x)
  BY <1>9, EndKeeps DEF Answer
<1>10. CASE Trouble(x)
  <2>1. CASE Again(task[x])
    <3> DEFINE n == IF task[x].tries < MaxRetries THEN task[x].tries + 1 ELSE task[x].tries
               t == [task[x] EXCEPT !.st = "pause", !.left = Pause, !.tries = n]
    <3>1. n \in 0..MaxRetries /\ Pause \in Nat
      BY <1>0, FetchAssumption DEF Fetches
    <3>2. task' = [task EXCEPT ![x] = t]
      BY <1>10, <2>1 DEF Trouble
    <3> HIDE DEF n
    <3>3. t \in Fetches /\ t.st # "sleep"
      BY <1>0, <3>1 DEF Fetches
    <3>4. task[x].st # "sleep" /\ UNCHANGED <<entries, lock, tokens, sent, made, caller>>
      BY <1>10, <2>1 DEF Trouble
    <3> QED
      BY <1>2, <1>3, <3>2, <3>3, <3>4
  <2>2. CASE ~Again(task[x])
    BY <1>10, <2>2, EndKeeps DEF Trouble
  <2> QED
    BY <2>1, <2>2
<1>11. CASE Retry(x)
  <2> DEFINE t == [task[x] EXCEPT !.st = "pace"]
  <2>1. t \in Fetches /\ t.st # "sleep"
    BY <1>0 DEF Fetches
  <2>2. task' = [task EXCEPT ![x] = t] /\ task[x].st # "sleep" /\ UNCHANGED <<entries, lock, tokens, sent, made, caller>>
    BY <1>11 DEF Retry
  <2> QED
    BY <1>2, <1>3, <2>1, <2>2
<1>12. CASE Redirect(x)
  <2>1. CASE task[x].hops < MaxRedirects
    <3> DEFINE t == [st |-> "pace", tries |-> 0, hops |-> task[x].hops + 1, left |-> 0]
    <3>1. t \in Fetches /\ t.st # "sleep"
      BY <1>0, <2>1, FetchAssumption DEF Fetches
    <3>2. /\ task' = [task EXCEPT ![x] = t] /\ task[x].st # "sleep"
          /\ UNCHANGED <<entries, lock, tokens, sent, made, caller>>
      BY <1>12, <2>1 DEF Redirect
    <3> QED
      BY <1>2, <1>3, <3>1, <3>2
  <2>2. CASE ~(task[x].hops < MaxRedirects)
    BY <1>12, <2>2, EndKeeps DEF Redirect
  <2> QED
    BY <2>1, <2>2
<1> QED
  BY <1>4, <1>5, <1>6, <1>7, <1>8, <1>9, <1>10, <1>11, <1>12 DEF Acquire, Proceed

LEMMA StepInv == IInv /\ [Next]_vars => IInv'
<1> SUFFICES ASSUME IInv, [Next]_vars PROVE IInv'
  OBVIOUS
<1>1. CASE UNCHANGED vars
  BY <1>1 DEF vars, IInv, TypeOK, HeldOnce, Budget, SleepersPaid
<1>2. ASSUME NEW c \in Callers,
             Give(c) \/ Leave(c) \/ \E k \in Keys : Hit(c, k) \/ Miss(c, k)
      PROVE  IInv'
  BY <1>2, CallerKeeps
<1>3. ASSUME NEW x \in Tasks, Acquire(x) \/ Proceed(x) \/ StartSide(x) \/ CancelSide(x)
      PROVE  IInv'
  BY <1>3, FetchKeeps
<1>4. CASE Tick
  BY <1>4, TickEntries, TickKeeps, Parts DEF IInv
<1> QED
  BY <1>1, <1>2, <1>3, <1>4 DEF Next
LEMMA Invariance == Spec => []IInv
BY InitInv, StepInv, PTL DEF Spec

-----------------------------------------------------------------------------
(* Theorems. *)

\* The types, and that nobody paces requests but the holder of the lock.
THEOREM TypesHold == Spec => []TypeOK
<1>1. IInv => TypeOK
  BY DEF IInv
<1> QED
  BY <1>1, Invariance, PTL

\* However requests are retried, redirected and cancelled, and however late a
\* sleeper wakes: in no stretch of time go out more than the bucket holds and
\* what comes back meanwhile (Yes24Client._throttle).
THEOREM RateKeptHolds == Spec => []RateKept
<1>1. ASSUME IInv, NEW a \in 0..Window
      PROVE  Unit * sent[a] <= Full + a
  <2>1. Unit * sent[a] + tokens <= Full + a /\ sent[a] \in Nat
    BY <1>1 DEF IInv, Budget, TypeOK
  <2>2. Unit * sent[a] \in Nat /\ Full \in Nat
    BY <2>1, Bucket
  <2>3. tokens \in Nat /\ a \in Nat
    BY <1>1, <2>2, FetchAssumption DEF IInv, TypeOK
  <2> DEFINE n == Unit * sent[a]
  <2>4. n \in Nat /\ n + tokens <= Full + a
    BY <2>1, <2>2
  <2> HIDE DEF n
  <2>5. n <= Full + a
    BY <2>2, <2>3, <2>4
  <2> QED
    BY <2>5 DEF n
<1>2. IInv => RateKept
  BY <1>1 DEF RateKept
<1> QED
  BY <1>2, Invariance, PTL

-----------------------------------------------------------------------------
(* The shared fetch of each page. *)

\* What the fetch of a page knows of the callers.
Seen(who, k) ==
    [c \in Callers |-> IF who[c].key = k THEN [at |-> who[c].at, no |-> who[c].no]
                       ELSE [at |-> "away", no |-> 0]]

Under(t) == IF t.st = "none" THEN 0 ELSE 1

LEMMA InitShared == Init => \A k \in Keys : Of(k)!Init
<1> SUFFICES ASSUME Init, NEW k \in Keys PROVE Of(k)!Init
  OBVIOUS
<1>1. task[k].st = "none" /\ made[k] = 0
  BY DEF Init, Tasks, None
<1>2. ~Held(k)
  BY DEF Init, Held, Positions
<1>3. \A c \in Callers : caller[c] = Away
  BY DEF Init
<1>4. \A c \in Callers : (IF caller[c].key = k THEN [at |-> caller[c].at, no |-> caller[c].no]
                         ELSE [at |-> "away", no |-> 0]) = [at |-> "away", no |-> 0]
  BY <1>3 DEF Away
<1> QED
  BY <1>1, <1>2, <1>4 DEF Of!Init, Of!Away
\* The steps of the shared fetch of a page, told by what they change.
LEMMA SharedSteps ==
  ASSUME NEW k \in Keys,
         NEW same, same <=> Under(task'[k]) = Under(task[k]) /\ made'[k] = made[k],
         NEW calm, calm <=> Seen(caller', k) = Seen(caller, k)
  PROVE  /\ same /\ calm /\ (Held(k)' => Held(k)) => Of(k)!Next \/ UNCHANGED Of(k)!vars
         /\ calm /\ Under(task[k]) = 1 /\ Under(task'[k]) = 0 /\ made'[k] = made[k] + 1
              => Of(k)!Next
         /\ \A c \in Callers :
              same /\ (Held(k)' <=> Held(k))
                /\ Seen(caller', k) = [Seen(caller, k) EXCEPT ![c] = [at |-> "away", no |-> 0]]
              => Of(k)!Next
         /\ \A c \in Callers :
              same /\ (Held(k)' <=> Held(k)) /\ Seen(caller, k)[c].at # "asking" /\ Held(k)
                /\ Seen(caller', k) = [Seen(caller, k) EXCEPT ![c] = [at |-> "given", no |-> made[k]]]
              => Of(k)!Next
         /\ \A c \in Callers :
              made'[k] = made[k] /\ Under(task'[k]) = 1
                /\ Seen(caller, k)[c].at # "asking" /\ ~Held(k) /\ ~Held(k)'
                /\ Seen(caller', k) = [Seen(caller, k) EXCEPT ![c] = [at |-> "asking", no |-> made[k]]]
              => Of(k)!Next
         /\ \A c \in Callers :
              same /\ (Held(k)' <=> Held(k))
                /\ Seen(caller, k)[c].at = "asking" /\ made[k] > Seen(caller, k)[c].no
                /\ Seen(caller', k) = [Seen(caller, k) EXCEPT ![c] = [at |-> "given", no |-> @.no + 1]]
              => Of(k)!Next
<1>1. Held(k) \in BOOLEAN /\ Held(k)' \in BOOLEAN
  BY DEF Held
<1>2. same /\ calm /\ (Held(k)' => Held(k)) => Of(k)!Next \/ UNCHANGED Of(k)!vars
  BY <1>1 DEF Seen, Under, Of!Next, Of!Lapse, Of!vars
<1>3. calm /\ Under(task[k]) = 1 /\ Under(task'[k]) = 0 /\ made'[k] = made[k] + 1
        => Of(k)!Next
  BY <1>1 DEF Seen, Under, Of!Next, Of!Make
<1>4. ASSUME NEW c \in Callers, same, Held(k)' <=> Held(k),
             Seen(caller', k) = [Seen(caller, k) EXCEPT ![c] = [at |-> "away", no |-> 0]]
      PROVE  Of(k)!Next
  BY <1>1, <1>4 DEF Seen, Under, Of!Next, Of!Leave, Of!Away
<1>5. ASSUME NEW c \in Callers, same, Held(k)' <=> Held(k), Seen(caller, k)[c].at # "asking", Held(k),
             Seen(caller', k) = [Seen(caller, k) EXCEPT ![c] = [at |-> "given", no |-> made[k]]]
      PROVE  Of(k)!Next
  BY <1>1, <1>5 DEF Seen, Under, Of!Next, Of!Hit
<1>6. ASSUME NEW c \in Callers, made'[k] = made[k], Under(task'[k]) = 1,
             Seen(caller, k)[c].at # "asking", ~Held(k), ~Held(k)',
             Seen(caller', k) = [Seen(caller, k) EXCEPT ![c] = [at |-> "asking", no |-> made[k]]]
      PROVE  Of(k)!Next
  BY <1>1, <1>6 DEF Seen, Under, Of!Next, Of!Ask
<1>7. ASSUME NEW c \in Callers, same, Held(k)' <=> Held(k),
             Seen(caller, k)[c].at = "asking", made[k] > Seen(caller, k)[c].no,
             Seen(caller', k) = [Seen(caller, k) EXCEPT ![c] = [at |-> "given", no |-> @.no + 1]]
      PROVE  Of(k)!Next
  BY <1>1, <1>7 DEF Seen, Under, Of!Next, Of!Give
<1> QED
  BY <1>2, <1>3, <1>4, <1>5, <1>6, <1>7
\* One caller changes: the fetches of all pages see it, or see it leave.
LEMMA SeenChanges ==
  ASSUME caller \in [Callers -> CallerType], NEW k, NEW c \in Callers,
         NEW a, NEW j, NEW n, caller' = [caller EXCEPT ![c] = [at |-> a, key |-> j, no |-> n]]
  PROVE  Seen(caller', k) = [Seen(caller, k) EXCEPT ![c] = IF j = k THEN [at |-> a, no |-> n]
                                                          ELSE [at |-> "away", no |-> 0]]
<1>1. \A d \in Callers : caller'[d] = IF d = c THEN [at |-> a, key |-> j, no |-> n] ELSE caller[d]
  OBVIOUS
<1> QED
  BY <1>1 DEF Seen

\* A caller comes, is answered or leaves: a step of the fetch it asks for, and it
\* leaves every other one.
LEMMA CallerShared ==
  ASSUME IInv, NEW c \in Callers, NEW k \in Keys,
         Give(c) \/ Leave(c) \/ \E j \in Keys : Hit(c, j) \/ Miss(c, j)
  PROVE  Of(k)!Next \/ UNCHANGED Of(k)!vars
<1>0. TypeOK /\ HeldOnce /\ ClientOK /\ caller \in [Callers -> CallerType] /\ caller[c] \in CallerType
  BY Parts DEF IInv, ClientOK
<1> DEFINE same == Under(task'[k]) = Under(task[k]) /\ made'[k] = made[k]
           calm == Seen(caller', k) = Seen(caller, k)
<1>1. same <=> Under(task'[k]) = Under(task[k]) /\ made'[k] = made[k]
  OBVIOUS
<1>2. calm <=> Seen(caller', k) = Seen(caller, k)
  OBVIOUS
<1> HIDE DEF same, calm
<1>3. Seen(caller, k)[c] = IF caller[c].key = k THEN [at |-> caller[c].at, no |-> caller[c].no]
                           ELSE [at |-> "away", no |-> 0]
  BY DEF Seen
<1>4. CASE Leave(c)
  <2>1. same /\ (Held(k)' <=> Held(k)) /\ caller' = [caller EXCEPT ![c] = Away]
    BY <1>1, <1>4 DEF Leave, Held, Positions
  <2>2. caller' = [caller EXCEPT ![c] = [at |-> "away", key |-> "none", no |-> 0]]
    BY <2>1 DEF Away
  <2>3. Seen(caller', k) = [Seen(caller, k) EXCEPT ![c] = [at |-> "away", no |-> 0]]
    <3>1. Seen(caller', k) = [Seen(caller, k) EXCEPT ![c] =
              IF "none" = k THEN [at |-> "away", no |-> 0] ELSE [at |-> "away", no |-> 0]]
      BY <1>0, <2>2, SeenChanges
    <3> QED
      BY <3>1
  <2> QED
    BY <1>1, <1>2, <2>1, <2>3, SharedSteps
<1>5. CASE Give(c)
  <2> DEFINE j == caller[c].key
             n == caller[c].no + 1
  <2>1. same /\ (Held(k)' <=> Held(k)) /\ caller' = [caller EXCEPT ![c] = [at |-> "given", key |-> caller[c].key, no |-> caller[c].no + 1]]
    BY <1>1, <1>5 DEF Give, Held, Positions
  <2>6. caller' = [caller EXCEPT ![c] = [at |-> "given", key |-> j, no |-> n]]
    BY <2>1
  <2>2. Seen(caller', k) = [Seen(caller, k) EXCEPT ![c] = IF j = k THEN [at |-> "given", no |-> n]
                                                         ELSE [at |-> "away", no |-> 0]]
    <3> HIDE DEF j, n
    <3> QED
      BY <1>0, <2>6, SeenChanges
  <2>3. caller[c].at = "asking" /\ made[caller[c].key] > caller[c].no
    BY <1>5 DEF Give
  <2>4. CASE caller[c].key = k
    <3>1. Seen(caller', k) = [Seen(caller, k) EXCEPT ![c] = [at |-> "given", no |-> caller[c].no + 1]]
      BY <2>2, <2>4
    <3>2. Seen(caller, k)[c].at = "asking" /\ Seen(caller, k)[c].no = caller[c].no
      BY <1>3, <2>3, <2>4
    <3>3. Seen(caller', k) = [Seen(caller, k) EXCEPT ![c] = [at |-> "given", no |-> @.no + 1]]
      BY <3>1, <3>2
    <3> QED
      BY <1>1, <1>2, <2>1, <2>3, <2>4, <3>2, <3>3, SharedSteps
  <2>5. CASE caller[c].key # k
    <3>1. Seen(caller', k) = [Seen(caller, k) EXCEPT ![c] = [at |-> "away", no |-> 0]]
      BY <2>2, <2>5
    <3> QED
      BY <1>1, <1>2, <2>1, <3>1, SharedSteps
  <2> QED
    BY <2>4, <2>5
<1>6. ASSUME NEW j \in Keys, Hit(c, j)
      PROVE  Of(k)!Next
  <2>1. same /\ caller' = [caller EXCEPT ![c] = [at |-> "given", key |-> j, no |-> made[j]]] /\ Held(j) /\ caller[c].at # "asking"
    BY <1>1, <1>6 DEF Hit
  <2>2. Held(k)' <=> Held(k)
    BY <1>0, <1>6, HitEntries
  <2>3. Seen(caller', k) = [Seen(caller, k) EXCEPT ![c] = IF j = k THEN [at |-> "given", no |-> made[j]]
                                                         ELSE [at |-> "away", no |-> 0]]
    BY <1>0, <2>1, SeenChanges
  <2>4. Seen(caller, k)[c].at # "asking"
    BY <1>3, <2>1
  <2>5. CASE j = k
    <3>1. Seen(caller', k) = [Seen(caller, k) EXCEPT ![c] = [at |-> "given", no |-> made[k]]]
      BY <2>3, <2>5
    <3> QED
      BY <1>1, <1>2, <2>1, <2>2, <2>4, <2>5, <3>1, SharedSteps
  <2>6. CASE j # k
    <3>1. Seen(caller', k) = [Seen(caller, k) EXCEPT ![c] = [at |-> "away", no |-> 0]]
      BY <2>3, <2>6
    <3> QED
      BY <1>1, <1>2, <2>1, <2>2, <3>1, SharedSteps
  <2> QED
    BY <2>5, <2>6
<1>7. ASSUME NEW j \in Keys, Miss(c, j)
      PROVE  Of(k)!Next
  <2>1. /\ made' = made /\ caller' = [caller EXCEPT ![c] = [at |-> "asking", key |-> j, no |-> made[j]]]
        /\ ~Held(j) /\ caller[c].at # "asking"
        /\ task' = [task EXCEPT ![j] = Joined(task[j])]
    BY <1>7 DEF Miss
  <2>2. Held(k)' <=> Held(k)
    BY <1>0, <1>7, MissEntries
  <2>3. Seen(caller', k) = [Seen(caller, k) EXCEPT ![c] = IF j = k THEN [at |-> "asking", no |-> made[j]]
                                                         ELSE [at |-> "away", no |-> 0]]
    BY <1>0, <2>1, SeenChanges
  <2>4. Seen(caller, k)[c].at # "asking"
    BY <1>3, <2>1
  <2>5. CASE j = k
    <3>1. Seen(caller', k) = [Seen(caller, k) EXCEPT ![c] = [at |-> "asking", no |-> made[k]]]
      BY <2>3, <2>5
    <3>2. task'[k] = Joined(task[k])
      BY <1>0, <2>1, <2>5 DEF ClientOK, Tasks
    <3>3. Under(task'[k]) = 1
      BY <3>2 DEF Under, Joined, Start, None
    <3> QED
      BY <1>1, <1>2, <2>1, <2>2, <2>4, <2>5, <3>1, <3>3, SharedSteps
  <2>6. CASE j # k
    <3>1. Seen(caller', k) = [Seen(caller, k) EXCEPT ![c] = [at |-> "away", no |-> 0]]
      BY <2>3, <2>6
    <3>2. same
      BY <1>0, <1>1, <2>1, <2>6 DEF ClientOK, Tasks
    <3> QED
      BY <1>1, <1>2, <2>1, <2>2, <3>1, <3>2, SharedSteps
  <2> QED
    BY <2>5, <2>6
<1> QED
  BY <1>4, <1>5, <1>6, <1>7

\* A fetch that is under way goes on, or ends as the fetch of its page; the others
\* stay, though their pages may be evicted.
LEMMA FetchShared ==
  ASSUME IInv, NEW x \in Tasks, NEW k \in Keys,
         Acquire(x) \/ Proceed(x) \/ StartSide(x) \/ CancelSide(x)
  PROVE  Of(k)!Next \/ UNCHANGED Of(k)!vars
<1>0. TypeOK /\ HeldOnce /\ ClientOK
  BY Parts DEF IInv
<1>1. caller' = caller
  BY DEF Acquire, Proceed, StartSide, CancelSide, TakeSlot, Throttle, WakeUp, Answer, Trouble,
         Retry, Redirect
<1> DEFINE same == Under(task'[k]) = Under(task[k]) /\ made'[k] = made[k]
           calm == Seen(caller', k) = Seen(caller, k)
<1>2. same <=> Under(task'[k]) = Under(task[k]) /\ made'[k] = made[k]
  OBVIOUS
<1>3. calm <=> Seen(caller', k) = Seen(caller, k)
  OBVIOUS
<1>4. calm
  BY <1>1
<1> HIDE DEF same, calm
<1>5. k \in Tasks /\ task \in [Tasks -> Fetches]
  BY <1>0 DEF Tasks, ClientOK
<1>6. ASSUME UNCHANGED <<entries, made>>, task'[k] = task[k] \/ (task'[k].st # "none" /\ task[k].st # "none")
      PROVE  Of(k)!Next \/ UNCHANGED Of(k)!vars
  <2>1. same /\ (Held(k)' => Held(k))
    BY <1>2, <1>6 DEF Held, Positions, Under
  <2> QED
    BY <1>2, <1>3, <1>4, <2>1, SharedSteps
<1>7. ASSUME NEW ok \in BOOLEAN, End(x, ok), task[x].st # "none"
      PROVE  Of(k)!Next \/ UNCHANGED Of(k)!vars
  <2>1. task' = [task EXCEPT ![x] = None]
    BY <1>7 DEF End
  <2>2. CASE x = k
    <3>1. made'[k] = made[k] + 1
      BY <1>0, <1>7, <2>2 DEF End, ClientOK
    <3>2. Under(task[k]) = 1 /\ Under(task'[k]) = 0
      BY <1>5, <1>7, <2>1, <2>2 DEF Under, None
    <3> QED
      BY <1>2, <1>3, <1>4, <3>1, <3>2, SharedSteps
  <2>3. CASE x # k
    <3>1. Held(k)' => Held(k)
      BY <1>0, <1>7, <2>3, EndEntries
    <3>2. made'[k] = made[k] /\ task'[k] = task[k]
      BY <1>0, <1>5, <1>7, <2>1, <2>3 DEF End, ClientOK
    <3>3. same
      BY <1>2, <3>2
    <3> QED
      BY <1>2, <1>3, <1>4, <3>1, <3>3, SharedSteps
  <2> QED
    BY <2>2, <2>3
<1>8. CASE StartSide(x) \/ CancelSide(x)
  <2>1. x # k
    BY <1>8, FetchAssumption DEF StartSide, CancelSide
  <2> QED
    BY <1>5, <1>6, <1>8, <2>1 DEF StartSide, CancelSide
<1>9. CASE TakeSlot(x)
  BY <1>5, <1>6, <1>9 DEF TakeSlot, Fetches
<1>10. CASE Throttle(x)
  BY <1>5, <1>6, <1>10 DEF Throttle, Send, Fetches
<1>11. CASE WakeUp(x)
  BY <1>5, <1>6, <1>11 DEF WakeUp, Send, Fetches
<1>12. CASE Answer(x)
  BY <1>7, <1>12 DEF Answer
<1>13. CASE Trouble(x)
  <2>1. CASE Again(task[x])
    BY <1>5, <1>6, <1>13, <2>1 DEF Trouble, Fetches
  <2>2. CASE ~Again(task[x])
    BY <1>7, <1>13, <2>2 DEF Trouble
  <2> QED
    BY <2>1, <2>2
<1>14. CASE Retry(x)
  BY <1>5, <1>6, <1>14 DEF Retry, Fetches
<1>15. CASE Redirect(x)
  <2>1. CASE task[x].hops < MaxRedirects
    BY <1>5, <1>6, <1>15, <2>1 DEF Redirect
  <2>2. CASE ~(task[x].hops < MaxRedirects)
    BY <1>7, <1>15, <2>2 DEF Redirect
  <2> QED
    BY <2>1, <2>2
<1> QED
  BY <1>8, <1>9, <1>10, <1>11, <1>12, <1>13, <1>14, <1>15 DEF Acquire, Proceed

\* Time passes: pages cease to count.
LEMMA TickShared ==
  ASSUME IInv, NEW k \in Keys, Tick
  PROVE  Of(k)!Next \/ UNCHANGED Of(k)!vars
<1>1. (Held(k)' => Held(k)) /\ caller' = caller /\ made' = made
  BY TickEntries DEF IInv, Tick
<1>2. task'[k].st = task[k].st
  BY DEF IInv, TypeOK, Tick, Tasks
<1> QED
  BY <1>1, <1>2, SharedSteps DEF Under

LEMMA StepShared ==
  IInv /\ [Next]_vars => [\A k \in Keys : Of(k)!Next \/ UNCHANGED Of(k)!vars]_vars
<1> SUFFICES ASSUME IInv, Next, NEW k \in Keys
             PROVE  Of(k)!Next \/ UNCHANGED Of(k)!vars
  OBVIOUS
<1>1. ASSUME NEW c \in Callers, Give(c) \/ Leave(c) \/ \E j \in Keys : Hit(c, j) \/ Miss(c, j)
      PROVE  Of(k)!Next \/ UNCHANGED Of(k)!vars
  BY <1>1, CallerShared
<1>2. ASSUME NEW x \in Tasks, Acquire(x) \/ Proceed(x) \/ StartSide(x) \/ CancelSide(x)
      PROVE  Of(k)!Next \/ UNCHANGED Of(k)!vars
  BY <1>2, FetchShared
<1>3. CASE Tick
  BY <1>3, TickShared
<1> QED
  BY <1>1, <1>2, <1>3 DEF Next

\* The cache and its fetches keep, for each page, what a shared fetch promises:
\* one fetch is under way at most, whoever comes meanwhile gets its result and
\* who comes later the latest one that counts, also when callers leave, fetches
\* fail or the page is evicted (Yes24TextCache.get_or_fetch).
THEOREM FetchIsSharedHolds == Spec => FetchIsShared
<1>1. Init => \A k \in Keys : Of(k)!Init
  BY InitShared
<1>2. Spec => [][\A k \in Keys : Of(k)!Next \/ UNCHANGED Of(k)!vars]_vars
  BY Invariance, StepShared, PTL DEF Spec
<1> QED
  BY <1>1, <1>2, PTL DEF Spec, FetchIsShared

-----------------------------------------------------------------------------
(* WebSearch.  What a turn has taken from its prefetch, what the requests     *)
(* that are under way know of the marks, and how far a call has come in the   *)
(* chain of backends.                                                         *)

\* An attempt is one of those allowed.
TriesInv ==
    /\ \A k \in Prefetches : prefetch[k].tries < MaxAttempts
    /\ \A c \in Calls : call[c].tries < MaxAttempts

\* Who has taken the turn's prefetch, and what it left behind.
Takers == {c \in Calls : call[c].pc \in {"await", "served"}}
TakenInv ==
    /\ \A c \in Calls : call[c].pc = "await" => call[c].at = "grounding" /\ call[c].task \in Prefetches
    /\ \A c \in Takers : holder[TurnOf[c]] = 0
    /\ \A c, d \in Takers : TurnOf[c] = TurnOf[d] => c = d
    /\ \A c \in Calls : call[c].pc # "none" => turn[TurnOf[c]] = "running"

\* What asks under a mark began before it.
OldInv ==
    /\ \A c \in Calls : call[c].pc = "ask" /\ Exhausted(call[c].at) => call[c].old
    /\ \A k \in Prefetches : prefetch[k].pc = "ask" /\ mark["grounding"] = "live" => prefetch[k].old

\* The backends that have failed are those of the chain before the one asked, from
\* some first one on.
Before(b, domains) ==
    CASE b = "searchapi" -> {{}}
      [] b = "grounding" -> IF domains THEN {} ELSE {{}, {"searchapi"}}
      [] b = "perplexity" -> IF domains THEN {{}, {"searchapi"}}
                             ELSE {{}, {"grounding"}, {"searchapi", "grounding"}}
ChainInv ==
    \A c \in Calls : call[c].pc \in Active => call[c].failed \in Before(call[c].at, call[c].domains)

SearchInv == SearchTypeOK /\ TriesInv /\ TakenInv /\ OldInv /\ ChainInv

PrefetchSet == [pc : {"none", "hint", "ask", "ready", "empty", "failed", "cancelled"},
            tries : 0 .. MaxAttempts, old : BOOLEAN]
CallSet == [pc : {"none", "ok", "served", "error"} \cup Active,
            at : Backends, domains : BOOLEAN, tries : 0 .. MaxAttempts,
            task : 0 .. MaxPrefetches, failed : SUBSET Backends, old : BOOLEAN]

LEMMA CallTurns == ASSUME NEW c \in Calls PROVE TurnOf[c] \in Turns
BY ConstantsAssumption DEF Calls

LEMMA BlankRecords ==
  /\ NoPrefetch \in PrefetchSet /\ NoCall \in CallSet
  /\ \A pc \in {"ok", "served", "error"} : Over(pc) \in CallSet /\ Over(pc).pc = pc
                                           /\ Over(pc).tries = 0
  /\ \A pc \in {"ready", "empty", "failed", "cancelled"} :
       [NoPrefetch EXCEPT !.pc = pc] \in PrefetchSet
<1>1. 0 \in 0 .. MaxAttempts /\ 0 \in 0 .. MaxPrefetches
  BY ConstantsAssumption
<1>2. NoPrefetch \in PrefetchSet
  BY <1>1 DEF NoPrefetch, PrefetchSet
<1>3. NoCall \in CallSet
  BY <1>1 DEF NoCall, CallSet, Backends
<1>4. \A pc \in {"ok", "served", "error"} :
         Over(pc) \in CallSet /\ Over(pc).pc = pc /\ Over(pc).tries = 0
  BY <1>3 DEF NoCall, CallSet, Over
<1>5. \A pc \in {"ready", "empty", "failed", "cancelled"} : [NoPrefetch EXCEPT !.pc = pc] \in PrefetchSet
  BY <1>2 DEF NoPrefetch, PrefetchSet
<1> QED BY <1>2, <1>3, <1>4, <1>5

\* A call has failed at its backend and goes on to the next one, or is over.
LEMMA FailedCall ==
  ASSUME SearchInv, NEW c \in Calls, call[c].pc \in Active
  PROVE  \E r \in CallSet :
           /\ Failed(c) = [call EXCEPT ![c] = r]
           /\ r.pc \in {"enter", "error"} /\ r.tries = 0
           /\ r.pc = "enter" =>
                /\ r.failed \in Before(r.at, r.domains)
                /\ r.domains = call[c].domains
           /\ r.pc = "error" =>
                /\ call[c].at # "searchapi" \/ (call[c].domains /\ "perplexity" \notin Configured)
                /\ call[c].at = "grounding" => "perplexity" \notin Configured
<1> DEFINE b == call[c].at
           domains == call[c].domains
           next == NextBackend(b, domains)
           r == IF next = "" THEN Over("error")
                ELSE [call[c] EXCEPT !.failed = @ \cup {b}, !.tries = 0, !.old = FALSE,
                                     !.pc = "enter", !.task = 0, !.at = next]
<1>1. /\ call[c] \in CallSet /\ b \in Backends /\ domains \in BOOLEAN
      /\ call[c].failed \in Before(b, domains) /\ call[c].failed \in SUBSET Backends
  BY DEF SearchInv, SearchTypeOK, ChainInv, CallSet
<1>2. Failed(c) = [call EXCEPT ![c] = r]
  BY <1>1 DEF Failed, CallSet
<1>3. /\ next \in Backends \cup {""}
      /\ b = "searchapi" =>
           next = IF ~domains THEN "grounding"
                  ELSE IF "perplexity" \in Configured THEN "perplexity" ELSE ""
      /\ b = "grounding" => next = IF "perplexity" \in Configured THEN "perplexity" ELSE ""
      /\ b = "perplexity" => next = ""
  <2>1. "grounding" \in Configured
    BY ConstantsAssumption
  <2>2. CASE b = "searchapi"
    <3>1. Able(b, domains) = ({"grounding", "perplexity"} \cap Configured)
                               \ (IF domains THEN {"grounding"} ELSE {})
      BY <1>1, <2>2 DEF Able, Follows
    <3> QED BY <2>1, <2>2, <3>1, <1>1 DEF NextBackend, Backends
  <2>3. CASE b = "grounding"
    <3>1. Able(b, domains) = {"perplexity"} \cap Configured
      BY <1>1, <2>3 DEF Able, Follows
    <3> QED BY <2>1, <2>3, <3>1, <1>1 DEF NextBackend, Backends
  <2>4. CASE b = "perplexity"
    <3>1. Able(b, domains) = {}
      BY <1>1, <2>4 DEF Able, Follows
    <3> QED BY <2>1, <2>4, <3>1, <1>1 DEF NextBackend, Backends
  <2> QED BY <1>1, <2>2, <2>3, <2>4 DEF Backends
<1>4. r \in CallSet
  <2>1. call[c].failed \cup {b} \in SUBSET Backends
    BY <1>1
  <2>2. 0 \in 0 .. MaxAttempts /\ 0 \in 0 .. MaxPrefetches
    BY ConstantsAssumption
  <2> HIDE DEF next, b
  <2> QED BY <1>1, <1>3, <2>1, <2>2, BlankRecords DEF CallSet, Active
<1>5. r.pc = "enter" => r.at = next /\ r.domains = domains /\ r.failed = call[c].failed \cup {b}
  <2> HIDE DEF next
  <2> QED BY <1>1, BlankRecords DEF CallSet
<1>6. r.pc = "enter" => r.failed \in Before(r.at, r.domains)
  <2>1. b # "perplexity" /\ next # "" =>
          call[c].failed \cup {b} \in Before(next, domains)
    <3> HIDE DEF next
    <3>1. CASE b = "searchapi"
      BY <1>1, <1>3, <3>1 DEF Before
    <3>2. CASE b = "grounding"
      BY <1>1, <1>3, <3>2 DEF Before
    <3> QED BY <1>1, <3>1, <3>2 DEF Backends
  <2>2. r.pc = "enter" => next # ""
    BY BlankRecords
  <2> HIDE DEF r, next
  <2> QED BY <1>1, <1>3, <1>5, <2>1, <2>2
<1>7. r.pc \in {"enter", "error"} /\ r.tries = 0
  <2> HIDE DEF next
  <2> QED BY <1>1, BlankRecords DEF CallSet
<1>8. r.pc = "error" => next = ""
  <2> HIDE DEF next
  <2> QED BY <1>1 DEF CallSet
<1> HIDE DEF r, next
<1> QED BY <1>1, <1>2, <1>3, <1>4, <1>5, <1>6, <1>7, <1>8

\* A call after a step: what it was made, or that and marked as begun before a mark.
Now(d, r) == call'[d] \in {r, [r EXCEPT !.old = TRUE]}

\* One call moves; others are at most marked.
LEMMA CallMoves ==
  ASSUME SearchInv, NEW c \in Calls, NEW r \in CallSet,
         turn[TurnOf[c]] = "running", turn' = turn, cache' = cache,
         prefetch' \in [Prefetches -> PrefetchSet], \A k \in Prefetches : prefetch'[k].tries < MaxAttempts,
         mark' \in [Metered -> {"none", "live", "past"}],
         call' \in [Calls -> CallSet], Now(c, r), \A d \in Calls : d # c => Now(d, call[d]),
         OldInv',
         r.tries < MaxAttempts,
         r.pc = "await" => r.at = "grounding" /\ r.task \in Prefetches,
         r.pc \in Active => r.failed \in Before(r.at, r.domains),
         \/ holder' = holder /\ r.pc \notin {"await", "served"}
         \/ holder' = holder /\ call[c].pc = "await"
         \/ holder[TurnOf[c]] # 0 /\ holder' = [holder EXCEPT ![TurnOf[c]] = 0]
  PROVE  SearchInv'
<1>1. SearchTypeOK /\ TriesInv /\ TakenInv /\ ChainInv /\ call \in [Calls -> CallSet]
  BY DEF SearchInv, SearchTypeOK, CallSet
<1>2. \A d \in Calls : TurnOf[d] \in Turns
  BY CallTurns
<1>3. /\ call'[c].pc = r.pc /\ call'[c].at = r.at /\ call'[c].task = r.task
      /\ call'[c].tries = r.tries /\ call'[c].failed = r.failed /\ call'[c].domains = r.domains
  BY DEF Now, CallSet
<1>4. \A d \in Calls : d # c =>
        /\ call'[d].pc = call[d].pc /\ call'[d].at = call[d].at /\ call'[d].task = call[d].task
        /\ call'[d].tries = call[d].tries /\ call'[d].failed = call[d].failed
        /\ call'[d].domains = call[d].domains
  BY <1>1 DEF Now, CallSet
<1>5. holder' \in [Turns -> 0 .. MaxPrefetches]
  BY <1>1, <1>2, ConstantsAssumption DEF SearchTypeOK
<1>6. SearchTypeOK'
  BY <1>1, <1>5 DEF SearchTypeOK, CallSet, PrefetchSet
<1>7. TriesInv'
  BY <1>1, <1>3, <1>4 DEF TriesInv
<1>8. ChainInv'
  BY <1>1, <1>3, <1>4 DEF ChainInv
<1>9. TakenInv'
  <2>1. \A d \in Calls : call'[d].pc = "await" => call'[d].at = "grounding" /\ call'[d].task \in Prefetches
    BY <1>1, <1>3, <1>4 DEF TakenInv
  <2>2. \A d \in Calls : call'[d].pc # "none" => turn'[TurnOf[d]] = "running"
    BY <1>1, <1>3, <1>4 DEF TakenInv
  <2>3. /\ \A d \in Takers' : holder'[TurnOf[d]] = 0
        /\ \A d, e \in Takers' : TurnOf[d] = TurnOf[e] => d = e
    <3>1. CASE holder' = holder /\ (r.pc \notin {"await", "served"} \/ call[c].pc = "await")
      <4>1. Takers' \subseteq Takers
        BY <1>3, <1>4, <3>1 DEF Takers
      <4> QED BY <1>1, <3>1, <4>1 DEF TakenInv
    <3>2. CASE holder[TurnOf[c]] # 0 /\ holder' = [holder EXCEPT ![TurnOf[c]] = 0]
      <4>1. Takers' \subseteq Takers \cup {c}
        BY <1>3, <1>4 DEF Takers
      <4>2. \A d \in Takers : TurnOf[d] # TurnOf[c] /\ holder[TurnOf[d]] = 0
        BY <1>1, <3>2 DEF TakenInv
      <4>3. /\ holder'[TurnOf[c]] = 0
            /\ \A t \in Turns : t # TurnOf[c] => holder'[t] = holder[t]
        BY <1>1, <1>2, <3>2 DEF SearchTypeOK
      <4>4. \A d \in Takers' : d \in Calls
        BY DEF Takers
      <4>5. \A d, e \in Takers' : TurnOf[d] = TurnOf[e] => d = e
        BY <1>1, <4>1, <4>2 DEF TakenInv
      <4> QED BY <1>2, <4>1, <4>2, <4>3, <4>4, <4>5
    <3> QED BY <3>1, <3>2
  <2> QED BY <2>1, <2>2, <2>3 DEF TakenInv
<1> QED BY <1>6, <1>7, <1>8, <1>9 DEF SearchInv

LEMMA SearchInitInv == SearchInit => SearchInv
<1> SUFFICES ASSUME SearchInit PROVE SearchInv
  OBVIOUS
<1>1. /\ \A c \in Calls : call[c] = NoCall
      /\ \A k \in Prefetches : prefetch[k] = NoPrefetch
  BY DEF SearchInit
<1>2. NoCall.pc = "none" /\ NoCall.tries = 0 /\ NoPrefetch.pc = "none" /\ NoPrefetch.tries = 0
  BY DEF NoCall, NoPrefetch
<1>3. SearchTypeOK
  <2>1. 0 \in 0 .. MaxPrefetches
    BY ConstantsAssumption
  <2> QED BY <2>1, BlankRecords DEF SearchInit, SearchTypeOK, CallSet, PrefetchSet
<1>4. TriesInv
  BY <1>1, <1>2, ConstantsAssumption DEF TriesInv
<1>5. TakenInv
  BY <1>1, <1>2 DEF TakenInv, Takers
<1>6. OldInv /\ ChainInv
  BY <1>1, <1>2 DEF OldInv, ChainInv, Active
<1> QED BY <1>3, <1>4, <1>5, <1>6 DEF SearchInv

-----------------------------------------------------------------------------
(* The calls. *)

LEMMA BeginInv ==
  ASSUME SearchInv, NEW c \in Calls, NEW request \in Requests, Begin(c, request[1], request[2])
  PROVE  SearchInv'
<1> DEFINE r == [NoCall EXCEPT !.pc = "enter", !.domains = request[2],
                               !.at = FirstBackend(request[1], request[2])]
<1>1. request[1] \in Backends /\ request[2] \in BOOLEAN
  BY ConstantsAssumption
<1>2. FirstBackend(request[1], request[2]) \in Backends
  BY <1>1 DEF FirstBackend, Backends
<1>3. /\ r \in CallSet /\ r.pc = "enter" /\ r.tries = 0 /\ r.failed = {}
      /\ r.at = FirstBackend(request[1], request[2]) /\ r.domains = request[2]
  <2>1. NoCall \in CallSet /\ NoCall.tries = 0 /\ NoCall.failed = {}
    BY BlankRecords DEF NoCall
  <2> QED BY <1>1, <1>2, <2>1 DEF CallSet, Active
<1>4. r.failed \in Before(r.at, r.domains)
  BY <1>1, <1>2, <1>3 DEF FirstBackend, Before, Backends
<1>5. call' = [call EXCEPT ![c] = r] /\ call \in [Calls -> CallSet]
  BY DEF Begin, SearchInv, SearchTypeOK, CallSet
<1> HIDE DEF r
<1>6. /\ turn[TurnOf[c]] = "running" /\ turn' = turn /\ holder' = holder /\ cache' = cache
      /\ prefetch' = prefetch /\ mark' = mark
  BY DEF Begin
<1>7. OldInv'
  BY <1>3, <1>5, <1>6 DEF OldInv, SearchInv, Exhausted
<1>8. call' \in [Calls -> CallSet] /\ Now(c, r) /\ \A d \in Calls : d # c => Now(d, call[d])
  BY <1>3, <1>5 DEF Now
<1>9. 0 < MaxAttempts
  BY ConstantsAssumption
<1>10. /\ prefetch' \in [Prefetches -> PrefetchSet] /\ \A k \in Prefetches : prefetch'[k].tries < MaxAttempts
       /\ mark' \in [Metered -> {"none", "live", "past"}]
  BY <1>6 DEF SearchInv, SearchTypeOK, PrefetchSet, TriesInv
<1> QED BY <1>3, <1>4, <1>6, <1>7, <1>8, <1>9, <1>10, CallMoves

LEMMA Running == ASSUME SearchInv, NEW c \in Calls, call[c].pc # "none"
                 PROVE turn[TurnOf[c]] = "running" /\ TurnOf[c] \in Turns /\ call[c] \in CallSet
BY CallTurns DEF SearchInv, SearchTypeOK, TakenInv, CallSet

LEMMA Unmoved ==
  ASSUME SearchInv, prefetch' = prefetch, mark' = mark
  PROVE  /\ prefetch' \in [Prefetches -> PrefetchSet] /\ \A k \in Prefetches : prefetch'[k].tries < MaxAttempts
         /\ mark' \in [Metered -> {"none", "live", "past"}]
BY DEF SearchInv, SearchTypeOK, PrefetchSet, TriesInv

\* A call made r, nothing else marked.
LEMMA MadeNow ==
  ASSUME SearchInv, NEW c \in Calls, NEW r \in CallSet, call' = [call EXCEPT ![c] = r]
  PROVE  /\ call' \in [Calls -> CallSet] /\ Now(c, r)
         /\ \A d \in Calls : d # c => Now(d, call[d]) /\ call'[d] = call[d]
         /\ call'[c] = r
BY DEF SearchInv, SearchTypeOK, CallSet, Now

\* A call that has failed at its backend, under the marks there were or fewer.
LEMMA CallFails ==
  ASSUME SearchInv, NEW c \in Calls, call[c].pc \in Active, call' = Failed(c),
         turn' = turn, cache' = cache, holder' = holder, prefetch' = prefetch,
         mark' \in [Metered -> {"none", "live", "past"}],
         \A b \in Metered : mark'[b] = "live" => mark[b] = "live"
  PROVE  SearchInv'
<1>1. PICK r \in CallSet :
        /\ Failed(c) = [call EXCEPT ![c] = r] /\ r.pc \in {"enter", "error"} /\ r.tries = 0
        /\ r.pc = "enter" => r.failed \in Before(r.at, r.domains)
  BY FailedCall
<1>2. call' = [call EXCEPT ![c] = r]
  BY <1>1
<1>3. OldInv'
  BY <1>1, <1>2, MadeNow DEF OldInv, SearchInv, Exhausted, Metered
<1>4. /\ r.pc # "await" /\ r.pc # "served" /\ (r.pc \in Active => r.pc = "enter")
      /\ r.tries < MaxAttempts
  BY <1>1, ConstantsAssumption DEF Active
<1>5. turn[TurnOf[c]] = "running"
  BY Running DEF Active
<1>6. prefetch' \in [Prefetches -> PrefetchSet] /\ \A k \in Prefetches : prefetch'[k].tries < MaxAttempts
  BY DEF SearchInv, SearchTypeOK, PrefetchSet, TriesInv
<1>7. /\ call' \in [Calls -> CallSet] /\ Now(c, r)
      /\ \A d \in Calls : d # c => Now(d, call[d])
  BY <1>2, MadeNow
<1> QED BY <1>1, <1>3, <1>4, <1>5, <1>6, <1>7, CallMoves

LEMMA EnterInv == ASSUME SearchInv, NEW c \in Calls, Enter(c) PROVE SearchInv'
<1> DEFINE b == call[c].at
           t == TurnOf[c]
           prefetched == b = "grounding" /\ holder[t] # 0
<1>1. /\ call[c].pc = "enter"
      /\ holder' = [holder EXCEPT ![t] = IF prefetched THEN 0 ELSE @]
      /\ turn' = turn /\ cache' = cache /\ prefetch' = prefetch /\ mark' = mark
  BY DEF Enter
<1>2. /\ turn[t] = "running" /\ t \in Turns /\ call[c] \in CallSet
      /\ call \in [Calls -> CallSet] /\ holder \in [Turns -> 0 .. MaxPrefetches]
  BY <1>1, Running DEF SearchInv, SearchTypeOK, CallSet
<1>3. call[c].tries < MaxAttempts /\ call[c].failed \in Before(b, call[c].domains)
  BY <1>1 DEF SearchInv, TriesInv, ChainInv, Active
<1>4. 0 < MaxAttempts
  BY ConstantsAssumption
<1>5. CASE prefetched
  <2> DEFINE r == [call[c] EXCEPT !.pc = "await", !.task = holder[t]]
  <2>1. call' = [call EXCEPT ![c] = r] /\ holder' = [holder EXCEPT ![t] = 0]
    BY <1>1, <1>2, <1>5 DEF Enter
  <2>2. /\ r \in CallSet /\ r.pc = "await" /\ r.at = "grounding" /\ r.task \in Prefetches
        /\ r.tries = call[c].tries /\ r.failed = call[c].failed /\ r.domains = call[c].domains
    <3>1. holder[t] \in Prefetches /\ holder[t] \in 0 .. MaxPrefetches
      BY <1>2, <1>5, ConstantsAssumption DEF Prefetches
    <3> QED BY <1>2, <1>5, <3>1 DEF CallSet, Active
  <2> HIDE DEF r
  <2>3. OldInv'
    BY <1>1, <2>1, <2>2, MadeNow DEF OldInv, SearchInv, Exhausted
  <2> QED BY <1>1, <1>2, <1>3, <1>5, <2>1, <2>2, <2>3, MadeNow, Unmoved, CallMoves
<1>6. CASE ~prefetched /\ (b \notin Configured \/ Exhausted(b))
  <2>1. holder' = holder /\ call' = Failed(c)
    BY <1>1, <1>2, <1>6 DEF Enter
  <2>2. mark' \in [Metered -> {"none", "live", "past"}]
    BY <1>1, Unmoved
  <2> QED BY <1>1, <2>1, <2>2, CallFails DEF Active
<1>7. CASE ~prefetched /\ ~(b \notin Configured \/ Exhausted(b))
  <2> DEFINE r == [call[c] EXCEPT !.pc = "ask"]
  <2>1. call' = [call EXCEPT ![c] = r] /\ holder' = holder
    BY <1>1, <1>2, <1>7 DEF Enter
  <2>2. /\ r \in CallSet /\ r.pc = "ask" /\ r.at = b
        /\ r.tries = call[c].tries /\ r.failed = call[c].failed /\ r.domains = call[c].domains
    BY <1>2 DEF CallSet, Active
  <2> HIDE DEF r
  <2>3. OldInv'
    BY <1>1, <1>7, <2>1, <2>2, MadeNow DEF OldInv, SearchInv, Exhausted
  <2> QED BY <1>1, <1>2, <1>3, <2>1, <2>2, <2>3, MadeNow, Unmoved, CallMoves
<1> QED BY <1>5, <1>6, <1>7

\* The calls of a turn are cancelled: its prefetch may stop with them.
LEMMA StoppedTasks ==
  ASSUME SearchInv, NEW t \in Turns, Stopped(t), mark' = mark
  PROVE  /\ prefetch' \in [Prefetches -> PrefetchSet] /\ \A k \in Prefetches : prefetch'[k].tries < MaxAttempts
         /\ \A k \in Prefetches : prefetch'[k].pc = "ask" => prefetch'[k] = prefetch[k]
<1>1. prefetch \in [Prefetches -> PrefetchSet]
  BY DEF SearchInv, SearchTypeOK, PrefetchSet
<1>2. \A k \in Prefetches : prefetch'[k] = prefetch[k] \/ prefetch'[k] = [NoPrefetch EXCEPT !.pc = "cancelled"]
  BY DEF Stopped
<1>3. LET x == [NoPrefetch EXCEPT !.pc = "cancelled"]
      IN  x \in PrefetchSet /\ x.tries = 0 /\ x.pc = "cancelled"
  BY BlankRecords DEF NoPrefetch
<1>4. prefetch' = [k \in Prefetches |-> prefetch'[k]]
  BY DEF Stopped
<1>5. 0 < MaxAttempts
  BY ConstantsAssumption
<1>6. \A k \in Prefetches : prefetch[k].tries < MaxAttempts
  BY DEF SearchInv, TriesInv
<1>7. \A k \in Prefetches : prefetch'[k] \in PrefetchSet /\ prefetch'[k].tries < MaxAttempts
                        /\ (prefetch'[k].pc = "ask" => prefetch'[k] = prefetch[k])
  BY <1>1, <1>2, <1>3, <1>5, <1>6
<1> QED BY <1>4, <1>7

\* A turn ends: its calls are forgotten.
LEMMA TurnGone ==
  ASSUME SearchInv, NEW t \in Turns, NEW pc \in {"over", "cancelled", "cut"}, Forgotten(t),
         turn' = [turn EXCEPT ![t] = pc], cache' = cache, mark' = mark,
         prefetch' \in [Prefetches -> PrefetchSet], \A k \in Prefetches : prefetch'[k].tries < MaxAttempts,
         \A k \in Prefetches : prefetch'[k].pc = "ask" => prefetch'[k] = prefetch[k]
  PROVE  SearchInv'
<1>1. SearchTypeOK /\ TriesInv /\ TakenInv /\ ChainInv /\ OldInv /\ call \in [Calls -> CallSet]
  BY DEF SearchInv, SearchTypeOK, CallSet
<1>2. NoCall \in CallSet /\ NoCall.pc = "none" /\ NoCall.tries = 0
  BY BlankRecords DEF NoCall
<1>3. /\ call' = [c \in Calls |-> call'[c]]
      /\ \A c \in Calls : call'[c] = IF TurnOf[c] = t THEN NoCall ELSE call[c]
  BY DEF Forgotten, CallsOf
<1>4. holder' = [holder EXCEPT ![t] = 0]
  BY DEF Forgotten
<1>5. \A c \in Calls : TurnOf[c] \in Turns
  BY CallTurns
<1>6. /\ holder' \in [Turns -> 0 .. MaxPrefetches] /\ holder'[t] = 0
      /\ \A u \in Turns : u # t => holder'[u] = holder[u] /\ turn'[u] = turn[u]
  BY <1>1, <1>4, ConstantsAssumption DEF SearchTypeOK
<1>7. call' \in [Calls -> CallSet]
  <2>1. \A c \in Calls : call'[c] \in CallSet
    BY <1>1, <1>2, <1>3
  <2> QED BY <1>3, <2>1
<1>8. SearchTypeOK'
  BY <1>1, <1>6, <1>7 DEF SearchTypeOK, CallSet, PrefetchSet
<1>9. TriesInv'
  BY <1>1, <1>2, <1>3, ConstantsAssumption DEF TriesInv
<1>10. TakenInv'
  <2>1. Takers' = {c \in Takers : TurnOf[c] # t}
    BY <1>2, <1>3 DEF Takers
  <2> QED BY <1>1, <1>2, <1>3, <1>5, <1>6, <2>1 DEF TakenInv, Takers
<1>11. OldInv' /\ ChainInv'
  BY <1>1, <1>2, <1>3 DEF OldInv, ChainInv, Active, Exhausted
<1> QED BY <1>8, <1>9, <1>10, <1>11 DEF SearchInv

LEMMA EndTurnInv == ASSUME SearchInv, NEW t \in Turns, EndTurn(t) PROVE SearchInv'
<1>1. /\ Forgotten(t) /\ turn' = [turn EXCEPT ![t] = "over"]
      /\ cache' = cache /\ prefetch' = prefetch /\ mark' = mark
  BY DEF EndTurn
<1> QED BY <1>1, Unmoved, TurnGone

LEMMA CancelTurnInv == ASSUME SearchInv, NEW t \in Turns, CancelTurn(t) PROVE SearchInv'
<1>1. /\ Stopped(t) /\ Forgotten(t) /\ turn' = [turn EXCEPT ![t] = "cancelled"]
      /\ cache' = cache /\ mark' = mark
  BY DEF CancelTurn, Stopped
<1> QED BY <1>1, StoppedTasks, TurnGone

LEMMA PrefetchedInv == ASSUME SearchInv, NEW c \in Calls, Prefetched(c) PROVE SearchInv'
<1> DEFINE t == TurnOf[c]
           pc == prefetch[call[c].task].pc
<1>1. call[c].pc = "await" /\ cache' = cache /\ mark' = mark
  BY DEF Prefetched
<1>2. /\ turn[t] = "running" /\ t \in Turns /\ call[c] \in CallSet
      /\ call \in [Calls -> CallSet]
  BY <1>1, Running DEF SearchInv, SearchTypeOK, CallSet
<1>3. /\ call[c].tries < MaxAttempts /\ call[c].failed \in Before(call[c].at, call[c].domains)
      /\ call[c].at = "grounding"
  BY <1>1 DEF SearchInv, TriesInv, ChainInv, TakenInv, Active
<1>4. mark' \in [Metered -> {"none", "live", "past"}]
  BY <1>1 DEF SearchInv, SearchTypeOK
<1>5. CASE pc = "ready"
  <2>1. /\ call' = [call EXCEPT ![c] = Over("served")]
        /\ turn' = turn /\ holder' = holder /\ prefetch' = prefetch
    BY <1>5 DEF Prefetched
  <2>2. Over("served") \in CallSet /\ Over("served").pc = "served" /\ Over("served").tries = 0
    BY BlankRecords
  <2>3. OldInv'
    BY <1>1, <2>1, <2>2, MadeNow DEF OldInv, SearchInv, Exhausted
  <2>4. 0 < MaxAttempts /\ Over("served").pc \notin Active /\ Over("served").pc # "await"
    BY <2>2, ConstantsAssumption DEF Active
  <2> QED BY <1>1, <1>2, <2>1, <2>2, <2>3, <2>4, MadeNow, Unmoved, CallMoves
<1>6. CASE pc \in {"empty", "failed"} /\ Exhausted("grounding")
  <2>1. call' = Failed(c) /\ turn' = turn /\ holder' = holder /\ prefetch' = prefetch
    BY <1>6 DEF Prefetched
  <2> QED BY <1>1, <1>4, <2>1, CallFails DEF Active
<1>7. CASE pc \in {"empty", "failed"} /\ ~Exhausted("grounding")
  <2> DEFINE r == [call[c] EXCEPT !.pc = "ask", !.task = 0]
  <2>1. call' = [call EXCEPT ![c] = r] /\ turn' = turn /\ holder' = holder /\ prefetch' = prefetch
    BY <1>2, <1>7 DEF Prefetched
  <2>2. /\ r \in CallSet /\ r.pc = "ask" /\ r.at = "grounding"
        /\ r.tries = call[c].tries /\ r.failed = call[c].failed /\ r.domains = call[c].domains
    <3>1. 0 \in 0 .. MaxPrefetches
      BY ConstantsAssumption
    <3> QED BY <1>2, <1>3, <3>1 DEF CallSet, Active
  <2> HIDE DEF r
  <2>3. OldInv'
    BY <1>1, <1>7, <2>1, <2>2, MadeNow DEF OldInv, SearchInv, Exhausted
  <2> QED BY <1>1, <1>2, <1>3, <2>1, <2>2, <2>3, MadeNow, Unmoved, CallMoves
<1>8. CASE pc = "cancelled"
  <2>1. Stopped(t) /\ Forgotten(t) /\ turn' = [turn EXCEPT ![t] = "cut"]
    BY <1>8 DEF Prefetched, Stopped
  <2> QED BY <1>1, <1>2, <2>1, StoppedTasks, TurnGone
<1> QED BY <1>5, <1>6, <1>7, <1>8 DEF Prefetched

\* A mark that is set marks every request under way at that backend.
LEMMA MarkCalls ==
  ASSUME SearchInv, NEW b \in Metered, NEW tasks \in [Prefetches -> PrefetchSet], NEW asked \in [Calls -> CallSet],
         Mark(b, tasks, asked),
         \A c \in Calls : asked[c].pc = "ask" /\ Exhausted(asked[c].at) => asked[c].old,
         \A k \in Prefetches : tasks[k].pc = "ask" /\ mark["grounding"] = "live" => tasks[k].old
  PROVE  /\ mark' \in [Metered -> {"none", "live", "past"}] /\ mark'[b] = "live"
         /\ \A a \in Metered : mark[a] = "live" => mark'[a] = "live"
         /\ prefetch' \in [Prefetches -> PrefetchSet]
         /\ \A k \in Prefetches : prefetch'[k].pc = tasks[k].pc /\ prefetch'[k].tries = tasks[k].tries
         /\ call' \in [Calls -> CallSet]
         /\ \A c \in Calls : Now(c, asked[c])
         /\ OldInv'
<1>1. mark \in [Metered -> {"none", "live", "past"}]
  BY DEF SearchInv, SearchTypeOK
<1>2. CASE mark[b] = "live"
  <2>1. mark' = mark /\ prefetch' = tasks /\ call' = asked
    BY <1>2 DEF Mark
  <2>2. OldInv'
    BY <2>1 DEF OldInv, Exhausted
  <2> QED BY <1>1, <1>2, <2>1, <2>2 DEF Now
<1>3. CASE mark[b] # "live"
  <2>1. /\ mark' = [mark EXCEPT ![b] = "live"]
        /\ prefetch' = [k \in Prefetches |-> IF b = "grounding" /\ tasks[k].pc = "ask"
                                    THEN [tasks[k] EXCEPT !.old = TRUE] ELSE tasks[k]]
        /\ call' = [c \in Calls |-> IF asked[c].at = b /\ asked[c].pc = "ask"
                                    THEN [asked[c] EXCEPT !.old = TRUE] ELSE asked[c]]
    BY <1>3 DEF Mark
  <2>2. /\ mark' \in [Metered -> {"none", "live", "past"}] /\ mark'[b] = "live"
        /\ \A a \in Metered : mark[a] = "live" => mark'[a] = "live"
        /\ \A a \in Metered : a # b => mark'[a] = mark[a]
    BY <1>1, <2>1
  <2>3. \A k \in Prefetches :
          /\ prefetch'[k] \in PrefetchSet /\ prefetch'[k].pc = tasks[k].pc /\ prefetch'[k].tries = tasks[k].tries
          /\ b = "grounding" /\ tasks[k].pc = "ask" => prefetch'[k].old
          /\ ~(b = "grounding" /\ tasks[k].pc = "ask") => prefetch'[k] = tasks[k]
    BY <2>1 DEF PrefetchSet
  <2>4. \A c \in Calls :
          /\ call'[c] \in CallSet /\ Now(c, asked[c]) /\ call'[c].pc = asked[c].pc
          /\ call'[c].at = asked[c].at
          /\ asked[c].at = b /\ asked[c].pc = "ask" => call'[c].old
          /\ ~(asked[c].at = b /\ asked[c].pc = "ask") => call'[c] = asked[c]
    BY <2>1 DEF CallSet, Now
  <2>5. /\ prefetch' \in [Prefetches -> PrefetchSet]
        /\ call' \in [Calls -> CallSet]
    BY <2>1, <2>3, <2>4
  <2>6. \A c \in Calls : call'[c].pc = "ask" /\ call'[c].at \in Metered
                              /\ mark'[call'[c].at] = "live" => call'[c].old
    BY <2>2, <2>4 DEF Exhausted
  <2>7. \A k \in Prefetches : prefetch'[k].pc = "ask" /\ mark'["grounding"] = "live" => prefetch'[k].old
    BY <2>2, <2>3 DEF Metered
  <2>8. OldInv'
    BY <2>6, <2>7 DEF OldInv, Exhausted
  <2> QED BY <2>2, <2>3, <2>4, <2>5, <2>8
<1> QED BY <1>2, <1>3

LEMMA BackendAnswersInv == ASSUME SearchInv, NEW c \in Calls, BackendAnswers(c) PROVE SearchInv'
<1> DEFINE b == call[c].at
           last == b # "grounding" \/ call[c].tries + 1 = MaxAttempts
           cleared == IF b \in Metered THEN [mark EXCEPT ![b] = "none"] ELSE mark
<1>1. call[c].pc = "ask" /\ cache' = cache /\ turn' = turn /\ holder' = holder
  BY DEF BackendAnswers
<1>2. /\ turn[TurnOf[c]] = "running" /\ call[c] \in CallSet
      /\ call \in [Calls -> CallSet] /\ prefetch \in [Prefetches -> PrefetchSet]
      /\ mark \in [Metered -> {"none", "live", "past"}]
  BY <1>1, Running DEF SearchInv, SearchTypeOK, CallSet, PrefetchSet
<1>3. /\ call[c].tries < MaxAttempts /\ call[c].failed \in Before(b, call[c].domains)
      /\ call[c].tries \in Nat /\ MaxAttempts \in Nat
  BY <1>1, <1>2, ConstantsAssumption DEF SearchInv, TriesInv, ChainInv, Active, CallSet
<1>4. /\ cleared \in [Metered -> {"none", "live", "past"}]
      /\ \A a \in Metered : cleared[a] = "live" => mark[a] = "live"
  BY <1>2
<1> HIDE DEF cleared
<1>5. CASE call' = [call EXCEPT ![c] = Over("ok")] /\ mark' = cleared /\ prefetch' = prefetch
  <2>1. Over("ok") \in CallSet /\ Over("ok").pc = "ok" /\ Over("ok").tries = 0
    BY BlankRecords
  <2>2. OldInv'
    BY <1>4, <1>5, <2>1, MadeNow DEF OldInv, SearchInv, Exhausted, Metered
  <2>3. /\ 0 < MaxAttempts /\ Over("ok").pc \notin Active /\ Over("ok").pc # "await"
        /\ Over("ok").pc # "served"
    BY <2>1, ConstantsAssumption DEF Active
  <2>4. prefetch' \in [Prefetches -> PrefetchSet] /\ \A k \in Prefetches : prefetch'[k].tries < MaxAttempts
    BY <1>2, <1>5 DEF SearchInv, TriesInv
  <2>5. mark' \in [Metered -> {"none", "live", "past"}]
    BY <1>4, <1>5
  <2> QED BY <1>1, <1>2, <1>5, <2>1, <2>2, <2>3, <2>4, <2>5, MadeNow, CallMoves
<1>6. CASE call' = Failed(c) /\ mark' \in {mark, cleared} /\ prefetch' = prefetch
  BY <1>1, <1>2, <1>4, <1>6, CallFails DEF Active
<1>7. CASE ~last /\ call' = [call EXCEPT ![c].tries = @ + 1] /\ mark' = mark /\ prefetch' = prefetch
  <2> DEFINE r == [call[c] EXCEPT !.tries = @ + 1]
  <2>1. call' = [call EXCEPT ![c] = r]
    BY <1>2, <1>7
  <2>2. /\ r \in CallSet /\ r.pc = "ask" /\ r.at = b /\ r.tries < MaxAttempts
        /\ r.old = call[c].old /\ r.failed = call[c].failed /\ r.domains = call[c].domains
    BY <1>1, <1>2, <1>3, <1>7 DEF CallSet
  <2> HIDE DEF r
  <2>3. OldInv'
    BY <1>1, <1>7, <2>1, <2>2, MadeNow DEF OldInv, SearchInv, Exhausted
  <2>4. /\ prefetch' \in [Prefetches -> PrefetchSet] /\ \A k \in Prefetches : prefetch'[k].tries < MaxAttempts
        /\ mark' \in [Metered -> {"none", "live", "past"}]
    BY <1>7, Unmoved
  <2>5. /\ call' \in [Calls -> CallSet] /\ Now(c, r)
        /\ \A d \in Calls : d # c => Now(d, call[d])
    BY <2>1, <2>2, MadeNow
  <2>6. r.pc # "await" /\ r.pc # "served" /\ r.failed \in Before(r.at, r.domains)
    BY <1>3, <2>2
  <2> HIDE DEF b, last
  <2> QED BY <1>1, <1>2, <2>2, <2>3, <2>4, <2>5, <2>6, CallMoves
<1>8. CASE b \in Metered /\ Mark(b, prefetch, Failed(c))
  <2>1. PICK r \in CallSet :
          /\ Failed(c) = [call EXCEPT ![c] = r] /\ r.pc \in {"enter", "error"} /\ r.tries = 0
          /\ r.pc = "enter" => r.failed \in Before(r.at, r.domains)
    BY <1>1, FailedCall DEF Active
  <2>2. /\ Failed(c) \in [Calls -> CallSet] /\ Failed(c)[c] = r
        /\ \A d \in Calls : d # c => Failed(c)[d] = call[d]
    BY <1>2, <2>1
  <2>3. \A d \in Calls : Failed(c)[d].pc = "ask" /\ Exhausted(Failed(c)[d].at) => Failed(c)[d].old
    BY <2>1, <2>2 DEF OldInv, SearchInv
  <2>4. \A k \in Prefetches : prefetch[k].pc = "ask" /\ mark["grounding"] = "live" => prefetch[k].old
    BY DEF OldInv, SearchInv
  <2>5. /\ mark' \in [Metered -> {"none", "live", "past"}] /\ prefetch' \in [Prefetches -> PrefetchSet]
        /\ \A k \in Prefetches : prefetch'[k].tries = prefetch[k].tries
        /\ call' \in [Calls -> CallSet] /\ OldInv' /\ \A d \in Calls : Now(d, Failed(c)[d])
    <3> HIDE DEF b
    <3> QED BY <1>2, <1>8, <2>2, <2>3, <2>4, MarkCalls
  <2>6. Now(c, r) /\ \A d \in Calls : d # c => Now(d, call[d])
    BY <2>2, <2>5
  <2>7. /\ r.pc # "await" /\ r.pc # "served" /\ (r.pc \in Active => r.pc = "enter")
        /\ r.tries < MaxAttempts
    BY <2>1, ConstantsAssumption DEF Active
  <2>8. \A k \in Prefetches : prefetch'[k].tries < MaxAttempts
    BY <2>5 DEF SearchInv, TriesInv
  <2> QED BY <1>1, <1>2, <2>1, <2>5, <2>6, <2>7, <2>8, CallMoves
<1> QED BY <1>5, <1>6, <1>7, <1>8 DEF BackendAnswers, cleared

-----------------------------------------------------------------------------
(* The prefetches and the marks. *)

LEMMA LeastTask == ASSUME NEW T \in SUBSET Prefetches, T # {} PROVE \E k \in T : \A l \in T : k <= l
<1>1. T \in SUBSET Nat
  BY ConstantsAssumption DEF Prefetches
<1>2. PICK k \in T : \A l \in T : ~(<<l, k>> \in OpToRel(<, Nat))
  BY <1>1, WFMin, NatLessThanWellFounded, Zenon
<1>3. \A l \in T : ~(l < k)
  BY <1>1, <1>2, Zenon DEF OpToRel
<1> QED BY <1>1, <1>3

\* Prefetches and marks change, calls stay, but for what began before a mark.
LEMMA TaskMoves ==
  ASSUME SearchInv, turn' = turn, holder' = holder, cache' = cache,
         mark' \in [Metered -> {"none", "live", "past"}],
         prefetch' \in [Prefetches -> PrefetchSet], \A k \in Prefetches : prefetch'[k].tries < MaxAttempts,
         call' \in [Calls -> CallSet], \A c \in Calls : Now(c, call[c]), OldInv'
  PROVE  SearchInv'
<1>1. SearchTypeOK /\ TriesInv /\ TakenInv /\ ChainInv /\ call \in [Calls -> CallSet]
  BY DEF SearchInv, SearchTypeOK, CallSet
<1>2. \A d \in Calls :
        /\ call'[d].pc = call[d].pc /\ call'[d].at = call[d].at /\ call'[d].task = call[d].task
        /\ call'[d].tries = call[d].tries /\ call'[d].failed = call[d].failed
        /\ call'[d].domains = call[d].domains
  BY <1>1 DEF Now, CallSet
<1>3. SearchTypeOK'
  BY <1>1 DEF SearchTypeOK, CallSet, PrefetchSet
<1>4. TriesInv' /\ ChainInv'
  BY <1>1, <1>2 DEF TriesInv, ChainInv
<1>5. TakenInv'
  <2>1. Takers' = Takers
    BY <1>2 DEF Takers
  <2> QED BY <1>1, <1>2, <2>1 DEF TakenInv
<1> QED BY <1>3, <1>4, <1>5 DEF SearchInv

\* One prefetch is made r.
LEMMA TaskMade ==
  ASSUME SearchInv, NEW k \in Prefetches, NEW r \in PrefetchSet, r.tries < MaxAttempts,
         turn' = turn, holder' = holder, cache' = cache, call' = call,
         prefetch' = [prefetch EXCEPT ![k] = r], mark' \in [Metered -> {"none", "live", "past"}],
         \A b \in Metered : mark'[b] = "live" => mark[b] = "live",
         r.pc = "ask" /\ mark'["grounding"] = "live" => r.old
  PROVE  SearchInv'
<1>1. prefetch \in [Prefetches -> PrefetchSet] /\ call \in [Calls -> CallSet] /\ OldInv /\ TriesInv
  BY DEF SearchInv, SearchTypeOK, PrefetchSet, CallSet
<1>2. prefetch' \in [Prefetches -> PrefetchSet] /\ \A l \in Prefetches : prefetch'[l].tries < MaxAttempts
  BY <1>1 DEF TriesInv
<1>3. OldInv'
  BY <1>1 DEF OldInv, Exhausted, Metered
<1>4. call' \in [Calls -> CallSet] /\ \A c \in Calls : Now(c, call[c])
  BY <1>1 DEF Now
<1> QED BY <1>2, <1>3, <1>4, TaskMoves

LEMMA HintInv == ASSUME SearchInv, NEW k \in Prefetches, Hint(k) PROVE SearchInv'
<1>1. /\ prefetch \in [Prefetches -> PrefetchSet] /\ prefetch[k].tries < MaxAttempts
      /\ mark \in [Metered -> {"none", "live", "past"}]
  BY DEF SearchInv, SearchTypeOK, TriesInv, PrefetchSet
<1>2. PICK pc \in {"empty", "failed", IF Exhausted("grounding") THEN "failed" ELSE "ask"} :
        prefetch' = [prefetch EXCEPT ![k].pc = pc]
  BY DEF Hint
<1> DEFINE r == [prefetch[k] EXCEPT !.pc = pc]
<1>3. prefetch' = [prefetch EXCEPT ![k] = r]
  BY <1>1, <1>2
<1>4. r \in PrefetchSet /\ r.tries = prefetch[k].tries /\ r.pc = pc
  BY <1>1, <1>2 DEF PrefetchSet
<1>5. pc = "ask" => ~Exhausted("grounding")
  BY <1>2
<1> HIDE DEF r
<1>6. r.pc = "ask" /\ mark'["grounding"] = "live" => r.old
  BY <1>4, <1>5 DEF Exhausted, Metered, Hint
<1> QED BY <1>1, <1>3, <1>4, <1>6, TaskMade DEF Hint

LEMMA PrefetchAnswersInv == ASSUME SearchInv, NEW k \in Prefetches, PrefetchAnswers(k) PROVE SearchInv'
<1>1. /\ prefetch \in [Prefetches -> PrefetchSet] /\ prefetch[k].tries < MaxAttempts
      /\ call \in [Calls -> CallSet]
      /\ prefetch[k].tries \in Nat /\ MaxAttempts \in Nat /\ 0 < MaxAttempts
      /\ mark \in [Metered -> {"none", "live", "past"}] /\ OldInv
  BY ConstantsAssumption DEF SearchInv, SearchTypeOK, TriesInv, PrefetchSet, CallSet
<1>2. /\ prefetch[k].pc = "ask" /\ turn' = turn /\ holder' = holder /\ cache' = cache
  BY DEF PrefetchAnswers
<1> DEFINE end(pc) == [NoPrefetch EXCEPT !.pc = pc]
           cleared == [mark EXCEPT !["grounding"] = "none"]
<1>3. \A pc \in {"ready", "empty", "failed"} :
        end(pc) \in PrefetchSet /\ end(pc).tries = 0 /\ end(pc).pc = pc
  BY BlankRecords DEF NoPrefetch
<1>4. /\ cleared \in [Metered -> {"none", "live", "past"}]
      /\ \A b \in Metered : cleared[b] = "live" => mark[b] = "live"
  BY <1>1
<1> HIDE DEF end, cleared
<1>5. CASE \E pc \in {"ready", "empty", "failed"} :
             prefetch' = [prefetch EXCEPT ![k] = end(pc)] /\ call' = call /\ mark' \in {mark, cleared}
  BY <1>1, <1>2, <1>3, <1>4, <1>5, TaskMade
<1>6. CASE /\ prefetch[k].tries + 1 # MaxAttempts /\ prefetch' = [prefetch EXCEPT ![k].tries = @ + 1]
           /\ call' = call /\ mark' = mark
  <2> DEFINE r == [prefetch[k] EXCEPT !.tries = @ + 1]
  <2>1. prefetch' = [prefetch EXCEPT ![k] = r]
    BY <1>1, <1>6
  <2>2. r \in PrefetchSet /\ r.tries < MaxAttempts /\ r.old = prefetch[k].old /\ r.pc = "ask"
    BY <1>1, <1>2, <1>6 DEF PrefetchSet
  <2>3. mark["grounding"] = "live" => r.old
    BY <1>1, <1>2, <2>2 DEF OldInv
  <2> HIDE DEF r
  <2> QED BY <1>1, <1>2, <1>6, <2>1, <2>2, <2>3, TaskMade
<1>7. CASE Mark("grounding", [prefetch EXCEPT ![k] = end("failed")], call)
  <2> DEFINE tasks == [prefetch EXCEPT ![k] = end("failed")]
  <2>1. /\ tasks \in [Prefetches -> PrefetchSet] /\ tasks[k] = end("failed")
        /\ \A l \in Prefetches : l # k => tasks[l] = prefetch[l]
    BY <1>1, <1>3
  <2> HIDE DEF tasks
  <2>2. \A l \in Prefetches : tasks[l].pc = "ask" /\ mark["grounding"] = "live" => tasks[l].old
    BY <1>1, <1>3, <2>1 DEF OldInv
  <2>3. \A c \in Calls : call[c].pc = "ask" /\ Exhausted(call[c].at) => call[c].old
    BY <1>1 DEF OldInv
  <2>4. Mark("grounding", tasks, call) /\ "grounding" \in Metered
    BY <1>7 DEF tasks, Metered
  <2>5. /\ mark' \in [Metered -> {"none", "live", "past"}] /\ prefetch' \in [Prefetches -> PrefetchSet]
        /\ \A l \in Prefetches : prefetch'[l].tries = tasks[l].tries
        /\ call' \in [Calls -> CallSet] /\ OldInv' /\ \A c \in Calls : Now(c, call[c])
    BY <1>1, <2>1, <2>2, <2>3, <2>4, MarkCalls
  <2>6. \A l \in Prefetches : tasks[l].tries < MaxAttempts
    BY <1>1, <1>3, <2>1 DEF SearchInv, TriesInv
  <2>7. \A l \in Prefetches : prefetch'[l].tries < MaxAttempts
    BY <2>5, <2>6
  <2> HIDE DEF tasks
  <2> QED BY <1>2, <2>5, <2>7, TaskMoves
<1> QED BY <1>5, <1>6, <1>7 DEF PrefetchAnswers, Clear, end, cleared

LEMMA CoolDownInv == ASSUME SearchInv, NEW b \in Metered, CoolDown(b) PROVE SearchInv'
<1>1. /\ mark \in [Metered -> {"none", "live", "past"}] /\ OldInv
      /\ call \in [Calls -> CallSet] /\ prefetch \in [Prefetches -> PrefetchSet]
  BY DEF SearchInv, SearchTypeOK, CallSet, PrefetchSet
<1>2. /\ mark' = [mark EXCEPT ![b] = "past"]
      /\ turn' = turn /\ holder' = holder /\ cache' = cache /\ prefetch' = prefetch /\ call' = call
  BY DEF CoolDown
<1>3. OldInv'
  BY <1>1, <1>2 DEF OldInv, Exhausted, Metered
<1>4. \A c \in Calls : Now(c, call[c])
  BY <1>2 DEF Now
<1> QED BY <1>1, <1>2, <1>3, <1>4, TaskMoves DEF SearchInv, TriesInv

LEMMA StartTurnInv == ASSUME SearchInv, NEW t \in Turns, NEW fresh \in BOOLEAN, StartTurn(t, fresh)
                      PROVE  SearchInv'
<1> DEFINE m == MsgOf[t]
           k == CHOOSE k \in Unused : \A l \in Unused : k <= l
<1>1. SearchTypeOK /\ TriesInv /\ TakenInv /\ ChainInv /\ OldInv /\ call \in [Calls -> CallSet]
  BY DEF SearchInv, SearchTypeOK, CallSet
<1>2. /\ turn[t] = "idle" /\ turn' = [turn EXCEPT ![t] = "running"]
      /\ call' = call /\ mark' = mark
  BY DEF StartTurn
<1>3. m \in Messages /\ \A c \in Calls : TurnOf[c] \in Turns
  BY CallTurns, ConstantsAssumption
<1>4. \A c \in Calls : TurnOf[c] = t => call[c].pc = "none"
  BY <1>1, <1>2 DEF TakenInv
<1>5. /\ holder' \in [Turns -> 0 .. MaxPrefetches] /\ cache' \in [Messages -> 0 .. MaxPrefetches]
      /\ prefetch' \in [Prefetches -> PrefetchSet]
      /\ \A u \in Turns : u # t => holder'[u] = holder[u]
      /\ \A l \in Prefetches : /\ prefetch'[l].tries = prefetch[l].tries
                               /\ prefetch'[l].pc = "ask" => prefetch'[l] = prefetch[l]
  <2>1. CASE Shareable(m, fresh)
    <3>1. holder' = [holder EXCEPT ![t] = cache[m]] /\ cache' = cache /\ prefetch' = prefetch
      BY <2>1 DEF StartTurn
    <3> QED BY <1>1, <1>3, <3>1 DEF SearchTypeOK, PrefetchSet
  <2>2. CASE ~Shareable(m, fresh)
    <3>1. /\ Unused # {} /\ prefetch' = [prefetch EXCEPT ![k].pc = "hint"]
          /\ cache' = [cache EXCEPT ![m] = k] /\ holder' = [holder EXCEPT ![t] = k]
      BY <2>2 DEF StartTurn
    <3>2. k \in Unused
      <4>1. Unused \in SUBSET Prefetches
        BY DEF Unused
      <4> HIDE DEF Unused
      <4>2. \E i \in Unused : \A l \in Unused : i <= l
        BY <3>1, <4>1, LeastTask
      <4> QED BY <4>2
    <3> HIDE DEF k
    <3>3. k \in Prefetches /\ k \in 0 .. MaxPrefetches
      BY <3>2, ConstantsAssumption DEF Unused, Prefetches
    <3>4. prefetch \in [Prefetches -> PrefetchSet]
      BY <1>1 DEF SearchTypeOK, PrefetchSet
    <3>5. prefetch' \in [Prefetches -> PrefetchSet]
      BY <3>1, <3>3, <3>4 DEF PrefetchSet
    <3>6. \A l \in Prefetches : /\ prefetch'[l].tries = prefetch[l].tries
                                /\ prefetch'[l].pc = "ask" => prefetch'[l] = prefetch[l]
      BY <3>1, <3>3, <3>4 DEF PrefetchSet
    <3> QED BY <1>1, <1>3, <3>1, <3>3, <3>5, <3>6 DEF SearchTypeOK
  <2> QED BY <2>1, <2>2
<1> HIDE DEF k, m
<1>6. /\ turn' \in [Turns -> {"idle", "running", "over", "cancelled", "cut"}]
      /\ turn'[t] = "running" /\ \A u \in Turns : u # t => turn'[u] = turn[u]
  BY <1>1, <1>2 DEF SearchTypeOK
<1>7. SearchTypeOK'
  BY <1>1, <1>2, <1>5, <1>6 DEF SearchTypeOK, CallSet, PrefetchSet
<1>8. TriesInv' /\ ChainInv' /\ OldInv'
  <2>1. TriesInv'
    <3>1. \A l \in Prefetches : prefetch'[l].tries < MaxAttempts
      BY <1>1, <1>5 DEF TriesInv
    <3> QED BY <1>1, <1>2, <3>1 DEF TriesInv
  <2>2. ChainInv'
    BY <1>1, <1>2 DEF ChainInv
  <2>3. OldInv'
    <3>1. \A l \in Prefetches : prefetch'[l].pc = "ask" /\ mark["grounding"] = "live"
                                 => prefetch'[l].old
      BY <1>1, <1>5 DEF OldInv
    <3> QED BY <1>1, <1>2, <3>1 DEF OldInv, Exhausted
  <2> QED BY <2>1, <2>2, <2>3
<1>9. TakenInv'
  <2>1. Takers' = Takers /\ \A c \in Takers : c \in Calls /\ TurnOf[c] # t
    BY <1>2, <1>4 DEF Takers
  <2> QED BY <1>1, <1>2, <1>3, <1>4, <1>5, <1>6, <2>1 DEF TakenInv
<1> QED BY <1>7, <1>8, <1>9 DEF SearchInv

LEMMA SearchStepInv == SearchInv /\ [SearchNext]_searchVars => SearchInv'
<1> SUFFICES ASSUME SearchInv, [SearchNext]_searchVars PROVE SearchInv'
  OBVIOUS
<1>1. ASSUME NEW t \in Turns, TurnStep(t) PROVE SearchInv'
  BY <1>1, StartTurnInv, EndTurnInv, CancelTurnInv DEF TurnStep
<1>2. ASSUME NEW c \in Calls, CallStep(c) PROVE SearchInv'
  BY <1>2, EnterInv, PrefetchedInv, BackendAnswersInv DEF CallStep
<1>3. ASSUME NEW k \in Prefetches, Hint(k) \/ PrefetchAnswers(k) PROVE SearchInv'
  BY <1>3, HintInv, PrefetchAnswersInv
<1>4. CASE UNCHANGED searchVars
  <2>1. /\ turn' = turn /\ holder' = holder /\ cache' = cache
        /\ prefetch' = prefetch /\ call' = call /\ mark' = mark
    BY <1>4 DEF searchVars
  <2> QED BY <2>1 DEF SearchInv, SearchTypeOK, TriesInv, TakenInv, Takers, OldInv, ChainInv, Exhausted
<1> QED BY <1>1, <1>2, <1>3, <1>4, BeginInv, CoolDownInv DEF SearchNext

LEMMA SearchInvariance == SearchSpec => []SearchInv
BY SearchInitInv, SearchStepInv, PTL DEF SearchSpec

THEOREM SearchTypesHold == SearchSpec => []SearchTypeOK
BY SearchInvariance, PTL DEF SearchInv

\* Of a turn's calls, at most one is answered from the prefetch.
THEOREM ServedOncePerTurnHolds == SearchSpec => []ServedOncePerTurn
<1>1. SearchInv => ServedOncePerTurn
  <2> SUFFICES ASSUME SearchInv, NEW t \in Turns
               PROVE  Cardinality({c \in CallsOf(t) : call[c].pc = "served"}) <= 1
    BY DEF ServedOncePerTurn
  <2> DEFINE S == {c \in CallsOf(t) : call[c].pc = "served"}
  <2>1. \A c, d \in S : c = d
    BY DEF SearchInv, TakenInv, Takers, CallsOf
  <2>2. S = {} \/ \E c : S = {c}
    <3> HIDE DEF S
    <3> QED BY <2>1
  <2> HIDE DEF S
  <2>3. Cardinality(S) \in {0, 1}
    BY <2>2, FS_EmptySet, FS_Singleton
  <2>4. Cardinality(S) <= 1
    BY <2>3
  <2> QED BY <2>4 DEF S
<1> QED BY <1>1, SearchInvariance, PTL

\* What a step does to the marks and to the requests that are under way.
Releases(b) ==
    mark[b] = "live" /\ mark'[b] = "none"
       => \/ \E c \in Calls : call[c].pc = "ask" /\ call[c].at = b /\ call[c].old
                              /\ call'[c].pc # "ask"
          \/ b = "grounding" /\ \E k \in Prefetches : prefetch[k].pc = "ask" /\ prefetch[k].old
                                                 /\ prefetch'[k].pc # "ask"

LEMMA MarksKept ==
  ASSUME SearchInv, NEW b \in Metered, mark[b] = "live", mark'[b] = "none", [SearchNext]_searchVars
  PROVE  (\E c \in Calls : BackendAnswers(c)) \/ (\E k \in Prefetches : PrefetchAnswers(k))
<1>1. mark' # mark
  OBVIOUS
<1>2. ~\E a \in Metered : CoolDown(a)
  BY DEF CoolDown, SearchInv, SearchTypeOK
<1> QED BY <1>1, <1>2 DEF SearchNext, TurnStep, CallStep, StartTurn, EndTurn, CancelTurn, Begin, Enter,
                          Prefetched, Hint, searchVars

LEMMA BackendReleases ==
  ASSUME SearchInv, NEW b \in Metered, mark[b] = "live", mark'[b] = "none", NEW c \in Calls, BackendAnswers(c)
  PROVE  call[c].pc = "ask" /\ call[c].at = b /\ call[c].old /\ call'[c].pc # "ask"
<1> DEFINE at == call[c].at
           cleared == IF at \in Metered THEN [mark EXCEPT ![at] = "none"] ELSE mark
<1>1. call[c].pc = "ask" /\ call \in [Calls -> CallSet] /\ mark \in [Metered -> {"none", "live", "past"}]
  BY DEF BackendAnswers, SearchInv, SearchTypeOK, CallSet
<1>2. PICK r \in CallSet : Failed(c) = [call EXCEPT ![c] = r] /\ r.pc \in {"enter", "error"}
  BY <1>1, FailedCall DEF Active
<1>3. Over("ok").pc = "ok"
  BY BlankRecords
<1>4. mark' = cleared /\ (call' = [call EXCEPT ![c] = Over("ok")] \/ call' = Failed(c))
  <2>1. CASE call' = [call EXCEPT ![c] = Over("ok")] /\ mark' = cleared
    BY <2>1
  <2>2. CASE call' = Failed(c) /\ mark' = cleared
    BY <2>2
  <2>3. CASE mark' = mark
    BY <2>3
  <2>4. CASE at \in Metered /\ Mark(at, prefetch, Failed(c))
    <3>1. mark' = mark \/ mark' = [mark EXCEPT ![at] = "live"]
      BY <2>4 DEF Mark
    <3> QED BY <1>1, <3>1
  <2> QED BY <2>1, <2>2, <2>3, <2>4 DEF BackendAnswers
<1>5. at = b
  BY <1>1, <1>4
<1>6. call[c].old
  BY <1>1, <1>5 DEF SearchInv, OldInv, Exhausted
<1>7. call'[c].pc # "ask"
  BY <1>1, <1>2, <1>3, <1>4
<1> QED BY <1>1, <1>5, <1>6, <1>7

LEMMA PrefetchReleases ==
  ASSUME SearchInv, NEW b \in Metered, mark[b] = "live", mark'[b] = "none", NEW k \in Prefetches,
         PrefetchAnswers(k)
  PROVE  b = "grounding" /\ prefetch[k].pc = "ask" /\ prefetch[k].old /\ prefetch'[k].pc # "ask"
<1> DEFINE end(pc) == [NoPrefetch EXCEPT !.pc = pc]
           cleared == [mark EXCEPT !["grounding"] = "none"]
<1>1. /\ prefetch[k].pc = "ask" /\ prefetch \in [Prefetches -> PrefetchSet]
      /\ mark \in [Metered -> {"none", "live", "past"}]
  BY DEF PrefetchAnswers, SearchInv, SearchTypeOK, PrefetchSet
<1>2. \A pc \in {"ready", "empty", "failed"} : end(pc) \in PrefetchSet /\ end(pc).pc = pc
  BY BlankRecords DEF NoPrefetch
<1>3. \E pc \in {"ready", "empty"} : prefetch' = [prefetch EXCEPT ![k] = end(pc)] /\ mark' = cleared
  <2>1. ~Mark("grounding", [prefetch EXCEPT ![k] = end("failed")], call)
    BY <1>1 DEF Mark
  <2> QED BY <2>1 DEF PrefetchAnswers, Clear
<1>4. b = "grounding"
  BY <1>1, <1>3
<1>5. prefetch[k].old
  BY <1>1, <1>4 DEF SearchInv, OldInv
<1>6. prefetch'[k].pc # "ask"
  <2> HIDE DEF end
  <2> QED BY <1>1, <1>2, <1>3
<1> QED BY <1>1, <1>4, <1>5, <1>6

\* Nobody who begins under a mark releases it.
THEOREM OnlyLateReleaseHolds == SearchSpec => OnlyLateRelease
<1>1. SearchInv /\ [SearchNext]_searchVars => \A b \in Metered : Releases(b)
  BY MarksKept, BackendReleases, PrefetchReleases DEF Releases
<1>2. SearchInv /\ [SearchNext]_searchVars => [\A b \in Metered : Releases(b)]_searchVars
  BY <1>1
<1> QED BY <1>2, SearchInvariance, SearchStepInv, PTL DEF SearchSpec, OnlyLateRelease, Releases

\* What a search has tried, the first of it, and what may follow the first.
Tried(c) == call[c].failed \cup {call[c].at}
FirstTried(c) == CHOOSE b \in Tried(c) : Tried(c) \cap Preceding(b) = {}
MayFollow(c) == Able(FirstTried(c), call[c].domains)

LEMMA ChainHonest ==
  ASSUME SearchInv, NEW c \in Calls, call[c].pc \in Active
  PROVE  /\ MayFollow(c) \cap Preceding(call[c].at) \subseteq Tried(c)
         /\ /\ call[c].at # "searchapi" \/ (call[c].domains /\ "perplexity" \notin Configured)
            /\ call[c].at = "grounding" => "perplexity" \notin Configured
            => MayFollow(c) \subseteq Tried(c)
<1> DEFINE at == call[c].at
           failed == call[c].failed
           domains == call[c].domains
           tried == Tried(c)
<1>1. failed \in Before(at, domains) /\ at \in Backends /\ domains \in BOOLEAN
  BY DEF SearchInv, SearchTypeOK, ChainInv
<1>2. /\ Preceding("searchapi") = {} /\ Preceding("grounding") = {"searchapi"}
      /\ Preceding("perplexity") = {"searchapi", "grounding"}
  BY DEF Preceding, Follows, Backends
<1>3. tried \subseteq Backends /\ at \in tried
  BY <1>1 DEF Before, Backends, Tried
<1>4. FirstTried(c) = IF "searchapi" \in tried THEN "searchapi"
                      ELSE IF "grounding" \in tried THEN "grounding" ELSE "perplexity"
  <2> HIDE DEF tried
  <2>1. \E b \in tried : tried \cap Preceding(b) = {}
    <3>1. CASE "searchapi" \in tried
      BY <1>2, <3>1
    <3>2. CASE "searchapi" \notin tried /\ "grounding" \in tried
      BY <1>2, <3>2
    <3>3. CASE tried = {"perplexity"}
      BY <1>2, <3>3
    <3>4. "searchapi" \in tried \/ "grounding" \in tried \/ tried = {"perplexity"}
      BY <1>3 DEF Backends
    <3> QED BY <3>1, <3>2, <3>3, <3>4
  <2>2. FirstTried(c) \in tried /\ tried \cap Preceding(FirstTried(c)) = {}
    BY <2>1 DEF FirstTried, tried
  <2>3. FirstTried(c) \in Backends
    BY <1>3, <2>2
  <2> QED BY <1>2, <2>2, <2>3 DEF Backends
<1>5. /\ Able("searchapi", domains) \subseteq {"grounding", "perplexity"}
      /\ "grounding" \in Able("searchapi", domains) => ~domains
      /\ Able("grounding", domains) \subseteq {"perplexity"} /\ Able("perplexity", domains) = {}
      /\ \A b \in Backends : Able(b, domains) \subseteq Configured
  BY DEF Able, Follows, Backends
<1>6. CASE at = "searchapi"
  <2>1. tried = {"searchapi"}
    BY <1>1, <1>6 DEF Before, Tried
  <2>2. MayFollow(c) = Able("searchapi", domains)
    BY <1>4, <2>1 DEF MayFollow
  <2> HIDE DEF tried, domains
  <2> QED BY <1>2, <1>5, <1>6, <2>2 DEF tried, domains, Backends
<1>7. CASE at = "grounding"
  <2>1. ~domains /\ tried \in {{"grounding"}, {"searchapi", "grounding"}}
    BY <1>1, <1>7 DEF Before, Tried
  <2>2. /\ tried = {"grounding"} => MayFollow(c) = Able("grounding", domains)
        /\ tried = {"searchapi", "grounding"} => MayFollow(c) = Able("searchapi", domains)
    BY <1>4 DEF MayFollow
  <2> HIDE DEF tried, domains
  <2> QED BY <1>2, <1>5, <1>7, <2>1, <2>2 DEF tried, domains, Backends
<1>8. CASE at = "perplexity"
  <2>1. \/ tried = {"perplexity"}
        \/ tried = {"grounding", "perplexity"}
        \/ tried = {"searchapi", "grounding", "perplexity"}
        \/ domains /\ tried = {"searchapi", "perplexity"}
    BY <1>1, <1>8 DEF Before, Tried
  <2>2. /\ tried = {"perplexity"} => MayFollow(c) = Able("perplexity", domains)
        /\ tried = {"grounding", "perplexity"} => MayFollow(c) = Able("grounding", domains)
        /\ "searchapi" \in tried => MayFollow(c) = Able("searchapi", domains)
    BY <1>4 DEF MayFollow
  <2> HIDE DEF tried, domains
  <2> QED BY <1>2, <1>5, <1>8, <2>1, <2>2 DEF tried, domains, Backends
<1> QED BY <1>1, <1>6, <1>7, <1>8 DEF Backends

\* A call gives up only where its backend has failed.
LEMMA GivesUp ==
  ASSUME SearchInv, [SearchNext]_searchVars, NEW c \in Calls, call[c].pc \in Active, call'[c].pc = "error"
  PROVE  /\ call[c].at # "searchapi" \/ (call[c].domains /\ "perplexity" \notin Configured)
         /\ call[c].at = "grounding" => "perplexity" \notin Configured
<1>1. call \in [Calls -> CallSet]
  BY DEF SearchInv, SearchTypeOK, CallSet
<1>2. call[c].pc # "error" /\ call[c].pc # "none"
  BY DEF Active
<1>3. SUFFICES Failed(c)[c].pc = "error"
  BY <1>1, FailedCall
<1>4. \A r \in CallSet : \A x : call'[c] \in {r, [r EXCEPT !.old = x]} => r.pc = "error"
  BY DEF CallSet
<1>5. \A tasks, asked, b : Mark(b, tasks, asked) =>
        \/ call' = asked
        \/ call'[c] = asked[c] \/ call'[c] = [asked[c] EXCEPT !.old = TRUE]
  BY DEF Mark
<1>6. NoCall.pc = "none" /\ Over("served").pc = "served" /\ Over("ok").pc = "ok"
  BY BlankRecords DEF NoCall
<1>7. \A t : Forgotten(t) => call'[c] \in {NoCall, call[c]}
  BY DEF Forgotten
<1>8. \A d \in Calls : d # c => Failed(d)[c] = call[c]
  BY <1>1 DEF Failed
<1>9. Failed(c)[c] \in CallSet
  <2>1. PICK r \in CallSet : Failed(c) = [call EXCEPT ![c] = r]
    BY FailedCall
  <2> QED BY <1>1, <2>1
<1>10. ASSUME NEW d \in Calls, CallStep(d) PROVE Failed(c)[c].pc = "error"
  <2>1. CASE Enter(d)
    <3>1. \/ call'[c].pc = call[c].pc \/ call'[c].pc \in {"await", "ask"}
          \/ call' = Failed(d)
      BY <1>1, <2>1 DEF Enter, CallSet
    <3> QED BY <1>2, <1>8, <3>1
  <2>2. CASE Prefetched(d)
    <3>1. \/ call'[c].pc = call[c].pc \/ call'[c].pc \in {"none", "served", "ask"}
          \/ call' = Failed(d)
      <4>1. CASE call' = [call EXCEPT ![d] = Over("served")]
        BY <1>1, <1>6, <4>1
      <4>2. CASE call' = [call EXCEPT ![d].pc = "ask", ![d].task = 0]
        BY <1>1, <4>2 DEF CallSet
      <4>3. CASE \E t : Forgotten(t)
        BY <1>6, <1>7, <4>3
      <4> QED BY <2>2, <4>1, <4>2, <4>3 DEF Prefetched, Stopped
    <3> QED BY <1>2, <1>8, <3>1
  <2>3. CASE BackendAnswers(d)
    <3>1. \/ call'[c].pc = call[c].pc \/ call'[c].pc = "ok"
          \/ call' = Failed(d)
          \/ \E b, tasks : Mark(b, tasks, Failed(d))
      <4>1. CASE call' = [call EXCEPT ![d] = Over("ok")]
        BY <1>1, <1>6, <4>1
      <4>2. CASE call' = [call EXCEPT ![d].tries = @ + 1]
        BY <1>1, <4>2 DEF CallSet
      <4> QED BY <2>3, <4>1, <4>2 DEF BackendAnswers
    <3>2. CASE \E b, tasks : Mark(b, tasks, Failed(d))
      <4>1. call'[c] \in {Failed(d)[c], [Failed(d)[c] EXCEPT !.old = TRUE]}
        BY <1>5, <3>2
      <4>2. Failed(d)[c] \in CallSet
        BY <1>1, <1>8, <1>9
      <4>3. Failed(d)[c].pc = "error"
        BY <1>4, <4>1, <4>2
      <4> QED BY <1>2, <1>8, <4>3
    <3> QED BY <1>2, <1>8, <3>1, <3>2
  <2> QED BY <1>10, <2>1, <2>2, <2>3 DEF CallStep
<1>11. CASE \E d \in Calls, request \in Requests : Begin(d, request[1], request[2])
  <2>1. PICK d \in Calls, request \in Requests : Begin(d, request[1], request[2])
    BY <1>11
  <2>2. call'[c].pc = call[c].pc \/ call'[c].pc = "enter"
    BY <1>1, <2>1 DEF Begin, NoCall
  <2> QED BY <1>2, <2>2
<1>12. CASE \E k \in Prefetches : Hint(k) \/ PrefetchAnswers(k)
  <2>1. call' = call \/ \E b, tasks : Mark(b, tasks, call)
    BY <1>12 DEF Hint, PrefetchAnswers
  <2>2. call' = call \/ call'[c] = call[c] \/ call'[c] = [call[c] EXCEPT !.old = TRUE]
    BY <1>5, <2>1
  <2>3. call[c] \in CallSet
    BY <1>1
  <2>4. [call[c] EXCEPT !.old = TRUE].pc = call[c].pc
    BY <2>3 DEF CallSet
  <2> QED BY <1>2, <2>2, <2>4
<1>13. CASE \E t \in Turns : TurnStep(t)
  <2>1. call' = call \/ \E t : Forgotten(t)
    BY <1>13 DEF TurnStep, StartTurn, EndTurn, CancelTurn, Stopped
  <2> QED BY <1>2, <1>6, <1>7, <2>1
<1>14. CASE UNCHANGED searchVars \/ \E b \in Metered : CoolDown(b)
  BY <1>2, <1>14 DEF searchVars, CoolDown
<1> QED BY <1>10, <1>11, <1>12, <1>13, <1>14 DEF SearchNext

\* A search gives up only when all that may follow its first backend have failed,
\* and who answers comes after all before it in the chain.
THEOREM OutcomeHonestHolds == SearchSpec => OutcomeHonest
<1> DEFINE Honest(c) ==
      call[c].pc \in Active =>
        /\ call'[c].pc = "error" => MayFollow(c) \subseteq Tried(c)
        /\ call'[c].pc \in {"ok", "served"} =>
             MayFollow(c) \cap Preceding(call[c].at) \subseteq Tried(c)
<1>1. SearchInv /\ [SearchNext]_searchVars => \A c \in Calls : Honest(c)
  BY ChainHonest, GivesUp
<1>2. (\A c \in Calls : Honest(c)) =>
        \A c \in Calls :
         LET old == call[c]
             tried == old.failed \cup {old.at}
             first == CHOOSE b \in tried : tried \cap Preceding(b) = {}
             able == Able(first, old.domains)
         IN  old.pc \in Active =>
               /\ call'[c].pc = "error" => able \subseteq tried
               /\ call'[c].pc \in {"ok", "served"} =>
                    able \cap Preceding(old.at) \subseteq tried
  BY DEF MayFollow, FirstTried, Tried
<1> HIDE DEF Honest
<1> QED BY <1>1, <1>2, SearchInvariance, SearchStepInv, PTL DEF SearchSpec, OutcomeHonest

-----------------------------------------------------------------------------
(* The numbers of the sources (SourceRegistry). *)

\* Records by number.
Tables == UNION {[S -> Records] : S \in SUBSET (Nat \ {0})}
Ledgers == [inv : Int, mark : Nat, ids : Tables]
AtMostOne == {{}} \cup {{r} : r \in Records}

Invocations ==
    [no : Nat, open : BOOLEAN, batches : Nat, shared : BOOLEAN, crowded : BOOLEAN]
Callings ==
    [st : {"idle", "running", "done"}, id : Nat, obs : Records, rec : AtMostOne]

RegistryTypes ==
    /\ registry \in Tables /\ written \in Tables
    /\ invocation \in Invocations
    /\ calls \in [1..Parallel -> Callings]
    /\ observed \in Seq({<<>>} \cup (Nat \X Records))
    /\ ledger \in Seq(Ledgers) /\ Len(ledger) <= Cap
    /\ now \in 0..MaxTime /\ told \in SUBSET (Nat \X Urls) /\ since \in Nat
    /\ owed \in [Urls -> AtMostOne]

\* The numbers in use have an end.
NumbersEnd ==
    \E b \in Nat : /\ \A i \in DOMAIN registry \cup DOMAIN written : i <= b
                   /\ \A c \in 1..Parallel : calls[c].id <= b

Better(r, o) == r.fid >= o.fid /\ r.at >= o.at

\* The entry of the open turn comes after all but as many others as were given
\* a number since.
LedgerInv ==
    /\ invocation.open => invocation.no > 0
    /\ \A p \in DOMAIN ledger : ledger[p].inv <= invocation.no
    /\ \A p \in DOMAIN ledger : \A i \in DOMAIN ledger[p].ids : i <= ledger[p].mark
    /\ \A p, q \in Places(invocation.no) : p = q
    /\ invocation.open => \A p \in Places(invocation.no) : Len(ledger) - p <= since

\* What is written comes from a call of the open turn, and what is shown or
\* carried has a number of the registry.
CallsInv ==
    /\ \A c \in 1..Parallel : calls[c].st # "idle" => invocation.open
    /\ \A c \in 1..Parallel : calls[c].st # "done" => calls[c].rec = {}
    /\ \A c \in 1..Parallel : calls[c].st = "done" => calls[c].id # 0
    /\ \A i \in DOMAIN written : \E c \in 1..Parallel : calls[c].id = i /\ calls[c].rec # {}
    /\ \A c \in 1..Parallel : calls[c].st = "done" =>
         calls[c].rec # {} \/ calls[c].id \in DOMAIN registry \cup DOMAIN written
    /\ \A a \in told : a[1] \in DOMAIN registry
    /\ \A k \in DOMAIN observed :
         observed[k] # <<>> => <<observed[k][1], observed[k][2].url>> \in told

Pairs(f) == {<<i, f[i].url>> : i \in DOMAIN f}
OneToOne(S) == \A a, b \in S : (a[1] = b[1]) <=> (a[2] = b[2])

\* The numbers of the session and those given out in the open turn.
KnownPairs ==
    Pairs(registry) \cup (IF invocation.open THEN Pairs(EntryOf(invocation.no).ids) ELSE {})

PairsInv ==
    /\ OneToOne(KnownPairs)
    /\ told \subseteq Pairs(registry)
    /\ Pairs(written) \subseteq KnownPairs
    /\ \A c \in 1..Parallel : calls[c].st = "done" =>
         /\ <<calls[c].id, calls[c].obs.url>> \in KnownPairs
         /\ \A r \in calls[c].rec : r.url = calls[c].obs.url

\* What is written is no worse than what is saved, which is no worse than what
\* was settled.
BetterInv ==
    /\ \A i \in DOMAIN written : i \in DOMAIN registry => Better(written[i], registry[i])
    /\ \A c \in 1..Parallel : calls[c].st = "done" => \A r \in calls[c].rec :
         calls[c].id \in DOMAIN registry => Better(r, registry[calls[c].id])
    /\ \A u \in Urls : \A o \in owed[u] : \E i \in Numbers(registry, u) : Better(registry[i], o)

RegistryInv ==
    /\ RegistryTypes /\ NumbersEnd /\ LedgerInv /\ CallsInv
    /\ ~invocation.crowded => PairsInv /\ BetterInv

-----------------------------------------------------------------------------
LEMMA LeastNumber == ASSUME NEW T \in SUBSET Nat, T # {} PROVE \E k \in T : \A l \in T : k <= l
<1>1. PICK k \in T : \A l \in T : ~(<<l, k>> \in OpToRel(<, Nat))
  BY WFMin, NatLessThanWellFounded, Zenon
<1>2. \A l \in T : ~(l < k)
  BY <1>1, Zenon DEF OpToRel
<1>3. \A l \in T : k <= l
  <2> TAKE l \in T
  <2>1. l \in Nat /\ k \in Nat /\ ~(l < k)
    BY <1>2
  <2> QED BY <2>1
<1> QED BY <1>3

LEMMA MinIs == ASSUME NEW T \in SUBSET Nat, T # {} PROVE Min(T) \in T /\ \A l \in T : Min(T) <= l
BY LeastNumber DEF Min

LEMMA MaxIs ==
  ASSUME NEW T \in SUBSET Nat, T # {}, NEW b \in Nat, \A l \in T : l <= b
  PROVE  Max(T) \in T /\ \A l \in T : Max(T) >= l
<1> DEFINE B == {m \in Nat : \A l \in T : l <= m}
<1>1. PICK m \in B : \A n \in B : m <= n
  <2>1. B \in SUBSET Nat /\ b \in B
    OBVIOUS
  <2> HIDE DEF B
  <2> QED BY <2>1, LeastNumber
<1>2. m \in T
  <2>1. SUFFICES ASSUME m \notin T PROVE FALSE
    OBVIOUS
  <2>2. \A l \in T : l < m
    BY <1>1, <2>1
  <2>3. m > 0 /\ m - 1 \in Nat
    <3>1. PICK l \in T : TRUE
      OBVIOUS
    <3>2. l \in Nat /\ m \in Nat /\ l < m
      BY <1>1, <2>2
    <3> QED BY <3>2
  <2>4. \A l \in T : l <= m - 1
    <3> TAKE l \in T
    <3>1. l \in Nat /\ m \in Nat /\ l < m
      BY <1>1, <2>2
    <3> QED BY <3>1
  <2>5. m - 1 \in B
    BY <2>3, <2>4
  <2> QED BY <1>1, <2>3, <2>5
<1>3. \E x \in T : \A y \in T : x >= y
  BY <1>1, <1>2
<1> QED BY <1>3 DEF Max

LEMMA TableIs ==
  ASSUME NEW f
  PROVE  f \in Tables <=> /\ f = [i \in DOMAIN f |-> f[i]] /\ DOMAIN f \subseteq Nat \ {0}
                          /\ \A i \in DOMAIN f : f[i] \in Records
<1>1. ASSUME f \in Tables
      PROVE  /\ f = [i \in DOMAIN f |-> f[i]] /\ DOMAIN f \subseteq Nat \ {0}
             /\ \A i \in DOMAIN f : f[i] \in Records
  BY <1>1 DEF Tables
<1>2. ASSUME f = [i \in DOMAIN f |-> f[i]], DOMAIN f \subseteq Nat \ {0},
             \A i \in DOMAIN f : f[i] \in Records
      PROVE  f \in Tables
  <2>1. f \in [DOMAIN f -> Records]
    BY <1>2
  <2> QED BY <1>2, <2>1 DEF Tables
<1> QED BY <1>1, <1>2

LEMMA LaidIs ==
  ASSUME NEW f \in Tables, NEW g \in Tables
  PROVE  /\ LaidOver(f, g) \in Tables
         /\ DOMAIN LaidOver(f, g) = DOMAIN f \cup DOMAIN g
         /\ \A i \in DOMAIN f \cup DOMAIN g :
              LaidOver(f, g)[i] = IF i \in DOMAIN g THEN g[i] ELSE f[i]
<1>1. /\ DOMAIN LaidOver(f, g) = DOMAIN f \cup DOMAIN g
      /\ \A i \in DOMAIN f \cup DOMAIN g :
              LaidOver(f, g)[i] = IF i \in DOMAIN g THEN g[i] ELSE f[i]
      /\ LaidOver(f, g) = [i \in DOMAIN LaidOver(f, g) |-> LaidOver(f, g)[i]]
  BY DEF LaidOver
<1> QED BY <1>1, TableIs

LEMMA Blank == /\ Empty \in Tables /\ DOMAIN Empty = {}
               /\ Idle \in Callings /\ Idle.st = "idle" /\ Idle.id = 0 /\ Idle.rec = {}
<1>1. (CHOOSE u \in Urls : TRUE) \in Urls
  BY RegistryAssumption
<1>2. Record(CHOOSE u \in Urls : TRUE, 0, 0) \in Records
  BY <1>1, RegistryAssumption DEF Record, Records
<1>3. DOMAIN Empty = {} /\ Empty = [i \in DOMAIN Empty |-> Empty[i]]
  BY DEF Empty
<1> QED BY <1>2, <1>3, TableIs DEF Idle, Callings, AtMostOne

\* One number and its record.
LEMMA SingleIs ==
  ASSUME NEW id \in Nat \ {0}, NEW r \in Records
  PROVE  [i \in {id} |-> r] \in Tables
<1>1. LET f == [i \in {id} |-> r]
      IN  f = [i \in DOMAIN f |-> f[i]] /\ DOMAIN f = {id} /\ \A i \in DOMAIN f : f[i] = r
  OBVIOUS
<1> QED BY <1>1, TableIs

LEMMA MergeIs ==
  ASSUME NEW a \in Records, NEW b \in Records
  PROVE  /\ Merge(a, b) \in Records /\ Merge(a, b).url = b.url
         /\ a.url = b.url => Better(Merge(a, b), a) /\ Better(Merge(a, b), b)
<1>1. /\ a.url \in Urls /\ a.fid \in {0, 1} /\ a.at \in 0..MaxTime /\ MaxTime \in Nat
      /\ b.url \in Urls /\ b.fid \in {0, 1} /\ b.at \in 0..MaxTime
  BY RegistryAssumption DEF Records
<1> DEFINE fid == IF a.fid > b.fid THEN a.fid ELSE b.fid
           at == IF a.at > b.at THEN a.at ELSE b.at
           m == [b EXCEPT !.fid = fid, !.at = at]
<1>2. /\ fid \in {0, 1} /\ fid >= a.fid /\ fid >= b.fid
      /\ at \in 0..MaxTime /\ at >= a.at /\ at >= b.at
  BY <1>1
<1>3. m.url = b.url /\ m.fid = fid /\ m.at = at /\ (fid \in {0, 1} /\ at \in 0..MaxTime => m \in Records)
  BY DEF Records
<1>4. Merge(a, b) = IF a.url # b.url THEN b ELSE m
  BY DEF Merge
<1>5. b.fid >= b.fid /\ b.at >= b.at
  BY <1>1
<1> HIDE DEF m, fid, at
<1> QED BY <1>2, <1>3, <1>4, <1>5 DEF Better

LEMMA BetterIs ==
  ASSUME NEW a \in Records, NEW b \in Records, NEW c \in Records
  PROVE  Better(a, a) /\ (Better(a, b) /\ Better(b, c) => Better(a, c))
BY RegistryAssumption DEF Records, Better

-----------------------------------------------------------------------------
(* The ledger. *)

LEMMA TrimmedIs ==
  ASSUME NEW S, NEW s \in Seq(S), Len(s) <= Cap + 1
  PROVE  /\ Trimmed(s) \in Seq(S)
         /\ Len(s) <= Cap => Trimmed(s) = s
         /\ Len(s) > Cap => /\ Len(s) = Cap + 1 /\ Len(Trimmed(s)) = Cap
                            /\ \A j \in 1..Cap : Trimmed(s)[j] = s[j + 1]
<1>0. Cap \in Nat \ {0} /\ Len(s) \in Nat
  BY RegistryAssumption
<1>1. CASE Len(s) <= Cap
  BY <1>0, <1>1 DEF Trimmed
<1>2. CASE Len(s) > Cap
  <2>1. Len(s) = Cap + 1 /\ Len(s) - Cap + 1 = 2
    BY <1>0, <1>2
  <2>2. Trimmed(s) = SubSeq(s, 2, Cap + 1)
    BY <1>2, <2>1 DEF Trimmed
  <2>3. /\ SubSeq(s, 2, Cap + 1) \in Seq(S)
        /\ Len(SubSeq(s, 2, Cap + 1)) = Cap
        /\ \A j \in 1..Cap : SubSeq(s, 2, Cap + 1)[j] = s[j + 1]
    BY <1>0, <2>1
  <2> QED BY <1>0, <1>2, <2>1, <2>2, <2>3
<1> QED BY <1>0, <1>1, <1>2

LEMMA EntryIs ==
  ASSUME RegistryTypes, LedgerInv, NEW n \in Nat
  PROVE  /\ EntryOf(n) \in Ledgers /\ EntryOf(n).inv = n
         /\ \A i \in DOMAIN EntryOf(n).ids : i <= EntryOf(n).mark
<1>1. CASE Places(n) = {}
  <2>1. EntryOf(n) = [inv |-> n, mark |-> 0, ids |-> Empty]
    BY <1>1 DEF EntryOf
  <2> QED BY <2>1, Blank DEF Ledgers
<1>2. CASE Places(n) # {}
  <2>1. Standing(n) \in DOMAIN ledger /\ ledger[Standing(n)].inv = n
    BY <1>2 DEF Standing, Places
  <2>2. EntryOf(n) = ledger[Standing(n)]
    BY <1>2 DEF EntryOf
  <2> QED BY <2>1, <2>2 DEF RegistryTypes, LedgerInv
<1> QED BY <1>1, <1>2

\* The entry at a place is the one of its turn, if it stands there alone.
LEMMA StandsAt ==
  ASSUME NEW n, NEW p \in Places(n), \A q \in Places(n) : q = p
  PROVE  EntryOf(n) = ledger[p]
BY DEF EntryOf, Standing

\* The open turn gets a number: its entry comes to the end.
LEMMA UsedIs ==
  ASSUME RegistryTypes, LedgerInv, NEW id \in Nat \ {0}, NEW u \in Urls,
         ledger' = Used(EntryOf(invocation.no), id, u), since' = 0, invocation' = invocation
  PROVE  /\ ledger' \in Seq(Ledgers) /\ Len(ledger') <= Cap /\ LedgerInv'
         /\ EntryOf(invocation.no)'.ids =
              LaidOver(EntryOf(invocation.no).ids, [i \in {id} |-> Record(u, 0, 0)])
<1> DEFINE n == invocation.no
           e == EntryOf(n)
           ids == LaidOver(e.ids, [i \in {id} |-> Record(u, 0, 0)])
           reach == IF id > e.mark THEN id ELSE e.mark
           new == [e EXCEPT !.mark = reach, !.ids = ids]
           others == IF Places(n) = {} THEN ledger ELSE RemoveAt(ledger, Standing(n))
           t == Append(others, new)
<1>0. n \in Nat /\ ledger \in Seq(Ledgers) /\ Len(ledger) <= Cap /\ Cap \in Nat \ {0}
  BY RegistryAssumption DEF RegistryTypes, Invocations
<1>1. e \in Ledgers /\ e.inv = n /\ \A i \in DOMAIN e.ids : i <= e.mark
  BY <1>0, EntryIs
<1>2. ledger' = Trimmed(t)
  BY <1>1 DEF Used
<1>3. /\ ids \in Tables /\ DOMAIN ids = DOMAIN e.ids \cup {id}
  <2>1. Record(u, 0, 0) \in Records
    BY RegistryAssumption DEF Record, Records
  <2>2. [i \in {id} |-> Record(u, 0, 0)] \in Tables /\ e.ids \in Tables
    BY <1>1, <2>1, SingleIs DEF Ledgers
  <2> QED BY <2>2, LaidIs
<1> HIDE DEF ids
<1>4. /\ new \in Ledgers /\ new.inv = n /\ new.ids = ids /\ new.mark = reach
      /\ \A i \in DOMAIN ids : i <= reach
  <2>1. e.mark \in Nat /\ reach \in Nat /\ reach >= id /\ reach >= e.mark
    BY <1>1 DEF Ledgers
  <2> HIDE DEF reach
  <2>2. new \in Ledgers /\ new.inv = n /\ new.ids = ids /\ new.mark = reach
    BY <1>1, <1>3, <2>1 DEF Ledgers
  <2>3. ASSUME NEW i \in DOMAIN ids PROVE i <= reach
    <3>1. i \in Nat
      BY <1>3, TableIs
    <3>2. i = id \/ i <= e.mark
      BY <1>1, <1>3
    <3> QED BY <2>1, <3>1, <3>2
  <2> QED BY <2>2, <2>3
<1> HIDE DEF e, new, reach
<1>5. /\ others \in Seq(Ledgers) /\ Len(others) <= Cap
      /\ \A j \in DOMAIN others : others[j].inv # n /\ \E p \in DOMAIN ledger : others[j] = ledger[p]
  <2>1. CASE Places(n) = {}
    BY <1>0, <2>1 DEF Places
  <2>2. CASE Places(n) # {}
    <3> DEFINE at == Standing(n)
    <3>1. at \in Places(n) /\ \A q \in Places(n) : q = at
      BY <2>2 DEF Standing, LedgerInv
    <3> HIDE DEF at
    <3>2. at \in 1..Len(ledger) /\ Len(ledger) \in Nat
      BY <1>0, <3>1 DEF Places
    <3>3. others = RemoveAt(ledger, at)
      BY <2>2 DEF at
    <3>4. /\ others \in Seq(Ledgers) /\ Len(others) = Len(ledger) - 1
          /\ \A j \in 1..(Len(ledger) - 1) :
               others[j] = IF j < at THEN ledger[j] ELSE ledger[j + 1]
      BY <1>0, <3>2, <3>3, Removed
    <3> HIDE DEF others
    <3>5. ASSUME NEW j \in 1..(Len(ledger) - 1)
          PROVE  others[j].inv # n /\ \E p \in DOMAIN ledger : others[j] = ledger[p]
      <4>0. j \in Nat /\ j \in 1..Len(ledger) /\ j + 1 \in 1..Len(ledger) /\ at \in Nat
        BY <3>2
      <4>1. CASE j < at
        <5>1. j \in DOMAIN ledger /\ j # at /\ others[j] = ledger[j]
          BY <1>0, <3>4, <4>0, <4>1
        <5> QED BY <3>1, <5>1 DEF Places
      <4>2. CASE ~(j < at)
        <5>1. j + 1 \in DOMAIN ledger /\ j + 1 # at /\ others[j] = ledger[j + 1]
          BY <1>0, <3>4, <4>0, <4>2
        <5> QED BY <3>1, <5>1 DEF Places
      <4> QED BY <4>1, <4>2
    <3>6. DOMAIN others = 1..(Len(ledger) - 1)
      BY <3>4
    <3> QED BY <1>0, <3>2, <3>4, <3>5, <3>6
  <2> QED BY <2>1, <2>2
<1> HIDE DEF others
<1>6. /\ t \in Seq(Ledgers) /\ Len(t) = Len(others) + 1 /\ t[Len(t)] = new
      /\ \A j \in 1..(Len(t) - 1) : t[j] = others[j]
  BY <1>4, <1>5
<1>7. Len(t) <= Cap + 1 /\ Len(t) \in Nat \ {0}
  BY <1>0, <1>5, <1>6
<1> HIDE DEF t
<1> DEFINE l == ledger'
<1>8. /\ l \in Seq(Ledgers) /\ Len(l) <= Cap /\ Len(l) \in Nat \ {0} /\ l[Len(l)] = new
      /\ \A j \in 1..(Len(l) - 1) : \E i \in 1..(Len(t) - 1) : l[j] = t[i]
  <2>1. CASE Len(t) <= Cap
    BY <1>2, <1>6, <1>7, <2>1, TrimmedIs
  <2>2. CASE Len(t) > Cap
    <3>1. /\ l \in Seq(Ledgers) /\ Len(t) = Cap + 1 /\ Len(l) = Cap
          /\ \A j \in 1..Cap : l[j] = t[j + 1]
      BY <1>2, <1>6, <1>7, <2>2, TrimmedIs
    <3>2. l[Len(l)] = new
      BY <1>0, <1>6, <3>1
    <3>3. \A j \in 1..(Len(l) - 1) : j + 1 \in 1..(Len(t) - 1) /\ l[j] = t[j + 1]
      BY <1>0, <3>1
    <3> QED BY <1>0, <3>1, <3>2, <3>3
  <2> QED BY <1>0, <1>7, <2>1, <2>2
<1>9. ASSUME NEW j \in DOMAIN l
      PROVE  \/ j = Len(l) /\ l[j] = new
             \/ j < Len(l) /\ l[j].inv # n /\ \E p \in DOMAIN ledger : l[j] = ledger[p]
  <2>1. DOMAIN l = 1..Len(l)
    BY <1>8
  <2>2. CASE j = Len(l)
    BY <1>8, <2>2
  <2>3. CASE j # Len(l)
    <3>1. j < Len(l) /\ j \in 1..(Len(l) - 1)
      BY <1>8, <2>1, <2>3
    <3>2. PICK i \in 1..(Len(t) - 1) : l[j] = t[i]
      BY <1>8, <3>1
    <3>3. i \in DOMAIN others /\ t[i] = others[i]
      BY <1>5, <1>6, <3>2
    <3> QED BY <1>5, <3>1, <3>2, <3>3
  <2> QED BY <2>2, <2>3
<1>10. invocation'.no = n /\ Places(n)' = {Len(l)}
  <2>1. Len(l) \in DOMAIN l
    BY <1>8
  <2> QED BY <1>4, <1>8, <1>9, <2>1 DEF Places
<1>11. EntryOf(n)' = new
  BY <1>8, <1>10 DEF EntryOf, Standing
<1>12. LedgerInv'
  <2>1. ASSUME NEW j \in DOMAIN l
        PROVE  l[j].inv <= n /\ \A i \in DOMAIN l[j].ids : i <= l[j].mark
    BY <1>0, <1>4, <1>9 DEF LedgerInv
  <2>2. Len(l) - Len(l) <= since'
    BY <1>8
  <2>3. invocation'.open => invocation'.no > 0
    BY DEF LedgerInv
  <2> QED BY <1>10, <2>1, <2>2, <2>3 DEF LedgerInv
<1> QED BY <1>4, <1>8, <1>11, <1>12 DEF ids, e

\* A turn elsewhere is given a number: the entry of the open turn stays, unless
\* that was one too many.
LEMMA OtherIs ==
  ASSUME RegistryTypes, LedgerInv, OtherTurn
  PROVE  /\ ledger' \in Seq(Ledgers) /\ Len(ledger') <= Cap /\ LedgerInv'
         /\ ~invocation'.crowded => EntryOf(invocation.no)'.ids = EntryOf(invocation.no).ids
<1> DEFINE n == invocation.no
           new == [inv |-> -since - 1, mark |-> Base, ids |-> Empty]
           t == Append(ledger, new)
           l == ledger'
<1>0. n \in Nat /\ n > 0 /\ ledger \in Seq(Ledgers) /\ Len(ledger) <= Cap /\ Cap \in Nat \ {0}
      /\ since \in Nat /\ since' = since + 1 /\ Len(ledger) \in Nat
  BY RegistryAssumption DEF RegistryTypes, Invocations, OtherTurn, LedgerInv
<1>1. /\ new \in Ledgers /\ new.inv < 0 /\ new.inv \in Int /\ DOMAIN new.ids = {}
  BY <1>0, Blank, RegistryAssumption DEF Ledgers
<1>2. l = Trimmed(t)
  BY DEF OtherTurn
<1> HIDE DEF new
<1>3. /\ t \in Seq(Ledgers) /\ Len(t) = Len(ledger) + 1 /\ t[Len(ledger) + 1] = new
      /\ \A j \in 1..Len(ledger) : t[j] = ledger[j]
  BY <1>0, <1>1
<1> HIDE DEF t
<1> DEFINE off == IF Len(t) > Cap THEN 1 ELSE 0
<1>4. /\ l \in Seq(Ledgers) /\ Len(l) <= Cap /\ Len(l) = Len(t) - off /\ Len(l) \in Nat \ {0}
      /\ \A j \in 1..Len(l) : j + off \in 1..Len(t) /\ l[j] = t[j + off]
  <2>1. CASE Len(t) <= Cap
    BY <1>0, <1>2, <1>3, <2>1, TrimmedIs
  <2>2. CASE Len(t) > Cap
    <3>1. /\ l \in Seq(Ledgers) /\ Len(t) = Cap + 1 /\ Len(l) = Cap
          /\ \A j \in 1..Cap : l[j] = t[j + 1]
      BY <1>0, <1>2, <1>3, <2>2, TrimmedIs
    <3> QED BY <1>0, <2>2, <3>1
  <2> QED BY <1>0, <1>3, <2>1, <2>2
<1>5. off \in {0, 1} /\ (off = 1 => Len(ledger) = Cap)
  BY <1>0, <1>3
<1> HIDE DEF off
<1>6. ASSUME NEW j \in 1..Len(l)
      PROVE  \/ l[j] = new
             \/ j + off \in DOMAIN ledger /\ l[j] = ledger[j + off]
  <2>1. j + off \in 1..Len(t) /\ l[j] = t[j + off] /\ DOMAIN ledger = 1..Len(ledger)
    BY <1>0, <1>4
  <2>2. CASE j + off = Len(ledger) + 1
    BY <1>3, <2>1, <2>2
  <2>3. CASE j + off # Len(ledger) + 1
    <3>1. j + off \in 1..Len(ledger)
      BY <1>0, <1>3, <2>1, <2>3
    <3> QED BY <1>3, <2>1, <3>1
  <2> QED BY <2>2, <2>3
<1>7. invocation'.no = n /\ invocation'.open = invocation.open
      /\ (~invocation'.crowded => since + 1 < Cap)
  <2>1. invocation \in Invocations
    BY DEF RegistryTypes
  <2>2. invocation' = [invocation EXCEPT !.crowded = invocation.crowded \/ since + 1 >= Cap]
    BY DEF OtherTurn
  <2>3. /\ invocation'.no = n /\ invocation'.open = invocation.open
        /\ invocation'.crowded = (invocation.crowded \/ since + 1 >= Cap)
    BY <2>1, <2>2 DEF Invocations
  <2>4. ~invocation'.crowded => ~(since + 1 >= Cap)
    BY <2>3, Zenon
  <2>5. ~(since + 1 >= Cap) => since + 1 < Cap
    BY <1>0
  <2> QED BY <2>3, <2>4, <2>5, Zenon
<1>8. ASSUME NEW p \in Places(n)'
      PROVE  p + off \in Places(n) /\ p \in 1..Len(l)
  <2>1. p \in 1..Len(l) /\ l[p].inv = n
    BY <1>4, <1>7 DEF Places
  <2>2. l[p] # new
    BY <1>0, <1>1, <2>1
  <2> QED BY <1>6, <2>1, <2>2 DEF Places
<1>9. LedgerInv'
  <2>1. ASSUME NEW j \in DOMAIN l
        PROVE  l[j].inv <= n /\ \A i \in DOMAIN l[j].ids : i <= l[j].mark
    <3>1. j \in 1..Len(l)
      BY <1>4
    <3>2. CASE l[j] = new
      BY <1>0, <1>1, <3>2
    <3>3. CASE j + off \in DOMAIN ledger /\ l[j] = ledger[j + off]
      BY <3>3 DEF LedgerInv
    <3> QED BY <1>6, <3>1, <3>2, <3>3
  <2>2. ASSUME NEW p \in Places(n)', NEW q \in Places(n)' PROVE p = q
    BY <1>4, <1>5, <1>8 DEF LedgerInv
  <2>3. ASSUME NEW p \in Places(n)' PROVE Len(l) - p <= since'
    <3>1. Len(ledger) - (p + off) <= since
      BY <1>8 DEF LedgerInv, OtherTurn
    <3> QED BY <1>0, <1>3, <1>4, <1>5, <1>8, <3>1
  <2>4. invocation'.open => n > 0
    BY <1>0
  <2> QED BY <1>7, <2>1, <2>2, <2>3, <2>4 DEF LedgerInv
<1>10. ASSUME ~invocation'.crowded PROVE EntryOf(n)'.ids = EntryOf(n).ids
  <2>1. CASE Places(n) = {}
    <3>1. Places(n)' = {}
      BY <1>8, <2>1
    <3>2. EntryOf(n).ids = Empty /\ EntryOf(n)'.ids = Empty
      BY <2>1, <3>1 DEF EntryOf
    <3> QED BY <3>2
  <2>2. CASE Places(n) # {}
    <3>1. PICK p \in Places(n) : TRUE
      BY <2>2
    <3>2. p \in 1..Len(ledger) /\ ledger[p].inv = n /\ Len(ledger) - p <= since
      BY <1>0, <3>1 DEF Places, LedgerInv, OtherTurn
    <3>3. p - off \in 1..Len(l)
      BY <1>0, <1>3, <1>4, <1>5, <1>7, <1>10, <3>2
    <3>4. l[p - off] = ledger[p]
      <4>1. l[p - off] = t[(p - off) + off]
        BY <1>4, <3>3
      <4>2. (p - off) + off = p
        BY <1>0, <1>5, <3>2
      <4>3. t[p] = ledger[p]
        BY <1>3, <3>2
      <4> QED BY <4>1, <4>2, <4>3
    <3>5. p - off \in Places(n)'
      BY <1>4, <1>7, <3>2, <3>3, <3>4 DEF Places
    <3>6. EntryOf(n)' = l[p - off]
      BY <1>7, <1>9, <3>5 DEF LedgerInv, EntryOf, Standing
    <3>7. EntryOf(n) = ledger[p]
      BY <3>1, StandsAt DEF LedgerInv
    <3> QED BY <3>4, <3>6, <3>7
  <2> QED BY <2>1, <2>2
<1> QED BY <1>4, <1>9, <1>10

-----------------------------------------------------------------------------
(* What a turn observed, laid on the records. *)

Observations == {<<>>} \cup (Nat \X Records)

LEMMA LayIs ==
  ASSUME NEW f \in Tables, NEW o \in Observations, o # <<>> => o[1] \in DOMAIN f
  PROVE  /\ Lay(f, o) \in Tables /\ DOMAIN Lay(f, o) = DOMAIN f
         /\ (o # <<>> => o[2].url = f[o[1]].url) =>
              /\ \A i \in DOMAIN f : Lay(f, o)[i].url = f[i].url /\ Better(Lay(f, o)[i], f[i])
              /\ o # <<>> => Better(Lay(f, o)[o[1]], o[2])
<1>1. CASE o = <<>>
  <2>1. Lay(f, o) = f
    BY <1>1 DEF Lay
  <2>2. ASSUME NEW i \in DOMAIN f PROVE Better(f[i], f[i])
    BY TableIs, BetterIs
  <2> QED BY <1>1, <2>1, <2>2
<1>2. CASE o # <<>>
  <2> DEFINE n == o[1]
             m == Merge(f[n], o[2])
             g == [i \in {n} |-> m]
  <2>1. n \in DOMAIN f /\ o[2] \in Records /\ f[n] \in Records /\ n \in Nat \ {0}
    BY <1>2, TableIs DEF Observations
  <2>2. m \in Records /\ m.url = o[2].url /\ (f[n].url = o[2].url => Better(m, f[n]) /\ Better(m, o[2]))
    BY <2>1, MergeIs
  <2>3. Lay(f, o) = LaidOver(f, g)
    <3>1. [i \in {o[1]} |-> IF i \in DOMAIN f THEN Merge(f[i], o[2]) ELSE o[2]] = g
      BY <2>1
    <3> QED BY <1>2, <3>1 DEF Lay
  <2> HIDE DEF m
  <2>4. g \in Tables /\ DOMAIN g = {n} /\ g[n] = m
    BY <2>1, <2>2, SingleIs
  <2> HIDE DEF g
  <2>5. /\ LaidOver(f, g) \in Tables /\ DOMAIN LaidOver(f, g) = DOMAIN f
        /\ \A i \in DOMAIN f : LaidOver(f, g)[i] = IF i = n THEN m ELSE f[i]
    <3>1. /\ LaidOver(f, g) \in Tables /\ DOMAIN LaidOver(f, g) = DOMAIN f \cup DOMAIN g
          /\ \A i \in DOMAIN f \cup DOMAIN g :
               LaidOver(f, g)[i] = IF i \in DOMAIN g THEN g[i] ELSE f[i]
      BY <2>4, LaidIs
    <3>2. DOMAIN f \cup DOMAIN g = DOMAIN f
      BY <2>1, <2>4
    <3> HIDE DEF n
    <3> QED BY <2>4, <3>1, <3>2
  <2>6. ASSUME o[2].url = f[n].url, NEW i \in DOMAIN f
        PROVE  LaidOver(f, g)[i].url = f[i].url /\ Better(LaidOver(f, g)[i], f[i])
    <3>1. f[i] \in Records /\ Better(f[i], f[i])
      BY TableIs, BetterIs
    <3> QED BY <2>2, <2>5, <2>6, <3>1
  <2>7. o[2].url = f[n].url => Better(LaidOver(f, g)[n], o[2])
    BY <2>1, <2>2, <2>5
  <2> QED BY <1>2, <2>3, <2>5, <2>6, <2>7
<1> QED BY <1>1, <1>2

Laying(l, f, s, n) == l = [k \in 0..n |-> IF k = 0 THEN f ELSE Lay(l[k - 1], s[k])]

LEMMA LayingExists ==
  ASSUME NEW f, NEW s, NEW length \in Nat
  PROVE  \E l : Laying(l, f, s, length)
<1> DEFINE T == {n \in Nat : ~\E l : Laying(l, f, s, n)}
<1> SUFFICES ASSUME T # {} PROVE FALSE
  OBVIOUS
<1>1. PICK n \in T : \A k \in T : n <= k
  <2>1. T \in SUBSET Nat
    OBVIOUS
  <2> HIDE DEF T
  <2> QED BY <2>1, LeastNumber
<1>2. CASE n = 0
  <2> DEFINE r == [k \in 0..0 |-> f]
  <2>1. Laying(r, f, s, 0)
    BY DEF Laying
  <2> QED BY <1>1, <1>2, <2>1
<1>3. CASE n > 0
  <2>1. n - 1 \in Nat /\ n - 1 \notin T
    BY <1>1, <1>3
  <2>2. PICK r : Laying(r, f, s, n - 1)
    BY <2>1
  <2> DEFINE next == Lay(r[n - 1], s[n])
             l == [k \in 0..n |-> IF k = n THEN next ELSE r[k]]
  <2>3. \A k \in 0..n : l[k] = IF k = 0 THEN f ELSE Lay(l[k - 1], s[k])
    <3> SUFFICES ASSUME NEW k \in 0..n
                 PROVE  l[k] = IF k = 0 THEN f ELSE Lay(l[k - 1], s[k])
      OBVIOUS
    <3>1. CASE k = n
      <4>1. l[k] = next /\ l[k - 1] = r[k - 1] /\ k # 0
        BY <1>3, <3>1
      <4> HIDE DEF l
      <4> QED BY <3>1, <4>1
    <3>2. CASE k # n
      <4>1. k \in 0..(n - 1) /\ l[k] = r[k] /\ (k # 0 => l[k - 1] = r[k - 1])
        BY <1>3, <3>2
      <4>2. r[k] = IF k = 0 THEN f ELSE Lay(r[k - 1], s[k])
        BY <2>2, <4>1 DEF Laying
      <4> HIDE DEF l
      <4> QED BY <4>1, <4>2
    <3> QED BY <3>1, <3>2
  <2>4. Laying(l, f, s, n)
    <3>1. l = [k \in 0..n |-> l[k]]
      OBVIOUS
    <3> HIDE DEF l
    <3> QED BY <2>3, <3>1 DEF Laying
  <2> HIDE DEF l
  <2> QED BY <1>1, <2>4
<1> QED BY <1>1, <1>2, <1>3

\* Settling keeps the numbers and, where pages agree, loses nothing of what was
\* saved nor of what was observed.
LEMMA SettledIs ==
  ASSUME NEW f \in Tables, NEW s \in Seq(Observations),
         \A k \in DOMAIN s : s[k] # <<>> => s[k][1] \in DOMAIN f
  PROVE  LET g == SettleSources(f, s)
         IN  /\ g \in Tables /\ DOMAIN g = DOMAIN f
             /\ (\A k \in DOMAIN s : s[k] # <<>> => s[k][2].url = f[s[k][1]].url) =>
                  /\ \A i \in DOMAIN f : g[i].url = f[i].url /\ Better(g[i], f[i])
                  /\ \A k \in DOMAIN s : s[k] # <<>> => Better(g[s[k][1]], s[k][2])
<1> DEFINE l == CHOOSE l : Laying(l, f, s, Len(s))
           Agree == \A k \in DOMAIN s : s[k] # <<>> => s[k][2].url = f[s[k][1]].url
           Good(n) == /\ l[n] \in Tables /\ DOMAIN l[n] = DOMAIN f
                      /\ Agree =>
                           /\ \A i \in DOMAIN f : l[n][i].url = f[i].url /\ Better(l[n][i], f[i])
                           /\ \A k \in 1..n : s[k] # <<>> => Better(l[n][s[k][1]], s[k][2])
           T == {n \in 0..Len(s) : ~Good(n)}
<1>1. Laying(l, f, s, Len(s)) /\ Len(s) \in Nat /\ DOMAIN s = 1..Len(s)
  <2>1. Len(s) \in Nat /\ DOMAIN s = 1..Len(s)
    OBVIOUS
  <2>2. \E x : Laying(x, f, s, Len(s))
    BY <2>1, LayingExists
  <2> QED BY <2>1, <2>2
<1>2. SettleSources(f, s) = l[Len(s)]
  BY DEF SettleSources, Laying
<1> HIDE DEF l
<1>3. \A n \in 0..Len(s) : l[n] = IF n = 0 THEN f ELSE Lay(l[n - 1], s[n])
  BY <1>1 DEF Laying
<1>4. Good(0)
  <2>1. l[0] = f
    BY <1>1, <1>3
  <2>2. \A i \in DOMAIN f : Better(f[i], f[i])
    BY TableIs, BetterIs
  <2> QED BY <2>1, <2>2
<1>5. ASSUME NEW n \in 1..Len(s), Good(n - 1) PROVE Good(n)
  <2> DEFINE p == l[n - 1]
             q == l[n]
  <2>1. /\ n \in Nat /\ n - 1 \in Nat /\ n \in DOMAIN s /\ s[n] \in Observations
        /\ q = Lay(p, s[n])
    BY <1>1, <1>3, <1>5
  <2>2. p \in Tables /\ DOMAIN p = DOMAIN f
    BY <1>5
  <2>3. s[n] # <<>> => s[n][1] \in DOMAIN p
    BY <2>1, <2>2
  <2>4. q \in Tables /\ DOMAIN q = DOMAIN f
    BY <2>1, <2>2, <2>3, LayIs
  <2>5. ASSUME Agree
        PROVE  /\ \A i \in DOMAIN f : q[i].url = f[i].url /\ Better(q[i], f[i])
               /\ \A k \in 1..n : s[k] # <<>> => Better(q[s[k][1]], s[k][2])
    <3>0. s[n] # <<>> => s[n][2].url = f[s[n][1]].url /\ s[n][1] \in DOMAIN f
      BY <2>1, <2>5
    <3>a. s[n] # <<>> => s[n][2].url = p[s[n][1]].url
      BY <1>5, <2>5, <3>0
    <3>2. \A i \in DOMAIN f : p[i] \in Records /\ q[i] \in Records /\ f[i] \in Records
      BY <2>2, <2>4, TableIs
    <3>3. \A i \in DOMAIN f : p[i].url = f[i].url /\ Better(p[i], f[i])
      BY <1>5, <2>5
    <3>4. \A k \in 1..(n - 1) : s[k] # <<>> => Better(p[s[k][1]], s[k][2])
      BY <1>5, <2>5
    <3> HIDE DEF p, q
    <3>1. /\ \A i \in DOMAIN f : q[i].url = p[i].url /\ Better(q[i], p[i])
          /\ s[n] # <<>> => Better(q[s[n][1]], s[n][2])
      BY <2>1, <2>2, <2>3, <3>a, LayIs
    <3>5. ASSUME NEW i \in DOMAIN f PROVE q[i].url = f[i].url /\ Better(q[i], f[i])
      BY <3>1, <3>2, <3>3, BetterIs
    <3>6. ASSUME NEW k \in 1..n, s[k] # <<>> PROVE Better(q[s[k][1]], s[k][2])
      <4>1. CASE k = n
        BY <3>1, <3>6, <4>1
      <4>2. CASE k # n
        <5>1. k \in 1..(n - 1) /\ k \in DOMAIN s
          BY <1>1, <2>1, <4>2
        <5>2. s[k] \in Observations /\ s[k][1] \in DOMAIN f
          BY <3>6, <5>1
        <5>3. s[k][2] \in Records
          BY <3>6, <5>2 DEF Observations
        <5>4. Better(p[s[k][1]], s[k][2]) /\ Better(q[s[k][1]], p[s[k][1]])
          BY <3>1, <3>4, <3>6, <5>1, <5>2
        <5> QED BY <3>2, <5>2, <5>3, <5>4, BetterIs
      <4> QED BY <4>1, <4>2
    <3> QED BY <3>5, <3>6
  <2> QED BY <2>4, <2>5
<1>6. T = {}
  <2> SUFFICES ASSUME T # {} PROVE FALSE
    OBVIOUS
  <2>0. T \in SUBSET Nat
    OBVIOUS
  <2>1. PICK n \in T : \A k \in T : n <= k
    <3> HIDE DEF T
    <3> QED BY <2>0, LeastNumber
  <2>2. n \in 0..Len(s) /\ ~Good(n) /\ \A k \in 0..Len(s) : ~Good(k) => n <= k
    BY <2>1
  <2> HIDE DEF T, Good
  <2>3. n # 0
    BY <1>4, <2>2
  <2>4. n \in 1..Len(s) /\ n - 1 \in 0..Len(s) /\ ~(n <= n - 1)
    BY <1>1, <2>2, <2>3
  <2>5. Good(n - 1)
    BY <2>2, <2>4
  <2> QED BY <1>5, <2>2, <2>4, <2>5
<1>7. Good(Len(s))
  <2>1. Len(s) \in 0..Len(s)
    BY <1>1
  <2> HIDE DEF Good
  <2> QED BY <1>6, <2>1
<1> QED BY <1>1, <1>2, <1>7

LEMMA BestIs ==
  ASSUME NEW S \in SUBSET Records
  PROVE  /\ Best(S) \in AtMostOne
         /\ \A x \in Records : (\A r \in S : Better(x, r)) => \A o \in Best(S) : Better(x, o)
<1>1. CASE S = {}
  BY <1>1 DEF Best, AtMostOne
<1>2. CASE S # {}
  <2> DEFINE fids == {r.fid : r \in S}
             ats == {r.at : r \in S}
             o == Record((CHOOSE r \in S : TRUE).url, Max(fids), Max(ats))
  <2>1. (CHOOSE r \in S : TRUE).url \in Urls
    <3>1. (CHOOSE r \in S : TRUE) \in S
      BY <1>2
    <3> QED BY <3>1 DEF Records
  <2>2. fids # {} /\ fids \in SUBSET Nat /\ \A l \in fids : l <= 1
    BY <1>2 DEF Records
  <2>3. ats # {} /\ ats \in SUBSET Nat /\ MaxTime \in Nat /\ \A l \in ats : l <= MaxTime
    BY <1>2, RegistryAssumption DEF Records
  <2>4. Max(fids) \in fids /\ Max(ats) \in ats
    <3> HIDE DEF fids, ats
    <3>1. 1 \in Nat
      OBVIOUS
    <3>2. Max(fids) \in fids
      BY <2>2, <3>1, MaxIs
    <3>3. Max(ats) \in ats
      BY <2>3, MaxIs
    <3> QED BY <3>2, <3>3
  <2>5. PICK r \in S, q \in S : Max(fids) = r.fid /\ Max(ats) = q.at
    BY <2>4
  <2>6. o \in Records /\ o.fid = r.fid /\ o.at = q.at
    BY <2>1, <2>5 DEF Records, Record
  <2>7. Best(S) = {o}
    BY <1>2 DEF Best
  <2> HIDE DEF o
  <2>8. ASSUME NEW x \in Records, \A z \in S : Better(x, z) PROVE Better(x, o)
    BY <2>6, <2>8 DEF Better
  <2> QED BY <2>6, <2>7, <2>8 DEF AtMostOne
<1> QED BY <1>1, <1>2

-----------------------------------------------------------------------------
(* The steps of the registry. *)

LEMMA PartOneToOne == ASSUME NEW S, NEW T, S \subseteq T, OneToOne(T) PROVE OneToOne(S)
BY DEF OneToOne

\* The calls are over and nothing of them is saved.
LEMMA CallsDropped ==
  ASSUME RegistryInv, RegistryTypes', LedgerInv', registry' = registry, told' = told,
         DOMAIN written' = {}, observed' \in {observed, <<>>},
         \A c \in 1..Parallel : /\ calls'[c].st # "done" /\ calls'[c].rec = {} /\ calls'[c].id = 0
                                /\ calls'[c].st # "idle" => invocation'.open,
         \A u \in Urls : owed'[u] \subseteq owed[u],
         invocation'.crowded = invocation.crowded,
         KnownPairs' \subseteq KnownPairs
  PROVE  RegistryInv'
<1>1. NumbersEnd'
  <2>1. PICK b \in Nat : \A i \in DOMAIN registry : i <= b
    BY DEF RegistryInv, NumbersEnd
  <2>2. \A i \in DOMAIN registry' \cup DOMAIN written' : i <= b
    BY <2>1
  <2>3. \A c \in 1..Parallel : calls'[c].id <= b
    BY <2>1
  <2> QED BY <2>1, <2>2, <2>3 DEF NumbersEnd
<1>2. CallsInv'
  <2>1. \A k \in DOMAIN observed' :
          observed'[k] # <<>> => <<observed'[k][1], observed'[k][2].url>> \in told'
    BY DEF RegistryInv, CallsInv
  <2>2. \A a \in told' : a[1] \in DOMAIN registry'
    BY DEF RegistryInv, CallsInv
  <2> QED BY <2>1, <2>2 DEF CallsInv
<1>3. ASSUME ~invocation'.crowded PROVE PairsInv' /\ BetterInv'
  <2>1. PairsInv /\ BetterInv
    BY <1>3 DEF RegistryInv
  <2>2. OneToOne(KnownPairs') /\ told' \subseteq Pairs(registry')
    BY <2>1, PartOneToOne DEF PairsInv
  <2>3. Pairs(written') = {}
    BY DEF Pairs
  <2>4. PairsInv'
    BY <2>2, <2>3 DEF PairsInv
  <2>5. BetterInv'
    BY <2>1 DEF BetterInv, Numbers
  <2> QED BY <2>4, <2>5
<1> QED BY <1>1, <1>2, <1>3 DEF RegistryInv

\* Nothing is written, and a call that ends at most goes.
LEMMA RegistryKept ==
  ASSUME RegistryInv, RegistryTypes', LedgerInv',
         UNCHANGED <<registry, written, told, observed, owed>>,
         invocation'.open = invocation.open,
         \A c \in 1..Parallel : \/ calls'[c] = calls[c]
                                \/ calls[c].st = "running" /\ calls'[c] = Idle,
         ~invocation'.crowded => ~invocation.crowded /\ KnownPairs' = KnownPairs
  PROVE  RegistryInv'
<1>0. /\ Idle.st = "idle" /\ Idle.rec = {} /\ Idle.id = 0
      /\ \A c \in 1..Parallel : calls[c].st = "running" => calls[c].rec = {}
  BY Blank DEF RegistryInv, CallsInv
<1>1. NumbersEnd'
  <2>1. PICK b \in Nat : /\ \A i \in DOMAIN registry \cup DOMAIN written : i <= b
                         /\ \A c \in 1..Parallel : calls[c].id <= b
    BY DEF RegistryInv, NumbersEnd
  <2>2. \A c \in 1..Parallel : calls'[c].id <= b
    BY <1>0, <2>1
  <2> QED BY <2>1, <2>2 DEF NumbersEnd
<1>2. CallsInv'
  <2>1. CallsInv
    BY DEF RegistryInv
  <2>2. ASSUME NEW i \in DOMAIN written'
        PROVE  \E c \in 1..Parallel : calls'[c].id = i /\ calls'[c].rec # {}
    BY <1>0, <2>1 DEF CallsInv
  <2>3. ASSUME NEW c \in 1..Parallel
        PROVE  /\ calls'[c].st # "idle" => invocation'.open
               /\ calls'[c].st # "done" => calls'[c].rec = {}
               /\ calls'[c].st = "done" => calls'[c].id # 0
               /\ calls'[c].st = "done" =>
                    calls'[c].rec # {} \/ calls'[c].id \in DOMAIN registry' \cup DOMAIN written'
    <3>1. CASE calls'[c] = calls[c]
      BY <2>1, <3>1 DEF CallsInv
    <3>2. CASE calls'[c] = Idle
      BY <1>0, <3>2
    <3> QED BY <3>1, <3>2
  <2> QED BY <2>1, <2>2, <2>3 DEF CallsInv
<1>3. ASSUME ~invocation'.crowded PROVE PairsInv' /\ BetterInv'
  <2>1. PairsInv /\ BetterInv /\ KnownPairs' = KnownPairs
    BY <1>3 DEF RegistryInv
  <2>2. ASSUME NEW c \in 1..Parallel, calls'[c].st = "done" PROVE calls'[c] = calls[c]
    BY <1>0, <2>2
  <2>3. PairsInv'
    BY <2>1, <2>2 DEF PairsInv
  <2>4. BetterInv'
    BY <2>1, <2>2 DEF BetterInv, Numbers
  <2> QED BY <2>3, <2>4
<1> QED BY <1>1, <1>2, <1>3 DEF RegistryInv

LEMMA NothingWritten ==
  ASSUME RegistryInv, \A c \in 1..Parallel : calls[c].st # "done"
  PROVE  DOMAIN written = {}
BY DEF RegistryInv, CallsInv

LEMMA SameEntry ==
  ASSUME ledger' = ledger, invocation'.no = invocation.no
  PROVE  EntryOf(invocation.no)' = EntryOf(invocation.no)
BY DEF EntryOf, Standing, Places

LEMMA SameKnown ==
  ASSUME registry' = registry, ledger' = ledger, invocation'.no = invocation.no,
         invocation'.open = invocation.open
  PROVE  KnownPairs' = KnownPairs
BY SameEntry DEF KnownPairs, Pairs

LEMMA ClosedKnown ==
  ASSUME registry' = registry, ~invocation'.open
  PROVE  KnownPairs' \subseteq KnownPairs
BY DEF KnownPairs, Pairs

LEMMA SameLedger ==
  ASSUME LedgerInv, ledger' = ledger, since' = since, invocation'.no = invocation.no,
         invocation'.open = invocation.open
  PROVE  LedgerInv'
BY DEF LedgerInv, Places

LEMMA InLedger ==
  ASSUME RegistryTypes, LedgerInv, NEW p \in DOMAIN ledger
  PROVE  ledger[p] \in Ledgers /\ ledger[p].inv \in Int /\ ledger[p].inv <= invocation.no
<1>1. ledger \in Seq(Ledgers)
  BY DEF RegistryTypes
<1>2. ledger[p] \in Ledgers
  BY <1>1
<1> QED BY <1>2 DEF LedgerInv, Ledgers

LEMMA OpenTurnInv == ASSUME RegistryInv, OpenTurn PROVE RegistryInv'
<1>0. RegistryTypes /\ LedgerInv /\ CallsInv
  BY DEF RegistryInv
<1>1. /\ invocation' \in Invocations /\ invocation'.no = invocation.no + 1
      /\ invocation'.crowded = invocation.crowded /\ invocation.no \in Nat
      /\ invocation'.open
  BY <1>0 DEF RegistryTypes, Invocations, OpenTurn
<1>2. \A c \in 1..Parallel : calls[c].st = "idle"
  BY <1>0 DEF OpenTurn, CallsInv
<1>3. DOMAIN written = {}
  BY <1>2, NothingWritten
<1>4. RegistryTypes'
  <2>1. <<>> \in Seq({<<>>} \cup (Nat \X Records))
    OBVIOUS
  <2> QED BY <1>0, <1>1, <2>1 DEF RegistryTypes, OpenTurn
<1>5. Places(invocation.no)' = {}
  <2>1. \A p \in DOMAIN ledger : ledger[p].inv <= invocation.no /\ ledger[p].inv \in Int
    BY <1>0, InLedger
  <2>2. \A p \in DOMAIN ledger : ledger[p].inv # invocation.no + 1
    BY <1>1, <2>1
  <2> QED BY <1>1, <2>2 DEF Places, OpenTurn
<1>6. LedgerInv'
  <2>1. \A p \in DOMAIN ledger : ledger[p].inv <= invocation.no + 1
    <3> TAKE p \in DOMAIN ledger
    <3>1. ledger[p].inv <= invocation.no /\ ledger[p].inv \in Int
      BY <1>0, InLedger
    <3> QED BY <1>1, <3>1
  <2>2. ledger' = ledger
    BY DEF OpenTurn
  <2> QED BY <1>0, <1>1, <1>5, <2>1, <2>2 DEF LedgerInv
<1>7. KnownPairs' \subseteq KnownPairs
  <2>1. EntryOf(invocation.no)'.ids = Empty
    BY <1>5 DEF EntryOf
  <2>2. Pairs(Empty) = {}
    BY Blank DEF Pairs
  <2>3. KnownPairs' = Pairs(registry) \cup Pairs(Empty)
    BY <1>1, <2>1 DEF KnownPairs, OpenTurn, Pairs
  <2> QED BY <2>2, <2>3 DEF KnownPairs
<1>8. \A c \in 1..Parallel : calls'[c].st = "idle" /\ calls'[c].rec = {}
  BY <1>0, <1>2 DEF OpenTurn, CallsInv
<1>9. NumbersEnd'
  BY DEF RegistryInv, NumbersEnd, OpenTurn
<1>10. CallsInv'
  BY <1>0, <1>2, <1>3, <1>8 DEF OpenTurn, CallsInv
<1>11. ASSUME ~invocation'.crowded PROVE PairsInv' /\ BetterInv'
  <2>1. PairsInv /\ BetterInv
    BY <1>1, <1>11 DEF RegistryInv
  <2>2. OneToOne(KnownPairs')
    BY <1>7, <2>1, PartOneToOne DEF PairsInv
  <2>3. Pairs(written') = {} /\ told' \subseteq Pairs(registry')
    BY <1>3, <2>1 DEF Pairs, OpenTurn, PairsInv
  <2>4. PairsInv'
    BY <1>8, <2>2, <2>3 DEF PairsInv
  <2>5. BetterInv'
    BY <1>8, <2>1 DEF BetterInv, Numbers, OpenTurn
  <2> QED BY <2>4, <2>5
<1> QED BY <1>4, <1>6, <1>9, <1>10, <1>11 DEF RegistryInv

LEMMA CallToolsInv == ASSUME RegistryInv, CallTools PROVE RegistryInv'
<1>0. RegistryTypes /\ LedgerInv
  BY DEF RegistryInv
<1>1. /\ invocation' \in Invocations /\ invocation'.no = invocation.no
      /\ invocation'.crowded = invocation.crowded /\ invocation'.open = invocation.open
      /\ invocation'.open
  <2>1. invocation \in Invocations
    BY <1>0 DEF RegistryTypes
  <2>2. invocation' = [invocation EXCEPT !.batches = @ + 1] /\ invocation.open
    BY DEF CallTools
  <2>3. invocation.batches + 1 \in Nat
    BY <2>1 DEF Invocations
  <2>4. /\ invocation'.no = invocation.no /\ invocation'.crowded = invocation.crowded
        /\ invocation'.open = invocation.open
    BY <2>1, <2>2 DEF Invocations
  <2>5. invocation' \in Invocations
    BY <2>1, <2>2, <2>3 DEF Invocations
  <2> QED BY <2>2, <2>4, <2>5, Zenon
<1>2. /\ calls' \in [1..Parallel -> Callings]
      /\ \A c \in 1..Parallel : /\ calls'[c].st # "done" /\ calls'[c].rec = {} /\ calls'[c].id = 0
  <2>1. PICK S \in SUBSET (1..Parallel) :
          calls' = [c \in 1..Parallel |-> IF c \in S THEN [Idle EXCEPT !.st = "running"] ELSE Idle]
    BY DEF CallTools
  <2> DEFINE r == [Idle EXCEPT !.st = "running"]
  <2>2. r \in Callings /\ r.st = "running" /\ r.rec = {} /\ r.id = 0
    BY Blank DEF Callings
  <2> HIDE DEF r
  <2>3. calls' = [c \in 1..Parallel |-> IF c \in S THEN r ELSE Idle]
    BY <2>1 DEF r
  <2> QED BY <2>2, <2>3, Blank
<1>3. RegistryTypes'
  BY <1>0, <1>1, <1>2, Blank DEF RegistryTypes, CallTools
<1>4. LedgerInv' /\ KnownPairs' = KnownPairs
  BY <1>0, <1>1, SameLedger, SameKnown DEF CallTools
<1> QED BY <1>1, <1>2, <1>3, <1>4, CallsDropped, Blank DEF CallTools

LEMMA LoseResultsInv == ASSUME RegistryInv, LoseResults PROVE RegistryInv'
<1>0. RegistryTypes /\ LedgerInv
  BY DEF RegistryInv
<1>1. /\ invocation' \in Invocations /\ invocation'.no = invocation.no
      /\ invocation'.crowded = invocation.crowded /\ invocation'.open = invocation.open
  BY <1>0, RegistryAssumption DEF RegistryTypes, Invocations, LoseResults
<1>2. /\ calls' \in [1..Parallel -> Callings]
      /\ \A c \in 1..Parallel : calls'[c] = Idle
  BY Blank DEF LoseResults
<1>3. RegistryTypes'
  BY <1>0, <1>1, <1>2, Blank DEF RegistryTypes, LoseResults
<1>4. LedgerInv' /\ KnownPairs' = KnownPairs
  BY <1>0, <1>1, SameLedger, SameKnown DEF LoseResults
<1> QED BY <1>1, <1>2, <1>3, <1>4, CallsDropped, Blank DEF LoseResults

LEMMA ClosedIs ==
  ASSUME RegistryTypes, LedgerInv, invocation' = Closed, ledger' = ledger, since' = 0
  PROVE  /\ invocation' \in Invocations /\ invocation'.no = invocation.no
         /\ invocation'.crowded = invocation.crowded /\ ~invocation'.open
         /\ LedgerInv'
<1>1. /\ invocation' \in Invocations /\ invocation'.no = invocation.no
      /\ invocation'.crowded = invocation.crowded /\ invocation'.open = FALSE
  BY DEF RegistryTypes, Invocations, Closed
<1> QED BY <1>1 DEF LedgerInv, Places

LEMMA EndUnsettledInv == ASSUME RegistryInv, EndUnsettled PROVE RegistryInv'
<1>0. RegistryTypes /\ LedgerInv
  BY DEF RegistryInv
<1>1. /\ invocation' \in Invocations /\ invocation'.no = invocation.no
      /\ invocation'.crowded = invocation.crowded /\ ~invocation'.open
      /\ LedgerInv'
  BY <1>0, ClosedIs DEF EndUnsettled
<1>2. /\ calls' \in [1..Parallel -> Callings]
      /\ \A c \in 1..Parallel : calls'[c] = Idle
  BY Blank DEF EndUnsettled
<1>3. RegistryTypes'
  <2>1. <<>> \in Seq({<<>>} \cup (Nat \X Records))
    OBVIOUS
  <2>2. owed' \in [Urls -> AtMostOne]
    BY DEF EndUnsettled, AtMostOne
  <2> QED BY <1>0, <1>1, <1>2, <2>1, <2>2, Blank DEF RegistryTypes, EndUnsettled
<1>4. KnownPairs' \subseteq KnownPairs
  BY <1>1, ClosedKnown DEF EndUnsettled
<1>5. \A u \in Urls : owed'[u] \subseteq owed[u]
  BY DEF EndUnsettled
<1> QED BY <1>1, <1>2, <1>3, <1>4, <1>5, CallsDropped, Blank DEF EndUnsettled

LEMMA ReturnNothingInv ==
  ASSUME RegistryInv, NEW d \in 1..Parallel, ReturnNothing(d) PROVE RegistryInv'
<1>0. RegistryTypes /\ LedgerInv
  BY DEF RegistryInv
<1>1. RegistryTypes'
  BY <1>0, Blank DEF RegistryTypes, ReturnNothing
<1>2. LedgerInv' /\ KnownPairs' = KnownPairs
  BY <1>0, SameLedger, SameKnown DEF ReturnNothing
<1>3. \A c \in 1..Parallel : \/ calls'[c] = calls[c]
                             \/ calls[c].st = "running" /\ calls'[c] = Idle
  BY <1>0 DEF ReturnNothing, RegistryTypes
<1> QED BY <1>1, <1>2, <1>3, RegistryKept DEF ReturnNothing

LEMMA MinuteInv == ASSUME RegistryInv, Minute PROVE RegistryInv'
<1>0. RegistryTypes /\ LedgerInv
  BY DEF RegistryInv
<1>1. RegistryTypes'
  BY <1>0, RegistryAssumption DEF RegistryTypes, Minute
<1>2. LedgerInv' /\ KnownPairs' = KnownPairs
  BY <1>0, SameLedger, SameKnown DEF Minute
<1> QED BY <1>1, <1>2, RegistryKept DEF Minute

LEMMA OtherTurnInv == ASSUME RegistryInv, OtherTurn PROVE RegistryInv'
<1>0. RegistryTypes /\ LedgerInv
  BY DEF RegistryInv
<1>1. /\ ledger' \in Seq(Ledgers) /\ Len(ledger') <= Cap /\ LedgerInv'
      /\ ~invocation'.crowded => EntryOf(invocation.no)'.ids = EntryOf(invocation.no).ids
  BY <1>0, OtherIs
<1>2. /\ invocation' \in Invocations /\ invocation'.no = invocation.no
      /\ invocation'.open = invocation.open
      /\ invocation'.crowded = (invocation.crowded \/ since + 1 >= Cap)
  BY <1>0 DEF RegistryTypes, Invocations, OtherTurn
<1>3. ~invocation'.crowded => ~invocation.crowded
  BY <1>2, Zenon
<1>4. RegistryTypes'
  BY <1>0, <1>1, <1>2 DEF RegistryTypes, OtherTurn
<1>5. ~invocation'.crowded => KnownPairs' = KnownPairs
  BY <1>1, <1>2 DEF KnownPairs, Pairs, OtherTurn
<1> QED BY <1>1, <1>2, <1>3, <1>4, <1>5, RegistryKept DEF OtherTurn

-----------------------------------------------------------------------------
(* A call registers a page. *)

LEMMA ViewIs ==
  ASSUME RegistryTypes
  PROVE  /\ View \in Tables /\ DOMAIN registry \subseteq DOMAIN View
         /\ DOMAIN View \subseteq DOMAIN registry \cup DOMAIN written
         /\ \A i \in DOMAIN View : \/ i \in DOMAIN registry /\ View[i] = registry[i]
                                   \/ i \in DOMAIN written /\ View[i] = written[i]
<1>1. CASE invocation.shared
  <2>1. View = LaidOver(registry, written)
    BY <1>1 DEF View
  <2>2. registry \in Tables /\ written \in Tables
    BY DEF RegistryTypes
  <2>3. /\ View \in Tables /\ DOMAIN View = DOMAIN registry \cup DOMAIN written
        /\ \A i \in DOMAIN registry \cup DOMAIN written :
             View[i] = IF i \in DOMAIN written THEN written[i] ELSE registry[i]
    BY <2>1, <2>2, LaidIs
  <2> QED BY <2>3
<1>2. CASE ~invocation.shared
  BY <1>2 DEF View, RegistryTypes
<1> QED BY <1>1, <1>2

\* A page that a call sees has the number it is known under.
LEMMA SeenKnown ==
  ASSUME RegistryTypes, PairsInv, NEW i \in DOMAIN View
  PROVE  <<i, View[i].url>> \in KnownPairs
BY ViewIs DEF PairsInv, Pairs, KnownPairs

LEMMA SameNumber ==
  ASSUME OneToOne(KnownPairs), NEW i, NEW u, NEW v,
         <<i, u>> \in KnownPairs, <<i, v>> \in KnownPairs
  PROVE  u = v
BY DEF OneToOne

LEMMA WiderOneToOne ==
  ASSUME NEW S, NEW n, NEW u, OneToOne(S),
         (\A a \in S : a[1] # n /\ a[2] # u) \/ <<n, u>> \in S
  PROVE  OneToOne(S \cup {<<n, u>>})
<1>1. CASE <<n, u>> \in S
  <2>1. S \cup {<<n, u>>} = S
    BY <1>1
  <2> QED BY <2>1
<1>2. CASE \A a \in S : a[1] # n /\ a[2] # u
  BY <1>2 DEF OneToOne
<1> QED BY <1>1, <1>2

\* The number that is given to a page the call does not see.
LEMMA NextIs ==
  ASSUME RegistryTypes, LedgerInv, NumbersEnd, NEW u \in Urls
  PROVE  LET e  == EntryOf(invocation.no)
             id == NextSourceId(View, e, u)
         IN  /\ id \in Nat \ {0}
             /\ \/ id \in DOMAIN e.ids /\ e.ids[id].url = u
                \/ /\ \A i \in DOMAIN View \cup DOMAIN e.ids : i < id
                   /\ \A i \in DOMAIN e.ids : e.ids[i].url # u
<1> DEFINE e == EntryOf(invocation.no)
           id == NextSourceId(View, e, u)
<1>0. invocation.no \in Nat
  BY DEF RegistryTypes, Invocations
<1>1. e \in Ledgers /\ \A i \in DOMAIN e.ids : i <= e.mark
  BY <1>0, EntryIs
<1>2. e.ids \in Tables /\ e.mark \in Nat
  BY <1>1 DEF Ledgers
<1> HIDE DEF e
<1>3. /\ id \in Nat \ {0}
      /\ \/ id \in DOMAIN e.ids /\ e.ids[id].url = u
         \/ /\ \A i \in DOMAIN View \cup DOMAIN e.ids : i < id
            /\ \A i \in DOMAIN e.ids : e.ids[i].url # u
  <2>a. CASE NumberIn(e, u) # {}
    <3>1. id \in DOMAIN e.ids /\ e.ids[id].url = u
      BY <2>a DEF NextSourceId, NumberIn
    <3>2. id \in Nat \ {0}
      BY <1>2, <3>1, TableIs
    <3> QED BY <3>1, <3>2
  <2>b. CASE NumberIn(e, u) = {}
    <3> DEFINE T == DOMAIN View \cup {Base - 1, e.mark}
    <3>1. T \in SUBSET Nat /\ T # {}
      BY <1>2, ViewIs, TableIs, RegistryAssumption
    <3>2. PICK b \in Nat : \A i \in DOMAIN registry \cup DOMAIN written : i <= b
      BY DEF NumbersEnd
    <3> DEFINE top == b + Base + e.mark
    <3>3. top \in Nat /\ \A l \in T : l <= top
      <4>1. Base \in Nat /\ Base - 1 \in Nat
        BY RegistryAssumption
      <4>2. ASSUME NEW l \in DOMAIN View PROVE l <= top
        <5>1. l \in Nat /\ l <= b
          BY <3>2, ViewIs, TableIs
        <5> QED BY <1>2, <4>1, <5>1
      <4> QED BY <1>2, <4>1, <4>2
    <3>4. id = Max(T) + 1
      BY <2>b DEF NextSourceId
    <3> HIDE DEF T, top, id
    <3>5. Max(T) \in T /\ \A l \in T : Max(T) >= l
      BY <3>1, <3>3, MaxIs
    <3>6. id \in Nat \ {0} /\ \A l \in T : l < id /\ l \in Nat
      <4>1. Max(T) \in Nat
        BY <3>1, <3>5
      <4> QED BY <3>1, <3>4, <3>5, <4>1
    <3>7. \A i \in DOMAIN View : i < id
      BY <3>6 DEF T
    <3>8. e.mark < id
      BY <3>6 DEF T
    <3>9. ASSUME NEW i \in DOMAIN e.ids PROVE i < id /\ e.ids[i].url # u
      <4>1. i \in Nat /\ i <= e.mark
        BY <1>1, <1>2, TableIs
      <4>2. i < id
        BY <1>2, <3>6, <3>8, <4>1
      <4> QED BY <2>b, <4>2 DEF NumberIn
    <3> QED BY <3>6, <3>7, <3>9 DEF id
  <2> QED BY <2>a, <2>b
<1> QED BY <1>3 DEF e

\* What a call registers: a number that is the page's own, and a record that is
\* no worse than what is saved.
Registers(d, u, id, rec, new) ==
    /\ id \in Nat \ {0} /\ rec \in Records /\ rec.url = u /\ new \in {{}, {rec}}
    /\ \E seen \in Records : /\ seen.url = u
                             /\ calls' = [calls EXCEPT ![d] = [st |-> "done", id |-> id,
                                                               obs |-> seen, rec |-> new]]
    /\ written' = LaidOver(written, [i \in {j \in {id} : new # {}} |-> rec])
    /\ new = {} => id \in DOMAIN View
    /\ ledger' \in Seq(Ledgers) /\ Len(ledger') <= Cap /\ LedgerInv' /\ since' \in Nat
    /\ ~invocation.crowded =>
         /\ KnownPairs' = KnownPairs \cup {<<id, u>>} /\ OneToOne(KnownPairs')
         /\ id \in DOMAIN registry => Better(rec, registry[id])
    /\ UNCHANGED <<registry, invocation, observed, now, told, owed>>

LEMMA RegisterIs ==
  ASSUME RegistryInv, NEW d \in 1..Parallel, NEW u \in Urls, NEW f \in {0, 1}, Register(d, u, f)
  PROVE  \E id, rec, new : Registers(d, u, id, rec, new)
<1> DEFINE seen == Record(u, f, now)
           hit  == Numbers(View, u)
           e    == EntryOf(invocation.no)
           id   == IF hit # {} THEN Min(hit) ELSE NextSourceId(View, e, u)
           rec  == IF hit # {} THEN Merge(View[id], seen) ELSE seen
           new  == IF hit # {} /\ rec = View[id] THEN {} ELSE {rec}
<1>0. RegistryTypes /\ LedgerInv /\ CallsInv /\ NumbersEnd
      /\ (~invocation.crowded => PairsInv /\ BetterInv)
  BY DEF RegistryInv
<1>1. /\ calls[d].st = "running"
      /\ calls' = [calls EXCEPT ![d] = [st |-> "done", id |-> id, obs |-> seen, rec |-> new]]
      /\ written' = LaidOver(written, [i \in {j \in {id} : new # {}} |-> rec])
      /\ IF hit # {} THEN UNCHANGED <<ledger, since>>
         ELSE ledger' = Used(e, id, u) /\ since' = 0
      /\ UNCHANGED <<registry, invocation, observed, now, told, owed>>
  BY DEF Register
<1>2. seen \in Records /\ seen.url = u
  BY <1>0 DEF RegistryTypes, Record, Records
<1>3. invocation.open /\ invocation.no \in Nat
  BY <1>0, <1>1 DEF CallsInv, RegistryTypes, Invocations
<1> HIDE DEF seen
<1>4. CASE hit # {}
  <2>1. id \in DOMAIN View /\ View[id].url = u /\ id = Min(hit)
    <3>1. hit \in SUBSET Nat
      BY <1>0, ViewIs, TableIs DEF Numbers
    <3>2. Min(hit) \in hit
      BY <1>4, <3>1, MinIs
    <3> QED BY <1>4, <3>2 DEF Numbers
  <2>2. /\ rec = Merge(View[id], seen) /\ new \in {{}, {rec}}
    BY <1>4
  <2>3. /\ ledger' = ledger /\ since' = since /\ invocation' = invocation /\ registry' = registry
    BY <1>1, <1>4
  <2> HIDE DEF id, rec, new, hit
  <2>4. View \in Tables /\ View[id] \in Records /\ id \in Nat \ {0}
    BY <1>0, <2>1, ViewIs, TableIs
  <2>5. rec \in Records /\ rec.url = u /\ Better(rec, View[id])
    BY <1>2, <2>1, <2>2, <2>4, MergeIs
  <2>6. LedgerInv' /\ KnownPairs' = KnownPairs
    BY <1>0, <2>3, SameLedger, SameKnown
  <2>7. ASSUME ~invocation.crowded
        PROVE  /\ KnownPairs' = KnownPairs \cup {<<id, u>>} /\ OneToOne(KnownPairs')
               /\ id \in DOMAIN registry => Better(rec, registry[id])
    <3>0. PairsInv /\ BetterInv
      BY <1>0, <2>7
    <3>1. <<id, u>> \in KnownPairs
      BY <1>0, <2>1, <3>0, SeenKnown
    <3>2. KnownPairs \cup {<<id, u>>} = KnownPairs
      BY <3>1
    <3>3. OneToOne(KnownPairs')
      BY <2>6, <3>0 DEF PairsInv
    <3>4. ASSUME id \in DOMAIN registry PROVE Better(rec, registry[id])
      <4>1. registry[id] \in Records /\ Better(registry[id], registry[id])
        BY <1>0, <3>4, TableIs, BetterIs DEF RegistryTypes
      <4>2. Better(View[id], registry[id])
        BY <1>0, <2>1, <3>0, <3>4, <4>1, ViewIs DEF BetterInv
      <4> QED BY <2>4, <2>5, <4>1, <4>2, BetterIs
    <3> QED BY <2>6, <3>2, <3>3, <3>4
  <2>8. ledger' \in Seq(Ledgers) /\ Len(ledger') <= Cap /\ since' \in Nat
    BY <1>0, <2>3 DEF RegistryTypes
  <2> QED BY <1>1, <1>2, <2>1, <2>2, <2>4, <2>5, <2>6, <2>7, <2>8 DEF Registers
<1>5. CASE hit = {}
  <2>1. id = NextSourceId(View, e, u) /\ rec = seen /\ new = {rec}
        /\ ledger' = Used(e, id, u) /\ since' = 0 /\ invocation' = invocation /\ registry' = registry
    BY <1>1, <1>5
  <2>2. \A i \in DOMAIN View : View[i].url # u
    BY <1>5 DEF Numbers
  <2> HIDE DEF id, rec, new, hit
  <2>3. /\ id \in Nat \ {0}
        /\ \/ id \in DOMAIN e.ids /\ e.ids[id].url = u
           \/ /\ \A i \in DOMAIN View \cup DOMAIN e.ids : i < id
              /\ \A i \in DOMAIN e.ids : e.ids[i].url # u
    BY <1>0, <2>1, NextIs
  <2> DEFINE single == [i \in {id} |-> Record(u, 0, 0)]
  <2>4. /\ ledger' \in Seq(Ledgers) /\ Len(ledger') <= Cap /\ LedgerInv'
        /\ EntryOf(invocation.no)'.ids = LaidOver(e.ids, single)
    BY <1>0, <2>1, <2>3, UsedIs
  <2>5. e \in Ledgers
    BY <1>0, <1>3, EntryIs
  <2> HIDE DEF e
  <2>6. /\ e.ids \in Tables /\ single \in Tables /\ DOMAIN single = {id}
        /\ single[id].url = u
    <3>1. Record(u, 0, 0) \in Records /\ Record(u, 0, 0).url = u
      BY RegistryAssumption DEF Record, Records
    <3> QED BY <2>3, <2>5, <3>1, SingleIs DEF Ledgers
  <2> HIDE DEF single
  <2> DEFINE g == LaidOver(e.ids, single)
  <2>7. /\ DOMAIN g = DOMAIN e.ids \cup {id}
        /\ \A i \in DOMAIN g : g[i] = IF i = id THEN single[id] ELSE e.ids[i]
    <3>1. /\ DOMAIN g = DOMAIN e.ids \cup DOMAIN single
          /\ \A i \in DOMAIN e.ids \cup DOMAIN single :
               g[i] = IF i \in DOMAIN single THEN single[i] ELSE e.ids[i]
      BY <2>6, LaidIs
    <3> HIDE DEF g
    <3> QED BY <2>6, <3>1
  <2> HIDE DEF g
  <2>8. KnownPairs = Pairs(registry) \cup Pairs(e.ids)
    BY <1>3 DEF KnownPairs, e
  <2>9. KnownPairs' = Pairs(registry) \cup Pairs(g)
    <3>1. invocation'.open /\ EntryOf(invocation.no)'.ids = g /\ Pairs(registry)' = Pairs(registry)
      BY <1>3, <2>1, <2>4 DEF g, Pairs
    <3>2. KnownPairs' = Pairs(registry)' \cup Pairs(EntryOf(invocation.no)'.ids)
      BY <3>1 DEF KnownPairs, Pairs
    <3> QED BY <3>1, <3>2
  <2>10. ASSUME ~invocation.crowded
         PROVE  /\ KnownPairs' = KnownPairs \cup {<<id, u>>} /\ OneToOne(KnownPairs')
                /\ id \notin DOMAIN registry
    <3>0. PairsInv
      BY <1>0, <2>10
    <3>1. \A i \in DOMAIN registry : registry[i].url # u
      <4> SUFFICES ASSUME NEW i \in DOMAIN registry, registry[i].url = u PROVE FALSE
        OBVIOUS
      <4>1. i \in DOMAIN View /\ <<i, u>> \in KnownPairs
        BY <1>0, <2>8, ViewIs DEF Pairs
      <4>2. <<i, View[i].url>> \in KnownPairs
        BY <1>0, <3>0, <4>1, SeenKnown
      <4>3. View[i].url = u
        BY <3>0, <4>1, <4>2, SameNumber DEF PairsInv
      <4> QED BY <2>2, <4>1, <4>3
    <3>2. CASE id \in DOMAIN e.ids /\ e.ids[id].url = u
      <4>1. <<id, u>> \in KnownPairs
        BY <2>8, <3>2 DEF Pairs
      <4>2. Pairs(g) = Pairs(e.ids)
        <5>1. DOMAIN g = DOMAIN e.ids /\ \A i \in DOMAIN g : g[i].url = e.ids[i].url
          BY <2>6, <2>7, <3>2
        <5> QED BY <5>1 DEF Pairs
      <4>3. KnownPairs' = KnownPairs /\ KnownPairs \cup {<<id, u>>} = KnownPairs
        BY <2>8, <2>9, <4>1, <4>2
      <4>4. id \notin DOMAIN registry
        <5> SUFFICES ASSUME id \in DOMAIN registry PROVE FALSE
          OBVIOUS
        <5>1. <<id, registry[id].url>> \in KnownPairs
          BY <2>8 DEF Pairs
        <5>2. registry[id].url = u
          BY <3>0, <4>1, <5>1, SameNumber DEF PairsInv
        <5> QED BY <3>1, <5>2
      <4> QED BY <3>0, <4>3, <4>4 DEF PairsInv
    <3>3. CASE /\ \A i \in DOMAIN View \cup DOMAIN e.ids : i < id
               /\ \A i \in DOMAIN e.ids : e.ids[i].url # u
      <4>1. id \notin DOMAIN registry /\ id \notin DOMAIN e.ids
            /\ \A i \in DOMAIN registry \cup DOMAIN e.ids : i # id
        <5>1. ~(id < id)
          BY <2>3
        <5> QED BY <1>0, <3>3, <5>1, ViewIs
      <4>2. Pairs(g) = Pairs(e.ids) \cup {<<id, u>>}
        <5>1. \A i \in DOMAIN e.ids : g[i] = e.ids[i]
          BY <2>7, <4>1
        <5>2. g[id].url = u
          BY <2>6, <2>7
        <5> QED BY <2>7, <5>1, <5>2 DEF Pairs
      <4>3. KnownPairs' = KnownPairs \cup {<<id, u>>}
        BY <2>8, <2>9, <4>2
      <4>4. \A a \in KnownPairs : a[1] # id /\ a[2] # u
        BY <2>8, <3>1, <3>3, <4>1 DEF Pairs
      <4>5. OneToOne(KnownPairs \cup {<<id, u>>})
        BY <3>0, <4>4, WiderOneToOne DEF PairsInv
      <4> QED BY <4>1, <4>3, <4>5
    <3> QED BY <2>3, <3>2, <3>3
  <2>11. since' \in Nat
    BY <2>1
  <2>12. rec \in Records /\ rec.url = u /\ new \in {{}, {rec}} /\ new # {}
    BY <1>2, <2>1
  <2>13. \E z \in Records :
           /\ z.url = u
           /\ calls' = [calls EXCEPT ![d] = [st |-> "done", id |-> id, obs |-> z, rec |-> new]]
    BY <1>1, <1>2
  <2>14. Registers(d, u, id, rec, new)
    BY <1>1, <2>3, <2>4, <2>10, <2>11, <2>12, <2>13 DEF Registers
  <2> QED BY <2>14
<1> QED BY <1>4, <1>5

LEMMA RegisterInv ==
  ASSUME RegistryInv, NEW d \in 1..Parallel, NEW u \in Urls, NEW f \in {0, 1}, Register(d, u, f)
  PROVE  RegistryInv'
<1>0. RegistryTypes /\ LedgerInv /\ CallsInv /\ NumbersEnd /\ calls[d].st = "running"
  BY DEF RegistryInv, Register
<1>1. PICK id, rec, new : Registers(d, u, id, rec, new)
  BY RegisterIs
<1>2. /\ id \in Nat \ {0} /\ rec \in Records /\ rec.url = u /\ new \in {{}, {rec}}
      /\ written' = LaidOver(written, [i \in {j \in {id} : new # {}} |-> rec])
      /\ new = {} => id \in DOMAIN View
      /\ ledger' \in Seq(Ledgers) /\ Len(ledger') <= Cap /\ LedgerInv' /\ since' \in Nat
      /\ UNCHANGED <<registry, invocation, observed, now, told, owed>>
  BY <1>1 DEF Registers
<1>3. PICK seen \in Records :
        /\ seen.url = u
        /\ calls' = [calls EXCEPT ![d] = [st |-> "done", id |-> id, obs |-> seen, rec |-> new]]
  BY <1>1 DEF Registers
<1>4. ~invocation.crowded =>
         /\ KnownPairs' = KnownPairs \cup {<<id, u>>} /\ OneToOne(KnownPairs')
         /\ id \in DOMAIN registry => Better(rec, registry[id])
  BY <1>1 DEF Registers
<1>5. /\ written' \in Tables
      /\ DOMAIN written' = DOMAIN written \cup {j \in {id} : new # {}}
      /\ \A i \in DOMAIN written' :
           \/ i = id /\ new = {rec} /\ written'[i] = rec
           \/ i \in DOMAIN written /\ written'[i] = written[i]
  <2>1. written \in Tables
    BY <1>0 DEF RegistryTypes
  <2>2. CASE new = {}
    <3> DEFINE g == [i \in {j \in {id} : new # {}} |-> rec]
    <3>1. DOMAIN g = {} /\ g = [i \in DOMAIN g |-> g[i]]
      BY <2>2
    <3>2. g \in Tables
      BY <3>1, TableIs
    <3> HIDE DEF g
    <3>3. /\ written' \in Tables /\ DOMAIN written' = DOMAIN written \cup DOMAIN g
          /\ \A i \in DOMAIN written \cup DOMAIN g :
               written'[i] = IF i \in DOMAIN g THEN g[i] ELSE written[i]
      BY <1>2, <2>1, <3>2, LaidIs DEF g
    <3> QED BY <2>2, <3>1, <3>3
  <2>3. CASE new = {rec}
    <3> DEFINE g == [i \in {id} |-> rec]
    <3>1. g \in Tables /\ DOMAIN g = {id} /\ g[id] = rec
      BY <1>2, SingleIs
    <3>2. {j \in {id} : new # {}} = {id}
      BY <2>3
    <3>a. written' = LaidOver(written, g)
      BY <1>2, <3>2
    <3> HIDE DEF g
    <3>3. /\ written' \in Tables /\ DOMAIN written' = DOMAIN written \cup DOMAIN g
          /\ \A i \in DOMAIN written \cup DOMAIN g :
               written'[i] = IF i \in DOMAIN g THEN g[i] ELSE written[i]
      BY <2>1, <3>1, <3>a, LaidIs
    <3> QED BY <2>3, <3>1, <3>2, <3>3
  <2> QED BY <1>2, <2>2, <2>3
<1>6. /\ calls' \in [1..Parallel -> Callings]
      /\ calls'[d] = [st |-> "done", id |-> id, obs |-> seen, rec |-> new]
      /\ \A c \in 1..Parallel : c # d => calls'[c] = calls[c]
  <2>1. [st |-> "done", id |-> id, obs |-> seen, rec |-> new] \in Callings
    BY <1>2, <1>3 DEF Callings, AtMostOne
  <2>2. calls \in [1..Parallel -> Callings]
    BY <1>0 DEF RegistryTypes
  <2> QED BY <1>3, <2>1, <2>2
<1>7. RegistryTypes'
  BY <1>0, <1>2, <1>5, <1>6 DEF RegistryTypes
<1>8. NumbersEnd'
  <2>1. PICK b \in Nat : /\ \A i \in DOMAIN registry \cup DOMAIN written : i <= b
                         /\ \A c \in 1..Parallel : calls[c].id <= b
    BY <1>0 DEF NumbersEnd
  <2> DEFINE m == b + id
  <2>2. m \in Nat /\ id <= m /\ b <= m
    BY <1>2
  <2>3. ASSUME NEW i \in DOMAIN registry' \cup DOMAIN written' PROVE i <= m
    <3>1. i \in Nat
      BY <1>0, <1>2, <1>5, TableIs DEF RegistryTypes
    <3>2. i = id \/ i <= b
      BY <1>2, <1>5, <2>1
    <3> QED BY <1>2, <2>2, <3>1, <3>2
  <2>4. ASSUME NEW c \in 1..Parallel PROVE calls'[c].id <= m
    <3>1. calls[c].id \in Nat
      BY <1>0 DEF RegistryTypes, Callings
    <3> QED BY <1>2, <1>6, <2>1, <2>2, <3>1
  <2> HIDE DEF m
  <2> QED BY <2>2, <2>3, <2>4 DEF NumbersEnd
<1>9. CallsInv'
  <2>1. ASSUME NEW c \in 1..Parallel
        PROVE  /\ calls'[c].st # "idle" => invocation'.open
               /\ calls'[c].st # "done" => calls'[c].rec = {}
               /\ calls'[c].st = "done" => calls'[c].id # 0
               /\ calls'[c].st = "done" =>
                    calls'[c].rec # {} \/ calls'[c].id \in DOMAIN registry' \cup DOMAIN written'
    <3>1. CASE c = d
      <4>1. invocation.open
        BY <1>0 DEF CallsInv
      <4>2. new = {} => id \in DOMAIN registry \cup DOMAIN written
        BY <1>0, <1>2, ViewIs
      <4> QED BY <1>2, <1>5, <1>6, <3>1, <4>1, <4>2
    <3>2. CASE c # d
      <4>1. calls'[c] = calls[c] /\ DOMAIN written \subseteq DOMAIN written'
        BY <1>5, <1>6, <3>2
      <4>2. registry' = registry /\ invocation' = invocation
        BY <1>2
      <4> QED BY <1>0, <4>1, <4>2 DEF CallsInv
    <3> QED BY <3>1, <3>2
  <2>2. ASSUME NEW i \in DOMAIN written'
        PROVE  \E c \in 1..Parallel : calls'[c].id = i /\ calls'[c].rec # {}
    <3>1. CASE i = id /\ new = {rec}
      <4>1. calls'[d].id = i /\ calls'[d].rec = {rec}
        BY <1>6, <3>1
      <4>2. {rec} # {}
        OBVIOUS
      <4> QED BY <4>1, <4>2
    <3>2. CASE i \in DOMAIN written
      <4>1. PICK c \in 1..Parallel : calls[c].id = i /\ calls[c].rec # {}
        BY <1>0, <3>2 DEF CallsInv
      <4>2. c # d
        BY <1>0, <4>1 DEF CallsInv
      <4> QED BY <1>6, <4>1, <4>2
    <3> QED BY <1>5, <3>1, <3>2
  <2>3. /\ \A a \in told' : a[1] \in DOMAIN registry'
        /\ \A k \in DOMAIN observed' :
             observed'[k] # <<>> => <<observed'[k][1], observed'[k][2].url>> \in told'
    BY <1>0, <1>2 DEF CallsInv
  <2> QED BY <2>1, <2>2, <2>3 DEF CallsInv
<1>10. ASSUME ~invocation'.crowded PROVE PairsInv' /\ BetterInv'
  <2>1. /\ PairsInv /\ BetterInv
        /\ KnownPairs' = KnownPairs \cup {<<id, u>>} /\ OneToOne(KnownPairs')
        /\ id \in DOMAIN registry => Better(rec, registry[id])
    BY <1>2, <1>4, <1>10 DEF RegistryInv
  <2>2. Pairs(written') \subseteq KnownPairs'
    <3>1. ASSUME NEW i \in DOMAIN written' PROVE <<i, written'[i].url>> \in KnownPairs'
      <4>1. CASE i = id /\ written'[i] = rec
        BY <1>2, <2>1, <4>1
      <4>2. CASE i \in DOMAIN written /\ written'[i] = written[i]
        BY <2>1, <4>2 DEF PairsInv, Pairs
      <4> QED BY <1>5, <4>1, <4>2
    <3> QED BY <3>1 DEF Pairs
  <2>3. ASSUME NEW c \in 1..Parallel, calls'[c].st = "done"
        PROVE  /\ <<calls'[c].id, calls'[c].obs.url>> \in KnownPairs'
               /\ \A r \in calls'[c].rec :
                    /\ r.url = calls'[c].obs.url
                    /\ calls'[c].id \in DOMAIN registry' => Better(r, registry'[calls'[c].id])
    <3>1. CASE c = d
      BY <1>2, <1>3, <1>6, <2>1, <3>1
    <3>2. CASE c # d
      BY <1>2, <1>6, <2>1, <2>3, <3>2 DEF PairsInv, BetterInv
    <3> QED BY <3>1, <3>2
  <2>4. told' \subseteq Pairs(registry')
    BY <1>2, <2>1 DEF PairsInv
  <2>5. PairsInv'
    BY <2>1, <2>2, <2>3, <2>4 DEF PairsInv
  <2>6. ASSUME NEW i \in DOMAIN written', i \in DOMAIN registry'
        PROVE  Better(written'[i], registry'[i])
    BY <1>2, <1>5, <2>1, <2>6 DEF BetterInv
  <2>7. \A v \in Urls : \A o \in owed'[v] : \E i \in Numbers(registry', v) : Better(registry'[i], o)
    BY <1>2, <2>1 DEF BetterInv, Numbers
  <2>8. BetterInv'
    BY <2>3, <2>6, <2>7 DEF BetterInv
  <2> QED BY <2>5, <2>8
<1> QED BY <1>2, <1>7, <1>8, <1>9, <1>10 DEF RegistryInv

-----------------------------------------------------------------------------
(* The results are saved, and the turn is settled. *)

LEMMA DeltaIs ==
  ASSUME RegistryTypes, CallsInv
  PROVE  /\ Delta \in Tables
         /\ \A c \in 1..Parallel : calls[c].rec # {} => calls[c].id \in DOMAIN Delta
         /\ \A i \in DOMAIN Delta : \E c \in 1..Parallel :
              calls[c].st = "done" /\ calls[c].id = i /\ Delta[i] \in calls[c].rec
<1> DEFINE Writers(i) == {c \in 1..Parallel : calls[c].id = i /\ calls[c].rec # {}}
           changed == {calls[c].id : c \in {d \in 1..Parallel : calls[d].rec # {}}}
<1> DEFINE val(i) == CHOOSE r \in calls[Max(Writers(i))].rec : TRUE
<1>1. Delta = [i \in changed |-> val(i)]
  BY DEF Delta
<1>2. /\ DOMAIN Delta = changed /\ Delta = [i \in DOMAIN Delta |-> Delta[i]]
      /\ \A i \in changed : Delta[i] = val(i)
  <2> HIDE DEF changed, val
  <2> QED BY <1>1
<1>3. ASSUME NEW i \in changed
      PROVE  \E c \in 1..Parallel :
               calls[c].st = "done" /\ calls[c].id = i /\ Delta[i] \in calls[c].rec
  <2>1. Writers(i) # {} /\ Writers(i) \in SUBSET Nat /\ \A l \in Writers(i) : l <= Parallel
    OBVIOUS
  <2>2. Parallel \in Nat
    BY RegistryAssumption
  <2>3. Max(Writers(i)) \in Writers(i)
    <3> HIDE DEF Writers
    <3> QED BY <2>1, <2>2, MaxIs
  <2> DEFINE c == Max(Writers(i))
  <2>4. Delta[i] = CHOOSE r \in calls[c].rec : TRUE
    BY <1>2
  <2>5. c \in 1..Parallel /\ calls[c].id = i /\ calls[c].rec # {}
    BY <2>3
  <2> HIDE DEF c
  <2>6. Delta[i] \in calls[c].rec
    BY <2>4, <2>5
  <2>7. calls[c].st = "done"
    BY <2>5 DEF CallsInv
  <2> QED BY <2>5, <2>6, <2>7
<1>4. Delta \in Tables
  <2>1. ASSUME NEW i \in changed PROVE i \in Nat \ {0} /\ Delta[i] \in Records
    <3>1. PICK c \in 1..Parallel :
               calls[c].st = "done" /\ calls[c].id = i /\ Delta[i] \in calls[c].rec
      BY <1>3
    <3>2. calls[c] \in Callings /\ calls[c].id # 0
      BY <3>1 DEF RegistryTypes, CallsInv
    <3>3. calls[c].rec \in AtMostOne /\ calls[c].id \in Nat
      BY <3>2 DEF Callings
    <3> QED BY <3>1, <3>2, <3>3 DEF AtMostOne
  <2> HIDE DEF changed
  <2> QED BY <1>2, <2>1, TableIs
<1> QED BY <1>2, <1>3, <1>4

LEMMA RespondInv == ASSUME RegistryInv, Respond PROVE RegistryInv'
<1>0. RegistryTypes /\ LedgerInv /\ CallsInv /\ NumbersEnd
  BY DEF RegistryInv
<1>1. /\ invocation.open
      /\ registry' = LaidOver(registry, Delta) /\ observed' = observed \o Results
      /\ told' = told \cup {<<calls[c].id, calls[c].obs.url>> : c \in Returned}
      /\ calls' = [c \in 1..Parallel |-> Idle] /\ written' = Empty
      /\ UNCHANGED <<invocation, ledger, now, since, owed>>
  BY DEF Respond
<1>2. /\ Delta \in Tables
      /\ \A c \in 1..Parallel : calls[c].rec # {} => calls[c].id \in DOMAIN Delta
      /\ \A i \in DOMAIN Delta : \E c \in 1..Parallel :
              calls[c].st = "done" /\ calls[c].id = i /\ Delta[i] \in calls[c].rec
  BY <1>0, DeltaIs
<1>3. /\ registry' \in Tables /\ DOMAIN registry' = DOMAIN registry \cup DOMAIN Delta
      /\ \A i \in DOMAIN registry' :
           \/ i \in DOMAIN Delta /\ registry'[i] = Delta[i]
           \/ i \in DOMAIN registry /\ registry'[i] = registry[i]
  <2>1. registry \in Tables
    BY <1>0 DEF RegistryTypes
  <2>2. /\ registry' \in Tables /\ DOMAIN registry' = DOMAIN registry \cup DOMAIN Delta
        /\ \A i \in DOMAIN registry \cup DOMAIN Delta :
             registry'[i] = IF i \in DOMAIN Delta THEN Delta[i] ELSE registry[i]
    BY <1>1, <1>2, <2>1, LaidIs
  <2> QED BY <2>2
<1>4. ASSUME NEW c \in Returned
      PROVE  /\ c \in 1..Parallel /\ calls[c].st = "done"
             /\ calls[c].id \in Nat /\ calls[c].obs \in Records /\ calls[c].obs.url \in Urls
             /\ calls[c].id \in DOMAIN registry'
  <2>1. c \in 1..Parallel /\ calls[c].st = "done"
    BY DEF Returned
  <2>2. calls[c] \in Callings
    BY <1>0, <2>1 DEF RegistryTypes
  <2>3. calls[c].id \in DOMAIN registry'
    <3>1. calls[c].rec # {} \/ calls[c].id \in DOMAIN registry \cup DOMAIN written
      BY <1>0, <2>1 DEF CallsInv
    <3>2. calls[c].id \in DOMAIN written => calls[c].id \in DOMAIN Delta
      BY <1>0, <1>2 DEF CallsInv
    <3> QED BY <1>2, <1>3, <2>1, <3>1, <3>2
  <2> QED BY <2>1, <2>2, <2>3 DEF Callings, Records
<1>5. /\ Results \in Seq(Observations) /\ DOMAIN Results = 1..Parallel /\ Len(Results) = Parallel
      /\ \A c \in 1..Parallel :
           Results[c] # <<>> => c \in Returned /\ Results[c] = <<calls[c].id, calls[c].obs>>
  <2>1. ASSUME NEW c \in 1..Parallel
        PROVE  (IF c \in Returned THEN <<calls[c].id, calls[c].obs>> ELSE <<>>) \in Observations
    BY <1>4 DEF Observations
  <2>2. Results \in [1..Parallel -> Observations]
    BY <2>1 DEF Results
  <2>3. Parallel \in Nat
    BY RegistryAssumption
  <2>4. Results \in Seq(Observations) /\ Len(Results) = Parallel
    BY <2>2, <2>3
  <2> QED BY <2>2, <2>4 DEF Results
<1>6. /\ observed \in Seq(Observations) /\ observed' \in Seq(Observations)
      /\ \A k \in DOMAIN observed' : \/ k \in DOMAIN observed /\ observed'[k] = observed[k]
                                     \/ \E c \in 1..Parallel : observed'[k] = Results[c]
  <2>1. observed \in Seq(Observations)
    BY <1>0 DEF RegistryTypes, Observations
  <2> HIDE DEF Observations
  <2>2. /\ observed \o Results \in Seq(Observations)
        /\ Len(observed \o Results) = Len(observed) + Len(Results)
        /\ \A k \in 1..(Len(observed) + Len(Results)) :
             (observed \o Results)[k] = IF k <= Len(observed) THEN observed[k]
                                        ELSE Results[k - Len(observed)]
    BY <1>5, <2>1, ConcatProperties
  <2>3. Len(observed) \in Nat /\ DOMAIN observed = 1..Len(observed) /\ Parallel \in Nat
    BY <2>1, RegistryAssumption
  <2>4. DOMAIN observed' = 1..(Len(observed) + Parallel)
    BY <1>1, <1>5, <2>2
  <2>5. ASSUME NEW k \in DOMAIN observed'
        PROVE  \/ k \in DOMAIN observed /\ observed'[k] = observed[k]
               \/ \E c \in 1..Parallel : observed'[k] = Results[c]
    <3>1. CASE k <= Len(observed)
      BY <1>1, <1>5, <2>2, <2>3, <2>4, <3>1
    <3>2. CASE ~(k <= Len(observed))
      <4>1. k - Len(observed) \in 1..Parallel
        BY <2>3, <2>4, <3>2
      <4> QED BY <1>1, <1>5, <2>2, <2>4, <3>2, <4>1
    <3> QED BY <3>1, <3>2
  <2> QED BY <1>1, <2>1, <2>2, <2>5
<1>7. \A c \in 1..Parallel : calls'[c] = Idle
  BY <1>1
<1>8. RegistryTypes'
  <2>1. told' \in SUBSET (Nat \X Urls)
    BY <1>0, <1>1, <1>4 DEF RegistryTypes
  <2>2. calls' \in [1..Parallel -> Callings] /\ written' \in Tables
    BY <1>1, Blank
  <2>3. observed' \in Seq({<<>>} \cup (Nat \X Records))
    BY <1>6 DEF Observations
  <2> QED BY <1>0, <1>1, <1>3, <2>1, <2>2, <2>3 DEF RegistryTypes
<1>9. NumbersEnd'
  <2>1. PICK b \in Nat : /\ \A i \in DOMAIN registry \cup DOMAIN written : i <= b
                         /\ \A c \in 1..Parallel : calls[c].id <= b
    BY <1>0 DEF NumbersEnd
  <2>2. \A i \in DOMAIN registry' \cup DOMAIN written' : i <= b
    BY <1>1, <1>2, <1>3, <2>1, Blank
  <2>3. \A c \in 1..Parallel : calls'[c].id <= b
    BY <1>7, <2>1, Blank
  <2> QED BY <2>2, <2>3 DEF NumbersEnd
<1>10. LedgerInv'
  BY <1>0, <1>1, SameLedger
<1>11. CallsInv'
  <2>1. \A a \in told' : a[1] \in DOMAIN registry'
    BY <1>0, <1>1, <1>3, <1>4 DEF CallsInv
  <2>2. ASSUME NEW k \in DOMAIN observed', observed'[k] # <<>>
        PROVE  <<observed'[k][1], observed'[k][2].url>> \in told'
    <3>1. CASE k \in DOMAIN observed /\ observed'[k] = observed[k]
      BY <1>0, <1>1, <2>2, <3>1 DEF CallsInv
    <3>2. CASE \E c \in 1..Parallel : observed'[k] = Results[c]
      <4>1. PICK c \in Returned : observed'[k] = <<calls[c].id, calls[c].obs>>
        BY <1>5, <2>2, <3>2
      <4> QED BY <1>1, <4>1
    <3> QED BY <1>6, <3>1, <3>2
  <2> QED BY <1>1, <1>7, <2>1, <2>2, Blank DEF CallsInv
<1>12. ASSUME ~invocation'.crowded PROVE PairsInv' /\ BetterInv'
  <2>1. PairsInv /\ BetterInv
    BY <1>1, <1>12 DEF RegistryInv
  <2>2. ASSUME NEW i \in DOMAIN registry' PROVE <<i, registry'[i].url>> \in KnownPairs
    <3>1. CASE i \in DOMAIN Delta /\ registry'[i] = Delta[i]
      <4>1. PICK c \in 1..Parallel :
                calls[c].st = "done" /\ calls[c].id = i /\ Delta[i] \in calls[c].rec
        BY <1>2, <3>1
      <4> QED BY <2>1, <3>1, <4>1 DEF PairsInv
    <3>2. CASE i \in DOMAIN registry /\ registry'[i] = registry[i]
      BY <3>2 DEF KnownPairs, Pairs
    <3> QED BY <1>3, <3>1, <3>2
  <2>3. KnownPairs' \subseteq KnownPairs
    <3>1. EntryOf(invocation.no)' = EntryOf(invocation.no)
      BY <1>1, SameEntry
    <3>2. Pairs(registry') \subseteq KnownPairs
      BY <2>2 DEF Pairs
    <3>3. KnownPairs' = Pairs(registry') \cup Pairs(EntryOf(invocation.no).ids)
      BY <1>1, <3>1 DEF KnownPairs, Pairs
    <3>4. KnownPairs = Pairs(registry) \cup Pairs(EntryOf(invocation.no).ids)
      BY <1>1 DEF KnownPairs
    <3> QED BY <3>2, <3>3, <3>4
  <2>4. ASSUME NEW i \in DOMAIN registry'
        PROVE  /\ \A v : <<i, v>> \in KnownPairs => registry'[i].url = v
               /\ i \in DOMAIN registry => Better(registry'[i], registry[i])
    <3>1. \A v : <<i, v>> \in KnownPairs => registry'[i].url = v
      BY <2>1, <2>2, SameNumber DEF PairsInv
    <3>2. ASSUME i \in DOMAIN registry PROVE Better(registry'[i], registry[i])
      <4>0. registry[i] \in Records /\ Better(registry[i], registry[i])
        BY <1>0, <3>2, TableIs, BetterIs DEF RegistryTypes
      <4>1. CASE i \in DOMAIN Delta /\ registry'[i] = Delta[i]
        <5>1. PICK c \in 1..Parallel :
                calls[c].st = "done" /\ calls[c].id = i /\ Delta[i] \in calls[c].rec
          BY <1>2, <4>1
        <5> QED BY <2>1, <3>2, <4>1, <5>1 DEF BetterInv
      <4>2. CASE i \in DOMAIN registry /\ registry'[i] = registry[i]
        BY <4>0, <4>2
      <4> QED BY <1>3, <4>1, <4>2
    <3> QED BY <3>1, <3>2
  <2>5. told' \subseteq Pairs(registry')
    <3>1. ASSUME NEW a \in told PROVE a \in Pairs(registry')
      <4>1. PICK i \in DOMAIN registry : a = <<i, registry[i].url>>
        BY <2>1 DEF PairsInv, Pairs
      <4>2. i \in DOMAIN registry' /\ a \in KnownPairs
        BY <1>3, <4>1 DEF KnownPairs, Pairs
      <4>3. registry'[i].url = registry[i].url
        BY <2>4, <4>1, <4>2
      <4> QED BY <4>1, <4>2, <4>3 DEF Pairs
    <3>2. ASSUME NEW c \in Returned
          PROVE  <<calls[c].id, calls[c].obs.url>> \in Pairs(registry')
      <4>1. <<calls[c].id, calls[c].obs.url>> \in KnownPairs /\ calls[c].id \in DOMAIN registry'
        BY <1>4, <2>1 DEF PairsInv
      <4>2. registry'[calls[c].id].url = calls[c].obs.url
        BY <2>4, <4>1
      <4> QED BY <4>1, <4>2 DEF Pairs
    <3> QED BY <1>1, <3>1, <3>2
  <2>6. PairsInv'
    <3>1. OneToOne(KnownPairs')
      BY <2>1, <2>3, PartOneToOne DEF PairsInv
    <3>2. Pairs(written') = {}
      BY <1>1, Blank DEF Pairs
    <3> QED BY <1>7, <2>5, <3>1, <3>2, Blank DEF PairsInv
  <2>7. ASSUME NEW u \in Urls, NEW o \in owed'[u]
        PROVE  \E i \in Numbers(registry', u) : Better(registry'[i], o)
    <3>1. PICK i \in Numbers(registry, u) : Better(registry[i], o)
      BY <1>1, <2>1, <2>7 DEF BetterInv
    <3>2. i \in DOMAIN registry /\ registry[i].url = u /\ i \in DOMAIN registry'
      BY <1>3, <3>1 DEF Numbers
    <3>3. registry'[i].url = u /\ Better(registry'[i], registry[i])
      <4>1. <<i, u>> \in KnownPairs
        BY <3>2 DEF KnownPairs, Pairs
      <4> QED BY <2>4, <3>2, <4>1
    <3>4. registry[i] \in Records /\ registry'[i] \in Records /\ o \in Records
      <4>1. owed[u] \in AtMostOne /\ o \in owed[u]
        BY <1>0, <1>1, <2>7 DEF RegistryTypes
      <4>2. o \in Records
        BY <4>1 DEF AtMostOne
      <4> QED BY <1>0, <1>3, <3>2, <4>2, TableIs DEF RegistryTypes
    <3>5. Better(registry'[i], o)
      BY <3>1, <3>3, <3>4, BetterIs
    <3> QED BY <3>2, <3>3, <3>5 DEF Numbers
  <2>8. BetterInv'
    BY <1>1, <1>7, <2>7, Blank DEF BetterInv
  <2> QED BY <2>6, <2>8
<1> QED BY <1>8, <1>9, <1>10, <1>11, <1>12 DEF RegistryInv

\* What is written back at the end of a turn.
LEMMA RepairedIs ==
  ASSUME NEW f \in Tables, NEW g \in Tables, DOMAIN g = DOMAIN f
  PROVE  LET h == LaidOver(f, RegistryRepairs(f, g))
         IN  h \in Tables /\ DOMAIN h = DOMAIN f /\ \A i \in DOMAIN f : h[i] = Merge(f[i], g[i])
<1> DEFINE r == RegistryRepairs(f, g)
           h == LaidOver(f, r)
<1>1. /\ DOMAIN r = {i \in DOMAIN f : Merge(f[i], g[i]) # f[i]}
      /\ r = [i \in DOMAIN r |-> r[i]]
      /\ \A i \in DOMAIN r : r[i] = Merge(f[i], g[i])
  BY DEF RegistryRepairs
<1>2. \A i \in DOMAIN f : Merge(f[i], g[i]) \in Records /\ i \in Nat \ {0}
  BY TableIs, MergeIs
<1> HIDE DEF r
<1>3. r \in Tables
  BY <1>1, <1>2, TableIs
<1>4. /\ h \in Tables /\ DOMAIN h = DOMAIN f \cup DOMAIN r
      /\ \A i \in DOMAIN f \cup DOMAIN r : h[i] = IF i \in DOMAIN r THEN r[i] ELSE f[i]
  BY <1>3, LaidIs
<1> HIDE DEF h
<1> QED BY <1>1, <1>4 DEF h, r

LEMMA SettleTurnInv == ASSUME RegistryInv, SettleTurn PROVE RegistryInv'
<1>0. RegistryTypes /\ LedgerInv /\ CallsInv /\ NumbersEnd
  BY DEF RegistryInv
<1> DEFINE settled == SettleSources(registry, observed)
<1>1. /\ ~Busy
      /\ registry' = LaidOver(registry, RegistryRepairs(registry, settled))
      /\ invocation' = Closed /\ observed' = <<>> /\ since' = 0
      /\ owed' = [u \in Urls |-> Best(owed[u] \cup SeenOf(u))]
      /\ UNCHANGED <<calls, written, ledger, now, told>>
  BY DEF SettleTurn
<1>2. /\ invocation' \in Invocations /\ invocation'.no = invocation.no
      /\ invocation'.crowded = invocation.crowded /\ ~invocation'.open
      /\ LedgerInv'
  BY <1>0, <1>1, ClosedIs
<1>3. \A c \in 1..Parallel : calls[c].st = "idle"
  BY <1>1 DEF Busy
<1>4. DOMAIN written = {}
  BY <1>3, NothingWritten
<1>5. registry \in Tables /\ observed \in Seq(Observations)
      /\ \A k \in DOMAIN observed : observed[k] # <<>> =>
           /\ observed[k] \in Nat \X Records /\ observed[k][2] \in Records
           /\ <<observed[k][1], observed[k][2].url>> \in told
           /\ observed[k][1] \in DOMAIN registry
  <2>1. registry \in Tables /\ observed \in Seq(Observations)
    BY <1>0 DEF RegistryTypes, Observations
  <2>2. ASSUME NEW k \in DOMAIN observed, observed[k] # <<>>
        PROVE  /\ observed[k] \in Nat \X Records /\ observed[k][2] \in Records
               /\ <<observed[k][1], observed[k][2].url>> \in told
               /\ observed[k][1] \in DOMAIN registry
    <3>1. observed[k] \in Observations
      BY <2>1
    <3>2. observed[k] \in Nat \X Records
      BY <2>2, <3>1 DEF Observations
    <3>3. <<observed[k][1], observed[k][2].url>> \in told
      BY <1>0, <2>2 DEF CallsInv
    <3>4. <<observed[k][1], observed[k][2].url>>[1] \in DOMAIN registry
      BY <1>0, <3>3 DEF CallsInv
    <3> QED BY <3>2, <3>3, <3>4
  <2> QED BY <2>1, <2>2
<1>6. /\ settled \in Tables /\ DOMAIN settled = DOMAIN registry
      /\ (\A k \in DOMAIN observed : observed[k] # <<>> =>
            observed[k][2].url = registry[observed[k][1]].url) =>
           /\ \A i \in DOMAIN registry : settled[i].url = registry[i].url /\ Better(settled[i], registry[i])
           /\ \A k \in DOMAIN observed : observed[k] # <<>> =>
                Better(settled[observed[k][1]], observed[k][2])
  BY <1>5, SettledIs
<1> HIDE DEF settled
<1>7. /\ registry' \in Tables /\ DOMAIN registry' = DOMAIN registry
      /\ \A i \in DOMAIN registry : registry'[i] = Merge(registry[i], settled[i])
  BY <1>1, <1>5, <1>6, RepairedIs
<1>8. \A u \in Urls : /\ SeenOf(u) \in SUBSET Records
                      /\ \A r \in SeenOf(u) : \E k \in DOMAIN observed :
                           observed[k] # <<>> /\ observed[k][2] = r /\ r.url = u
  <2> SUFFICES ASSUME NEW u \in Urls, NEW r \in SeenOf(u)
               PROVE  r \in Records /\ \E k \in DOMAIN observed :
                           observed[k] # <<>> /\ observed[k][2] = r /\ r.url = u
    OBVIOUS
  <2>1. PICK p \in Range(observed) : p # <<>> /\ p[2].url = u /\ p[2] = r
    BY DEF SeenOf
  <2>2. PICK k \in DOMAIN observed : observed[k] = p
    BY <2>1 DEF Range
  <2> QED BY <1>5, <2>1, <2>2
<1>9. \A u \in Urls : owed[u] \in AtMostOne /\ owed[u] \cup SeenOf(u) \in SUBSET Records
  <2> TAKE u \in Urls
  <2>1. owed[u] \in AtMostOne
    BY <1>0 DEF RegistryTypes
  <2> QED BY <1>8, <2>1 DEF AtMostOne
<1>10. RegistryTypes'
  <2>1. <<>> \in Seq({<<>>} \cup (Nat \X Records))
    OBVIOUS
  <2>2. owed' \in [Urls -> AtMostOne]
    BY <1>1, <1>9, BestIs
  <2>3. since' \in Nat
    BY <1>1
  <2> QED BY <1>0, <1>1, <1>2, <1>7, <2>1, <2>2, <2>3 DEF RegistryTypes
<1>11. NumbersEnd'
  BY <1>0, <1>1, <1>7 DEF NumbersEnd
<1>12. CallsInv'
  BY <1>0, <1>1, <1>3, <1>4, <1>7 DEF CallsInv
<1>13. ASSUME ~invocation'.crowded PROVE PairsInv' /\ BetterInv'
  <2>1. PairsInv /\ BetterInv
    BY <1>2, <1>13 DEF RegistryInv
  <2>2. ASSUME NEW k \in DOMAIN observed, observed[k] # <<>>
        PROVE  observed[k][2].url = registry[observed[k][1]].url
    <3>1. <<observed[k][1], observed[k][2].url>> \in Pairs(registry)
      BY <1>5, <2>1, <2>2 DEF PairsInv
    <3> QED BY <3>1 DEF Pairs
  <2>3. /\ \A i \in DOMAIN registry : settled[i].url = registry[i].url /\ Better(settled[i], registry[i])
        /\ \A k \in DOMAIN observed : observed[k] # <<>> =>
             Better(settled[observed[k][1]], observed[k][2])
    BY <1>6, <2>2
  <2>4. ASSUME NEW i \in DOMAIN registry
        PROVE  /\ registry'[i] \in Records /\ registry[i] \in Records /\ settled[i] \in Records
               /\ registry'[i].url = registry[i].url
               /\ Better(registry'[i], registry[i]) /\ Better(registry'[i], settled[i])
    <3>1. registry[i] \in Records /\ settled[i] \in Records
      BY <1>5, <1>6, TableIs
    <3> QED BY <1>7, <2>3, <3>1, MergeIs
  <2>5. Pairs(registry') = Pairs(registry)
    BY <1>7, <2>4 DEF Pairs
  <2>6. PairsInv'
    <3>1. KnownPairs' \subseteq KnownPairs
      <4>1. KnownPairs' = Pairs(registry')
        BY <1>2 DEF KnownPairs, Pairs
      <4> QED BY <2>5, <4>1 DEF KnownPairs
    <3>2. OneToOne(KnownPairs')
      BY <2>1, <3>1, PartOneToOne DEF PairsInv
    <3>3. Pairs(written') = {}
      BY <1>1, <1>4 DEF Pairs
    <3> QED BY <1>1, <1>3, <2>1, <2>5, <3>2, <3>3 DEF PairsInv
  <2>7. ASSUME NEW u \in Urls, NEW o \in owed'[u]
        PROVE  \E i \in Numbers(registry', u) : Better(registry'[i], o)
    <3> DEFINE S == owed[u] \cup SeenOf(u)
    <3>1. S \in SUBSET Records /\ o \in Best(S)
      BY <1>1, <1>9, <2>7
    <3>2. S # {}
      BY <3>1 DEF Best
    <3>3. ASSUME NEW r \in S
          PROVE  \E i \in DOMAIN registry : registry[i].url = u /\ Better(registry'[i], r)
      <4>0. r \in Records
        BY <3>1
      <4>1. CASE r \in owed[u]
        <5>1. PICK i \in Numbers(registry, u) : Better(registry[i], r)
          BY <2>1, <4>1 DEF BetterInv
        <5>2. i \in DOMAIN registry /\ registry[i].url = u
          BY <5>1 DEF Numbers
        <5> QED BY <2>4, <4>0, <5>1, <5>2, BetterIs
      <4>2. CASE r \in SeenOf(u)
        <5>1. PICK k \in DOMAIN observed : observed[k] # <<>> /\ observed[k][2] = r /\ r.url = u
          BY <1>8, <4>2
        <5> DEFINE i == observed[k][1]
        <5>2. i \in DOMAIN registry /\ registry[i].url = u
          BY <1>5, <2>2, <5>1
        <5>3. Better(settled[i], r)
          BY <2>3, <5>1
        <5> HIDE DEF i
        <5> QED BY <2>4, <4>0, <5>2, <5>3, BetterIs
      <4> QED BY <4>1, <4>2
    <3> HIDE DEF S
    <3>4. PICK i \in DOMAIN registry : registry[i].url = u
      BY <3>2, <3>3
    <3>5. \A j \in DOMAIN registry : registry[j].url = u => j = i
      <4> TAKE j \in DOMAIN registry
      <4>1. <<i, registry[i].url>> \in KnownPairs /\ <<j, registry[j].url>> \in KnownPairs
        BY DEF KnownPairs, Pairs
      <4> QED BY <2>1, <3>4, <4>1 DEF PairsInv, OneToOne
    <3>6. \A r \in S : Better(registry'[i], r)
      BY <3>3, <3>5
    <3>7. Better(registry'[i], o)
      BY <2>4, <3>1, <3>6, BestIs
    <3> QED BY <1>7, <2>4, <3>4, <3>7 DEF Numbers
  <2>8. BetterInv'
    BY <1>1, <1>3, <1>4, <2>7 DEF BetterInv
  <2> QED BY <2>6, <2>8
<1> QED BY <1>2, <1>10, <1>11, <1>12, <1>13 DEF RegistryInv

-----------------------------------------------------------------------------
LEMMA RegistryInitInv == RegistryInit => RegistryInv
<1> SUFFICES ASSUME RegistryInit PROVE RegistryInv
  OBVIOUS
<1>1. /\ registry \in {Empty} \cup {[i \in {1} |-> Record(u, f, 0)] : u \in Urls, f \in {0, 1}}
      /\ invocation = NoTurn /\ calls = [c \in 1..Parallel |-> Idle]
      /\ written = Empty /\ observed = <<>> /\ ledger = <<>> /\ now = 0
      /\ told = {<<i, registry[i].url>> : i \in DOMAIN registry}
      /\ since = 0
      /\ owed = [u \in Urls |-> Best({registry[i] : i \in Numbers(registry, u)})]
  BY DEF RegistryInit
<1>2. registry \in Tables /\ DOMAIN registry \subseteq {1}
  <2>1. CASE registry = Empty
    BY <2>1, Blank
  <2>2. ASSUME NEW u \in Urls, NEW f \in {0, 1}, registry = [i \in {1} |-> Record(u, f, 0)]
        PROVE  registry \in Tables /\ DOMAIN registry \subseteq {1}
    <3> DEFINE r == Record(u, f, 0)
    <3>1. r \in Records /\ 1 \in Nat \ {0} /\ registry = [i \in {1} |-> r]
      BY <2>2, RegistryAssumption DEF Record, Records
    <3> HIDE DEF r
    <3>2. [i \in {1} |-> r] \in Tables
      BY <3>1, SingleIs
    <3> QED BY <3>1, <3>2
  <2> QED BY <1>1, <2>1, <2>2
<1>3. \A i \in DOMAIN registry : i = 1 /\ registry[i] \in Records /\ registry[i].url \in Urls
  BY <1>2, TableIs DEF Records
<1>4. /\ invocation \in Invocations /\ ~invocation.open
  BY <1>1 DEF NoTurn, Invocations
<1>5. \A u \in Urls : {registry[i] : i \in Numbers(registry, u)} \in SUBSET Records
  BY <1>3 DEF Numbers
<1>6. \A c \in 1..Parallel : calls[c] = Idle
  BY <1>1
<1>7. RegistryTypes
  <2>1. <<>> \in Seq({<<>>} \cup (Nat \X Records)) /\ <<>> \in Seq(Ledgers) /\ Len(<<>>) = 0
    OBVIOUS
  <2>2. 0 <= Cap /\ 0 \in 0..MaxTime
    BY RegistryAssumption
  <2>3. owed \in [Urls -> AtMostOne]
    BY <1>1, <1>5, BestIs
  <2>4. told \in SUBSET (Nat \X Urls)
    BY <1>1, <1>3
  <2>5. calls \in [1..Parallel -> Callings] /\ written \in Tables
    BY <1>1, Blank
  <2> QED BY <1>1, <1>2, <1>4, <2>1, <2>2, <2>3, <2>4, <2>5 DEF RegistryTypes
<1>8. NumbersEnd
  BY <1>1, <1>3, <1>6, Blank DEF NumbersEnd
<1>9. LedgerInv
  BY <1>1, <1>4 DEF LedgerInv, Places
<1>10. CallsInv
  BY <1>1, <1>6, Blank DEF CallsInv
<1>11. PairsInv
  <2>1. KnownPairs = Pairs(registry)
    BY <1>4 DEF KnownPairs
  <2>2. OneToOne(Pairs(registry))
    BY <1>3 DEF OneToOne, Pairs
  <2>3. Pairs(written) = {} /\ told \subseteq Pairs(registry)
    BY <1>1, Blank DEF Pairs
  <2> QED BY <1>6, <2>1, <2>2, <2>3, Blank DEF PairsInv
<1>12. BetterInv
  <2>1. ASSUME NEW u \in Urls, NEW o \in owed[u]
        PROVE  \E i \in Numbers(registry, u) : Better(registry[i], o)
    <3> DEFINE S == {registry[i] : i \in Numbers(registry, u)}
    <3>1. o \in Best(S) /\ S \in SUBSET Records
      BY <1>1, <1>5, <2>1
    <3>2. PICK i \in Numbers(registry, u) : TRUE
      <4>1. S # {}
        BY <3>1 DEF Best
      <4> QED BY <4>1
    <3>3. i = 1 /\ registry[i] \in Records /\ \A j \in Numbers(registry, u) : j = i
      BY <1>3, <3>2 DEF Numbers
    <3>4. \A r \in S : Better(registry[i], r)
      BY <3>3, BetterIs
    <3> HIDE DEF S
    <3>5. Better(registry[i], o)
      BY <3>1, <3>3, <3>4, BestIs
    <3> QED BY <3>2, <3>5
  <2> QED BY <1>1, <1>6, <2>1, Blank DEF BetterInv
<1> QED BY <1>7, <1>8, <1>9, <1>10, <1>11, <1>12 DEF RegistryInv

LEMMA RegistryStill == ASSUME RegistryInv, UNCHANGED registryVars PROVE RegistryInv'
<1>0. RegistryTypes /\ LedgerInv
  BY DEF RegistryInv
<1>1. RegistryTypes'
  BY <1>0 DEF RegistryTypes, registryVars
<1>2. LedgerInv' /\ KnownPairs' = KnownPairs
  BY <1>0, SameLedger, SameKnown DEF registryVars
<1> QED BY <1>1, <1>2, RegistryKept DEF registryVars

LEMMA RegistryStepInv == RegistryInv /\ [RegistryNext]_registryVars => RegistryInv'
<1> SUFFICES ASSUME RegistryInv, [RegistryNext]_registryVars PROVE RegistryInv'
  OBVIOUS
<1>1. CASE OpenTurn \/ CallTools \/ Respond \/ LoseResults
  BY <1>1, OpenTurnInv, CallToolsInv, RespondInv, LoseResultsInv
<1>2. ASSUME NEW c \in 1..Parallel,
             ReturnNothing(c) \/ \E u \in Urls, f \in {0, 1} : Register(c, u, f)
      PROVE  RegistryInv'
  BY <1>2, ReturnNothingInv, RegisterInv
<1>3. CASE SettleTurn \/ EndUnsettled \/ OtherTurn \/ Minute
  BY <1>3, SettleTurnInv, EndUnsettledInv, OtherTurnInv, MinuteInv
<1>4. CASE UNCHANGED registryVars
  BY <1>4, RegistryStill
<1> QED BY <1>1, <1>2, <1>3, <1>4 DEF RegistryNext

LEMMA RegistryInvariance == RegistrySpec => []RegistryInv
BY RegistryInitInv, RegistryStepInv, PTL DEF RegistrySpec

\* Types of the registry, of what the calls write and of what the stream carries.
THEOREM RegistryTypesHold == RegistrySpec => []RegistryTypeOK
<1>1. RegistryInv => RegistryTypeOK
  <2> SUFFICES ASSUME RegistryInv PROVE RegistryTypeOK
    OBVIOUS
  <2>0. RegistryTypes
    BY DEF RegistryInv
  <2>1. \A i \in DOMAIN registry : i \in Nat \ {0} /\ registry[i] \in Records
    BY <2>0, TableIs DEF RegistryTypes
  <2>2. \A i \in DOMAIN written : i \in Nat \ {0} /\ written[i] \in Records
    BY <2>0, TableIs DEF RegistryTypes
  <2>3. ASSUME NEW c \in 1..Parallel
        PROVE  /\ calls[c].st \in {"idle", "running", "done"} /\ calls[c].obs \in Records
               /\ calls[c].rec \in SUBSET Records /\ Cardinality(calls[c].rec) <= 1
    <3>1. calls[c] \in Callings
      BY <2>0 DEF RegistryTypes
    <3>2. calls[c].rec \in AtMostOne
      BY <3>1 DEF Callings
    <3>3. Cardinality(calls[c].rec) <= 1
      <4>1. CASE calls[c].rec = {}
        BY <4>1, FS_EmptySet
      <4>2. ASSUME NEW r \in Records, calls[c].rec = {r} PROVE Cardinality(calls[c].rec) <= 1
        BY <4>2, FS_Singleton
      <4> QED BY <3>2, <4>1, <4>2 DEF AtMostOne
    <3> QED BY <3>1, <3>2, <3>3 DEF Callings, AtMostOne
  <2>4. ASSUME NEW k \in 1..Len(observed), observed[k] # <<>> PROVE observed[k][2] \in Records
    <3>1. observed \in Seq(Observations)
      BY <2>0 DEF RegistryTypes, Observations
    <3>2. observed[k] \in Observations
      BY <3>1
    <3> QED BY <2>4, <3>2 DEF Observations
  <2> QED BY <2>0, <2>1, <2>2, <2>3, <2>4 DEF RegistryTypeOK, RegistryTypes
<1> QED BY <1>1, RegistryInvariance, PTL

\* Numbers and pages that were shown go together and stay in the registry.
THEOREM SourceNumbersHold == RegistrySpec => []NumbersHold
<1>1. RegistryInv => NumbersHold
  <2> SUFFICES ASSUME RegistryInv, ~invocation.crowded
               PROVE  /\ \A a, b \in told : (a[1] = b[1]) <=> (a[2] = b[2])
                      /\ \A a \in told : a[1] \in DOMAIN registry /\ registry[a[1]].url = a[2]
    BY DEF NumbersHold, NumbersAgree, ShownNumbersKept
  <2>1. PairsInv
    BY DEF RegistryInv
  <2>2. told \subseteq KnownPairs
    BY <2>1 DEF PairsInv, KnownPairs
  <2>3. \A a \in told : a[1] \in DOMAIN registry /\ registry[a[1]].url = a[2]
    BY <2>1 DEF PairsInv, Pairs
  <2> QED BY <2>1, <2>2, <2>3 DEF PairsInv, OneToOne
<1> QED BY <1>1, RegistryInvariance, PTL

\* What was settled of a page is not lost between turns.
THEOREM DetailKeptHolds == RegistrySpec => []DetailKept
<1>1. RegistryInv => DetailKept
  BY DEF RegistryInv, BetterInv, Better, DetailKept
<1> QED BY <1>1, RegistryInvariance, PTL

-----------------------------------------------------------------------------
(* A search of the web is finite, and what it waits for was begun. *)

\* Ranks are compared from their first part on, and there is no endless descent.
Smaller == OpToRel(<, Nat)
Below == LexProductOrdering(Smaller, Nat, 4)
Ranks == [1..4 -> Nat]

LEMMA BelowWellFounded == IsWellFoundedOn(Below, Ranks)
<1>1. IsWellFoundedOn(Smaller, Nat)
  BY NatLessThanWellFounded, Zenon DEF Smaller
<1> QED
  BY <1>1, WFLexProductOrdering, Zenon DEF Below, Ranks

\* A rank is lower when one part is and those before it are the same.
LEMMA LowerRank ==
  ASSUME NEW a \in Ranks, NEW b \in Ranks,
         \/ a[1] < b[1]
         \/ a[1] = b[1] /\ a[2] < b[2]
         \/ a[1] = b[1] /\ a[2] = b[2] /\ a[3] < b[3]
         \/ a[1] = b[1] /\ a[2] = b[2] /\ a[3] = b[3] /\ a[4] < b[4]
  PROVE  <<a, b>> \in Below
<1>1. \E j \in 1..4 : a[j] < b[j] /\ \A i \in 1..(j - 1) : a[i] = b[i]
  <2>1. CASE a[1] < b[1]
    BY <2>1
  <2>2. CASE a[1] = b[1] /\ a[2] < b[2]
    BY <2>2
  <2>3. CASE a[1] = b[1] /\ a[2] = b[2] /\ a[3] < b[3]
    BY <2>3
  <2>4. CASE a[1] = b[1] /\ a[2] = b[2] /\ a[3] = b[3] /\ a[4] < b[4]
    BY <2>4
  <2> QED
    BY <2>1, <2>2, <2>3, <2>4
<1>2. PICK j \in 1..4 : a[j] < b[j] /\ \A i \in 1..(j - 1) : a[i] = b[i]
  BY <1>1
<1>3. <<a[j], b[j]>> \in Smaller
  BY <1>2 DEF OpToRel, Smaller, Ranks
<1> QED
  BY <1>2, <1>3, Zenon DEF Below, LexProductOrdering, Ranks

\* How far the end of a search is: its turn, its backend and the ones after it,
\* what it does there, the attempts it has left.
TurnLeft(st) == CASE st = "idle" -> 2 [] st = "running" -> 1 [] OTHER -> 0
ChainLeft(r) ==
    IF r.pc = "none" THEN 4
    ELSE IF r.pc \notin Active THEN 0
    ELSE CASE r.at = "searchapi" -> 3 [] r.at = "grounding" -> 2 [] OTHER -> 1
PlaceLeft(pc) == CASE pc = "enter" -> 2 [] pc = "await" -> 1 [] OTHER -> 0
CallLeft(st, r) == <<TurnLeft(st), ChainLeft(r), PlaceLeft(r.pc), MaxAttempts - r.tries>>
CallRank(c) == CallLeft(turn[TurnOf[c]], call[c])

\* ... and the end of a prefetch.
TaskPlace(pc) == CASE pc = "none" -> 3 [] pc = "hint" -> 2 [] pc = "ask" -> 1 [] OTHER -> 0
TaskLeft(r) == <<0, 0, TaskPlace(r.pc), MaxAttempts - r.tries>>
TaskRank(k) == TaskLeft(prefetch[k])

CallLowers(c) == <<CallRank(c)', CallRank(c)>> \in Below
TaskLowers(k) == <<TaskRank(k)', TaskRank(k)>> \in Below
CallGoesOn(c) == CallRank(c)' = CallRank(c) \/ CallLowers(c)
TaskGoesOn(k) == TaskRank(k)' = TaskRank(k) \/ TaskLowers(k)

LEMMA SearchRecords ==
  SearchInv => /\ call \in [Calls -> CallSet] /\ prefetch \in [Prefetches -> PrefetchSet]
               /\ turn \in [Turns -> {"idle", "running", "over", "cancelled", "cut"}]
               /\ holder \in [Turns -> 0 .. MaxPrefetches]
               /\ cache \in [Messages -> 0 .. MaxPrefetches]
               /\ \A c \in Calls : call[c].tries < MaxAttempts
               /\ \A k \in Prefetches : prefetch[k].tries < MaxAttempts
BY DEF SearchInv, SearchTypeOK, TriesInv, CallSet, PrefetchSet

\* The attempts left are fewer when more were made.
LEMMA FewerLeft ==
  ASSUME NEW m \in Nat, NEW i \in Nat, NEW j \in Nat, i < j
  PROVE  m - j < m - i
OBVIOUS

LEMMA CallLeftType ==
  ASSUME NEW st, NEW r \in CallSet
  PROVE  /\ CallLeft(st, r) \in Ranks
         /\ CallLeft(st, r)[1] = TurnLeft(st) /\ CallLeft(st, r)[2] = ChainLeft(r)
         /\ CallLeft(st, r)[3] = PlaceLeft(r.pc) /\ CallLeft(st, r)[4] = MaxAttempts - r.tries
<1>1. TurnLeft(st) \in Nat /\ PlaceLeft(r.pc) \in Nat
  BY DEF TurnLeft, PlaceLeft
<1>2. ChainLeft(r) \in Nat
  BY DEF ChainLeft
<1>3. MaxAttempts - r.tries \in Nat
  BY ConstantsAssumption DEF CallSet
<1> QED
  BY <1>1, <1>2, <1>3 DEF CallLeft, Ranks

LEMMA TaskLeftType ==
  ASSUME NEW r \in PrefetchSet
  PROVE  /\ TaskLeft(r) \in Ranks
         /\ TaskLeft(r)[1] = 0 /\ TaskLeft(r)[2] = 0
         /\ TaskLeft(r)[3] = TaskPlace(r.pc) /\ TaskLeft(r)[4] = MaxAttempts - r.tries
<1>1. TaskPlace(r.pc) \in Nat
  BY DEF TaskPlace
<1>2. MaxAttempts - r.tries \in Nat
  BY ConstantsAssumption DEF PrefetchSet
<1> QED
  BY <1>1, <1>2 DEF TaskLeft, Ranks

\* When a step lowers the rank of a search ...
LEMMA CallLowersWhen ==
  ASSUME SearchInv, SearchInv', NEW c \in Calls,
         LET t == TurnOf[c]
         IN  \/ TurnLeft(turn'[t]) < TurnLeft(turn[t])
             \/ turn'[t] = turn[t] /\ ChainLeft(call'[c]) < ChainLeft(call[c])
             \/ /\ turn'[t] = turn[t] /\ ChainLeft(call'[c]) = ChainLeft(call[c])
                /\ PlaceLeft(call'[c].pc) < PlaceLeft(call[c].pc)
             \/ /\ turn'[t] = turn[t] /\ ChainLeft(call'[c]) = ChainLeft(call[c])
                /\ call'[c].pc = call[c].pc
                /\ call[c].tries < call'[c].tries
  PROVE  CallLowers(c)
<1> DEFINE t == TurnOf[c]
           a == CallLeft(turn'[t], call'[c])
           b == CallLeft(turn[t], call[c])
<1>1. call[c] \in CallSet /\ call'[c] \in CallSet
  BY DEF SearchInv, SearchTypeOK, CallSet
<1>2. call[c].tries < call'[c].tries => MaxAttempts - call'[c].tries < MaxAttempts - call[c].tries
  <2>1. call[c].tries \in Nat /\ call'[c].tries \in Nat /\ MaxAttempts \in Nat
    BY <1>1, ConstantsAssumption DEF CallSet
  <2> QED
    BY <2>1, FewerLeft
<1>3. /\ a \in Ranks /\ b \in Ranks
      /\ a[1] = TurnLeft(turn'[t]) /\ b[1] = TurnLeft(turn[t])
      /\ a[2] = ChainLeft(call'[c]) /\ b[2] = ChainLeft(call[c])
      /\ a[3] = PlaceLeft(call'[c].pc) /\ b[3] = PlaceLeft(call[c].pc)
      /\ a[4] = MaxAttempts - call'[c].tries /\ b[4] = MaxAttempts - call[c].tries
  BY <1>1, CallLeftType
<1> HIDE DEF a, b
<1>4. <<a, b>> \in Below
  BY <1>2, <1>3, LowerRank DEF t
<1> QED
  BY <1>4 DEF CallLowers, CallRank, a, b, t

\* ... and when it does not change it.
LEMMA CallStays ==
  ASSUME SearchInv, NEW c \in Calls, turn'[TurnOf[c]] = turn[TurnOf[c]], Now(c, call[c])
  PROVE  CallRank(c)' = CallRank(c)
<1>1. call[c] \in CallSet
  BY SearchRecords
<1>2. /\ call'[c].pc = call[c].pc /\ call'[c].at = call[c].at /\ call'[c].tries = call[c].tries
  BY <1>1 DEF Now, CallSet
<1> QED
  BY <1>2 DEF CallRank, CallLeft, ChainLeft

LEMMA TaskLowersWhen ==
  ASSUME SearchInv, SearchInv', NEW k \in Prefetches,
         \/ TaskPlace(prefetch'[k].pc) < TaskPlace(prefetch[k].pc)
         \/ /\ prefetch'[k].pc = prefetch[k].pc
            /\ prefetch[k].tries < prefetch'[k].tries
  PROVE  TaskLowers(k)
<1> DEFINE a == TaskLeft(prefetch'[k])
           b == TaskLeft(prefetch[k])
<1>1. prefetch[k] \in PrefetchSet /\ prefetch'[k] \in PrefetchSet
  BY DEF SearchInv, SearchTypeOK, PrefetchSet
<1>2. prefetch[k].tries < prefetch'[k].tries
        => MaxAttempts - prefetch'[k].tries < MaxAttempts - prefetch[k].tries
  <2>1. prefetch[k].tries \in Nat /\ prefetch'[k].tries \in Nat /\ MaxAttempts \in Nat
    BY <1>1, ConstantsAssumption DEF PrefetchSet
  <2> QED
    BY <2>1, FewerLeft
<1>3. /\ a \in Ranks /\ b \in Ranks
      /\ a[1] = 0 /\ b[1] = 0 /\ a[2] = 0 /\ b[2] = 0
      /\ a[3] = TaskPlace(prefetch'[k].pc) /\ b[3] = TaskPlace(prefetch[k].pc)
      /\ a[4] = MaxAttempts - prefetch'[k].tries /\ b[4] = MaxAttempts - prefetch[k].tries
  BY <1>1, TaskLeftType
<1> HIDE DEF a, b
<1>4. <<a, b>> \in Below
  BY <1>2, <1>3, LowerRank
<1> QED
  BY <1>4 DEF TaskLowers, TaskRank, a, b

LEMMA TaskStays ==
  ASSUME NEW k \in Prefetches, prefetch'[k].pc = prefetch[k].pc,
         prefetch'[k].tries = prefetch[k].tries
  PROVE  TaskRank(k)' = TaskRank(k)
BY DEF TaskRank, TaskLeft

-----------------------------------------------------------------------------

\* A call whose backend has failed goes to one that comes after it, or is over.
LEMMA FailedGoesOn ==
  ASSUME SearchInv, NEW c \in Calls, call[c].pc \in Active
  PROVE  \E r \in CallSet : /\ Failed(c) = [call EXCEPT ![c] = r]
                            /\ ChainLeft(r) < ChainLeft(call[c])
<1> DEFINE b == call[c].at
           domains == call[c].domains
           next == NextBackend(b, domains)
           r == IF next = "" THEN Over("error")
                ELSE [call[c] EXCEPT !.failed = @ \cup {b}, !.tries = 0, !.old = FALSE,
                                     !.pc = "enter", !.task = 0, !.at = next]
<1>1. call[c] \in CallSet /\ b \in Backends
  BY SearchRecords DEF CallSet
<1>2. Failed(c) = [call EXCEPT ![c] = r]
  BY <1>1 DEF Failed, CallSet
<1>3. /\ b = "searchapi" => next \in {"grounding", "perplexity", ""}
      /\ b = "grounding" => next \in {"perplexity", ""}
      /\ b = "perplexity" => next = ""
  <2>1. CASE b = "searchapi"
    BY <2>1 DEF NextBackend
  <2>2. CASE b = "grounding"
    <3>1. Able(b, domains) \subseteq {"perplexity"}
      BY <2>2 DEF Able, Follows
    <3> QED
      BY <2>2, <3>1 DEF NextBackend
  <2>3. CASE b = "perplexity"
    <3>1. Able(b, domains) = {}
      BY <2>3 DEF Able, Follows
    <3> QED
      BY <2>3, <3>1 DEF NextBackend
  <2> QED
    BY <1>1, <2>1, <2>2, <2>3 DEF Backends
<1>4. r \in CallSet /\ ChainLeft(r) < ChainLeft(call[c])
  <2> HIDE DEF next
  <2>1. CASE next = ""
    <3>1. r = Over("error") /\ r \in CallSet /\ r.pc = "error"
      BY <2>1, BlankRecords
    <3> HIDE DEF r
    <3>2. ChainLeft(r) = 0
      BY <3>1 DEF ChainLeft, Active
    <3>3. ChainLeft(call[c]) \in {1, 2, 3}
      BY <1>1 DEF ChainLeft, Active
    <3> QED
      BY <3>1, <3>2, <3>3
  <2>2. CASE next # ""
    <3>1. next \in Backends
      BY <1>1, <1>3, <2>2 DEF Backends
    <3>2. r \in CallSet /\ r.pc = "enter" /\ r.at = next
      <4>1. 0 \in 0 .. MaxAttempts /\ 0 \in 0 .. MaxPrefetches
        BY ConstantsAssumption
      <4> QED
        BY <1>1, <2>2, <3>1, <4>1 DEF CallSet, Active
    <3> HIDE DEF r
    <3>3. call[c].pc # "none" /\ r.pc # "none" /\ r.pc \in Active
      BY <3>2 DEF Active
    <3> HIDE DEF b
    <3>4. CASE b = "searchapi"
      <4>1. ChainLeft(call[c]) = 3
        BY <3>3, <3>4 DEF ChainLeft, b
      <4>2. ChainLeft(r) \in {1, 2}
        BY <1>3, <2>2, <3>2, <3>3, <3>4 DEF ChainLeft
      <4> QED
        BY <3>2, <4>1, <4>2
    <3>5. CASE b = "grounding"
      <4>1. ChainLeft(call[c]) = 2
        BY <3>3, <3>5 DEF ChainLeft, b
      <4>2. ChainLeft(r) = 1
        BY <1>3, <2>2, <3>2, <3>3, <3>5 DEF ChainLeft
      <4> QED
        BY <3>2, <4>1, <4>2
    <3> QED
      BY <1>1, <1>3, <2>2, <3>4, <3>5 DEF Backends
  <2> QED
    BY <2>1, <2>2
<1> HIDE DEF r
<1> QED
  BY <1>2, <1>4

\* One call lowers its rank, all else stays.
OneCallLowers(c) ==
    /\ CallLowers(c)
    /\ \A d \in Calls : CallGoesOn(d)
    /\ \A k \in Prefetches : TaskGoesOn(k)

LEMMA CallMade ==
  ASSUME SearchInv, SearchInv', NEW c \in Calls, NEW r \in CallSet, turn' = turn,
         call' = [call EXCEPT ![c] = r], prefetch' = prefetch,
         \/ ChainLeft(r) < ChainLeft(call[c])
         \/ ChainLeft(r) = ChainLeft(call[c]) /\ PlaceLeft(r.pc) < PlaceLeft(call[c].pc)
         \/ ChainLeft(r) = ChainLeft(call[c]) /\ r.pc = call[c].pc /\ call[c].tries < r.tries
  PROVE  OneCallLowers(c)
<1>1. call'[c] = r /\ \A d \in Calls : d # c => call'[d] = call[d]
  BY SearchRecords
<1>2. CallLowers(c)
  BY <1>1, CallLowersWhen
<1>3. \A d \in Calls : d # c => CallRank(d)' = CallRank(d)
  BY <1>1, CallStays DEF Now
<1>4. \A k \in Prefetches : TaskRank(k)' = TaskRank(k)
  BY TaskStays
<1> QED
  BY <1>2, <1>3, <1>4 DEF OneCallLowers, CallGoesOn, TaskGoesOn

LEMMA EnterLowers ==
  ASSUME SearchInv, SearchInv', NEW c \in Calls, Enter(c) PROVE OneCallLowers(c)
<1> DEFINE t == TurnOf[c]
           prefetched == call[c].at = "grounding" /\ holder[t] # 0
<1>1. call[c].pc = "enter" /\ turn' = turn /\ prefetch' = prefetch /\ call[c] \in CallSet
  BY SearchRecords DEF Enter
<1>2. CASE call' = Failed(c)
  <2>1. PICK r \in CallSet : Failed(c) = [call EXCEPT ![c] = r] /\ ChainLeft(r) < ChainLeft(call[c])
    BY <1>1, FailedGoesOn DEF Active
  <2> QED
    BY <1>1, <1>2, <2>1, CallMade
<1>3. ASSUME NEW r \in CallSet, call' = [call EXCEPT ![c] = r], r.pc \in {"await", "ask"},
             r.at = call[c].at
      PROVE  OneCallLowers(c)
  <2>1. ChainLeft(r) = ChainLeft(call[c])
    BY <1>1, <1>3 DEF ChainLeft, Active
  <2>2. PlaceLeft(r.pc) < PlaceLeft(call[c].pc)
    BY <1>1, <1>3 DEF PlaceLeft
  <2> QED
    BY <1>1, <1>3, <2>1, <2>2, CallMade
<1>4. CASE call' = [call EXCEPT ![c].pc = "await", ![c].task = holder[t]] /\ prefetched
  <2> DEFINE r == [call[c] EXCEPT !.pc = "await", !.task = holder[t]]
  <2>1. call' = [call EXCEPT ![c] = r]
    BY <1>4, SearchRecords
  <2>2. holder[t] \in 0 .. MaxPrefetches
    BY SearchRecords, CallTurns
  <2>3. r \in CallSet /\ r.pc = "await" /\ r.at = call[c].at
    BY <1>1, <2>2 DEF CallSet, Active
  <2> HIDE DEF r
  <2> QED
    BY <1>3, <2>1, <2>3
<1>5. CASE call' = [call EXCEPT ![c].pc = "ask"]
  <2> DEFINE r == [call[c] EXCEPT !.pc = "ask"]
  <2>1. call' = [call EXCEPT ![c] = r]
    BY <1>5, SearchRecords
  <2>2. r \in CallSet /\ r.pc = "ask" /\ r.at = call[c].at
    BY <1>1 DEF CallSet, Active
  <2> HIDE DEF r
  <2> QED
    BY <1>3, <2>1, <2>2
<1> QED
  BY <1>2, <1>4, <1>5 DEF Enter

\* A turn ends: its searches are over, the others stay; the prefetches stay or stop.
LEMMA TurnEndsLower ==
  ASSUME SearchInv, SearchInv', NEW t \in Turns, NEW pc \in {"over", "cancelled", "cut"},
         turn[t] = "running", turn' = [turn EXCEPT ![t] = pc], Forgotten(t)
  PROVE  /\ \A d \in Calls : CallGoesOn(d)
         /\ \A d \in CallsOf(t) : CallLowers(d)
<1>1. turn'[t] = pc /\ \A u \in Turns : u # t => turn'[u] = turn[u]
  BY SearchRecords
<1>2. ASSUME NEW d \in CallsOf(t) PROVE CallLowers(d)
  <2>1. d \in Calls /\ TurnOf[d] = t
    BY DEF CallsOf
  <2>2. TurnLeft(pc) = 0 /\ TurnLeft("running") = 1
    BY DEF TurnLeft
  <2> QED
    BY <1>1, <2>1, <2>2, CallLowersWhen
<1>3. ASSUME NEW d \in Calls, d \notin CallsOf(t) PROVE CallRank(d)' = CallRank(d)
  <2>1. TurnOf[d] # t /\ TurnOf[d] \in Turns /\ call'[d] = call[d]
    BY <1>3, CallTurns DEF CallsOf, Forgotten
  <2> QED
    BY <1>1, <2>1, CallStays DEF Now
<1> QED
  BY <1>2, <1>3 DEF CallGoesOn

\* What a turn's calls awaited stops with them.
LEMMA StoppedLowers ==
  ASSUME SearchInv, SearchInv', NEW t \in Turns, Stopped(t)
  PROVE  \A k \in Prefetches : TaskGoesOn(k)
<1> SUFFICES ASSUME NEW k \in Prefetches PROVE TaskGoesOn(k)
  OBVIOUS
<1>1. CASE prefetch'[k] = prefetch[k]
  BY <1>1, TaskStays DEF TaskGoesOn
<1>2. CASE prefetch'[k] # prefetch[k]
  <2>1. /\ prefetch[k].pc \in {"hint", "ask"}
        /\ prefetch'[k] = [NoPrefetch EXCEPT !.pc = "cancelled"]
    BY <1>2 DEF Stopped
  <2>2. prefetch'[k].pc = "cancelled"
    BY <2>1 DEF NoPrefetch
  <2>3. TaskPlace(prefetch'[k].pc) < TaskPlace(prefetch[k].pc)
    BY <2>1, <2>2 DEF TaskPlace
  <2> QED
    BY <2>3, TaskLowersWhen DEF TaskGoesOn
<1> QED
  BY <1>1, <1>2

LEMMA PrefetchedLowers ==
  ASSUME SearchInv, SearchInv', NEW c \in Calls, Prefetched(c) PROVE OneCallLowers(c)
<1> DEFINE t == TurnOf[c]
           pc == prefetch[call[c].task].pc
<1>1. call[c].pc = "await" /\ call[c] \in CallSet /\ call[c].at \in Backends
  BY SearchRecords DEF Prefetched, CallSet
<1>2. turn[t] = "running" /\ t \in Turns
  BY <1>1, Running
<1>3. CASE pc = "ready"
  <2>1. /\ call' = [call EXCEPT ![c] = Over("served")] /\ turn' = turn /\ prefetch' = prefetch
    BY <1>3 DEF Prefetched
  <2>2. Over("served") \in CallSet /\ Over("served").pc = "served"
    BY BlankRecords
  <2>4. ChainLeft(Over("served")) = 0
    BY <2>2 DEF ChainLeft, Active
  <2>5. ChainLeft(call[c]) \in {1, 2, 3}
    BY <1>1 DEF ChainLeft, Active
  <2>3. ChainLeft(Over("served")) < ChainLeft(call[c])
    BY <2>4, <2>5
  <2> QED
    BY <2>1, <2>2, <2>3, CallMade
<1>4. CASE pc \in {"empty", "failed"} /\ Exhausted("grounding")
  <2>1. call' = Failed(c) /\ turn' = turn /\ prefetch' = prefetch
    BY <1>4 DEF Prefetched
  <2>2. PICK r \in CallSet : Failed(c) = [call EXCEPT ![c] = r] /\ ChainLeft(r) < ChainLeft(call[c])
    BY <1>1, FailedGoesOn DEF Active
  <2> QED
    BY <2>1, <2>2, CallMade
<1>5. CASE pc \in {"empty", "failed"} /\ ~Exhausted("grounding")
  <2> DEFINE r == [call[c] EXCEPT !.pc = "ask", !.task = 0]
  <2>1. call' = [call EXCEPT ![c] = r] /\ turn' = turn /\ prefetch' = prefetch
    BY <1>5, SearchRecords DEF Prefetched
  <2>2. r \in CallSet /\ r.pc = "ask" /\ r.at = call[c].at
    <3>1. 0 \in 0 .. MaxPrefetches
      BY ConstantsAssumption
    <3> QED BY <1>1, <3>1 DEF CallSet, Active
  <2> HIDE DEF r
  <2>3. ChainLeft(r) = ChainLeft(call[c])
    BY <1>1, <2>2 DEF ChainLeft, Active
  <2>4. PlaceLeft(r.pc) < PlaceLeft(call[c].pc)
    BY <1>1, <2>2 DEF PlaceLeft
  <2> QED
    BY <2>1, <2>2, <2>3, <2>4, CallMade
<1>6. CASE pc = "cancelled"
  <2>1. Stopped(t) /\ Forgotten(t) /\ turn' = [turn EXCEPT ![t] = "cut"]
    BY <1>6 DEF Prefetched, Stopped
  <2>2. c \in CallsOf(t)
    BY DEF CallsOf
  <2> QED
    BY <1>2, <2>1, <2>2, TurnEndsLower, StoppedLowers DEF OneCallLowers
<1> QED
  BY <1>3, <1>4, <1>5, <1>6 DEF Prefetched

\* A backend without quota: the other requests at it are marked, no more.
LEMMA MarkLowers ==
  ASSUME SearchInv, SearchInv', NEW c \in Calls, call[c].pc = "ask", turn' = turn,
         NEW b \in Metered, Mark(b, prefetch, Failed(c))
  PROVE  OneCallLowers(c)
<1>1. call \in [Calls -> CallSet] /\ prefetch \in [Prefetches -> PrefetchSet]
  BY SearchRecords
<1>2. PICK r \in CallSet : Failed(c) = [call EXCEPT ![c] = r] /\ ChainLeft(r) < ChainLeft(call[c])
  BY FailedGoesOn DEF Active
<1>3. PICK s \in CallSet : /\ Failed(c) = [call EXCEPT ![c] = s]
                           /\ s.pc \in {"enter", "error"}
  BY FailedCall DEF Active
<1>4. r.pc # "ask"
  <2>1. Failed(c)[c] = r /\ Failed(c)[c] = s
    BY <1>1, <1>2, <1>3
  <2> QED
    BY <1>3, <2>1
<1>5. /\ Failed(c) \in [Calls -> CallSet] /\ Failed(c)[c] = r
      /\ \A d \in Calls : d # c => Failed(c)[d] = call[d]
  BY <1>1, <1>2
<1>6. \A d \in Calls : Failed(c)[d].pc = "ask" /\ Exhausted(Failed(c)[d].at) => Failed(c)[d].old
  BY <1>4, <1>5 DEF OldInv, SearchInv
<1>7. \A k \in Prefetches : prefetch[k].pc = "ask" /\ mark["grounding"] = "live" => prefetch[k].old
  BY DEF OldInv, SearchInv
<1>8. /\ \A k \in Prefetches : prefetch'[k].pc = prefetch[k].pc
                              /\ prefetch'[k].tries = prefetch[k].tries
      /\ \A d \in Calls : Now(d, Failed(c)[d])
  BY <1>1, <1>5, <1>6, <1>7, MarkCalls
<1>9. call'[c].pc = r.pc /\ call'[c].at = r.at
  BY <1>5, <1>8 DEF Now, CallSet
<1>10. ChainLeft(call'[c]) < ChainLeft(call[c])
  BY <1>2, <1>9 DEF ChainLeft
<1>11. CallLowers(c)
  BY <1>10, CallLowersWhen
<1>12. \A d \in Calls : d # c => CallRank(d)' = CallRank(d)
  BY <1>5, <1>8, CallStays
<1>13. \A k \in Prefetches : TaskRank(k)' = TaskRank(k)
  BY <1>8, TaskStays
<1> QED
  BY <1>11, <1>12, <1>13 DEF OneCallLowers, CallGoesOn, TaskGoesOn

LEMMA BackendAnswersLowers ==
  ASSUME SearchInv, SearchInv', NEW c \in Calls, BackendAnswers(c) PROVE OneCallLowers(c)
<1>1. call[c].pc = "ask" /\ turn' = turn /\ call[c] \in CallSet /\ call \in [Calls -> CallSet]
  BY SearchRecords DEF BackendAnswers
<1>2. CASE call' = [call EXCEPT ![c] = Over("ok")] /\ prefetch' = prefetch
  <2>1. Over("ok") \in CallSet /\ Over("ok").pc = "ok"
    BY BlankRecords
  <2>2. ChainLeft(Over("ok")) = 0
    BY <2>1 DEF ChainLeft, Active
  <2>3. ChainLeft(call[c]) \in {1, 2, 3}
    BY <1>1 DEF ChainLeft, Active
  <2>4. ChainLeft(Over("ok")) < ChainLeft(call[c])
    BY <2>2, <2>3
  <2> QED
    BY <1>1, <1>2, <2>1, <2>4, CallMade
<1>3. CASE call' = Failed(c) /\ prefetch' = prefetch
  <2>1. PICK r \in CallSet : Failed(c) = [call EXCEPT ![c] = r] /\ ChainLeft(r) < ChainLeft(call[c])
    BY <1>1, FailedGoesOn DEF Active
  <2> QED
    BY <1>1, <1>3, <2>1, CallMade
<1>4. CASE /\ call' = [call EXCEPT ![c].tries = @ + 1] /\ prefetch' = prefetch
  <2> DEFINE r == [call[c] EXCEPT !.tries = @ + 1]
  <2>1. call' = [call EXCEPT ![c] = r]
    BY <1>1, <1>4
  <2>2. call'[c] = r
    BY <1>1, <2>1
  <2>3. r \in CallSet
    <3>1. call'[c] \in CallSet
      BY DEF SearchInv, SearchTypeOK, CallSet
    <3> QED
      BY <2>2, <3>1
  <2>4. r.pc = call[c].pc /\ r.at = call[c].at /\ call[c].tries < r.tries
    BY <1>1, ConstantsAssumption DEF CallSet
  <2> HIDE DEF r
  <2>5. ChainLeft(r) = ChainLeft(call[c])
    BY <2>4 DEF ChainLeft
  <2> QED
    BY <1>1, <1>4, <2>1, <2>3, <2>4, <2>5, CallMade
<1>5. CASE call[c].at \in Metered /\ Mark(call[c].at, prefetch, Failed(c))
  BY <1>1, <1>5, MarkLowers
<1> QED
  BY <1>2, <1>3, <1>4, <1>5 DEF BackendAnswers

LEMMA BeginLowers ==
  ASSUME SearchInv, SearchInv', NEW c \in Calls, NEW request \in Requests,
         Begin(c, request[1], request[2])
  PROVE  OneCallLowers(c)
<1> DEFINE r == [NoCall EXCEPT !.pc = "enter", !.domains = request[2],
                               !.at = FirstBackend(request[1], request[2])]
<1>1. /\ call[c].pc = "none" /\ turn' = turn /\ prefetch' = prefetch
      /\ call' = [call EXCEPT ![c] = r]
  BY DEF Begin
<1>2. call'[c] = r /\ call'[c] \in CallSet
  <2>1. call'[c] = r
    BY <1>1, SearchRecords
  <2> QED
    BY <2>1 DEF SearchInv, SearchTypeOK, CallSet
<1>3. r.pc = "enter"
  BY DEF NoCall
<1> HIDE DEF r
<1>4. ChainLeft(call[c]) = 4
  BY <1>1 DEF ChainLeft
<1>5. ChainLeft(r) \in {1, 2, 3}
  BY <1>3 DEF ChainLeft, Active
<1>6. ChainLeft(r) < ChainLeft(call[c])
  BY <1>4, <1>5
<1> QED
  BY <1>1, <1>2, <1>6, CallMade

\* One prefetch lowers its rank, all else stays.
OneTaskLowers(k) ==
    /\ TaskLowers(k)
    /\ \A l \in Prefetches : TaskGoesOn(l)
    /\ \A c \in Calls : CallGoesOn(c)

LEMMA TaskMadeLowers ==
  ASSUME SearchInv, SearchInv', NEW k \in Prefetches, turn' = turn, call' = call,
         NEW r, prefetch' = [prefetch EXCEPT ![k] = r],
         \/ TaskPlace(r.pc) < TaskPlace(prefetch[k].pc)
         \/ r.pc = prefetch[k].pc /\ prefetch[k].tries < r.tries
  PROVE  OneTaskLowers(k)
<1>1. prefetch'[k] = r /\ \A l \in Prefetches : l # k => prefetch'[l] = prefetch[l]
  BY SearchRecords
<1>2. TaskLowers(k)
  BY <1>1, TaskLowersWhen
<1>3. \A l \in Prefetches : l # k => TaskRank(l)' = TaskRank(l)
  BY <1>1, TaskStays
<1>4. \A c \in Calls : CallRank(c)' = CallRank(c)
  BY CallStays DEF Now
<1> QED
  BY <1>2, <1>3, <1>4 DEF OneTaskLowers, CallGoesOn, TaskGoesOn

LEMMA HintLowers ==
  ASSUME SearchInv, SearchInv', NEW k \in Prefetches, Hint(k) PROVE OneTaskLowers(k)
<1>1. PICK pc \in {"empty", "failed", IF Exhausted("grounding") THEN "failed" ELSE "ask"} :
        prefetch' = [prefetch EXCEPT ![k].pc = pc]
  BY DEF Hint
<1> DEFINE r == [prefetch[k] EXCEPT !.pc = pc]
<1>2. prefetch' = [prefetch EXCEPT ![k] = r] /\ r.pc = pc
  BY <1>1, SearchRecords DEF PrefetchSet
<1>3. TaskPlace(pc) \in {0, 1} /\ TaskPlace(prefetch[k].pc) = 2
  BY <1>1 DEF TaskPlace, Hint
<1> HIDE DEF r
<1>4. TaskPlace(r.pc) < TaskPlace(prefetch[k].pc)
  BY <1>2, <1>3
<1> QED
  BY <1>2, <1>4, TaskMadeLowers DEF Hint

LEMMA PrefetchAnswersLowers ==
  ASSUME SearchInv, SearchInv', NEW k \in Prefetches, PrefetchAnswers(k) PROVE OneTaskLowers(k)
<1> DEFINE end(pc) == [NoPrefetch EXCEPT !.pc = pc]
<1>1. /\ prefetch[k].pc = "ask" /\ turn' = turn
      /\ call \in [Calls -> CallSet] /\ prefetch \in [Prefetches -> PrefetchSet]
  BY SearchRecords DEF PrefetchAnswers
<1>2. \A pc \in {"ready", "empty", "failed"} :
         end(pc) \in PrefetchSet /\ end(pc).pc = pc /\ TaskPlace(pc) < TaskPlace(prefetch[k].pc)
  <2>1. TaskPlace(prefetch[k].pc) = 1
    BY <1>1 DEF TaskPlace
  <2>2. \A pc \in {"ready", "empty", "failed"} : TaskPlace(pc) = 0
    BY DEF TaskPlace
  <2>3. \A pc \in {"ready", "empty", "failed"} : end(pc) \in PrefetchSet /\ end(pc).pc = pc
    BY BlankRecords DEF NoPrefetch
  <2> QED
    BY <2>1, <2>2, <2>3
<1> HIDE DEF end
<1>3. CASE \E pc \in {"ready", "empty", "failed"} :
             prefetch' = [prefetch EXCEPT ![k] = end(pc)] /\ call' = call
  BY <1>1, <1>2, <1>3, TaskMadeLowers
<1>4. CASE prefetch' = [prefetch EXCEPT ![k].tries = @ + 1] /\ call' = call
  <2> DEFINE r == [prefetch[k] EXCEPT !.tries = @ + 1]
  <2>1. prefetch' = [prefetch EXCEPT ![k] = r]
    BY <1>1, <1>4
  <2>2. r.pc = prefetch[k].pc /\ prefetch[k].tries < r.tries
    BY <1>1, ConstantsAssumption DEF PrefetchSet
  <2> HIDE DEF r
  <2> QED
    BY <1>1, <1>4, <2>1, <2>2, TaskMadeLowers
<1>5. CASE Mark("grounding", [prefetch EXCEPT ![k] = end("failed")], call)
  <2> DEFINE tasks == [prefetch EXCEPT ![k] = end("failed")]
  <2>1. /\ tasks \in [Prefetches -> PrefetchSet] /\ tasks[k] = end("failed")
        /\ \A l \in Prefetches : l # k => tasks[l] = prefetch[l]
    BY <1>1, <1>2
  <2> HIDE DEF tasks
  <2>2. \A l \in Prefetches : tasks[l].pc = "ask" /\ mark["grounding"] = "live" => tasks[l].old
    BY <1>2, <2>1 DEF OldInv, SearchInv
  <2>3. \A c \in Calls : call[c].pc = "ask" /\ Exhausted(call[c].at) => call[c].old
    BY DEF OldInv, SearchInv
  <2>4. Mark("grounding", tasks, call) /\ "grounding" \in Metered
    BY <1>5 DEF tasks, Metered
  <2>5. /\ \A l \in Prefetches : prefetch'[l].pc = tasks[l].pc /\ prefetch'[l].tries = tasks[l].tries
        /\ \A c \in Calls : Now(c, call[c])
    BY <1>1, <2>1, <2>2, <2>3, <2>4, MarkCalls
  <2>6. TaskPlace(prefetch'[k].pc) < TaskPlace(prefetch[k].pc)
    BY <1>2, <2>1, <2>5
  <2>7. TaskLowers(k)
    BY <2>6, TaskLowersWhen
  <2>8. \A l \in Prefetches : l # k => TaskRank(l)' = TaskRank(l)
    BY <2>1, <2>5, TaskStays
  <2>9. \A c \in Calls : CallRank(c)' = CallRank(c)
    BY <1>1, <2>5, CallStays
  <2> QED
    BY <2>7, <2>8, <2>9 DEF OneTaskLowers, CallGoesOn, TaskGoesOn
<1> QED
  BY <1>3, <1>4, <1>5 DEF PrefetchAnswers, end

\* A turn that begins, with a prefetch of its own or a shared one.
LEMMA StartTurnLowers ==
  ASSUME SearchInv, SearchInv', NEW t \in Turns, NEW fresh \in BOOLEAN, StartTurn(t, fresh)
  PROVE  (\A d \in Calls : CallGoesOn(d)) /\ \A k \in Prefetches : TaskGoesOn(k)
<1> DEFINE k == CHOOSE k \in Unused : \A l \in Unused : k <= l
<1>1. /\ turn[t] = "idle" /\ call' = call
      /\ turn'[t] = "running" /\ \A u \in Turns : u # t => turn'[u] = turn[u]
  BY SearchRecords DEF StartTurn
<1>2. ASSUME NEW d \in Calls PROVE CallGoesOn(d)
  <2>1. CASE TurnOf[d] = t
    <3>1. TurnLeft("running") = 1 /\ TurnLeft("idle") = 2
      BY DEF TurnLeft
    <3> QED
      BY <1>1, <2>1, <3>1, CallLowersWhen DEF CallGoesOn
  <2>2. CASE TurnOf[d] # t
    BY <1>1, <2>2, CallTurns, CallStays DEF CallGoesOn, Now
  <2> QED
    BY <2>1, <2>2
<1>3. ASSUME NEW l \in Prefetches PROVE TaskGoesOn(l)
  <2>1. CASE prefetch'[l] = prefetch[l]
    BY <2>1, TaskStays DEF TaskGoesOn
  <2>2. CASE prefetch'[l] # prefetch[l]
    <3>1. Unused # {} /\ prefetch' = [prefetch EXCEPT ![k].pc = "hint"]
      BY <2>2 DEF StartTurn
    <3>2. k \in Unused
      <4>1. Unused \in SUBSET Prefetches
        BY DEF Unused
      <4> HIDE DEF Unused
      <4>2. \E i \in Unused : \A j \in Unused : i <= j
        BY <3>1, <4>1, LeastTask
      <4> QED BY <4>2
    <3> HIDE DEF k
    <3>3. prefetch[k].pc = "none" /\ k \in Prefetches
      BY <3>2 DEF Unused
    <3>4. l = k /\ prefetch'[l].pc = "hint"
      BY <2>2, <3>1, <3>3, SearchRecords DEF PrefetchSet
    <3>5. TaskPlace("hint") = 2 /\ TaskPlace("none") = 3
      BY DEF TaskPlace
    <3> QED
      BY <3>3, <3>4, <3>5, TaskLowersWhen DEF TaskGoesOn
  <2> QED
    BY <2>1, <2>2
<1> QED
  BY <1>2, <1>3

LEMMA TurnStepLowers ==
  ASSUME SearchInv, SearchInv', NEW t \in Turns, TurnStep(t)
  PROVE  (\A d \in Calls : CallGoesOn(d)) /\ \A k \in Prefetches : TaskGoesOn(k)
<1>1. CASE EndTurn(t)
  <2>1. \A d \in Calls : CallGoesOn(d)
    BY <1>1, TurnEndsLower DEF EndTurn
  <2>2. \A k \in Prefetches : TaskGoesOn(k)
    BY <1>1, TaskStays DEF EndTurn, TaskGoesOn
  <2> QED
    BY <2>1, <2>2
<1>2. CASE CancelTurn(t)
  BY <1>2, TurnEndsLower, StoppedLowers DEF CancelTurn, Stopped
<1> QED
  BY <1>1, <1>2, StartTurnLowers DEF TurnStep

SearchesDescend ==
    [][/\ \A c \in Calls : CallGoesOn(c) /\ (CallStep(c) => CallLowers(c))
       /\ \A k \in Prefetches :
            TaskGoesOn(k) /\ (Hint(k) \/ PrefetchAnswers(k) => TaskLowers(k))]_searchVars

\* A search has finitely many steps, and so has a prefetch, however many turns,
\* calls and attempts there are: no step raises the rank of one, whoever takes
\* it, and each step of its own lowers it.  A backend that failed is not asked
\* again, nor is the prefetch waited for twice (_BACKEND_CHAIN as web_search goes
\* through it, and the pop of _take_turn_prefetch).
THEOREM SearchesAreFinite ==
  IsWellFoundedOn(Below, Ranks) /\ (SearchSpec => SearchesDescend)
<1> DEFINE Step ==
      /\ \A c \in Calls : CallGoesOn(c) /\ (CallStep(c) => CallLowers(c))
      /\ \A k \in Prefetches :
           TaskGoesOn(k) /\ (Hint(k) \/ PrefetchAnswers(k) => TaskLowers(k))
<1>1. SearchInv /\ SearchInv' /\ [SearchNext]_searchVars => [Step]_searchVars
  <2> SUFFICES ASSUME SearchInv, SearchInv', SearchNext PROVE Step
    OBVIOUS
  <2>1. \A c \in Calls : CallStep(c) => OneCallLowers(c)
    BY EnterLowers, PrefetchedLowers, BackendAnswersLowers DEF CallStep
  <2>2. \A k \in Prefetches : Hint(k) \/ PrefetchAnswers(k) => OneTaskLowers(k)
    BY HintLowers, PrefetchAnswersLowers
  <2>3. (\A c \in Calls : CallGoesOn(c)) /\ \A k \in Prefetches : TaskGoesOn(k)
    <3>1. CASE \E t \in Turns : TurnStep(t)
      BY <3>1, TurnStepLowers
    <3>2. CASE \E c \in Calls, request \in Requests : Begin(c, request[1], request[2])
      BY <3>2, BeginLowers DEF OneCallLowers
    <3>3. CASE \E c \in Calls : CallStep(c)
      BY <3>3, <2>1 DEF OneCallLowers
    <3>4. CASE \E k \in Prefetches : Hint(k) \/ PrefetchAnswers(k)
      BY <3>4, <2>2 DEF OneTaskLowers
    <3>5. CASE \E b \in Metered : CoolDown(b)
      <4>1. turn' = turn /\ prefetch' = prefetch /\ call' = call
        BY <3>5 DEF CoolDown
      <4> QED
        BY <4>1, CallStays, TaskStays DEF Now, CallGoesOn, TaskGoesOn
    <3> QED
      BY <3>1, <3>2, <3>3, <3>4, <3>5 DEF SearchNext
  <2> QED
    BY <2>1, <2>2, <2>3 DEF OneCallLowers, OneTaskLowers
<1> QED
  BY <1>1, SearchInvariance, BelowWellFounded, PTL DEF SearchSpec, SearchesDescend

-----------------------------------------------------------------------------

\* What a turn may take, what a new turn may share and what a call awaits are
\* prefetches that were begun.
MadeInv ==
    /\ \A t \in Turns : holder[t] # 0 => prefetch[holder[t]].pc # "none"
    /\ \A m \in Messages : cache[m] # 0 => prefetch[cache[m]].pc # "none"
    /\ \A c \in Calls : call[c].pc = "await" => prefetch[call[c].task].pc # "none"

BegunStay == \A k \in Prefetches : prefetch[k].pc # "none" => prefetch'[k].pc # "none"

\* A call that awaits did so before, or has just taken its turn's prefetch.
AwaitsBegun(c) ==
    call'[c].pc = "await" =>
        \/ call[c].pc = "await" /\ call'[c].task = call[c].task
        \/ holder[TurnOf[c]] # 0 /\ call'[c].task = holder[TurnOf[c]]

LEMMA MadeMoves ==
  ASSUME SearchInv, MadeInv, BegunStay, cache' = cache,
         \A t \in Turns : holder'[t] \in {0, holder[t]},
         \A c \in Calls : AwaitsBegun(c)
  PROVE  MadeInv'
<1>1. \A n \in 0 .. MaxPrefetches : n # 0 => n \in Prefetches
  BY ConstantsAssumption DEF Prefetches
<1>2. /\ \A t \in Turns : holder[t] # 0 => holder[t] \in Prefetches
      /\ \A m \in Messages : cache[m] # 0 => cache[m] \in Prefetches
  BY <1>1, SearchRecords
<1>3. \A c \in Calls : call[c].pc = "await" => call[c].task \in Prefetches
  BY DEF SearchInv, TakenInv
<1>4. \A t \in Turns : holder'[t] # 0 => prefetch'[holder'[t]].pc # "none"
  BY <1>2 DEF MadeInv, BegunStay
<1>5. \A m \in Messages : cache'[m] # 0 => prefetch'[cache'[m]].pc # "none"
  BY <1>2 DEF MadeInv, BegunStay
<1>6. ASSUME NEW c \in Calls, call'[c].pc = "await" PROVE prefetch'[call'[c].task].pc # "none"
  BY <1>2, <1>3, <1>6, CallTurns DEF MadeInv, BegunStay, AwaitsBegun
<1> QED
  BY <1>4, <1>5, <1>6 DEF MadeInv

LEMMA NowAwaits == ASSUME SearchInv, NEW c \in Calls, Now(c, call[c]) PROVE AwaitsBegun(c)
BY SearchRecords DEF Now, AwaitsBegun, CallSet

\* The step of one call, all else as it was.
LEMMA CallMadeBegun ==
  ASSUME SearchInv, MadeInv, NEW c \in Calls, NEW r, call' = [call EXCEPT ![c] = r],
         prefetch' = prefetch, cache' = cache, \A t \in Turns : holder'[t] \in {0, holder[t]},
         r.pc = "await" => holder[TurnOf[c]] # 0 /\ r.task = holder[TurnOf[c]]
  PROVE  MadeInv'
<1>1. call'[c] = r /\ \A d \in Calls : d # c => call'[d] = call[d]
  BY SearchRecords
<1>2. \A d \in Calls : AwaitsBegun(d)
  BY <1>1 DEF AwaitsBegun
<1> QED
  BY <1>2, MadeMoves DEF BegunStay

LEMMA FailedBegun ==
  ASSUME SearchInv, MadeInv, NEW c \in Calls, call[c].pc \in Active, call' = Failed(c),
         prefetch' = prefetch, cache' = cache, holder' = holder
  PROVE  MadeInv'
<1>1. PICK r \in CallSet : Failed(c) = [call EXCEPT ![c] = r] /\ r.pc \in {"enter", "error"}
  BY FailedCall
<1> QED
  BY <1>1, CallMadeBegun

LEMMA EnterBegun == ASSUME SearchInv, MadeInv, NEW c \in Calls, Enter(c) PROVE MadeInv'
<1> DEFINE t == TurnOf[c]
           prefetched == call[c].at = "grounding" /\ holder[t] # 0
<1>1. /\ call[c].pc = "enter" /\ prefetch' = prefetch /\ cache' = cache /\ call[c] \in CallSet
      /\ holder' = [holder EXCEPT ![t] = IF prefetched THEN 0 ELSE @]
  BY SearchRecords DEF Enter
<1>2. t \in Turns /\ \A u \in Turns : holder'[u] \in {0, holder[u]}
  BY <1>1, CallTurns, SearchRecords
<1>3. CASE prefetched
  <2> DEFINE r == [call[c] EXCEPT !.pc = "await", !.task = holder[t]]
  <2>1. call' = [call EXCEPT ![c] = r]
    BY <1>3, SearchRecords DEF Enter
  <2>2. r.task = holder[t] /\ holder[t] # 0
    BY <1>1, <1>3 DEF CallSet
  <2> HIDE DEF r
  <2> QED
    BY <1>1, <1>2, <2>1, <2>2, CallMadeBegun
<1>4. CASE ~prefetched /\ call' = Failed(c)
  <2>1. holder' = holder
    BY <1>1, <1>4, SearchRecords
  <2> QED
    BY <1>1, <1>4, <2>1, FailedBegun DEF Active
<1>5. CASE call' = [call EXCEPT ![c].pc = "ask"]
  <2> DEFINE r == [call[c] EXCEPT !.pc = "ask"]
  <2>1. call' = [call EXCEPT ![c] = r] /\ r.pc # "await"
    BY <1>1, <1>5, SearchRecords DEF CallSet
  <2> HIDE DEF r
  <2> QED
    BY <1>1, <1>2, <2>1, CallMadeBegun
<1> QED
  BY <1>3, <1>4, <1>5 DEF Enter

\* A turn that ends takes nothing with it but what its calls awaited.
LEMMA TurnEndsBegun ==
  ASSUME SearchInv, MadeInv, NEW t \in Turns, Forgotten(t), cache' = cache, BegunStay
  PROVE  MadeInv'
<1>1. \A u \in Turns : holder'[u] \in {0, holder[u]}
  BY SearchRecords DEF Forgotten
<1>2. \A c \in Calls : call'[c] \in {NoCall, call[c]}
  BY DEF Forgotten
<1>3. \A c \in Calls : AwaitsBegun(c)
  BY <1>2 DEF AwaitsBegun, NoCall
<1> QED
  BY <1>1, <1>3, MadeMoves

LEMMA StoppedBegun == ASSUME SearchInv, NEW t \in Turns, Stopped(t) PROVE BegunStay
<1>1. \A k \in Prefetches : prefetch'[k] \in {prefetch[k], [NoPrefetch EXCEPT !.pc = "cancelled"]}
  BY DEF Stopped
<1> QED
  BY <1>1 DEF BegunStay, NoPrefetch

LEMMA PrefetchedBegun == ASSUME SearchInv, MadeInv, NEW c \in Calls, Prefetched(c) PROVE MadeInv'
<1>1. call[c].pc = "await" /\ cache' = cache /\ call[c] \in CallSet /\ TurnOf[c] \in Turns
  BY SearchRecords, CallTurns DEF Prefetched
<1>2. CASE Stopped(TurnOf[c])
  BY <1>1, <1>2, StoppedBegun, TurnEndsBegun DEF Stopped
<1>3. CASE call' = [call EXCEPT ![c] = Over("served")] /\ holder' = holder /\ prefetch' = prefetch
  <2>1. Over("served").pc # "await"
    BY BlankRecords
  <2> QED
    BY <1>1, <1>3, <2>1, CallMadeBegun
<1>4. CASE call' = Failed(c) /\ holder' = holder /\ prefetch' = prefetch
  BY <1>1, <1>4, FailedBegun DEF Active
<1>5. CASE /\ call' = [call EXCEPT ![c].pc = "ask", ![c].task = 0]
           /\ holder' = holder /\ prefetch' = prefetch
  <2> DEFINE r == [call[c] EXCEPT !.pc = "ask", !.task = 0]
  <2>1. call' = [call EXCEPT ![c] = r] /\ r.pc # "await"
    BY <1>1, <1>5, SearchRecords DEF CallSet
  <2> HIDE DEF r
  <2> QED
    BY <1>1, <1>5, <2>1, CallMadeBegun
<1> QED
  BY <1>2, <1>3, <1>4, <1>5 DEF Prefetched

LEMMA BackendAnswersBegun ==
  ASSUME SearchInv, MadeInv, NEW c \in Calls, BackendAnswers(c) PROVE MadeInv'
<1>1. call[c].pc = "ask" /\ holder' = holder /\ cache' = cache /\ call[c] \in CallSet
  BY SearchRecords DEF BackendAnswers
<1>2. CASE call' = [call EXCEPT ![c] = Over("ok")] /\ prefetch' = prefetch
  <2>1. Over("ok").pc # "await"
    BY BlankRecords
  <2> QED
    BY <1>1, <1>2, <2>1, CallMadeBegun
<1>3. CASE call' = Failed(c) /\ prefetch' = prefetch
  BY <1>1, <1>3, FailedBegun DEF Active
<1>4. CASE /\ call' = [call EXCEPT ![c].tries = @ + 1] /\ prefetch' = prefetch
  <2> DEFINE r == [call[c] EXCEPT !.tries = @ + 1]
  <2>1. call' = [call EXCEPT ![c] = r] /\ r.pc # "await"
    BY <1>1, <1>4, SearchRecords DEF CallSet
  <2> HIDE DEF r
  <2> QED
    BY <1>1, <1>4, <2>1, CallMadeBegun
<1>5. CASE Mark(call[c].at, prefetch, Failed(c))
  <2>1. PICK r \in CallSet : Failed(c) = [call EXCEPT ![c] = r] /\ r.pc \in {"enter", "error"}
    BY <1>1, FailedCall DEF Active
  <2>2. /\ Failed(c)[c] = r /\ \A d \in Calls : d # c => Failed(c)[d] = call[d]
    BY <2>1, SearchRecords
  <2>3. /\ \A d \in Calls : Now(d, Failed(c)[d])
        /\ \A k \in Prefetches : prefetch'[k] \in {prefetch[k], [prefetch[k] EXCEPT !.old = TRUE]}
    BY <1>5 DEF Mark, Now
  <2>4. BegunStay
    BY <2>3, SearchRecords DEF BegunStay, PrefetchSet
  <2>5. \A d \in Calls : AwaitsBegun(d)
    <3>1. call'[c].pc # "await"
      BY <2>1, <2>2, <2>3 DEF Now, CallSet
    <3> QED
      BY <2>2, <2>3, <3>1, NowAwaits DEF AwaitsBegun
  <2> QED
    BY <1>1, <2>4, <2>5, MadeMoves
<1> QED
  BY <1>2, <1>3, <1>4, <1>5 DEF BackendAnswers

LEMMA StartTurnBegun ==
  ASSUME SearchInv, MadeInv, NEW t \in Turns, NEW fresh \in BOOLEAN, StartTurn(t, fresh)
  PROVE  MadeInv'
<1> DEFINE m == MsgOf[t]
           k == CHOOSE k \in Unused : \A l \in Unused : k <= l
<1>1. call' = call /\ m \in Messages
  BY ConstantsAssumption DEF StartTurn
<1>2. CASE Shareable(m, fresh)
  <2>1. holder' = [holder EXCEPT ![t] = cache[m]] /\ cache' = cache /\ prefetch' = prefetch
    BY <1>2 DEF StartTurn
  <2>2. \A u \in Turns : holder'[u] = IF u = t THEN cache[m] ELSE holder[u]
    BY <2>1, SearchRecords
  <2> QED
    BY <1>1, <2>1, <2>2 DEF MadeInv
<1>3. CASE ~Shareable(m, fresh)
  <2>1. /\ Unused # {} /\ prefetch' = [prefetch EXCEPT ![k].pc = "hint"]
        /\ cache' = [cache EXCEPT ![m] = k] /\ holder' = [holder EXCEPT ![t] = k]
    BY <1>3 DEF StartTurn
  <2>2. k \in Unused
    <3>1. Unused \in SUBSET Prefetches
      BY DEF Unused
    <3> HIDE DEF Unused
    <3>2. \E i \in Unused : \A j \in Unused : i <= j
      BY <2>1, <3>1, LeastTask
    <3> QED BY <3>2
  <2> HIDE DEF k, m
  <2>3. k \in Prefetches
    BY <2>2 DEF Unused
  <2>4. /\ prefetch'[k].pc = "hint" /\ \A l \in Prefetches : l # k => prefetch'[l] = prefetch[l]
    BY <2>1, <2>3, SearchRecords DEF PrefetchSet
  <2>5. BegunStay
    BY <2>4 DEF BegunStay
  <2>6. /\ \A u \in Turns : holder'[u] = IF u = t THEN k ELSE holder[u]
        /\ \A n \in Messages : cache'[n] = IF n = m THEN k ELSE cache[n]
    BY <1>1, <2>1, SearchRecords
  <2>7. \A n \in 0 .. MaxPrefetches : n # 0 => n \in Prefetches
    BY ConstantsAssumption DEF Prefetches
  <2>8. \A u \in Turns : holder'[u] # 0 => prefetch'[holder'[u]].pc # "none"
    BY <2>4, <2>5, <2>6, <2>7, SearchRecords DEF MadeInv, BegunStay
  <2>9. \A n \in Messages : cache'[n] # 0 => prefetch'[cache'[n]].pc # "none"
    BY <2>4, <2>5, <2>6, <2>7, SearchRecords DEF MadeInv, BegunStay
  <2>10. \A c \in Calls : call'[c].pc = "await" => prefetch'[call'[c].task].pc # "none"
    BY <1>1, <2>5 DEF MadeInv, BegunStay, SearchInv, TakenInv
  <2> QED
    BY <2>8, <2>9, <2>10 DEF MadeInv
<1> QED
  BY <1>2, <1>3

LEMMA PrefetchBegun ==
  ASSUME SearchInv, MadeInv, NEW k \in Prefetches, Hint(k) \/ PrefetchAnswers(k) PROVE MadeInv'
<1>1. holder' = holder /\ cache' = cache
  BY DEF Hint, PrefetchAnswers
<1>2. prefetch \in [Prefetches -> PrefetchSet] /\ call \in [Calls -> CallSet]
  BY SearchRecords
<1>3. BegunStay /\ \A c \in Calls : Now(c, call[c])
  <2>1. CASE Hint(k)
    <3>1. PICK pc \in {"empty", "failed", IF Exhausted("grounding") THEN "failed" ELSE "ask"} :
            prefetch' = [prefetch EXCEPT ![k].pc = pc]
      BY <2>1 DEF Hint
    <3>2. pc # "none" /\ call' = call
      BY <2>1, <3>1 DEF Hint
    <3> QED
      BY <1>2, <3>1, <3>2 DEF BegunStay, PrefetchSet, Now
  <2>2. CASE PrefetchAnswers(k)
    <3> DEFINE end(pc) == [NoPrefetch EXCEPT !.pc = pc]
    <3>1. \A pc \in {"ready", "empty", "failed"} : end(pc).pc = pc
      BY DEF NoPrefetch
    <3>2. \/ /\ \E pc \in {"ready", "empty", "failed"} : prefetch' = [prefetch EXCEPT ![k] = end(pc)]
             /\ call' = call
          \/ prefetch' = [prefetch EXCEPT ![k].tries = @ + 1] /\ call' = call
          \/ Mark("grounding", [prefetch EXCEPT ![k] = end("failed")], call)
      BY <2>2 DEF PrefetchAnswers
    <3>7. prefetch[k].pc = "ask"
      BY <2>2 DEF PrefetchAnswers
    <3> HIDE DEF end
    <3>3. CASE \E pc \in {"ready", "empty", "failed"} :
                 prefetch' = [prefetch EXCEPT ![k] = end(pc)] /\ call' = call
      BY <1>2, <3>1, <3>3 DEF BegunStay, Now
    <3>4. CASE prefetch' = [prefetch EXCEPT ![k].tries = @ + 1] /\ call' = call
      BY <1>2, <3>4 DEF BegunStay, Now, PrefetchSet
    <3>5. CASE Mark("grounding", [prefetch EXCEPT ![k] = end("failed")], call)
      <4> DEFINE tasks == [prefetch EXCEPT ![k] = end("failed")]
      <4>1. tasks[k].pc = "failed" /\ \A l \in Prefetches : l # k => tasks[l] = prefetch[l]
        BY <1>2, <3>1
      <4>5. tasks[k] = end("failed") /\ end("failed") \in PrefetchSet
        BY <1>2, BlankRecords DEF end
      <4>6. \A l \in Prefetches : tasks[l] \in PrefetchSet
        BY <1>2, <4>1, <4>5
      <4> HIDE DEF tasks
      <4>2. Mark("grounding", tasks, call)
        BY <3>5 DEF tasks
      <4>3. /\ \A l \in Prefetches : prefetch'[l] \in {tasks[l], [tasks[l] EXCEPT !.old = TRUE]}
            /\ \A c \in Calls : Now(c, call[c])
        BY <4>2 DEF Mark, Now
      <4>4. \A l \in Prefetches : prefetch'[l].pc = tasks[l].pc
        BY <4>3, <4>6 DEF PrefetchSet
      <4> QED
        BY <4>1, <4>3, <4>4 DEF BegunStay
    <3> QED
      BY <3>2, <3>3, <3>4, <3>5
  <2> QED
    BY <2>1, <2>2
<1> QED
  BY <1>1, <1>3, NowAwaits, MadeMoves

\* Who awaits a prefetch awaits one that was begun: it is under way, so that its
\* own steps go on, or over, so that the search goes on (_turn_prefetch and
\* _prefetch_cache are set with the task they hold).  With SearchesAreFinite, and
\* the fairness of SearchFairSpec, SearchesEnd.
THEOREM AwaitedIsBegun ==
  SearchSpec => [](\A c \in Calls : call[c].pc = "await" =>
                     prefetch[call[c].task].pc \in
                       {"hint", "ask", "ready", "empty", "failed", "cancelled"})
<1>1. SearchInit => MadeInv
  BY DEF SearchInit, MadeInv, NoCall
<1>2. SearchInv /\ MadeInv /\ [SearchNext]_searchVars => MadeInv'
  <2> SUFFICES ASSUME SearchInv, MadeInv, [SearchNext]_searchVars PROVE MadeInv'
    OBVIOUS
  <2>1. CASE UNCHANGED searchVars
    BY <2>1 DEF searchVars, MadeInv
  <2>2. ASSUME NEW t \in Turns, TurnStep(t) PROVE MadeInv'
    <3>1. CASE EndTurn(t)
      BY <3>1, TurnEndsBegun DEF EndTurn, BegunStay
    <3>2. CASE CancelTurn(t)
      BY <3>2, StoppedBegun, TurnEndsBegun DEF CancelTurn, Stopped
    <3> QED
      BY <2>2, <3>1, <3>2, StartTurnBegun DEF TurnStep
  <2>3. ASSUME NEW c \in Calls, NEW request \in Requests, Begin(c, request[1], request[2])
        PROVE  MadeInv'
    <3> DEFINE r == [NoCall EXCEPT !.pc = "enter", !.domains = request[2],
                                   !.at = FirstBackend(request[1], request[2])]
    <3>1. call' = [call EXCEPT ![c] = r] /\ r.pc = "enter"
      BY <2>3 DEF Begin, NoCall
    <3> HIDE DEF r
    <3> QED
      BY <2>3, <3>1, CallMadeBegun DEF Begin
  <2>4. ASSUME NEW b \in Metered, CoolDown(b) PROVE MadeInv'
    BY <2>4 DEF CoolDown, MadeInv
  <2>5. ASSUME NEW c \in Calls, CallStep(c) PROVE MadeInv'
    BY <2>5, EnterBegun, PrefetchedBegun, BackendAnswersBegun DEF CallStep
  <2> QED
    BY <2>1, <2>2, <2>3, <2>4, <2>5, PrefetchBegun DEF SearchNext
<1>3. SearchInv /\ MadeInv => \A c \in Calls : call[c].pc = "await" =>
        prefetch[call[c].task].pc \in {"hint", "ask", "ready", "empty", "failed", "cancelled"}
  BY SearchRecords DEF SearchInv, TakenInv, MadeInv, PrefetchSet
<1> QED
  BY <1>1, <1>2, <1>3, SearchInvariance, PTL DEF SearchSpec

-----------------------------------------------------------------------------
(* A fetch of a page is finite, and who asks for a page has a fetch.         *)

\* The places a fetch goes through between two attempts, the first one last.
Stage(st) ==
    CASE st = "slot" -> 5 [] st = "pause" -> 4 [] st = "pace" -> 3 [] st = "sleep" -> 2
      [] st = "sent" -> 1 [] OTHER -> 0

\* The redirects left, the attempts left, the place, the time to sleep there.
FetchRank(t) == <<MaxRedirects - t.hops, MaxRetries - t.tries, Stage(t.st), t.left>>

FetchLowers(x) ==
    \/ task'[x].st = "none"
    \/ <<FetchRank(task'[x]), FetchRank(task[x])>> \in Below

FetchStep(x) == Acquire(x) \/ Proceed(x)

FetchDescends(x) ==
    /\ task[x].st # "none" => task'[x] = task[x] \/ FetchLowers(x)
    /\ FetchStep(x) \/ (Tick /\ task[x].left > 0 /\ task[x].st # "none") => FetchLowers(x)

FetchesDescend == [][\A x \in Tasks : FetchDescends(x)]_vars

\* Who asks has a fetch under way, or one that has ended since and whose page or
\* failure is waiting.
HasFetch(k, no) == k \in Keys /\ (task[k].st # "none" \/ made[k] > no)

Asked == \A c \in Callers : caller[c].at = "asking" => HasFetch(caller[c].key, caller[c].no)

AskedInv ==
    \A c \in Callers : caller[c].at = "asking" =>
      /\ HasFetch(caller[c].key, caller[c].no)
      /\ caller[c].no <= made[caller[c].key]

LEMMA FetchRanks == ASSUME NEW t \in Fetches PROVE FetchRank(t) \in Ranks
<1>1. t.hops \in 0..MaxRedirects /\ t.tries \in 0..MaxRetries /\ t.left \in Nat
  BY DEF Fetches
<1>2. MaxRedirects - t.hops \in Nat /\ MaxRetries - t.tries \in Nat
  BY <1>1, FetchAssumption
<1>3. Stage(t.st) \in Nat
  BY DEF Stage
<1> QED
  BY <1>1, <1>2, <1>3 DEF FetchRank, Ranks

\* A hop more, an attempt more, a place further, or less time to sleep.
LEMMA RankFalls ==
  ASSUME NEW t \in Fetches, NEW u \in Fetches,
         \/ u.hops < t.hops
         \/ u.hops = t.hops /\ u.tries < t.tries
         \/ u.hops = t.hops /\ u.tries = t.tries /\ Stage(t.st) < Stage(u.st)
         \/ u.hops = t.hops /\ u.tries = t.tries /\ t.st = u.st /\ t.left < u.left
  PROVE  <<FetchRank(t), FetchRank(u)>> \in Below
<1>1. FetchRank(t) \in Ranks /\ FetchRank(u) \in Ranks
  BY FetchRanks
<1>2. /\ t.hops \in Nat /\ u.hops \in Nat /\ t.tries \in Nat /\ u.tries \in Nat
      /\ t.left \in Nat /\ u.left \in Nat /\ MaxRedirects \in Nat /\ MaxRetries \in Nat
  BY FetchAssumption DEF Fetches
<1>3. /\ u.hops < t.hops => MaxRedirects - t.hops < MaxRedirects - u.hops
      /\ u.tries < t.tries => MaxRetries - t.tries < MaxRetries - u.tries
  BY <1>2
<1> DEFINE a == FetchRank(t)
           b == FetchRank(u)
<1>4. /\ a[1] = MaxRedirects - t.hops /\ b[1] = MaxRedirects - u.hops
      /\ a[2] = MaxRetries - t.tries /\ b[2] = MaxRetries - u.tries
      /\ a[3] = Stage(t.st) /\ b[3] = Stage(u.st) /\ a[4] = t.left /\ b[4] = u.left
  BY DEF FetchRank
<1>5. \/ a[1] < b[1]
      \/ a[1] = b[1] /\ a[2] < b[2]
      \/ a[1] = b[1] /\ a[2] = b[2] /\ a[3] < b[3]
      \/ a[1] = b[1] /\ a[2] = b[2] /\ a[3] = b[3] /\ a[4] < b[4]
  BY <1>3, <1>4
<1>6. a \in Ranks /\ b \in Ranks
  BY <1>1
<1> HIDE DEF a, b
<1>7. <<a, b>> \in Below
  BY <1>5, <1>6, LowerRank
<1> QED
  BY <1>7 DEF a, b

\* Each step of a fetch takes it nearer to its end.
LEMMA FetchStepLowers ==
  ASSUME ClientOK, ClientOK', NEW x \in Tasks, FetchStep(x)
  PROVE  /\ FetchLowers(x)
         /\ \A y \in Tasks : y # x => task'[y] = task[y]
<1> DEFINE u == task[x]
           t == task'[x]
<1>0. u \in Fetches /\ t \in Fetches /\ DOMAIN task = Tasks
  BY DEF ClientOK
<1>1. \A y \in Tasks : y # x => task'[y] = task[y]
  BY <1>0 DEF FetchStep, Acquire, Proceed, TakeSlot, Throttle, Send, WakeUp, Answer, End, Trouble,
              Retry, Redirect
<1> SUFFICES FetchLowers(x)
  BY <1>1
<1>2. ASSUME \/ u.hops < t.hops
             \/ u.hops = t.hops /\ u.tries < t.tries
             \/ u.hops = t.hops /\ u.tries = t.tries /\ Stage(t.st) < Stage(u.st)
      PROVE  FetchLowers(x)
  BY <1>0, <1>2, RankFalls DEF FetchLowers
<1>3. CASE TakeSlot(x)
  <2>1. u.st = "slot" /\ t = [u EXCEPT !.st = "pace"]
    BY <1>0, <1>3 DEF TakeSlot
  <2>2. t.hops = u.hops /\ t.tries = u.tries /\ t.st = "pace"
    BY <1>0, <2>1 DEF Fetches
  <2> HIDE DEF t, u
  <2> QED
    BY <1>2, <2>1, <2>2 DEF Stage
<1>4. CASE Throttle(x)
  <2>1. u.st = "pace" /\ t.hops = u.hops /\ t.tries = u.tries /\ t.st \in {"sent", "sleep"}
    BY <1>0, <1>4 DEF Throttle, Send, Fetches
  <2> HIDE DEF t, u
  <2> QED
    BY <1>2, <2>1 DEF Stage
<1>5. CASE WakeUp(x)
  <2>1. u.st = "sleep" /\ t.hops = u.hops /\ t.tries = u.tries /\ t.st = "sent"
    BY <1>0, <1>5 DEF WakeUp, Send, Fetches
  <2> HIDE DEF t, u
  <2> QED
    BY <1>2, <2>1 DEF Stage
<1>6. CASE Retry(x)
  <2>1. u.st = "pause" /\ t = [u EXCEPT !.st = "pace"]
    BY <1>0, <1>6 DEF Retry
  <2>2. t.hops = u.hops /\ t.tries = u.tries /\ t.st = "pace"
    BY <1>0, <2>1 DEF Fetches
  <2> HIDE DEF t, u
  <2> QED
    BY <1>2, <2>1, <2>2 DEF Stage
<1>7. ASSUME NEW ok \in BOOLEAN, End(x, ok) PROVE FetchLowers(x)
  BY <1>0, <1>7 DEF End, None, FetchLowers
<1>8. CASE Answer(x)
  BY <1>7, <1>8 DEF Answer
<1>9. CASE Trouble(x)
  <2>1. CASE Again(task[x])
    <3>1. u.tries < MaxRetries /\ t = [u EXCEPT !.st = "pause", !.left = Pause,
                                                !.tries = IF @ < MaxRetries THEN @ + 1 ELSE @]
      BY <1>0, <1>9, <2>1 DEF Trouble, Again
    <3>2. t.hops = u.hops /\ t.tries = u.tries + 1 /\ u.tries \in Nat
      BY <1>0, <3>1 DEF Fetches
    <3> HIDE DEF t, u
    <3> QED
      BY <1>2, <3>2
  <2>2. CASE ~Again(task[x])
    BY <1>7, <1>9, <2>2 DEF Trouble
  <2> QED
    BY <2>1, <2>2
<1>10. CASE Redirect(x)
  <2>1. CASE task[x].hops < MaxRedirects
    <3>1. t.hops = u.hops + 1 /\ u.hops \in Nat
      BY <1>0, <1>10, <2>1 DEF Redirect, Fetches
    <3> HIDE DEF t, u
    <3> QED
      BY <1>2, <3>1
  <2>2. CASE ~(task[x].hops < MaxRedirects)
    BY <1>7, <1>10, <2>2 DEF Redirect
  <2> QED
    BY <2>1, <2>2
<1> QED
  BY <1>3, <1>4, <1>5, <1>6, <1>8, <1>9, <1>10 DEF FetchStep, Acquire, Proceed

\* Time wakes who sleeps.
LEMMA TickLowers ==
  ASSUME ClientOK, ClientOK', NEW x \in Tasks, Tick
  PROVE  /\ task'[x] = task[x] \/ FetchLowers(x)
         /\ task[x].left > 0 => FetchLowers(x)
<1>0. task[x] \in Fetches /\ task'[x] \in Fetches /\ task'[x] = [task[x] EXCEPT !.left = Less(@)]
  BY DEF Tick, ClientOK
<1>1. task[x].left \in Nat
  BY <1>0 DEF Fetches
<1>2. CASE task[x].left > 0
  <2>1. /\ task'[x].hops = task[x].hops /\ task'[x].tries = task[x].tries
        /\ task'[x].st = task[x].st /\ task'[x].left < task[x].left
    BY <1>0, <1>1, <1>2 DEF Less, Fetches
  <2> QED
    BY <1>0, <2>1, RankFalls DEF FetchLowers
<1>3. CASE ~(task[x].left > 0)
  <2>1. Less(task[x].left) = task[x].left
    BY <1>1, <1>3 DEF Less
  <2>2. task'[x] = task[x]
    BY <1>0, <2>1 DEF Fetches
  <2> QED
    BY <1>3, <2>2
<1> QED
  BY <1>2, <1>3

\* No step of anyone takes it further from its end.
LEMMA StepDescends ==
  ASSUME IInv, IInv', [Next]_vars, NEW x \in Tasks
  PROVE  FetchDescends(x)
<1>0. ClientOK /\ ClientOK' /\ DOMAIN task = Tasks
  BY Parts DEF ClientOK
<1>1. FetchStep(x) => FetchLowers(x)
  BY <1>0, FetchStepLowers
<1>2. Tick => task'[x] = task[x] \/ FetchLowers(x)
  BY <1>0, TickLowers
<1>3. Tick /\ task[x].left > 0 => FetchLowers(x)
  BY <1>0, TickLowers
<1>4. task[x].st # "none" => task'[x] = task[x] \/ FetchLowers(x)
  <2> SUFFICES ASSUME task[x].st # "none" PROVE task'[x] = task[x] \/ FetchLowers(x)
    OBVIOUS
  <2>1. CASE UNCHANGED vars
    BY <2>1 DEF vars
  <2>2. ASSUME NEW c \in Callers, Give(c) \/ Leave(c) \/ \E k \in Keys : Hit(c, k)
        PROVE  task'[x] = task[x]
    BY <2>2 DEF Give, Leave, Hit
  <2>3. ASSUME NEW c \in Callers, NEW k \in Keys, Miss(c, k) PROVE task'[x] = task[x]
    BY <1>0, <2>3 DEF Miss, Joined
  <2>4. ASSUME NEW y \in Tasks, FetchStep(y) PROVE task'[x] = task[x] \/ FetchLowers(x)
    BY <1>0, <2>4, FetchStepLowers
  <2>5. ASSUME NEW y \in Tasks, StartSide(y) PROVE task'[x] = task[x]
    BY <1>0, <2>5 DEF StartSide
  <2>6. ASSUME NEW y \in Tasks, CancelSide(y) PROVE task'[x] = task[x] \/ FetchLowers(x)
    BY <1>0, <2>6 DEF CancelSide, None, FetchLowers
  <2> QED
    BY <1>2, <2>1, <2>2, <2>3, <2>4, <2>5, <2>6 DEF Next, FetchStep
<1> QED
  BY <1>1, <1>3, <1>4 DEF FetchDescends

\* A fetch of a page ends by itself only, and leaves its result; one past the cache
\* may be cancelled.
LEMMA FetchesLast ==
  ASSUME IInv, IInv', [Next]_vars, NEW k \in Keys
  PROVE  /\ made[k] \in Nat /\ made'[k] \in Nat /\ made[k] <= made'[k]
         /\ task[k].st # "none" => \/ task'[k].st # "none"
                                   \/ made'[k] = made[k] + 1
<1>0. ClientOK /\ ClientOK' /\ DOMAIN task = Tasks /\ DOMAIN made = Keys /\ k \in Tasks
      /\ task[k] \in Fetches
  BY Parts DEF ClientOK, Tasks
<1>1. made[k] \in Nat /\ made'[k] \in Nat
  BY <1>0 DEF ClientOK
<1> DEFINE Lasts == \/ made'[k] = made[k] /\ (task[k].st # "none" => task'[k].st # "none")
                    \/ made'[k] = made[k] + 1
<1> SUFFICES Lasts
  BY <1>1
<1>2. CASE UNCHANGED <<task, made>>
  BY <1>2
<1>3. ASSUME NEW c \in Callers, NEW l \in Keys, Miss(c, l) PROVE Lasts
  BY <1>0, <1>3 DEF Miss, Joined, Start
<1>4. ASSUME NEW x \in Tasks, StartSide(x) \/ CancelSide(x) PROVE Lasts
  <2>1. x # k
    BY <1>4, FetchAssumption DEF StartSide, CancelSide
  <2> QED
    BY <1>0, <1>4, <2>1 DEF StartSide, CancelSide
<1>5. ASSUME NEW x \in Tasks, NEW ok \in BOOLEAN, End(x, ok) PROVE Lasts
  BY <1>0, <1>5 DEF End
<1>6. ASSUME NEW x \in Tasks, FetchStep(x) PROVE Lasts
  <2>1. CASE \E ok \in BOOLEAN : End(x, ok)
    BY <1>5, <2>1
  <2>2. CASE ~\E ok \in BOOLEAN : End(x, ok)
    <3>1. UNCHANGED made
      BY <1>6, <2>2 DEF FetchStep, Acquire, Proceed, TakeSlot, Throttle, WakeUp, Answer, Trouble,
                        Retry, Redirect
    <3>2. task'[x].st # "none"
      <4>1. CASE TakeSlot(x) \/ Throttle(x) \/ WakeUp(x)
        BY <1>0, <4>1 DEF ClientOK, Fetches, TakeSlot, Throttle, Send, WakeUp
      <4>2. CASE Trouble(x) \/ Retry(x) \/ Redirect(x) \/ Answer(x)
        <5>1. ~End(x, FALSE) /\ ~Answer(x)
          BY <2>2 DEF Answer
        <5>2. CASE Trouble(x)
          <6>1. Again(task[x])
            BY <5>1, <5>2 DEF Trouble
          <6>2. task' = [task EXCEPT ![x].st = "pause", ![x].left = Pause,
                                     ![x].tries = IF @ < MaxRetries THEN @ + 1 ELSE @]
            BY <5>2, <6>1 DEF Trouble
          <6> QED
            BY <1>0, <6>2 DEF ClientOK, Fetches
        <5>3. CASE Retry(x)
          BY <1>0, <5>3 DEF ClientOK, Fetches, Retry
        <5>4. CASE Redirect(x)
          <6>1. task[x].hops < MaxRedirects
            BY <5>1, <5>4 DEF Redirect
          <6> QED
            BY <1>0, <5>4, <6>1 DEF Redirect
        <5> QED
          BY <4>2, <5>1, <5>2, <5>3, <5>4
      <4> QED
        BY <1>6, <4>1, <4>2 DEF FetchStep, Acquire, Proceed
    <3>3. x # k => task'[k] = task[k]
      BY <1>0, <1>6, FetchStepLowers
    <3> QED
      BY <3>1, <3>2, <3>3
  <2> QED
    BY <2>1, <2>2
<1>7. CASE Tick
  BY <1>0, <1>7 DEF Tick, ClientOK, Fetches
<1>8. ASSUME NEW c \in Callers, Give(c) \/ Leave(c) \/ \E l \in Keys : Hit(c, l) PROVE Lasts
  BY <1>8 DEF Give, Leave, Hit
<1> QED
  BY <1>2, <1>3, <1>4, <1>6, <1>7, <1>8 DEF Next, vars, FetchStep

LEMMA AskedStep ==
  ASSUME IInv, IInv', AskedInv, [Next]_vars
  PROVE  AskedInv'
<1> DEFINE Fine(c) == HasFetch(caller[c].key, caller[c].no) /\ caller[c].no <= made[caller[c].key]
<1> SUFFICES ASSUME NEW c \in Callers, caller'[c].at = "asking" PROVE Fine(c)'
  BY DEF AskedInv
<1>0. ClientOK /\ ClientOK' /\ DOMAIN caller = Callers /\ caller[c] \in CallerType
  BY Parts DEF ClientOK
<1>1. CASE caller[c].at = "asking" /\ caller'[c] = caller[c]
  <2> DEFINE k == caller[c].key
             n == caller[c].no
  <2>1. k \in Keys /\ n \in Nat /\ n <= made[k] /\ (task[k].st # "none" \/ made[k] > n)
    BY <1>0, <1>1 DEF AskedInv, HasFetch, CallerType
  <2>2. /\ made[k] \in Nat /\ made'[k] \in Nat /\ made[k] <= made'[k]
        /\ task[k].st # "none" => task'[k].st # "none" \/ made'[k] = made[k] + 1
    BY <2>1, FetchesLast
  <2>3. caller'[c].key = k /\ caller'[c].no = n
    BY <1>1
  <2> HIDE DEF k, n
  <2>4. n <= made'[k] /\ (task'[k].st # "none" \/ made'[k] > n)
    BY <2>1, <2>2
  <2> QED
    BY <2>1, <2>3, <2>4 DEF HasFetch
<1>2. CASE ~(caller[c].at = "asking" /\ caller'[c] = caller[c])
  <2>1. PICK k \in Keys : Miss(c, k)
    <3>1. ASSUME NEW d \in Callers, Give(d) \/ Leave(d) \/ \E l \in Keys : Hit(d, l) PROVE FALSE
      <4>1. c # d => caller'[c] = caller[c]
        BY <1>0, <3>1 DEF Give, Leave, Hit
      <4>2. c = d => caller'[c].at # "asking"
        BY <1>0, <3>1 DEF Give, Leave, Hit, Away
      <4> QED
        BY <1>2, <4>1, <4>2
    <3>2. ASSUME NEW d \in Callers, NEW l \in Keys, Miss(d, l) PROVE d = c
      BY <1>0, <1>2, <3>2 DEF Miss
    <3>3. caller' # caller
      BY <1>2
    <3>4. ASSUME NEW x \in Tasks, Acquire(x) \/ Proceed(x) \/ StartSide(x) \/ CancelSide(x)
          PROVE  caller' = caller
      BY <3>4 DEF Acquire, Proceed, TakeSlot, Throttle, WakeUp, Answer, Trouble, Retry, Redirect,
                  StartSide, CancelSide
    <3> QED
      BY <3>1, <3>2, <3>3, <3>4 DEF Next, vars, Tick
  <2>2. caller'[c] = [at |-> "asking", key |-> k, no |-> made[k]] /\ made' = made
    BY <1>0, <2>1 DEF Miss
  <2>3. task'[k].st # "none" /\ made[k] \in Nat
    BY <1>0, <2>1 DEF Miss, Joined, Start, None, ClientOK, Tasks
  <2> QED
    BY <2>2, <2>3 DEF HasFetch
<1> QED
  BY <1>1, <1>2

LEMMA AskedInvariance == Spec => [](IInv /\ AskedInv)
<1>1. Init => AskedInv
  BY DEF Init, AskedInv, Away
<1> QED
  BY <1>1, InitInv, StepInv, AskedStep, PTL DEF Spec

\* A fetch has finitely many steps: no step of anyone takes it further from its
\* end, its own steps and the passing of time while it sleeps or pauses bring it
\* nearer.  A hop that is tried again has used up an attempt, and a hop that is new
\* a redirect (the loops of _fetch_text and _fetch_once).
THEOREM FetchIsFinite == IsWellFoundedOn(Below, Ranks) /\ (Spec => FetchesDescend)
<1>1. IInv /\ IInv' /\ [Next]_vars => [\A x \in Tasks : FetchDescends(x)]_vars
  BY StepDescends
<1> QED
  BY <1>1, Invariance, BelowWellFounded, PTL DEF Spec, FetchesDescend

\* Nobody asks in vain: who asks for a page has a fetch of it under way, or one that
\* has ended since, whose result is there for it; whoever left, was cancelled, or
\* pushed the page out of the cache (the shield of get_or_fetch).  With
\* FetchIsFinite, and the fairness of FairSpec, WaitersServed.
THEOREM NobodyAsksInVain == Spec => []Asked
<1>1. AskedInv => Asked
  BY DEF AskedInv, Asked
<1> QED
  BY <1>1, AskedInvariance, PTL
=============================================================================
