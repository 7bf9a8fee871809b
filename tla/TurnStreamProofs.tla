--------------------------- MODULE TurnStreamProofs ---------------------------
(***************************************************************************)
(* Proofs about TurnStream, for texts and calls of any number: the types,   *)
(* how a turn that is over is remembered (EndRecorded), that the stream     *)
(* implements TurnContract (ContractHolds), that what is on the screen      *)
(* belongs where it stands (WireInOrder), and that a turn goes on until it  *)
(* is gone and has finitely many steps.                                     *)
(***************************************************************************)
EXTENDS TurnStream, SequenceTheorems, WellFoundedInduction, FiniteSetTheorems, TLAPS

-----------------------------------------------------------------------------
(* Sequences.  What is defined by recursion over a sequence is shown for its *)
(* first n elements; the least n for which it fails is one too small.        *)

LEMMA LeastNat ==
  ASSUME NEW T \in SUBSET Nat, T # {}
  PROVE  \E n \in T : \A m \in T : n <= m
<1>1. PICK n \in T : \A m \in T : ~(<<m, n>> \in OpToRel(<, Nat))
  BY WFMin, NatLessThanWellFounded, Zenon
<1>2. \A m \in T : ~(m < n)
  BY <1>1, Zenon DEF OpToRel
<1> QED BY <1>2

\* The function by which Chosen is defined, for the first n places.
Choosing(f, s, places, n) ==
    f = [i \in 0..n |->
           IF i = 0 THEN <<>>
           ELSE IF i \in places THEN Append(f[i - 1], s[i]) ELSE f[i - 1]]

LEMMA ChoosingExists ==
  ASSUME NEW s, NEW places, NEW length \in Nat
  PROVE  \E f : Choosing(f, s, places, length)
<1> DEFINE T == {n \in Nat : ~\E f : Choosing(f, s, places, n)}
<1> SUFFICES ASSUME T # {} PROVE FALSE
  OBVIOUS
<1>1. PICK n \in T : \A k \in T : n <= k
  BY LeastNat
<1>2. CASE n = 0
  <2> DEFINE r == [i \in 0..0 |-> <<>>]
  <2>1. Choosing(r, s, places, 0)
    BY DEF Choosing
  <2> QED BY <1>1, <1>2, <2>1
<1>3. CASE n > 0
  <2>1. n - 1 \in Nat /\ n - 1 \notin T
    BY <1>1, <1>3
  <2>2. PICK r : Choosing(r, s, places, n - 1)
    BY <2>1
  <2> DEFINE next == IF n \in places THEN Append(r[n - 1], s[n]) ELSE r[n - 1]
             f == [i \in 0..n |-> IF i = n THEN next ELSE r[i]]
  <2>3. \A i \in 0..n :
          f[i] = IF i = 0 THEN <<>>
                 ELSE IF i \in places THEN Append(f[i - 1], s[i]) ELSE f[i - 1]
    <3> SUFFICES ASSUME NEW i \in 0..n
                 PROVE  f[i] = IF i = 0 THEN <<>>
                               ELSE IF i \in places THEN Append(f[i - 1], s[i]) ELSE f[i - 1]
      OBVIOUS
    <3>1. CASE i = n
      BY <1>3, <3>1
    <3>2. CASE i # n
      <4>1. i \in 0..(n - 1) /\ f[i] = r[i] /\ (i # 0 => f[i - 1] = r[i - 1])
        BY <1>3, <3>2
      <4>2. r[i] = IF i = 0 THEN <<>>
                   ELSE IF i \in places THEN Append(r[i - 1], s[i]) ELSE r[i - 1]
        BY <2>2, <4>1 DEF Choosing
      <4> HIDE DEF f
      <4> QED BY <4>1, <4>2
    <3> QED BY <3>1, <3>2
  <2>4. Choosing(f, s, places, n)
    <3>1. f = [i \in 0..n |-> f[i]]
      OBVIOUS
    <3> HIDE DEF f
    <3> QED BY <2>3, <3>1 DEF Choosing
  <2> HIDE DEF f
  <2> QED BY <1>1, <2>4
<1> QED BY <1>1, <1>2, <1>3

\* What is chosen are elements of the sequence; the whole, if all places are.
LEMMA ChosenIs ==
  ASSUME NEW S, NEW s \in Seq(S), NEW places
  PROVE  /\ Chosen(s, places) \in Seq(S)
         /\ \A i \in DOMAIN Chosen(s, places) :
              \E k \in DOMAIN s : k \in places /\ Chosen(s, places)[i] = s[k]
<1> DEFINE f == CHOOSE f : Choosing(f, s, places, Len(s))
           Good(n) == /\ f[n] \in Seq(S)
                      /\ \A i \in 1..Len(f[n]) : \E k \in 1..n : k \in places /\ f[n][i] = s[k]
           T == {n \in 0..Len(s) : ~Good(n)}
<1>1. Choosing(f, s, places, Len(s)) /\ Len(s) \in Nat
  BY ChoosingExists
<1>2. Chosen(s, places) = f[Len(s)]
  BY DEF Chosen, Choosing
<1> HIDE DEF f
<1>3. \A n \in 0..Len(s) :
        f[n] = IF n = 0 THEN <<>>
               ELSE IF n \in places THEN Append(f[n - 1], s[n]) ELSE f[n - 1]
  BY <1>1 DEF Choosing
<1>4. Good(0)
  <2>1. f[0] = <<>>
    BY <1>1, <1>3
  <2> QED BY <2>1, EmptySeq
<1>5. ASSUME NEW n \in 1..Len(s), Good(n - 1) PROVE Good(n)
  <2>1. s[n] \in S /\ n \in Nat /\ n - 1 \in Nat /\ n \in 0..Len(s) /\ n # 0
    BY <1>1, <1>5
  <2>2. CASE n \notin places
    <3>1. f[n] = f[n - 1]
      BY <1>3, <2>1, <2>2
    <3> QED BY <1>5, <2>1, <3>1
  <2>3. CASE n \in places
    <3> DEFINE before == f[n - 1]
               now == f[n]
    <3>1. now = Append(before, s[n])
      BY <1>3, <2>1, <2>3
    <3>2. before \in Seq(S) /\ \A i \in 1..Len(before) : \E k \in 1..(n - 1) : k \in places /\ before[i] = s[k]
      BY <1>5
    <3> HIDE DEF before, now
    <3>3. /\ now \in Seq(S) /\ Len(now) = Len(before) + 1 /\ Len(before) \in Nat
          /\ \A i \in 1..Len(before) : now[i] = before[i]
          /\ now[Len(before) + 1] = s[n]
      BY <2>1, <3>1, <3>2
    <3>4. ASSUME NEW i \in 1..Len(now)
          PROVE  \E k \in 1..n : k \in places /\ now[i] = s[k]
      <4>1. CASE i = Len(before) + 1
        BY <2>1, <2>3, <3>3, <4>1
      <4>2. CASE i # Len(before) + 1
        <5>1. i \in 1..Len(before)
          BY <3>3, <4>2
        <5>2. PICK k \in 1..(n - 1) : k \in places /\ before[i] = s[k]
          BY <3>2, <5>1
        <5>3. k \in 1..n
          BY <2>1
        <5> QED BY <3>3, <5>1, <5>2, <5>3
      <4> QED BY <4>1, <4>2
    <3> QED BY <3>3, <3>4 DEF now
  <2> QED BY <2>2, <2>3
<1> HIDE DEF Good
<1>6. Good(Len(s))
  <2> SUFFICES ASSUME T # {} PROVE FALSE
    BY <1>1
  <2>1. PICK n \in T : \A k \in T : n <= k
    <3>1. T \in SUBSET Nat
      BY <1>1
    <3> HIDE DEF T
    <3> QED BY <3>1, LeastNat
  <2>2. n # 0 /\ n \in 0..Len(s) /\ ~Good(n)
    BY <1>4
  <2>3. Good(n - 1) /\ n \in 1..Len(s)
    BY <1>1, <2>1, <2>2
  <2> QED BY <1>5, <2>2, <2>3
<1> USE DEF Good
<1>7. DOMAIN s = 1..Len(s) /\ DOMAIN f[Len(s)] = 1..Len(f[Len(s)])
  BY <1>6
<1> QED BY <1>2, <1>6, <1>7

LEMMA WiderSeq ==
  ASSUME NEW S, NEW T, S \subseteq T, NEW s \in Seq(S)
  PROVE  s \in Seq(T)
<1>1. \A i \in 1..Len(s) : s[i] \in T
  BY ElementOfSeq
<1> QED BY <1>1, IsASeq

-----------------------------------------------------------------------------
(* The frames a step may put in front of the client. *)

\* All frames but done.
Working == {f \in Frames : f.kind # "done"}

LEMMA WorkingFrames ==
  /\ \A kind \in {"error", "refs", "preview", "reset", "sources", "answer", "meta"} :
       Plain(kind) \in Working
  /\ \A chunk \in Seq(Shown), r \in Nat \cup {Nothing} : Delta(chunk, r) \in Working
  /\ \A ph \in {"provisional", "narration"}, r \in Nat : Content(ph, r) \in Working
  /\ \A id \in 1..MaxCalls, state \in {"running", "completed"}, r \in Nat :
       Step(id, state, r) \in Working
BY DEF Working, Frames, Plain, Delta, Content, Step

LEMMA DoneFrame ==
  ASSUME NEW payload \in Snapshots, NEW isSaved \in BOOLEAN
  PROVE  Done(payload, isSaved) \in Frames /\ <<Done(payload, isSaved)>> \in Seq(Frames)
<1>1. Done(payload, isSaved) \in Frames
  BY DEF Done, Frames, Snapshots
<1> QED BY <1>1

LEMMA WorkingSeq ==
  ASSUME NEW s \in Seq(Working)
  PROVE  s \in Seq(Frames) /\ \A i \in DOMAIN s : s[i].kind # "done"
<1>1. s \in Seq(Frames)
  BY WiderSeq DEF Working
<1>2. \A i \in DOMAIN s : s[i] \in Working
  BY ElementOfSeq
<1> QED BY <1>1, <1>2 DEF Working

-----------------------------------------------------------------------------
(* Texts. *)

LEMMA StableIs ==
  ASSUME NEW body \in Seq(Tokens)
  PROVE  /\ Stable(body) \in Nat /\ Stable(body) <= Len(body)
         /\ Stable(body) >= Len(body) - 1
<1>1. Len(body) \in Nat /\ (body # <<>> => Len(body) > 0)
  BY EmptySeq
<1> QED BY <1>1 DEF Stable

\* What goes out of a text is its part that has not gone out yet.
LEMMA FeedIs ==
  ASSUME NEW body \in Seq(Tokens), NEW final \in BOOLEAN,
         streamed \in Seq(Shown), Len(streamed) <= Len(body),
         final \/ Len(streamed) <= Stable(body)
  PROVE  /\ Feed(body, final) \in Seq(Shown)
         /\ streamed \o Feed(body, final) \in Seq(Shown)
         /\ Len(streamed \o Feed(body, final)) = IF final THEN Len(body) ELSE Stable(body)
         /\ Len(Feed(body, final)) = (IF final THEN Len(body) ELSE Stable(body)) - Len(streamed)
         /\ \A i \in DOMAIN Feed(body, final) :
              /\ Len(streamed) + i \in DOMAIN body
              /\ Feed(body, final)[i].round = body[Len(streamed) + i].round
              /\ Feed(body, final)[i].try = body[Len(streamed) + i].try
              /\ Feed(body, final)[i].form = "number" => known
<1> DEFINE upto == IF final THEN Len(body) ELSE Stable(body)
           n == upto - Len(streamed)
           Form(token) == CASE ~token.mark -> "word"
                            [] token.mark /\ known -> "number"
                            [] OTHER -> "raw"
           chunk == Feed(body, final)
<1>1. upto \in Nat /\ Len(streamed) \in Nat /\ upto <= Len(body) /\ n \in Nat
  BY StableIs
<1>2. chunk = [i \in 1..n |-> Displayed(body[Len(streamed) + i], Form(body[Len(streamed) + i]))]
  BY DEF Feed
<1> HIDE DEF upto, chunk, Form
<1>3. ASSUME NEW i \in 1..n
      PROVE  /\ Len(streamed) + i \in DOMAIN body
             /\ chunk[i] \in Shown
             /\ chunk[i].round = body[Len(streamed) + i].round
             /\ chunk[i].try = body[Len(streamed) + i].try
             /\ chunk[i].form = "number" => known
  <2>1. Len(streamed) + i \in 1..Len(body)
    BY <1>1
  <2> DEFINE token == body[Len(streamed) + i]
  <2>2. token \in Tokens
    BY <2>1, ElementOfSeq
  <2>3. chunk[i] = Displayed(token, Form(token))
    BY <1>2
  <2> HIDE DEF token
  <2>4. Form(token) \in {"word", "number", "raw"} /\ (Form(token) = "number" => known)
    BY <2>2 DEF Form, Tokens
  <2>5. chunk[i] \in Shown /\ chunk[i].round = token.round /\ chunk[i].try = token.try
        /\ chunk[i].form = Form(token)
    BY <2>2, <2>3, <2>4 DEF Displayed, Shown, Tokens
  <2> QED BY <2>1, <2>4, <2>5 DEF token
<1> HIDE DEF n
<1>4. chunk \in Seq(Shown) /\ Len(chunk) = n /\ DOMAIN chunk = 1..n
  <2>1. chunk = [i \in 1..n |-> chunk[i]]
    BY <1>2
  <2>2. \A i \in 1..n : chunk[i] \in Shown
    BY <1>3
  <2> QED BY <1>1, <2>1, <2>2 DEF n
<1>5. streamed \o chunk \in Seq(Shown) /\ Len(streamed \o chunk) = Len(streamed) + Len(chunk)
  BY <1>4
<1>6. Len(streamed \o chunk) = upto /\ Len(chunk) = upto - Len(streamed)
  BY <1>1, <1>4, <1>5 DEF n
<1> QED BY <1>3, <1>4, <1>5, <1>6 DEF chunk, upto

LEMMA ApologyIs == Apology \in Seq(Shown) /\ Apology # <<>> /\ ~HasNumber(Apology)
                   /\ Apology[1].round = 0 /\ DOMAIN Apology = {1}
BY DEF Apology, Shown, HasNumber

LEMMA SubstantiveIs ==
  ASSUME NEW final \in Seq(Shown)
  PROVE  Substantive(final) \in Seq(Shown) /\ Substantive(final) # <<>>
BY ApologyIs DEF Substantive

\* The text an answer is made of.
Body == IF raw # <<>> THEN raw ELSE finalText

LEMMA FinalizedIs ==
  ASSUME raw \in Seq(Tokens), finalText \in Seq(Tokens)
  PROVE  /\ Finalized \in Seq(Shown)
         /\ \A i \in DOMAIN Finalized :
              /\ \E k \in DOMAIN Body :
                   Finalized[i].round = Body[k].round /\ Finalized[i].try = Body[k].try
              /\ Finalized[i].form = "number" => known
<1> DEFINE places == {i \in DOMAIN Body : ~Body[i].mark \/ known}
           kept == Chosen(Body, places)
           now == Finalized
<1>1. Body \in Seq(Tokens)
  BY DEF Body
<1> HIDE DEF places
<1>2. /\ kept \in Seq(Tokens)
      /\ \A i \in DOMAIN kept : \E k \in DOMAIN Body : k \in places /\ kept[i] = Body[k]
  BY <1>1, ChosenIs
<1>3. now = [i \in DOMAIN kept |-> Displayed(kept[i], IF kept[i].mark THEN "number" ELSE "word")]
  BY DEF Finalized, Body, places
<1> HIDE DEF kept, now
<1>4. ASSUME NEW i \in DOMAIN kept
      PROVE  /\ now[i] \in Shown
             /\ \E k \in DOMAIN Body : now[i].round = Body[k].round /\ now[i].try = Body[k].try
             /\ now[i].form = "number" => known
  <2>1. PICK k \in DOMAIN Body : k \in places /\ kept[i] = Body[k]
    BY <1>2
  <2> USE DEF places
  <2> DEFINE token == kept[i]
  <2>2. token \in Tokens
    BY <1>2, ElementOfSeq
  <2>3. token.mark => known
    BY <2>1
  <2>4. now[i] = Displayed(token, IF token.mark THEN "number" ELSE "word")
    BY <1>3
  <2>5. token = Body[k]
    BY <2>1
  <2> HIDE DEF token, places
  <2>6. now[i] \in Shown /\ now[i].round = token.round /\ now[i].try = token.try
        /\ (now[i].form = "number" => known)
    BY <2>2, <2>3, <2>4 DEF Displayed, Shown, Tokens
  <2> QED BY <2>5, <2>6
<1>5. now \in Seq(Shown) /\ DOMAIN now = DOMAIN kept
  <2>1. DOMAIN kept = 1..Len(kept) /\ Len(kept) \in Nat
    BY <1>2
  <2>2. now = [i \in 1..Len(kept) |-> now[i]] /\ DOMAIN now = DOMAIN kept
    BY <1>3, <2>1
  <2>3. \A i \in 1..Len(kept) : now[i] \in Shown
    BY <1>4, <2>1
  <2> QED BY <2>1, <2>2, <2>3
<1> QED BY <1>4, <1>5 DEF now

LEMMA SalvagedIs ==
  ASSUME NEW shown \in Seq(Shown)
  PROVE  /\ Salvaged(shown) \in Seq(Shown)
         /\ \A i \in DOMAIN Salvaged(shown) :
              \E k \in DOMAIN shown : Salvaged(shown)[i] = shown[k]
<1> DEFINE places == {i \in DOMAIN shown : shown[i].form # "raw"}
<1>1. Salvaged(shown) = Chosen(shown, places)
  BY DEF Salvaged
<1> HIDE DEF places
<1> QED BY <1>1, ChosenIs

\* The frames of live text.
LEMMA DisplayFramesIs ==
  ASSUME NEW chunk \in Seq(Shown), NEW r \in Nat, NEW ph
  PROVE  DisplayFrames(chunk, r, ph) \in Seq(Working)
<1>1. /\ Plain("refs") \in Working /\ Plain("preview") \in Working
      /\ Content("provisional", r) \in Working /\ Delta(chunk, r) \in Working
  BY WorkingFrames
<1> DEFINE refs == IF HasNumber(chunk) /\ ~HasNumber(streamed)
                   THEN <<Plain("refs"), Plain("preview")>> ELSE <<>>
           role == IF ph = "none" THEN <<Content("provisional", r)>> ELSE <<>>
<1>2. refs \in Seq(Working) /\ role \in Seq(Working) /\ <<Delta(chunk, r)>> \in Seq(Working)
  BY <1>1
<1>3. DisplayFrames(chunk, r, ph) = IF chunk = <<>> THEN <<>> ELSE refs \o role \o <<Delta(chunk, r)>>
  BY DEF DisplayFrames
<1> HIDE DEF refs, role
<1> QED BY <1>2, <1>3

\* The frames that settle the answer.
LEMMA BodyFramesIs ==
  ASSUME NEW shown \in Seq(Shown), NEW final \in Seq(Shown)
  PROVE  BodyFrames(shown, final) \in Seq(Working)
<1>1. /\ Plain("reset") \in Working /\ Plain("sources") \in Working
      /\ Plain("refs") \in Working /\ Plain("answer") \in Working
      /\ Delta(final, Nothing) \in Working
  BY WorkingFrames
<1> DEFINE a == IF shown # final /\ shown # <<>> THEN <<Plain("reset")>> ELSE <<>>
           b == IF shown # final /\ HasNumber(final) THEN <<Plain("refs")>> ELSE <<>>
           c == IF shown # final THEN <<Delta(final, Nothing)>> ELSE <<>>
           s == <<Plain("sources")>>
           d == <<Plain("answer")>>
<1>2. /\ a \in Seq(Working) /\ b \in Seq(Working) /\ c \in Seq(Working)
      /\ d \in Seq(Working) /\ s \in Seq(Working)
  BY <1>1
<1>3. BodyFrames(shown, final) = a \o s \o b \o c \o d
  BY DEF BodyFrames
<1> HIDE DEF a, b, c, d, s
<1> QED BY <1>2, <1>3

-----------------------------------------------------------------------------
(* Types. *)

Phases == {"none", "provisional", "narration"}
Pcs == NotSetUp \cup Served \cup {"cleanup", "rescuing", "leaving", "gone"}

TextTypes ==
    /\ raw \in Seq(Tokens) /\ finalText \in Seq(Tokens) /\ streamed \in Seq(Shown)
    /\ Len(streamed) <= Len(raw) /\ Len(raw) <= MaxText
    /\ known \in BOOLEAN

FrameTypes == wire \in Seq(Frames) /\ out \in Seq(Frames) /\ steps \in Seq(Frames)

ProcessTypes ==
    /\ round \in Nat /\ calls \in 0..MaxCalls /\ tries \in 0..MaxCallRetries
    /\ phase \in Phases /\ toolPending \in BOOLEAN
    /\ progressed \subseteq open /\ open \subseteq 1..calls
    /\ started \in BOOLEAN /\ emitted \in BOOLEAN /\ retried \in BOOLEAN

EndTypes ==
    /\ pc \in Pcs /\ holding \in BOOLEAN /\ identified \in BOOLEAN
    /\ outcome \in Outcomes /\ usage \in Outcomes \cup {Nothing}
    /\ answer \in Snapshots /\ saved \in BOOLEAN /\ sent \in BOOLEAN
    /\ inflight \in Snapshots \cup {Nothing} /\ orphan \in Snapshots \cup {Nothing}
    /\ stored \in Snapshots \cup {Nothing}
    /\ begun \in BOOLEAN /\ lost \in BOOLEAN /\ cutInSave \in BOOLEAN
    /\ inflight # Nothing <=> pc \in {"saving", "rescuing"}
    /\ saved => sent
    /\ pc = "failing" => outcome \in {"error", "timeout"}
    /\ pc = "enriching" => outcome \in {"ok", "empty"}

TypeInv == TextTypes /\ FrameTypes /\ ProcessTypes /\ EndTypes

LEMMA TypeIs == TypeInv <=> TypeOK
<1>1. {holding, known, toolPending, started, emitted, retried, identified, saved,
       sent, begun, lost, cutInSave} \subseteq BOOLEAN
      <=> /\ holding \in BOOLEAN /\ known \in BOOLEAN /\ toolPending \in BOOLEAN
          /\ started \in BOOLEAN /\ emitted \in BOOLEAN /\ retried \in BOOLEAN
          /\ identified \in BOOLEAN /\ saved \in BOOLEAN /\ sent \in BOOLEAN
          /\ begun \in BOOLEAN /\ lost \in BOOLEAN /\ cutInSave \in BOOLEAN
  OBVIOUS
<1>2. {inflight, orphan, stored} \subseteq Snapshots \cup {Nothing}
      <=> /\ inflight \in Snapshots \cup {Nothing} /\ orphan \in Snapshots \cup {Nothing}
          /\ stored \in Snapshots \cup {Nothing}
  OBVIOUS
<1> QED
  BY <1>1, <1>2, Zenon
     DEF TypeInv, TextTypes, FrameTypes, ProcessTypes, EndTypes, TypeOK, Phases, Pcs

LEMMA InitTypes == Init => TypeInv
<1> SUFFICES ASSUME Init PROVE TypeInv
  OBVIOUS
<1>1. <<>> \in Seq(Tokens) /\ <<>> \in Seq(Shown) /\ <<>> \in Seq(Frames) /\ Len(<<>>) = 0
  BY EmptySeq
<1>2. TextTypes /\ FrameTypes
  BY <1>1, TurnAssumption DEF Init, TextTypes, FrameTypes
<1>3. ProcessTypes
  <2>1. round = 0 /\ phase = "none" /\ calls = 0 /\ open = {} /\ progressed = {} /\ tries = 0
    BY DEF Init
  <2>2. /\ round \in Nat /\ calls \in 0..MaxCalls /\ tries \in 0..MaxCallRetries
        /\ phase \in Phases /\ progressed \subseteq open /\ open \subseteq 1..calls
    BY <2>1, TurnAssumption DEF Phases
  <2>3. toolPending \in BOOLEAN /\ started \in BOOLEAN /\ emitted \in BOOLEAN /\ retried \in BOOLEAN
    BY DEF Init
  <2> QED BY <2>2, <2>3 DEF ProcessTypes
<1>4. answer \in Snapshots /\ pc \in Pcs /\ pc \notin {"failing", "enriching", "saving", "rescuing"}
  BY <1>1, TurnAssumption DEF Init, Snapshots, Pcs, NotSetUp
<1>5. EndTypes
  BY <1>4 DEF Init, EndTypes, Outcomes
<1> QED BY <1>2, <1>3, <1>5 DEF TypeInv

\* What the frames of a step are made of, when it begins.
LEMMA SendTypes ==
  ASSUME FrameTypes, Send
  PROVE  /\ FrameTypes'
         /\ Head(out) \in Frames /\ wire' = Append(wire, Head(out)) /\ out' = Tail(out)
<1>1. Head(out) \in Frames /\ Tail(out) \in Seq(Frames)
  BY DEF FrameTypes, Send
<1>2. wire' = Append(wire, Head(out)) /\ out' = Tail(out) /\ steps' = steps
  BY DEF Send, process
<1> QED BY <1>1, <1>2 DEF FrameTypes

\* The steps of the calls that showed no progress.
LEMMA ClosedIs ==
  ASSUME TypeInv
  PROVE  LET silent == Chosen([c \in 1..calls |-> c], open \ progressed)
         IN  [i \in DOMAIN silent |-> Step(silent[i], "completed", round)] \in Seq(Working)
<1> DEFINE every == [c \in 1..calls |-> c]
           silent == Chosen(every, open \ progressed)
           closed == [i \in DOMAIN silent |-> Step(silent[i], "completed", round)]
<1>1. every \in Seq(1..MaxCalls)
  <2>1. calls \in Nat /\ MaxCalls \in Nat /\ calls <= MaxCalls
    BY TurnAssumption DEF TypeInv, ProcessTypes
  <2>2. \A c \in 1..calls : c \in 1..MaxCalls
    BY <2>1
  <2> QED BY <2>1, <2>2
<1> HIDE DEF every
<1>2. silent \in Seq(1..MaxCalls)
  BY <1>1, ChosenIs
<1> HIDE DEF silent
<1>3. DOMAIN silent = 1..Len(silent) /\ Len(silent) \in Nat /\ round \in Nat
  BY <1>2 DEF TypeInv, ProcessTypes
<1>4. \A i \in 1..Len(silent) : Step(silent[i], "completed", round) \in Working
  <2>1. \A i \in 1..Len(silent) : silent[i] \in 1..MaxCalls
    BY <1>2, ElementOfSeq
  <2> QED BY <1>3, <2>1, WorkingFrames
<1>5. closed \in Seq(Working)
  BY <1>3, <1>4
<1> QED BY <1>5 DEF silent, every

\* What does not change keeps its type.
LEMMA SameTypes ==
  /\ TextTypes /\ UNCHANGED text => TextTypes'
  /\ ProcessTypes /\ UNCHANGED <<process, request, attempt>> => ProcessTypes'
  /\ FrameTypes /\ UNCHANGED <<wire, out, process>> => FrameTypes'
  /\ EndTypes /\ UNCHANGED <<pc, holding, identified, result, store, history>> => EndTypes'
<1>1. TextTypes /\ UNCHANGED text => TextTypes'
  BY DEF text, TextTypes
<1>2. ProcessTypes /\ UNCHANGED <<process, request, attempt>> => ProcessTypes'
  BY DEF process, request, attempt, ProcessTypes
<1>3. FrameTypes /\ UNCHANGED <<wire, out, process>> => FrameTypes'
  BY DEF process, FrameTypes
<1>4. EndTypes /\ UNCHANGED <<pc, holding, identified, result, store, history>> => EndTypes'
  BY DEF result, store, history, EndTypes
<1> QED BY <1>1, <1>2, <1>3, <1>4

LEMMA RoundIs == TypeInv => Round \in Nat /\ Phase \in Phases
BY DEF TypeInv, ProcessTypes, Round, Phase, Phases

\* A token the model writes now.
LEMMA TokenIs ==
  ASSUME TypeInv, NEW mark \in BOOLEAN
  PROVE  /\ [mark |-> mark, round |-> Round, try |-> tries] \in Tokens
         /\ <<[mark |-> mark, round |-> Round, try |-> tries]>> \in Seq(Tokens)
<1>1. Round \in Nat /\ tries \in Nat
  BY RoundIs, TurnAssumption DEF TypeInv, ProcessTypes
<1>2. [mark |-> mark, round |-> Round, try |-> tries] \in Tokens
  BY <1>1 DEF Tokens
<1> QED BY <1>2

\* What a model event keeps.
LEMMA ModelEventTypes ==
  ASSUME TypeInv, pc = "streaming", ModelEvent
  PROVE  /\ EndTypes'
         /\ round' \in Nat /\ tries' \in 0..MaxCallRetries /\ toolPending' \in BOOLEAN
         /\ started' \in BOOLEAN /\ retried' \in BOOLEAN /\ known' \in BOOLEAN
         /\ wire' = wire
<1>1. EndTypes'
  <2>1. /\ identified' = TRUE /\ begun' = TRUE
        /\ UNCHANGED <<pc, holding, outcome, answer, saved, sent, inflight, orphan, stored,
                       usage, lost, cutInSave>>
    BY DEF ModelEvent, result, store
  <2> QED BY <2>1 DEF TypeInv, EndTypes
<1>2. round' = Round /\ toolPending' = FALSE /\ started' = TRUE /\ tries' = tries
      /\ retried' = retried /\ known' = known /\ wire' = wire
  BY DEF ModelEvent
<1> QED BY <1>1, <1>2, RoundIs DEF TypeInv, ProcessTypes, TextTypes

LEMMA PhaseAfterIs ==
  ASSUME NEW chunk, NEW ph \in Phases
  PROVE  PhaseAfter(chunk, ph) \in Phases
BY DEF PhaseAfter, Phases

LEMMA TextTyped ==
  ASSUME TypeInv, NEW mark \in BOOLEAN, Text(mark)
  PROVE  TypeInv' /\ out = <<>> /\ out' \in Seq(Working)
<1> DEFINE token == [mark |-> mark, round |-> Round, try |-> tries]
           body == Append(raw, token)
           chunk == Feed(body, FALSE)
<1>1. /\ pc = "streaming" /\ out = <<>> /\ Len(raw) < MaxText
      /\ raw' = body /\ streamed' = streamed \o chunk
      /\ out' = DisplayFrames(chunk, Round, Phase)
      /\ emitted' = (emitted \/ chunk # <<>>)
      /\ phase' = PhaseAfter(chunk, Phase)
      /\ ModelEvent
      /\ UNCHANGED <<finalText, calls, open, progressed, steps>>
  BY DEF Text, Reading, At
<1>2. body \in Seq(Tokens) /\ Len(body) = Len(raw) + 1
  BY TokenIs DEF TypeInv, TextTypes
<1>3. /\ streamed \in Seq(Shown) /\ Len(streamed) \in Nat /\ Len(raw) \in Nat /\ MaxText \in Nat
      /\ Len(streamed) <= Len(raw)
  BY TurnAssumption DEF TypeInv, TextTypes
<1> HIDE DEF body
<1>4. Stable(body) \in Nat /\ Stable(body) <= Len(body) /\ Stable(body) >= Len(body) - 1
  BY <1>2, StableIs
<1>5. /\ chunk \in Seq(Shown) /\ streamed \o chunk \in Seq(Shown)
      /\ Len(streamed \o chunk) = Stable(body)
  <2>1. Len(streamed) <= Stable(body) /\ Len(streamed) <= Len(body)
    BY <1>2, <1>3, <1>4
  <2> QED BY <1>2, <1>3, <2>1, FeedIs
<1> HIDE DEF chunk
<1>6. out' \in Seq(Working)
  BY <1>1, <1>5, RoundIs, DisplayFramesIs
<1>7. TextTypes'
  BY <1>1, <1>2, <1>3, <1>4, <1>5, ModelEventTypes DEF TypeInv, TextTypes
<1>8. FrameTypes'
  BY <1>1, <1>6, ModelEventTypes, WorkingSeq DEF TypeInv, FrameTypes
<1>9. ProcessTypes'
  BY <1>1, ModelEventTypes, RoundIs, PhaseAfterIs DEF TypeInv, ProcessTypes
<1> QED BY <1>1, <1>6, <1>7, <1>8, <1>9, ModelEventTypes DEF TypeInv

LEMMA FinalTextTyped ==
  ASSUME TypeInv, FinalText
  PROVE  TypeInv' /\ out = <<>> /\ out' = out
<1>1. /\ pc = "streaming" /\ out = <<>>
      /\ finalText' = <<[mark |-> FALSE, round |-> Round, try |-> tries]>>
      /\ phase' = Phase
      /\ ModelEvent
      /\ UNCHANGED <<out, raw, streamed, emitted, calls, open, progressed, steps>>
  BY DEF FinalText, Reading, At
<1>2. TextTypes'
  BY <1>1, TokenIs, ModelEventTypes DEF TypeInv, TextTypes
<1>3. FrameTypes'
  BY <1>1, ModelEventTypes DEF TypeInv, FrameTypes
<1>4. ProcessTypes'
  BY <1>1, ModelEventTypes, RoundIs DEF TypeInv, ProcessTypes
<1> QED BY <1>1, <1>2, <1>3, <1>4, ModelEventTypes DEF TypeInv

LEMMA CallToolsTyped ==
  ASSUME TypeInv, NEW n \in 1..MaxCalls, CallTools(n)
  PROVE  TypeInv' /\ out = <<>> /\ out' \in Seq(Working)
<1> DEFINE chunk == Feed(raw, TRUE)
           shownPhase == PhaseAfter(chunk, Phase)
           called == [i \in 1..n |-> Step(calls + i, "running", Round)]
           told == IF shownPhase = "provisional" THEN <<Content("narration", Round)>> ELSE <<>>
<1>1. /\ pc = "streaming" /\ out = <<>> /\ n \in 1..(MaxCalls - calls)
      /\ streamed' = streamed \o chunk
      /\ out' = DisplayFrames(chunk, Round, Phase) \o told \o called
      /\ phase' = IF shownPhase = "provisional" THEN "narration" ELSE shownPhase
      /\ emitted' = TRUE
      /\ calls' = calls + n
      /\ open' = (calls + 1)..(calls + n)
      /\ progressed' = {}
      /\ steps' = steps \o called
      /\ ModelEvent
      /\ UNCHANGED <<raw, finalText>>
  BY DEF CallTools, Reading, At
<1>2. /\ raw \in Seq(Tokens) /\ streamed \in Seq(Shown) /\ Len(streamed) <= Len(raw)
      /\ calls \in Nat /\ MaxCalls \in Nat /\ calls <= MaxCalls
  BY TurnAssumption DEF TypeInv, TextTypes, ProcessTypes
<1>3. /\ chunk \in Seq(Shown) /\ streamed \o chunk \in Seq(Shown)
      /\ Len(streamed \o chunk) = Len(raw)
  BY <1>2, FeedIs
<1> HIDE DEF chunk
<1>4. called \in Seq(Working)
  <2>1. \A i \in 1..n : calls + i \in 1..MaxCalls
    BY <1>1, <1>2
  <2>2. \A i \in 1..n : Step(calls + i, "running", Round) \in Working
    BY <2>1, RoundIs, WorkingFrames
  <2> QED BY <2>2
<1>5. told \in Seq(Working)
  <2>1. Content("narration", Round) \in Working
    BY RoundIs, WorkingFrames
  <2> QED BY <2>1
<1>6. DisplayFrames(chunk, Round, Phase) \in Seq(Working)
  BY <1>3, RoundIs, DisplayFramesIs
<1> HIDE DEF called, told
<1>7. out' \in Seq(Working)
  BY <1>1, <1>4, <1>5, <1>6
<1>8. TextTypes'
  BY <1>1, <1>2, <1>3, ModelEventTypes DEF TypeInv, TextTypes
<1>9. FrameTypes'
  <2>1. called \in Seq(Frames)
    BY <1>4, WorkingSeq
  <2> QED BY <1>1, <1>7, <2>1, ModelEventTypes, WorkingSeq DEF TypeInv, FrameTypes
<1>10. ProcessTypes'
  <2>1. phase' \in Phases
    BY <1>1, RoundIs, PhaseAfterIs DEF Phases
  <2>2. calls' \in 0..MaxCalls /\ open' \subseteq 1..calls' /\ progressed' \subseteq open'
    BY <1>1, <1>2
  <2> QED BY <1>1, <2>1, <2>2, ModelEventTypes DEF TypeInv, ProcessTypes
<1> QED BY <1>1, <1>7, <1>8, <1>9, <1>10, ModelEventTypes DEF TypeInv

LEMMA ProgressTyped ==
  ASSUME TypeInv, NEW c \in open, NEW state \in {"running", "completed"}, Progress(c, state)
  PROVE  TypeInv' /\ out = <<>> /\ out' \in Seq(Working)
<1>1. /\ pc = "streaming" /\ out = <<>>
      /\ out' = <<Step(c, state, round)>> /\ steps' = steps \o out'
      /\ progressed' = progressed \cup {c}
      /\ UNCHANGED <<pc, holding, wire, text, round, phase, toolPending, calls, open,
                     request, attempt, identified, result, store, history>>
  BY DEF Progress, At
<1>2. out' \in Seq(Working)
  <2>1. c \in 1..MaxCalls /\ round \in Nat
    BY TurnAssumption DEF TypeInv, ProcessTypes
  <2>2. Step(c, state, round) \in Working
    BY <2>1, WorkingFrames
  <2> QED BY <1>1, <2>2
<1>3. TextTypes' /\ EndTypes'
  BY <1>1, SameTypes DEF TypeInv
<1>4. FrameTypes'
  <2>1. out' \in Seq(Frames)
    BY <1>2, WorkingSeq
  <2> QED BY <1>1, <2>1 DEF TypeInv, FrameTypes
<1>5. ProcessTypes'
  BY <1>1 DEF TypeInv, ProcessTypes, request, attempt
<1> QED BY <1>1, <1>2, <1>3, <1>4, <1>5 DEF TypeInv

LEMMA RespondTyped ==
  ASSUME TypeInv, NEW found \in BOOLEAN, NEW redrawn \in BOOLEAN, Respond(found, redrawn)
  PROVE  TypeInv' /\ out = <<>> /\ out' \in Seq(Working)
<1> DEFINE silent == Chosen([c \in 1..calls |-> c], open \ progressed)
           closed == [i \in DOMAIN silent |-> Step(silent[i], "completed", round)]
           card == IF redrawn THEN <<Plain("preview")>> ELSE <<>>
<1>1. /\ out = <<>>
      /\ steps' = steps \o closed /\ out' = closed \o card
      /\ known' = (known \/ found)
      /\ open' = {} /\ progressed' = {} /\ toolPending' = TRUE
      /\ started' = FALSE /\ tries' = 0
      /\ UNCHANGED <<pc, holding, wire, raw, streamed, finalText, round, phase, calls,
                     attempt, identified, result, store, history>>
  BY DEF Respond, At
<1>2. closed \in Seq(Working)
  BY ClosedIs
<1>3. card \in Seq(Working)
  BY WorkingFrames
<1> HIDE DEF closed, card
<1>4. out' \in Seq(Working)
  BY <1>1, <1>2, <1>3
<1>5. FrameTypes'
  <2>1. closed \in Seq(Frames)
    BY <1>2, WorkingSeq
  <2> QED BY <1>1, <1>4, <2>1, WorkingSeq DEF TypeInv, FrameTypes
<1>6. EndTypes'
  BY <1>1, SameTypes DEF TypeInv
<1>7. TextTypes'
  BY <1>1 DEF TypeInv, TextTypes
<1>8. ProcessTypes'
  <2>1. /\ toolPending' = TRUE /\ started' = FALSE /\ tries' = 0 /\ open' = {} /\ progressed' = {}
        /\ UNCHANGED <<round, phase, calls, emitted, retried>>
    BY <1>1 DEF attempt
  <2>2. 0 \in 0..MaxCallRetries
    BY TurnAssumption
  <2> HIDE <1>1
  <2> QED BY <2>1, <2>2 DEF TypeInv, ProcessTypes
<1> QED BY <1>1, <1>4, <1>5, <1>6, <1>7, <1>8 DEF TypeInv

LEMMA StreamEndsTyped ==
  ASSUME TypeInv, StreamEnds
  PROVE  TypeInv' /\ out = <<>> /\ out' \in Seq(Working)
<1> DEFINE chunk == Feed(raw, TRUE)
<1>1. /\ pc = "streaming" /\ out = <<>>
      /\ streamed' = streamed \o chunk
      /\ out' = DisplayFrames(chunk, round, phase)
      /\ phase' = PhaseAfter(chunk, phase)
      /\ pc' = "settling"
      /\ UNCHANGED <<holding, wire, raw, finalText, known, round, toolPending, calls,
                     open, progressed, steps, request, attempt, identified, result, store,
                     history>>
  BY DEF StreamEnds, Reading, At
<1>2. /\ chunk \in Seq(Shown) /\ streamed \o chunk \in Seq(Shown)
      /\ Len(streamed \o chunk) = Len(raw)
  BY FeedIs DEF TypeInv, TextTypes
<1> HIDE DEF chunk
<1>3. out' \in Seq(Working)
  BY <1>1, <1>2, DisplayFramesIs DEF TypeInv, ProcessTypes
<1>4. TextTypes'
  BY <1>1, <1>2 DEF TypeInv, TextTypes
<1>5. FrameTypes'
  BY <1>1, <1>3, WorkingSeq DEF TypeInv, FrameTypes
<1>6. ProcessTypes'
  BY <1>1, PhaseAfterIs DEF TypeInv, ProcessTypes, request, attempt
<1>7. EndTypes'
  BY <1>1 DEF TypeInv, EndTypes, Pcs, Served, result, store, history
<1> QED BY <1>1, <1>3, <1>4, <1>5, <1>6, <1>7 DEF TypeInv

LEMMA RepeatCallTyped ==
  ASSUME TypeInv, RepeatCall
  PROVE  TypeInv' /\ out = <<>> /\ out' = out
<1>1. /\ pc = "streaming" /\ out = <<>> /\ tries < MaxCallRetries /\ tries' = tries + 1
      /\ UNCHANGED <<pc, holding, out, wire, text, process, started, attempt,
                     identified, result, store, history>>
  BY DEF RepeatCall, Reading, At
<1>2. TextTypes' /\ FrameTypes' /\ EndTypes'
  BY <1>1, SameTypes DEF TypeInv
<1>3. ProcessTypes'
  BY <1>1, TurnAssumption DEF TypeInv, ProcessTypes, process, attempt
<1> QED BY <1>1, <1>2, <1>3 DEF TypeInv

LEMMA RerunTyped ==
  ASSUME TypeInv, NEW event \in BOOLEAN, Rerun(event)
  PROVE  TypeInv' /\ out = <<>> /\ out' = out
<1>1. /\ pc = "streaming" /\ out = <<>> /\ retried' = TRUE
      /\ raw' = <<>> /\ streamed' = <<>> /\ finalText' = <<>>
      /\ round' = 0 /\ phase' = "none" /\ toolPending' = FALSE
      /\ calls' = 0 /\ open' = {} /\ progressed' = {} /\ steps' = <<>>
      /\ started' = FALSE /\ tries' = 0
      /\ identified' = (identified \/ event)
      /\ begun' = (begun \/ event)
      /\ UNCHANGED <<pc, holding, out, wire, known, emitted, result, store, lost, cutInSave>>
  BY DEF Rerun, At
<1>2. TextTypes'
  <2>1. Len(raw') = 0 /\ Len(streamed') = 0
    BY <1>1
  <2> QED BY <1>1, <2>1, TurnAssumption DEF TypeInv, TextTypes
<1>3. FrameTypes'
  BY <1>1 DEF TypeInv, FrameTypes
<1>4. ProcessTypes'
  <2>1. round' \in Nat /\ calls' \in 0..MaxCalls /\ tries' \in 0..MaxCallRetries
        /\ phase' \in Phases /\ progressed' \subseteq open' /\ open' \subseteq 1..calls'
    BY <1>1, TurnAssumption DEF Phases
  <2>2. toolPending' \in BOOLEAN /\ started' \in BOOLEAN /\ retried' \in BOOLEAN /\ emitted' = emitted
    BY <1>1
  <2> QED BY <2>1, <2>2 DEF TypeInv, ProcessTypes
<1>5. EndTypes'
  BY <1>1 DEF TypeInv, EndTypes, result, store
<1> QED BY <1>1, <1>2, <1>3, <1>4, <1>5 DEF TypeInv

LEMMA BreakTyped ==
  ASSUME TypeInv, NEW kind \in {"error", "timeout"}, NEW event \in BOOLEAN, NEW said \in BOOLEAN,
         Break(kind, event, said)
  PROVE  TypeInv' /\ out = <<>> /\ out' = out
<1>1. /\ pc = "streaming" /\ out = <<>>
      /\ finalText' = IF said THEN <<[mark |-> FALSE, round |-> Round, try |-> tries]>>
                      ELSE finalText
      /\ begun' = (begun \/ event)
      /\ pc' = "failing"
      /\ outcome' = kind
      /\ identified' = (identified \/ event)
      /\ UNCHANGED <<holding, out, wire, raw, streamed, known, process, request, attempt,
                     answer, saved, sent, store, lost, cutInSave>>
  BY DEF Break, BreakIn, At
<1>2. TextTypes'
  BY <1>1, TokenIs DEF TypeInv, TextTypes
<1>3. FrameTypes' /\ ProcessTypes'
  BY <1>1, SameTypes DEF TypeInv
<1>4. EndTypes'
  BY <1>1 DEF TypeInv, EndTypes, Pcs, Served, Outcomes, store
<1> QED BY <1>1, <1>2, <1>3, <1>4 DEF TypeInv

\* The actions before the stream and after it: each keeps what it does not name.
Quiet == UNCHANGED <<wire, text, process, request, attempt>>

LEMMA QuietTypes ==
  ASSUME TypeInv, Quiet, out' \in Seq(Frames), EndTypes'
  PROVE  TypeInv'
<1>1. TextTypes' /\ ProcessTypes'
  BY SameTypes DEF TypeInv, Quiet
<1>2. FrameTypes'
  BY DEF TypeInv, FrameTypes, Quiet, process
<1> QED BY <1>1, <1>2 DEF TypeInv

LEMMA StartTyped ==
  ASSUME TypeInv
  PROVE  /\ Acquire => TypeInv' /\ out' = out
         /\ SetUp => TypeInv' /\ out' = out
<1>1. ASSUME Acquire PROVE TypeInv' /\ out' = out
  <2>1. Quiet /\ out' = out
    BY <1>1 DEF Acquire, Quiet
  <2>2. EndTypes'
    BY <1>1 DEF TypeInv, Acquire, At, EndTypes, Pcs, NotSetUp, result, store, history
  <2> QED BY <2>1, <2>2, QuietTypes DEF TypeInv, FrameTypes
<1>2. ASSUME SetUp PROVE TypeInv' /\ out' = out
  <2>1. Quiet /\ out' = out
    BY <1>2 DEF SetUp, Quiet
  <2>2. EndTypes'
    BY <1>2 DEF TypeInv, SetUp, At, EndTypes, Pcs, Served, result, store, history
  <2> QED BY <2>1, <2>2, QuietTypes DEF TypeInv, FrameTypes
<1> QED BY <1>1, <1>2

\* What a turn without a stream says.
Refused == [text |-> Apology, status |-> "failed"]

LEMMA SetUpFailsTyped ==
  ASSUME TypeInv, SetUpFails
  PROVE  /\ TypeInv' /\ out = <<>>
         /\ \E front \in Seq(Working) : out' = front \o <<Done(Refused, FALSE)>>
<1> DEFINE front == <<Plain("error")>> \o BodyFrames(<<>>, Apology)
           end == <<Done(Refused, FALSE)>>
<1>1. /\ pc = "preparing" /\ out = <<>> /\ pc' = "refusing"
      /\ out' = front \o end
      /\ UNCHANGED <<holding, wire, text, process, request, attempt, identified,
                     result, store, history>>
  BY DEF SetUpFails, At, Refused
<1>2. front \in Seq(Working)
  <2>1. <<Plain("error")>> \in Seq(Working)
    BY WorkingFrames
  <2>2. BodyFrames(<<>>, Apology) \in Seq(Working)
    BY ApologyIs, EmptySeq, BodyFramesIs
  <2> QED BY <2>1, <2>2
<1> HIDE DEF front
<1>3. Refused \in Snapshots
  BY ApologyIs DEF Refused, Snapshots
<1>4. out' \in Seq(Frames)
  <2>1. FALSE \in BOOLEAN
    OBVIOUS
  <2>2. end \in Seq(Frames)
    BY <1>3, <2>1, DoneFrame, Zenon
  <2> HIDE DEF end
  <2>3. front \in Seq(Frames)
    BY <1>2, WorkingSeq
  <2> QED BY <1>1, <2>2, <2>3
<1>5. EndTypes'
  BY <1>1 DEF TypeInv, EndTypes, Pcs, NotSetUp, result, store, history
<1>6. TypeInv'
  BY <1>1, <1>4, <1>5, QuietTypes DEF Quiet
<1> QED BY <1>1, <1>2, <1>6

LEMMA SettleTyped ==
  ASSUME TypeInv, Settle
  PROVE  /\ TypeInv' /\ out = <<>> /\ out' \in Seq(Working)
         /\ \/ outcome' = "ok" /\ answer'.status = "completed"
            \/ outcome' = "empty" /\ answer'.status = "failed"
         /\ answer'.text = Substantive(Finalized)
<1> DEFINE final == Substantive(Finalized)
           empty == Finalized = <<>>
           alarm == IF empty THEN <<Plain("error")>> ELSE <<>>
<1>1. /\ pc = "settling" /\ out = <<>> /\ pc' = "enriching"
      /\ outcome' = IF empty THEN "empty" ELSE "ok"
      /\ answer' = [text |-> final, status |-> IF empty THEN "failed" ELSE "completed"]
      /\ out' = alarm \o BodyFrames(streamed, final)
      /\ UNCHANGED <<holding, wire, text, process, request, attempt, identified,
                     saved, sent, store, history>>
  BY DEF Settle, At
<1>2. final \in Seq(Shown)
  BY FinalizedIs, SubstantiveIs DEF TypeInv, TextTypes
<1>3. out' \in Seq(Working)
  <2>1. alarm \in Seq(Working)
    BY WorkingFrames
  <2>2. BodyFrames(streamed, final) \in Seq(Working)
    BY <1>2, BodyFramesIs DEF TypeInv, TextTypes
  <2> HIDE DEF alarm, final
  <2> QED BY <1>1, <2>1, <2>2
<1> HIDE DEF final, empty
<1>4. answer' \in Snapshots
  BY <1>1, <1>2 DEF Snapshots
<1>5. EndTypes'
  BY <1>1, <1>4 DEF TypeInv, EndTypes, Pcs, Served, Outcomes, store, history
<1>6. TypeInv'
  BY <1>1, <1>3, <1>5, QuietTypes, WorkingSeq DEF Quiet
<1> QED BY <1>1, <1>3, <1>6 DEF final

LEMMA SettleFailsTyped ==
  ASSUME TypeInv, SettleFails
  PROVE  TypeInv' /\ out' = out
<1>1. Quiet /\ out' = out
  BY DEF SettleFails, Quiet
<1>2. EndTypes'
  BY DEF TypeInv, SettleFails, At, EndTypes, Pcs, Served, Outcomes, store, history
<1> QED BY <1>1, <1>2, QuietTypes DEF TypeInv, FrameTypes

LEMMA EnrichTyped ==
  ASSUME TypeInv, NEW meta \in BOOLEAN, Enrich(meta)
  PROVE  TypeInv' /\ out = <<>> /\ out' \in Seq(Working)
<1>1. /\ pc = "enriching" /\ out = <<>> /\ pc' = "persisting"
      /\ out' = IF meta THEN <<Plain("meta")>> ELSE <<>>
      /\ UNCHANGED <<holding, wire, text, process, request, attempt, identified, result,
                     store, history>>
  BY DEF Enrich, At
<1>2. out' \in Seq(Working)
  BY <1>1, WorkingFrames
<1>3. EndTypes'
  BY <1>1 DEF TypeInv, EndTypes, Pcs, Served, result, store, history
<1> QED BY <1>1, <1>2, <1>3, QuietTypes, WorkingSeq DEF Quiet

LEMMA CloseoutTyped ==
  ASSUME TypeInv, NEW broken \in BOOLEAN, Closeout(broken)
  PROVE  TypeInv' /\ out = <<>> /\ out' \in Seq(Working) /\ answer'.status = "failed"
<1> DEFINE chunk == Feed(raw, TRUE)
           shown == streamed \o chunk
           final == Substantive(IF broken THEN Salvaged(shown) ELSE Finalized)
           front == <<Plain("error")>>
<1>1. /\ pc = "failing" /\ out = <<>> /\ pc' = "persisting"
      /\ streamed' = shown
      /\ phase' = PhaseAfter(chunk, phase)
      /\ answer' = [text |-> final, status |-> "failed"]
      /\ out' = front \o DisplayFrames(chunk, round, phase) \o BodyFrames(shown, final)
      /\ UNCHANGED <<holding, wire, raw, finalText, known, round, toolPending, calls,
                     open, progressed, steps, request, attempt, identified, outcome, saved,
                     sent, store, history>>
  BY DEF Closeout, At
<1>2. /\ chunk \in Seq(Shown) /\ shown \in Seq(Shown) /\ Len(shown) = Len(raw)
  BY FeedIs DEF TypeInv, TextTypes
<1> HIDE DEF chunk, shown
<1>3. final \in Seq(Shown)
  BY <1>2, FinalizedIs, SalvagedIs, SubstantiveIs DEF TypeInv, TextTypes
<1> HIDE DEF final
<1>4. out' \in Seq(Working)
  <2>1. front \in Seq(Working)
    BY WorkingFrames
  <2>2. DisplayFrames(chunk, round, phase) \in Seq(Working) /\ BodyFrames(shown, final) \in Seq(Working)
    BY <1>2, <1>3, DisplayFramesIs, BodyFramesIs DEF TypeInv, ProcessTypes
  <2> HIDE DEF front
  <2> QED BY <1>1, <2>1, <2>2
<1>5. TextTypes'
  BY <1>1, <1>2 DEF TypeInv, TextTypes
<1>6. FrameTypes'
  BY <1>1, <1>4, WorkingSeq DEF TypeInv, FrameTypes
<1>7. ProcessTypes'
  BY <1>1, PhaseAfterIs DEF TypeInv, ProcessTypes, request, attempt
<1>8. EndTypes'
  <2>1. answer' \in Snapshots
    BY <1>1, <1>3 DEF Snapshots
  <2> QED BY <1>1, <2>1 DEF TypeInv, EndTypes, Pcs, Served, store, history
<1> QED BY <1>1, <1>4, <1>5, <1>6, <1>7, <1>8 DEF TypeInv

LEMMA PersistTyped ==
  ASSUME TypeInv, Persist
  PROVE  /\ TypeInv' /\ out = <<>>
         /\ out' = IF identified THEN <<>> ELSE <<Done(answer, FALSE)>>
<1> DEFINE end == <<Done(answer, FALSE)>>
<1>1. Quiet /\ out = <<>> /\ out' = IF identified THEN <<>> ELSE end
  BY DEF Persist, At, Quiet
<1>2. out' \in Seq(Frames)
  <2>1. FALSE \in BOOLEAN /\ answer \in Snapshots
    BY DEF TypeInv, EndTypes
  <2>2. end \in Seq(Frames)
    BY <2>1, DoneFrame, Zenon
  <2> HIDE DEF end
  <2> QED BY <1>1, <2>2
<1>3. EndTypes'
  <2>1. CASE identified
    BY <2>1, TurnAssumption DEF TypeInv, Persist, At, EndTypes, Pcs, Served, history
  <2>2. CASE ~identified
    BY <2>2 DEF TypeInv, Persist, At, EndTypes, Pcs, Served, history
  <2> QED BY <2>1, <2>2
<1> QED BY <1>1, <1>2, <1>3, QuietTypes

\* What follows a save: done for the client, or the end of the generator.
LEMMA ResumeTyped ==
  ASSUME TypeInv, NEW isSaved \in BOOLEAN, Resume(isSaved), inflight # Nothing,
         Quiet, inflight' = Nothing, stored' \in Snapshots \cup {Nothing},
         lost' \in BOOLEAN, cutInSave' = cutInSave, begun' = begun,
         UNCHANGED <<identified, outcome, answer, orphan>>
  PROVE  /\ TypeInv'
         /\ out' = IF pc = "saving" THEN <<Done(answer, isSaved)>> ELSE out
<1>1. pc \in {"saving", "rescuing"} /\ answer \in Snapshots
  BY DEF TypeInv, EndTypes
<1>2. CASE pc = "saving"
  <2>1. /\ saved' = isSaved /\ sent' = TRUE /\ out' = <<Done(answer, isSaved)>> /\ pc' = "ending"
        /\ UNCHANGED <<holding, usage>>
    BY <1>2 DEF Resume
  <2>2. out' \in Seq(Frames)
    BY <1>1, <2>1, DoneFrame
  <2>3. EndTypes'
    BY <1>2, <2>1 DEF TypeInv, EndTypes, Pcs, Served
  <2> QED BY <1>2, <2>1, <2>2, <2>3, QuietTypes
<1>3. CASE pc = "rescuing"
  <2>1. /\ usage' = outcome /\ holding' = FALSE /\ pc' = "gone"
        /\ UNCHANGED <<out, saved, sent>>
    BY <1>3 DEF Resume, Closed
  <2>2. EndTypes'
    BY <1>3, <2>1 DEF TypeInv, EndTypes, Pcs
  <2>3. out' \in Seq(Frames)
    BY <2>1 DEF TypeInv, FrameTypes
  <2> QED BY <1>3, <2>1, <2>2, <2>3, QuietTypes
<1> QED BY <1>1, <1>2, <1>3

LEMMA KeepIs ==
  ASSUME TypeInv, NEW snapshot \in Snapshots
  PROVE  /\ Keep(snapshot) \in Snapshots
         /\ stored = Nothing => Keep(snapshot) = snapshot
         /\ stored # Nothing => Keep(snapshot) = stored
BY DEF Keep, TypeInv, EndTypes

LEMMA CommitTyped ==
  ASSUME TypeInv, Commit
  PROVE  /\ TypeInv'
         /\ inflight \in Snapshots /\ stored' = Keep(inflight)
         /\ out' = IF pc = "saving" THEN <<Done(answer, stored' = inflight)>> ELSE out
<1>1. /\ inflight # Nothing /\ inflight \in Snapshots
      /\ stored' = Keep(inflight) /\ inflight' = Nothing /\ Resume(stored' = inflight)
      /\ Quiet /\ UNCHANGED <<identified, outcome, answer, orphan, lost, cutInSave, begun>>
  BY DEF TypeInv, EndTypes, Commit, Quiet, history
<1>2. stored' \in Snapshots
  BY <1>1, KeepIs
<1> DEFINE isSaved == stored' = inflight
<1>3. isSaved \in BOOLEAN /\ Resume(isSaved)
  BY <1>1
<1> HIDE DEF isSaved
<1>4. TypeInv' /\ out' = IF pc = "saving" THEN <<Done(answer, isSaved)>> ELSE out
  BY <1>1, <1>2, <1>3, ResumeTyped DEF TypeInv, EndTypes
<1> QED BY <1>1, <1>4 DEF isSaved

LEMMA WriteFailsTyped ==
  ASSUME TypeInv, NEW landed \in BOOLEAN, WriteFails(landed)
  PROVE  /\ TypeInv'
         /\ inflight \in Snapshots /\ stored' = IF landed THEN Keep(inflight) ELSE stored
         /\ out' = IF pc = "saving" THEN <<Done(answer, FALSE)>> ELSE out
<1>1. /\ inflight # Nothing /\ inflight \in Snapshots
      /\ stored' = IF landed THEN Keep(inflight) ELSE stored
      /\ inflight' = Nothing /\ lost' = TRUE /\ Resume(FALSE)
      /\ Quiet /\ UNCHANGED <<identified, outcome, answer, orphan, cutInSave, begun>>
  BY DEF TypeInv, EndTypes, WriteFails, Quiet
<1>2. stored' \in Snapshots \cup {Nothing}
  BY <1>1, KeepIs DEF TypeInv, EndTypes
<1> DEFINE isSaved == FALSE
<1>3. isSaved \in BOOLEAN /\ Resume(isSaved)
  BY <1>1
<1> HIDE DEF isSaved
<1>4. TypeInv' /\ out' = IF pc = "saving" THEN <<Done(answer, isSaved)>> ELSE out
  BY <1>1, <1>2, <1>3, ResumeTyped
<1> QED BY <1>1, <1>4 DEF isSaved

LEMMA OrphanEndsTyped ==
  ASSUME TypeInv, NEW landed \in BOOLEAN, OrphanEnds(landed)
  PROVE  TypeInv' /\ out' = out
<1>1. /\ orphan # Nothing /\ orphan \in Snapshots /\ orphan' = Nothing
      /\ stored' = IF landed THEN Keep(orphan) ELSE stored
      /\ lost' = (lost \/ ~landed)
      /\ Quiet /\ UNCHANGED <<pc, holding, out, identified, result, inflight, usage, begun, cutInSave>>
  BY DEF TypeInv, EndTypes, OrphanEnds, Quiet
<1>2. stored' \in Snapshots \cup {Nothing}
  BY <1>1, KeepIs DEF TypeInv, EndTypes
<1>3. EndTypes'
  BY <1>1, <1>2 DEF TypeInv, EndTypes, result
<1> QED BY <1>1, <1>3, QuietTypes DEF TypeInv, FrameTypes

LEMMA InterruptedText ==
  TypeInv => [text |-> Finalized, status |-> "interrupted"] \in Snapshots
BY FinalizedIs DEF TypeInv, TextTypes, Snapshots

LEMMA LeavingTyped ==
  ASSUME TypeInv
  PROVE  /\ Disconnect => TypeInv' /\ out' = <<>>
         /\ Rescue => TypeInv' /\ out' = out
         /\ RescueFails => TypeInv' /\ out' = out
         /\ Close => TypeInv' /\ out' = out
         /\ Leave => TypeInv' /\ out' = out
<1>0. pc \in Pcs /\ out \in Seq(Frames)
  BY DEF TypeInv, EndTypes, FrameTypes
<1>1. ASSUME Disconnect PROVE TypeInv' /\ out' = <<>>
  <2>1. Quiet /\ out' = <<>> /\ <<>> \in Seq(Frames)
    BY <1>1, EmptySeq DEF Disconnect, Quiet
  <2>2. /\ pc' \in {"leaving", "cleanup"} /\ inflight' = Nothing
        /\ orphan' = IF pc = "saving" THEN inflight ELSE orphan
        /\ cutInSave' = (pc = "saving")
        /\ UNCHANGED <<holding, identified, outcome, answer, saved, sent, stored, usage, begun, lost>>
    BY <1>1 DEF Disconnect, result
  <2>3. EndTypes'
    BY <2>2 DEF TypeInv, EndTypes, Pcs
  <2> QED BY <2>1, <2>3, QuietTypes
<1>2. ASSUME Rescue PROVE TypeInv' /\ out' = out
  <2>1. Quiet /\ out' = out
    BY <1>2 DEF Rescue, Quiet
  <2>2. /\ pc' = "rescuing" /\ inflight' = [text |-> Finalized, status |-> "interrupted"]
        /\ outcome' = "aborted"
        /\ UNCHANGED <<holding, identified, answer, saved, sent, orphan, stored, usage, history>>
    BY <1>2 DEF Rescue
  <2>3. inflight' \in Snapshots
    BY <2>2, InterruptedText
  <2>4. EndTypes'
    BY <2>2, <2>3, TurnAssumption DEF TypeInv, EndTypes, Pcs, Outcomes, history
  <2> QED BY <1>0, <2>1, <2>4, QuietTypes
<1>3. ASSUME RescueFails PROVE TypeInv' /\ out' = out
  <2>1. Quiet /\ out' = out
    BY <1>3 DEF RescueFails, Quiet
  <2>2. EndTypes'
    BY <1>3 DEF TypeInv, RescueFails, InFinally, At, Closed, EndTypes, Pcs, Outcomes
  <2> QED BY <1>0, <2>1, <2>2, QuietTypes
<1>4. ASSUME Close PROVE TypeInv' /\ out' = out
  <2>1. Quiet /\ out' = out
    BY <1>4 DEF Close, Quiet
  <2>2. /\ pc' = "gone" /\ usage' = outcome /\ holding' = FALSE /\ pc \in {"cleanup", "ending"}
        /\ UNCHANGED <<identified, result, inflight, orphan, stored, history>>
    BY <1>4 DEF Close, Closed, InFinally, At
  <2>3. EndTypes'
    BY <2>2 DEF TypeInv, EndTypes, Pcs, result, history
  <2> QED BY <1>0, <2>1, <2>3, QuietTypes
<1>5. ASSUME Leave PROVE TypeInv' /\ out' = out
  <2>1. Quiet /\ out' = out
    BY <1>5 DEF Leave, Quiet
  <2>2. /\ pc' = "gone" /\ holding' = FALSE /\ pc \in {"leaving", "refusing"}
        /\ UNCHANGED <<identified, result, store, history>>
    BY <1>5 DEF Leave, At
  <2>3. EndTypes'
    BY <2>2 DEF TypeInv, EndTypes, Pcs, result, store, history
  <2> QED BY <1>0, <2>1, <2>3, QuietTypes
<1> QED BY <1>1, <1>2, <1>3, <1>4, <1>5

\* The steps of the turn, one by one.
LEMMA Steps ==
  ASSUME [Next]_vars
  PROVE  \/ Send \/ Acquire \/ SetUp \/ SetUpFails
         \/ \E mark \in BOOLEAN : Text(mark)
         \/ FinalText
         \/ \E n \in 1..MaxCalls : CallTools(n)
         \/ \E c \in open, state \in {"running", "completed"} : Progress(c, state)
         \/ \E found, redrawn \in BOOLEAN : Respond(found, redrawn)
         \/ StreamEnds \/ RepeatCall
         \/ \E event \in BOOLEAN : Rerun(event)
         \/ \E kind \in {"error", "timeout"}, event, said \in BOOLEAN : Break(kind, event, said)
         \/ Settle \/ SettleFails
         \/ \E meta \in BOOLEAN : Enrich(meta)
         \/ \E broken \in BOOLEAN : Closeout(broken)
         \/ Persist \/ Commit
         \/ \E landed \in BOOLEAN : WriteFails(landed)
         \/ \E landed \in BOOLEAN : OrphanEnds(landed)
         \/ Rescue \/ RescueFails \/ Close \/ Leave \/ Disconnect
         \/ UNCHANGED vars
BY DEF Next, Advance, Stream, Closing, Gone

LEMMA TypeStep == TypeInv /\ [Next]_vars => TypeInv'
<1> SUFFICES ASSUME TypeInv, [Next]_vars PROVE TypeInv'
  OBVIOUS
<1>1. CASE Send
  <2>1. UNCHANGED <<pc, holding, text, process, request, attempt, identified, result, store, history>>
    BY <1>1 DEF Send
  <2> QED BY <1>1, <2>1, SendTypes, SameTypes DEF TypeInv
<1>2. CASE Acquire \/ SetUp \/ SetUpFails
  BY <1>2, StartTyped, SetUpFailsTyped
<1>3. CASE \E mark \in BOOLEAN : Text(mark)
  BY <1>3, TextTyped
<1>4. CASE FinalText \/ StreamEnds \/ RepeatCall
  BY <1>4, FinalTextTyped, StreamEndsTyped, RepeatCallTyped
<1>5. CASE \E n \in 1..MaxCalls : CallTools(n)
  BY <1>5, CallToolsTyped
<1>6. CASE \E c \in open, state \in {"running", "completed"} : Progress(c, state)
  BY <1>6, ProgressTyped
<1>7. CASE \E found, redrawn \in BOOLEAN : Respond(found, redrawn)
  BY <1>7, RespondTyped
<1>8. CASE \E event \in BOOLEAN : Rerun(event)
  BY <1>8, RerunTyped
<1>9. CASE \E kind \in {"error", "timeout"}, event, said \in BOOLEAN : Break(kind, event, said)
  BY <1>9, BreakTyped
<1>10. CASE Settle \/ SettleFails \/ Persist \/ Commit
  BY <1>10, SettleTyped, SettleFailsTyped, PersistTyped, CommitTyped
<1>11. CASE \E meta \in BOOLEAN : Enrich(meta)
  BY <1>11, EnrichTyped
<1>12. CASE \E broken \in BOOLEAN : Closeout(broken)
  BY <1>12, CloseoutTyped
<1>13. CASE \E landed \in BOOLEAN : WriteFails(landed)
  BY <1>13, WriteFailsTyped
<1>14. CASE \E landed \in BOOLEAN : OrphanEnds(landed)
  BY <1>14, OrphanEndsTyped
<1>15. CASE Rescue \/ RescueFails \/ Close \/ Leave \/ Disconnect
  BY <1>15, LeavingTyped
<1>16. CASE UNCHANGED vars
  <2>1. UNCHANGED <<text, process, request, attempt, wire, out, pc, holding, identified, result,
                    store, history>>
    BY <1>16 DEF vars
  <2> QED BY <2>1, SameTypes DEF TypeInv
<1> QED
  BY <1>1, <1>2, <1>3, <1>4, <1>5, <1>6, <1>7, <1>8, <1>9, <1>10, <1>11, <1>12, <1>13, <1>14,
     <1>15, <1>16, Steps

\* Types of a turn's state, and what the places of the generator say of the rest.
THEOREM StreamTypes == Spec => []TypeOK
<1>1. Init => TypeInv
  BY InitTypes
<1>2. TypeInv /\ [Next]_vars => TypeInv'
  BY TypeStep
<1>3. TypeInv => TypeOK
  BY TypeIs
<1> QED BY <1>1, <1>2, <1>3, PTL DEF Spec

-----------------------------------------------------------------------------
(* How a turn is remembered.  EndInv says what is known of done, the stored  *)
(* snapshot and the usage row at each place of the generator.                *)

\* The done frames the client took or is about to take.
Ends == {f \in {wire[i] : i \in DOMAIN wire} \cup {out[i] : i \in DOMAIN out} : f.kind = "done"}

Unfinished == NotSetUp \cup {"leaving"} \cup (Served \ {"ending"})

\* Before done is made nothing is stored, and an id comes with the stream.
EarlyInv ==
    /\ pc \in Unfinished => ~sent /\ stored = Nothing /\ orphan = Nothing
    /\ pc \in NotSetUp \cup {"leaving"} => ~identified
    /\ begun => identified
    /\ pc = "ending" => sent

\* A done tells the answer and whether it was saved; a turn that failed before
\* its stream has nothing to store.
ToldInv ==
    \A f \in Ends :
        /\ orphan = Nothing /\ inflight = Nothing
        /\ \/ /\ ~sent /\ ~identified /\ f.saved = FALSE /\ stored = Nothing
              /\ pc \in {"refusing", "leaving", "gone"}
           \/ sent /\ f = Done(answer, saved)

\* What is stored once done is made: the answer, or nothing, and then the loss
\* is known.
SentInv ==
    sent =>
        /\ pc \in {"ending", "cleanup", "gone"}
        /\ orphan = Nothing
        /\ saved => stored = answer
        /\ stored \in {Nothing, answer}
        /\ identified => stored # Nothing \/ lost

\* Where a snapshot is on its way.
SavingInv ==
    /\ pc = "saving" => identified /\ inflight = answer
    /\ pc = "rescuing" => /\ inflight.status = "interrupted" /\ outcome = "aborted"
                          /\ ~sent /\ identified
    /\ orphan # Nothing => cutInSave /\ ~sent
    /\ cutInSave => pc \in {"cleanup", "rescuing", "gone"}

\* The status of the answer and the outcome go together, and the outcome is the
\* one the usage row gets.
OutcomeInv ==
    /\ pc \in {"enriching", "persisting", "saving"} \/ sent =>
         \/ answer.status = "completed" /\ outcome = "ok"
         \/ answer.status = "failed" /\ outcome \in {"empty", "error", "timeout"}
    /\ pc = "gone" /\ sent => usage = outcome
    /\ stored # Nothing =>
         \/ cutInSave
         \/ sent
         \/ pc = "gone" /\ stored.status = "interrupted" /\ usage = "aborted"

GoneInv == pc = "gone" /\ identified /\ ~lost => stored # Nothing \/ orphan # Nothing

EndInv == EarlyInv /\ ToldInv /\ SentInv /\ SavingInv /\ OutcomeInv /\ GoneInv

LEMMA EndsSend ==
  ASSUME FrameTypes, Send
  PROVE  Ends' = Ends
<1>1. /\ wire \in Seq(Frames) /\ out \in Seq(Frames) /\ out # <<>>
      /\ wire' = Append(wire, Head(out)) /\ out' = Tail(out)
  BY SendTypes DEF FrameTypes, Send
<1>2. /\ Len(out) \in Nat \ {0} /\ Len(wire) \in Nat
      /\ DOMAIN out = 1..Len(out) /\ DOMAIN wire = 1..Len(wire)
  BY <1>1, EmptySeq
<1>3. /\ DOMAIN wire' = 1..(Len(wire) + 1) /\ DOMAIN out' = 1..(Len(out) - 1)
      /\ \A i \in 1..Len(wire) : wire'[i] = wire[i]
      /\ wire'[Len(wire) + 1] = out[1]
      /\ \A i \in 1..(Len(out) - 1) : out'[i] = out[i + 1]
  BY <1>1, <1>2
<1>4. {wire'[i] : i \in DOMAIN wire'} = {wire[i] : i \in DOMAIN wire} \cup {out[1]}
  BY <1>2, <1>3
<1>5. {out[i] : i \in DOMAIN out} = {out'[i] : i \in DOMAIN out'} \cup {out[1]}
  <2>1. ASSUME NEW i \in DOMAIN out PROVE i = 1 \/ (i - 1 \in DOMAIN out' /\ out[i] = out'[i - 1])
    BY <1>2, <1>3
  <2>2. ASSUME NEW i \in DOMAIN out' PROVE i + 1 \in DOMAIN out /\ out'[i] = out[i + 1]
    BY <1>2, <1>3
  <2> QED BY <1>2, <2>1, <2>2
<1> QED BY <1>4, <1>5 DEF Ends

LEMMA EndsSame ==
  ASSUME FrameTypes, wire' = wire, out' = out \/ (out = <<>> /\ out' \in Seq(Working)) \/ out' = <<>>
  PROVE  Ends' \subseteq Ends
<1>1. CASE out' = out
  BY <1>1 DEF Ends
<1>2. CASE out' \in Seq(Working)
  <2>1. \A i \in DOMAIN out' : out'[i].kind # "done"
    BY <1>2, WorkingSeq
  <2> QED BY <2>1 DEF Ends
<1>3. CASE out' = <<>>
  <2>1. DOMAIN out' = {}
    BY <1>3
  <2> QED BY <2>1 DEF Ends
<1> QED BY <1>1, <1>2, <1>3

LEMMA EndsDone ==
  ASSUME FrameTypes, wire' = wire, NEW front \in Seq(Working), NEW f, out' = front \o <<f>>
  PROVE  Ends' \subseteq Ends \cup {f}
<1>1. /\ Len(front) \in Nat /\ DOMAIN out' = 1..(Len(front) + 1)
      /\ \A i \in 1..Len(front) : out'[i] = front[i]
      /\ out'[Len(front) + 1] = f
  BY SMT
<1>2. \A i \in 1..Len(front) : front[i].kind # "done"
  BY WorkingSeq
<1>3. ASSUME NEW i \in DOMAIN out', out'[i].kind = "done" PROVE out'[i] = f
  BY <1>1, <1>2, <1>3
<1> QED BY <1>3 DEF Ends

LEMMA InitEnds == Init => EndInv
<1> SUFFICES ASSUME Init PROVE EndInv
  OBVIOUS
<1>1. Ends = {}
  BY DEF Init, Ends
<1>2. EarlyInv /\ SentInv /\ GoneInv
  BY TurnAssumption DEF Init, EarlyInv, SentInv, GoneInv, Unfinished
<1>3. ToldInv
  BY <1>1 DEF ToldInv
<1>4. SavingInv /\ OutcomeInv
  BY TurnAssumption DEF Init, SavingInv, OutcomeInv
<1> QED BY <1>2, <1>3, <1>4 DEF EndInv

Open == {"waiting", "preparing", "streaming", "settling", "failing", "enriching", "persisting"}

\* Until the answer is stored, nothing is told or stored.
LEMMA OpenKeeps ==
  ASSUME EndInv, Ends' \subseteq Ends, pc \in Open, pc' \in Open,
         UNCHANGED <<saved, sent, inflight, orphan, stored, lost, cutInSave>>,
         begun' => identified',
         pc' \in {"waiting", "preparing"} => ~identified',
         pc' \in {"enriching", "persisting"} =>
           \/ answer'.status = "completed" /\ outcome' = "ok"
           \/ answer'.status = "failed" /\ outcome' \in {"empty", "error", "timeout"}
  PROVE  EndInv'
<1>1. ~sent /\ stored = Nothing /\ orphan = Nothing
  BY DEF EndInv, EarlyInv, Unfinished, NotSetUp, Served, Open
<1>2. EarlyInv'
  BY <1>1 DEF EarlyInv, NotSetUp, Open
<1>3. ToldInv'
  <2>1. Ends = {}
    BY <1>1 DEF EndInv, ToldInv, Open
  <2> QED BY <2>1 DEF ToldInv
<1>4. SentInv' /\ GoneInv'
  BY <1>1 DEF SentInv, GoneInv, Open
<1>5. SavingInv' /\ OutcomeInv'
  BY <1>1 DEF EndInv, SavingInv, OutcomeInv, Open
<1> QED BY <1>2, <1>3, <1>4, <1>5 DEF EndInv

\* Sending, or letting go of, a frame changes nothing of it.
LEMMA FramesKeep ==
  ASSUME EndInv, Ends' \subseteq Ends,
         UNCHANGED <<pc, identified, result, store, history>>
  PROVE  EndInv'
<1>1. UNCHANGED <<pc, identified, outcome, answer, saved, sent, inflight, orphan, stored, usage,
                  begun, lost, cutInSave>>
  BY DEF result, store, history
<1>2. EarlyInv' /\ SentInv' /\ SavingInv' /\ OutcomeInv' /\ GoneInv'
  BY <1>1 DEF EndInv, EarlyInv, SentInv, SavingInv, OutcomeInv, GoneInv, Unfinished
<1>3. ToldInv'
  <2>1. ASSUME NEW f \in Ends'
        PROVE  /\ orphan' = Nothing /\ inflight' = Nothing
               /\ \/ /\ ~sent' /\ ~identified' /\ f.saved = FALSE /\ stored' = Nothing
                     /\ pc' \in {"refusing", "leaving", "gone"}
                  \/ sent' /\ f = Done(answer', saved')
    <3>1. f \in Ends
      OBVIOUS
    <3> QED BY <1>1, <3>1 DEF EndInv, ToldInv
  <2>2. ToldInv' <=> \A f \in Ends' :
               /\ orphan' = Nothing /\ inflight' = Nothing
               /\ \/ /\ ~sent' /\ ~identified' /\ f.saved = FALSE /\ stored' = Nothing
                     /\ pc' \in {"refusing", "leaving", "gone"}
                  \/ sent' /\ f = Done(answer', saved')
    BY DEF ToldInv, Done
  <2> QED BY <2>1, <2>2
<1> QED BY <1>2, <1>3 DEF EndInv

LEMMA StreamEndInv ==
  ASSUME TypeInv, EndInv
  PROVE  /\ \A mark \in BOOLEAN : Text(mark) => EndInv'
         /\ FinalText => EndInv'
         /\ \A n \in 1..MaxCalls : CallTools(n) => EndInv'
         /\ \A c \in open, state \in {"running", "completed"} : Progress(c, state) => EndInv'
         /\ \A found, redrawn \in BOOLEAN : Respond(found, redrawn) => EndInv'
         /\ StreamEnds => EndInv'
         /\ RepeatCall => EndInv'
         /\ \A event \in BOOLEAN : Rerun(event) => EndInv'
         /\ \A kind \in {"error", "timeout"}, event, said \in BOOLEAN :
              Break(kind, event, said) => EndInv'
<1>0. FrameTypes /\ (begun => identified)
  BY DEF TypeInv, EndInv, EarlyInv
<1>1. ASSUME ModelEvent, pc = "streaming", Ends' \subseteq Ends PROVE EndInv'
  <2>1. /\ pc' = "streaming" /\ identified' = TRUE
        /\ UNCHANGED <<saved, sent, inflight, orphan, stored, lost, cutInSave>>
    BY <1>1 DEF ModelEvent, result, store
  <2> QED BY <1>1, <2>1, OpenKeeps DEF Open
<1>2. ASSUME NEW mark \in BOOLEAN, Text(mark) PROVE EndInv'
  <2>1. ModelEvent /\ pc = "streaming"
    BY <1>2 DEF Text, Reading, At
  <2>2. wire' = wire /\ out = <<>> /\ out' \in Seq(Working)
    BY <1>2, <2>1, TextTyped DEF ModelEvent
  <2> QED BY <1>0, <1>1, <2>1, <2>2, EndsSame
<1>3. ASSUME FinalText PROVE EndInv'
  <2>1. ModelEvent /\ pc = "streaming" /\ out' = out
    BY <1>3 DEF FinalText, Reading, At
  <2> QED BY <1>0, <1>1, <2>1, EndsSame DEF ModelEvent
<1>4. ASSUME NEW n \in 1..MaxCalls, CallTools(n) PROVE EndInv'
  <2>1. ModelEvent /\ pc = "streaming"
    BY <1>4 DEF CallTools, Reading, At
  <2>2. wire' = wire /\ out = <<>> /\ out' \in Seq(Working)
    BY <1>4, <2>1, CallToolsTyped DEF ModelEvent
  <2> QED BY <1>0, <1>1, <2>1, <2>2, EndsSame
<1>5. ASSUME pc = "streaming", pc' \in {"streaming", "settling", "failing"},
             UNCHANGED <<saved, sent, store, lost, cutInSave>>, begun' => identified',
             Ends' \subseteq Ends
      PROVE  EndInv'
  <2>1. UNCHANGED <<inflight, orphan, stored>>
    BY <1>5 DEF store
  <2> QED BY <1>5, <2>1, OpenKeeps DEF Open
<1>6. ASSUME NEW c \in open, NEW state \in {"running", "completed"}, Progress(c, state)
      PROVE  EndInv'
  <2>1. pc = "streaming" /\ UNCHANGED <<pc, wire, identified, result, store, history>>
    BY <1>6 DEF Progress, At
  <2>2. Ends' \subseteq Ends
    BY <1>0, <1>6, <2>1, ProgressTyped, EndsSame
  <2> QED BY <1>0, <1>5, <2>1, <2>2 DEF result, history
<1>7. ASSUME NEW found \in BOOLEAN, NEW redrawn \in BOOLEAN, Respond(found, redrawn)
      PROVE  EndInv'
  <2>1. pc = "streaming" /\ UNCHANGED <<pc, wire, identified, result, store, history>>
    BY <1>7 DEF Respond, At
  <2>2. Ends' \subseteq Ends
    BY <1>0, <1>7, <2>1, RespondTyped, EndsSame
  <2> QED BY <1>0, <1>5, <2>1, <2>2 DEF result, history
<1>8. ASSUME StreamEnds PROVE EndInv'
  <2>1. pc = "streaming" /\ pc' = "settling" /\ UNCHANGED <<wire, identified, result, store, history>>
    BY <1>8 DEF StreamEnds, Reading, At
  <2>2. Ends' \subseteq Ends
    BY <1>0, <1>8, <2>1, StreamEndsTyped, EndsSame
  <2> QED BY <1>0, <1>5, <2>1, <2>2 DEF result, history
<1>9. ASSUME RepeatCall PROVE EndInv'
  <2>1. pc = "streaming" /\ UNCHANGED <<pc, wire, out, identified, result, store, history>>
    BY <1>9 DEF RepeatCall, Reading, At
  <2>2. Ends' \subseteq Ends
    BY <1>0, <2>1, EndsSame
  <2> QED BY <1>0, <1>5, <2>1, <2>2 DEF result, history
<1>10. ASSUME NEW event \in BOOLEAN, Rerun(event) PROVE EndInv'
  <2>1. /\ pc = "streaming" /\ identified' = (identified \/ event) /\ begun' = (begun \/ event)
        /\ UNCHANGED <<pc, wire, out, result, store, lost, cutInSave>>
    BY <1>10 DEF Rerun, At
  <2>2. Ends' \subseteq Ends
    BY <1>0, <2>1, EndsSame
  <2> QED BY <1>0, <1>5, <2>1, <2>2 DEF result
<1>11. ASSUME NEW kind \in {"error", "timeout"}, NEW event \in BOOLEAN, NEW said \in BOOLEAN,
              Break(kind, event, said)
       PROVE  EndInv'
  <2>1. /\ pc = "streaming" /\ pc' = "failing"
        /\ identified' = (identified \/ event) /\ begun' = (begun \/ event)
        /\ UNCHANGED <<wire, out, saved, sent, store, lost, cutInSave>>
    BY <1>11 DEF Break, BreakIn, At
  <2>2. Ends' \subseteq Ends
    BY <1>0, <2>1, EndsSame
  <2> QED BY <1>0, <1>5, <2>1, <2>2
<1> QED BY <1>2, <1>3, <1>4, <1>6, <1>7, <1>8, <1>9, <1>10, <1>11

LEMMA ClosingEndInv ==
  ASSUME TypeInv, EndInv
  PROVE  /\ Acquire => EndInv'
         /\ SetUp => EndInv'
         /\ Settle => EndInv'
         /\ SettleFails => EndInv'
         /\ \A meta \in BOOLEAN : Enrich(meta) => EndInv'
         /\ \A broken \in BOOLEAN : Closeout(broken) => EndInv'
<1>0. FrameTypes /\ (begun => identified) /\ (pc \in NotSetUp => ~identified)
  BY DEF TypeInv, EndInv, EarlyInv
<1>1. ASSUME pc \in Open, pc' \in Open, UNCHANGED <<identified, saved, sent, store, history>>,
             pc' \in {"waiting", "preparing"} => pc \in {"waiting", "preparing"},
             pc' \in {"enriching", "persisting"} =>
               \/ answer'.status = "completed" /\ outcome' = "ok"
               \/ answer'.status = "failed" /\ outcome' \in {"empty", "error", "timeout"},
             Ends' \subseteq Ends
      PROVE  EndInv'
  <2>1. UNCHANGED <<inflight, orphan, stored, begun, lost, cutInSave>>
    BY <1>1 DEF store, history
  <2>2. pc' \in {"waiting", "preparing"} => ~identified'
    BY <1>0, <1>1 DEF NotSetUp
  <2> QED BY <1>0, <1>1, <2>1, <2>2, OpenKeeps
<1>2. ASSUME Acquire PROVE EndInv'
  <2>1. pc = "waiting" /\ pc' = "preparing" /\ UNCHANGED <<wire, out, identified, result, store, history>>
    BY <1>2 DEF Acquire, At
  <2> QED BY <1>0, <1>1, <2>1, EndsSame DEF Open, result
<1>3. ASSUME SetUp PROVE EndInv'
  <2>1. pc = "preparing" /\ pc' = "streaming" /\ UNCHANGED <<wire, out, identified, result, store, history>>
    BY <1>3 DEF SetUp, At
  <2> QED BY <1>0, <1>1, <2>1, EndsSame DEF Open, result
<1>4. ASSUME Settle PROVE EndInv'
  <2>1. pc = "settling" /\ pc' = "enriching" /\ UNCHANGED <<wire, identified, saved, sent, store, history>>
    BY <1>4 DEF Settle, At
  <2>2. Ends' \subseteq Ends
    BY <1>0, <1>4, <2>1, SettleTyped, EndsSame
  <2> QED BY <1>1, <1>4, <2>1, <2>2, SettleTyped DEF Open
<1>5. ASSUME SettleFails PROVE EndInv'
  <2>1. pc = "settling" /\ pc' = "failing" /\ UNCHANGED <<wire, out, identified, saved, sent, store, history>>
    BY <1>5 DEF SettleFails, At
  <2> QED BY <1>0, <1>1, <2>1, EndsSame DEF Open
<1>6. ASSUME NEW meta \in BOOLEAN, Enrich(meta) PROVE EndInv'
  <2>1. pc = "enriching" /\ pc' = "persisting" /\ UNCHANGED <<wire, identified, result, store, history>>
    BY <1>6 DEF Enrich, At
  <2>2. Ends' \subseteq Ends
    BY <1>0, <1>6, <2>1, EnrichTyped, EndsSame
  <2>3. \/ answer'.status = "completed" /\ outcome' = "ok"
        \/ answer'.status = "failed" /\ outcome' \in {"empty", "error", "timeout"}
    BY <2>1 DEF EndInv, OutcomeInv, result
  <2> QED BY <1>1, <2>1, <2>2, <2>3 DEF Open, result
<1>7. ASSUME NEW broken \in BOOLEAN, Closeout(broken) PROVE EndInv'
  <2>1. /\ pc = "failing" /\ pc' = "persisting"
        /\ UNCHANGED <<wire, identified, outcome, saved, sent, store, history>>
    BY <1>7 DEF Closeout, At
  <2>2. Ends' \subseteq Ends
    BY <1>0, <1>7, <2>1, CloseoutTyped, EndsSame
  <2>3. answer'.status = "failed" /\ outcome' \in {"error", "timeout"}
    BY <1>7, <2>1, CloseoutTyped DEF TypeInv, EndTypes
  <2> QED BY <1>1, <2>1, <2>2, <2>3 DEF Open
<1> QED BY <1>2, <1>3, <1>4, <1>5, <1>6, <1>7

LEMMA SetUpFailsEndInv == TypeInv /\ EndInv /\ SetUpFails => EndInv'
<1> SUFFICES ASSUME TypeInv, EndInv, SetUpFails PROVE EndInv'
  OBVIOUS
<1>1. /\ pc = "preparing" /\ pc' = "refusing"
      /\ UNCHANGED <<wire, identified, outcome, answer, saved, sent, inflight, orphan, stored,
                     usage, begun, lost, cutInSave>>
  BY DEF SetUpFails, At, result, store, history
<1>2. ~sent /\ stored = Nothing /\ orphan = Nothing /\ inflight = Nothing /\ ~identified /\ ~begun
  BY <1>1 DEF TypeInv, EndTypes, EndInv, EarlyInv, Unfinished, NotSetUp
<1>3. ToldInv'
  <2> DEFINE f == Done(Refused, FALSE)
  <2>1. PICK front \in Seq(Working) : out' = front \o <<f>>
    BY SetUpFailsTyped
  <2>2. Ends' \subseteq Ends \cup {f}
    BY <1>1, <2>1, EndsDone DEF TypeInv
  <2>3. Ends = {}
    BY <1>1, <1>2 DEF EndInv, ToldInv
  <2>4. f.saved = FALSE
    BY DEF Done
  <2> HIDE DEF f
  <2>5. \A g \in Ends' : g.saved = FALSE
    BY <2>2, <2>3, <2>4
  <2> QED BY <1>1, <1>2, <2>5 DEF ToldInv
<1>4. EarlyInv' /\ SentInv' /\ SavingInv' /\ OutcomeInv' /\ GoneInv'
  BY <1>1, <1>2 DEF EndInv, EarlyInv, SentInv, SavingInv, OutcomeInv, GoneInv
<1> QED BY <1>3, <1>4 DEF EndInv

\* done is made, with the answer in hand.
LEMMA DoneEndInv ==
  ASSUME TypeInv, EndInv, wire' = wire, NEW isSaved \in BOOLEAN, out' = <<Done(answer, isSaved)>>,
         Ends = {}, pc \in {"persisting", "saving"}, pc' = "ending",
         saved' = isSaved, sent' = TRUE, inflight' = Nothing,
         isSaved => stored' = answer, stored' \in {Nothing, answer},
         identified => stored' # Nothing \/ lost',
         UNCHANGED <<identified, outcome, answer, orphan, usage, begun, cutInSave>>
  PROVE  EndInv'
<1>1. ~sent /\ orphan = Nothing /\ ~cutInSave
  BY DEF EndInv, EarlyInv, SavingInv, Unfinished, Served
<1>2. ToldInv'
  <2>1. out' = <<>> \o <<Done(answer, isSaved)>> /\ <<>> \in Seq(Working)
    BY EmptySeq
  <2>2. Ends' \subseteq {Done(answer, isSaved)}
    BY <2>1, EndsDone DEF TypeInv
  <2>3. Done(answer, isSaved) = Done(answer', saved')
    BY DEF Done
  <2>4. \A f \in Ends' : f = Done(answer', saved')
    BY <2>2, <2>3
  <2>5. ToldInv' <=> \A f \in Ends' :
        /\ orphan' = Nothing /\ inflight' = Nothing
        /\ \/ /\ ~sent' /\ ~identified' /\ f.saved = FALSE /\ stored' = Nothing
              /\ pc' \in {"refusing", "leaving", "gone"}
           \/ sent' /\ f = Done(answer', saved')
    BY DEF ToldInv, Done
  <2> QED BY <1>1, <2>4, <2>5
<1>3. EarlyInv'
  BY <1>1 DEF EndInv, EarlyInv, Unfinished, NotSetUp, Served
<1>4. SentInv' /\ GoneInv'
  BY <1>1 DEF SentInv, GoneInv
<1>5. SavingInv' /\ OutcomeInv'
  BY <1>1 DEF EndInv, SavingInv, OutcomeInv
<1> QED BY <1>2, <1>3, <1>4, <1>5 DEF EndInv

LEMMA PersistEndInv == TypeInv /\ EndInv /\ Persist => EndInv'
<1> SUFFICES ASSUME TypeInv, EndInv, Persist PROVE EndInv'
  OBVIOUS
<1>1. /\ pc = "persisting" /\ wire' = wire
      /\ UNCHANGED <<identified, outcome, answer, orphan, stored, usage, begun, lost, cutInSave>>
  BY DEF Persist, At, history
<1>2. ~sent /\ stored = Nothing /\ orphan = Nothing /\ Ends = {} /\ inflight = Nothing
  BY <1>1 DEF TypeInv, EndTypes, EndInv, EarlyInv, ToldInv, Unfinished, Served
<1>3. CASE identified
  <2>1. /\ inflight' = answer /\ pc' = "saving" /\ saved' = saved /\ sent' = sent
        /\ out = <<>> /\ out' = <<>>
    BY <1>3 DEF Persist, At
  <2>2. Ends' = {}
    BY <1>1, <1>2, <2>1, EndsSame DEF TypeInv
  <2>3. ToldInv'
    BY <2>2 DEF ToldInv
  <2>4. EarlyInv' /\ SentInv' /\ GoneInv'
    BY <1>1, <1>2, <2>1 DEF EndInv, EarlyInv, SentInv, GoneInv, NotSetUp
  <2>5. SavingInv' /\ OutcomeInv'
    BY <1>1, <1>2, <1>3, <2>1 DEF EndInv, SavingInv, OutcomeInv
  <2> QED BY <2>3, <2>4, <2>5 DEF EndInv
<1>4. CASE ~identified
  <2> DEFINE isSaved == FALSE
  <2>1. /\ sent' = TRUE /\ saved' = saved /\ pc' = "ending" /\ inflight' = inflight
        /\ out' = <<Done(answer, isSaved)>>
    BY <1>4 DEF Persist
  <2>2. saved = isSaved /\ isSaved \in BOOLEAN /\ ~isSaved
    BY <1>2 DEF TypeInv, EndTypes
  <2> HIDE DEF isSaved
  <2> QED BY <1>1, <1>2, <1>4, <2>1, <2>2, DoneEndInv
<1> QED BY <1>3, <1>4

\* A snapshot is kept when none was there, and an interrupted turn is over then.
LEMMA SavedEndInv ==
  ASSUME TypeInv, EndInv, NEW isSaved \in BOOLEAN, inflight # Nothing, Resume(isSaved), wire' = wire,
         inflight' = Nothing, stored' = Keep(inflight) \/ (stored' = stored /\ lost'),
         isSaved => stored' = inflight, lost => lost',
         UNCHANGED <<identified, outcome, answer, orphan, begun, cutInSave>>
  PROVE  EndInv'
<1>1. pc \in {"saving", "rescuing"} /\ inflight \in Snapshots
  BY DEF TypeInv, EndTypes
<1>2. CASE pc = "saving"
  <2>1. /\ saved' = isSaved /\ sent' = TRUE /\ out' = <<Done(answer, isSaved)>> /\ pc' = "ending"
        /\ UNCHANGED <<holding, usage>>
    BY <1>2 DEF Resume
  <2>2. ~sent /\ stored = Nothing /\ Ends = {} /\ inflight = answer
    BY <1>2 DEF EndInv, EarlyInv, ToldInv, SavingInv, Unfinished, Served
  <2>3. /\ stored' \in {Nothing, answer} /\ (isSaved => stored' = answer)
        /\ stored' # Nothing \/ lost'
    BY <1>1, <2>2, KeepIs
  <2> QED BY <1>2, <2>1, <2>2, <2>3, DoneEndInv
<1>3. CASE pc = "rescuing"
  <2>1. /\ usage' = outcome /\ pc' = "gone" /\ UNCHANGED <<out, saved, sent>>
    BY <1>3 DEF Resume, Closed
  <2>2. /\ inflight.status = "interrupted" /\ outcome = "aborted" /\ ~sent /\ identified
        /\ Ends = {} /\ (stored # Nothing => cutInSave)
    BY <1>3 DEF EndInv, SavingInv, ToldInv, OutcomeInv
  <2>3. Ends' = {}
    BY <2>1, <2>2, EndsSame DEF TypeInv
  <2>4. ToldInv'
    BY <2>3 DEF ToldInv
  <2>5. EarlyInv' /\ SentInv'
    BY <2>1, <2>2 DEF EndInv, EarlyInv, SentInv, Unfinished, NotSetUp, Served
  <2>6. SavingInv'
    BY <2>1, <2>2 DEF EndInv, SavingInv
  <2>7. OutcomeInv' /\ GoneInv'
    <3>1. /\ stored' # Nothing => cutInSave \/ stored'.status = "interrupted"
          /\ stored' # Nothing \/ lost'
      BY <1>1, <2>2, KeepIs
    <3> QED BY <2>1, <2>2, <3>1 DEF OutcomeInv, GoneInv
  <2> QED BY <2>4, <2>5, <2>6, <2>7 DEF EndInv
<1> QED BY <1>1, <1>2, <1>3

LEMMA StoreEndInv ==
  ASSUME TypeInv, EndInv
  PROVE  /\ Commit => EndInv'
         /\ \A landed \in BOOLEAN : WriteFails(landed) => EndInv'
         /\ \A landed \in BOOLEAN : OrphanEnds(landed) => EndInv'
<1>1. ASSUME Commit PROVE EndInv'
  <2> DEFINE isSaved == stored' = inflight
  <2>1. /\ isSaved \in BOOLEAN /\ inflight # Nothing /\ Resume(isSaved) /\ wire' = wire
        /\ inflight' = Nothing /\ stored' = Keep(inflight)
        /\ isSaved => stored' = inflight
        /\ UNCHANGED <<identified, outcome, answer, orphan, begun, lost, cutInSave>>
    BY <1>1 DEF Commit, history
  <2> HIDE DEF isSaved
  <2> QED BY <2>1, SavedEndInv
<1>2. ASSUME NEW landed \in BOOLEAN, WriteFails(landed) PROVE EndInv'
  <2> DEFINE isSaved == FALSE
  <2>1. /\ isSaved \in BOOLEAN /\ ~isSaved /\ inflight # Nothing /\ Resume(isSaved) /\ wire' = wire
        /\ inflight' = Nothing /\ stored' = IF landed THEN Keep(inflight) ELSE stored
        /\ lost' = TRUE
        /\ UNCHANGED <<identified, outcome, answer, orphan, begun, cutInSave>>
    BY <1>2 DEF WriteFails
  <2> HIDE DEF isSaved
  <2> QED BY <2>1, SavedEndInv
<1>3. ASSUME NEW landed \in BOOLEAN, OrphanEnds(landed) PROVE EndInv'
  <2>1. /\ orphan # Nothing /\ orphan \in Snapshots /\ orphan' = Nothing
        /\ stored' = IF landed THEN Keep(orphan) ELSE stored
        /\ lost' = (lost \/ ~landed)
        /\ UNCHANGED <<pc, out, wire, identified, outcome, answer, saved, sent, inflight, usage,
                       begun, cutInSave>>
    BY <1>3 DEF TypeInv, EndTypes, OrphanEnds, result
  <2>2. cutInSave /\ ~sent /\ pc \in {"cleanup", "rescuing", "gone"} /\ Ends = {}
    BY <2>1 DEF EndInv, SavingInv, ToldInv
  <2>3. Ends' = {}
    BY <2>1, <2>2, EndsSame DEF TypeInv
  <2>4. ToldInv' /\ SentInv'
    BY <2>1, <2>2, <2>3 DEF ToldInv, SentInv
  <2>5. EarlyInv' /\ SavingInv'
    BY <2>1, <2>2 DEF EndInv, EarlyInv, SavingInv, Unfinished, NotSetUp, Served
  <2>6. OutcomeInv'
    BY <2>1, <2>2 DEF EndInv, OutcomeInv
  <2>7. GoneInv'
    <3>1. landed => stored' # Nothing
      BY <2>1, KeepIs, TurnAssumption
    <3> QED BY <2>1, <3>1 DEF GoneInv
  <2> QED BY <2>4, <2>5, <2>6, <2>7 DEF EndInv
<1> QED BY <1>1, <1>2, <1>3

LEMMA DisconnectEndInv == TypeInv /\ EndInv /\ Disconnect => EndInv'
<1> SUFFICES ASSUME TypeInv, EndInv, Disconnect PROVE EndInv'
  OBVIOUS
<1>1. /\ pc \in NotSetUp \cup Served
      /\ pc' = IF pc \in NotSetUp THEN "leaving" ELSE "cleanup"
      /\ orphan' = IF pc = "saving" THEN inflight ELSE orphan
      /\ inflight' = Nothing /\ cutInSave' = (pc = "saving")
      /\ wire' = wire /\ out' = <<>>
      /\ UNCHANGED <<identified, outcome, answer, saved, sent, stored, usage, begun, lost>>
  BY DEF Disconnect, result
<1>2. Ends' \subseteq Ends
  BY <1>1, EndsSame DEF TypeInv
<1>3. CASE pc = "saving"
  <2>1. ~sent /\ stored = Nothing /\ Ends = {} /\ identified /\ pc' = "cleanup"
    BY <1>1, <1>3 DEF EndInv, EarlyInv, ToldInv, SavingInv, Unfinished, NotSetUp, Served
  <2>2. ToldInv'
    BY <1>2, <2>1 DEF ToldInv
  <2>3. EarlyInv' /\ SentInv' /\ GoneInv'
    BY <1>1, <2>1 DEF EarlyInv, SentInv, GoneInv, Unfinished, NotSetUp, Served
  <2>4. SavingInv' /\ OutcomeInv'
    BY <1>1, <1>3, <2>1 DEF SavingInv, OutcomeInv
  <2> QED BY <2>2, <2>3, <2>4 DEF EndInv
<1>4. CASE pc # "saving"
  <2>1. ~cutInSave' /\ UNCHANGED orphan /\ pc' \in {"leaving", "cleanup"} /\ orphan = Nothing
    BY <1>1, <1>4 DEF EndInv, EarlyInv, SentInv, Unfinished
  <2>2. ToldInv'
    <3> SUFFICES ASSUME NEW f \in Ends'
                 PROVE  \/ /\ ~sent /\ ~identified /\ f.saved = FALSE /\ stored = Nothing
                           /\ pc' = "leaving"
                        \/ sent /\ f = Done(answer, saved)
      BY <1>1, <2>1 DEF ToldInv, Done
    <3>1. \/ /\ ~sent /\ ~identified /\ f.saved = FALSE /\ stored = Nothing
             /\ pc \in {"refusing", "leaving", "gone"}
          \/ sent /\ f = Done(answer, saved)
      BY <1>2 DEF EndInv, ToldInv
    <3> QED BY <1>1, <3>1 DEF NotSetUp, Served
  <2>3. EarlyInv'
    BY <1>1, <2>1 DEF EndInv, EarlyInv, Unfinished, NotSetUp, Served
  <2>4. SentInv' /\ GoneInv'
    <3>1. sent => pc = "ending"
      BY <1>1 DEF EndInv, SentInv, NotSetUp, Served
    <3> QED BY <1>1, <2>1, <3>1 DEF EndInv, SentInv, GoneInv, NotSetUp
  <2>5. SavingInv' /\ OutcomeInv'
    <3>1. pc \notin {"cleanup", "rescuing", "gone"} /\ ~cutInSave
      BY <1>1 DEF EndInv, SavingInv, NotSetUp, Served
    <3> QED BY <1>1, <2>1, <3>1 DEF EndInv, SavingInv, OutcomeInv
  <2> QED BY <2>2, <2>3, <2>4, <2>5 DEF EndInv
<1> QED BY <1>3, <1>4

LEMMA LeavingEndInv ==
  ASSUME TypeInv, EndInv
  PROVE  /\ Rescue => EndInv'
         /\ RescueFails => EndInv'
         /\ Close => EndInv'
         /\ Leave => EndInv'
<1>1. ASSUME Rescue PROVE EndInv'
  <2>1. /\ pc \in {"cleanup", "ending"} /\ ~saved /\ ~sent /\ identified
        /\ outcome' = "aborted" /\ pc' = "rescuing" /\ inflight'.status = "interrupted"
        /\ UNCHANGED <<out, wire, identified, answer, saved, sent, orphan, stored, usage, begun,
                       lost, cutInSave>>
    BY <1>1 DEF Rescue, InFinally, Interrupted, At, history
  <2>2. Ends = {}
    BY <2>1 DEF EndInv, ToldInv
  <2>3. ToldInv'
    BY <2>1, <2>2, EndsSame DEF TypeInv, ToldInv
  <2>4. EarlyInv' /\ SentInv' /\ GoneInv'
    BY <2>1 DEF EndInv, EarlyInv, SentInv, GoneInv, Unfinished, NotSetUp, Served
  <2>5. SavingInv' /\ OutcomeInv'
    BY <2>1 DEF EndInv, SavingInv, OutcomeInv
  <2> QED BY <2>3, <2>4, <2>5 DEF EndInv
<1>2. ASSUME RescueFails PROVE EndInv'
  <2>1. /\ pc \in {"cleanup", "ending"} /\ ~saved /\ ~sent /\ identified
        /\ lost' = TRUE /\ pc' = "gone" /\ usage' = "aborted"
        /\ UNCHANGED <<out, wire, identified, answer, saved, sent, inflight, orphan, stored, begun,
                       cutInSave>>
    BY <1>2 DEF RescueFails, InFinally, Interrupted, At, Closed
  <2>2. Ends = {}
    BY <2>1 DEF EndInv, ToldInv
  <2>3. ToldInv'
    BY <2>1, <2>2, EndsSame DEF TypeInv, ToldInv
  <2>4. EarlyInv' /\ SentInv' /\ GoneInv'
    BY <2>1 DEF EndInv, EarlyInv, SentInv, GoneInv, Unfinished, NotSetUp, Served
  <2>5. SavingInv' /\ OutcomeInv'
    BY <2>1 DEF EndInv, SavingInv, OutcomeInv
  <2> QED BY <2>3, <2>4, <2>5 DEF EndInv
<1>3. ASSUME Close PROVE EndInv'
  <2>1. /\ pc \in {"cleanup", "ending"} /\ (saved \/ sent \/ ~identified)
        /\ pc' = "gone" /\ usage' = outcome
        /\ UNCHANGED <<out, wire, identified, outcome, answer, saved, sent, inflight, orphan,
                       stored, begun, lost, cutInSave>>
    BY <1>3 DEF Close, InFinally, Interrupted, At, Closed, result, history
  <2>2. (saved => sent) /\ inflight = Nothing
    BY <2>1 DEF TypeInv, EndTypes
  <2>3. Ends' \subseteq Ends
    BY <2>1, EndsSame DEF TypeInv
  <2>4. ToldInv'
    <3> SUFFICES ASSUME NEW f \in Ends'
                 PROVE  /\ orphan = Nothing
                        /\ \/ /\ ~sent /\ ~identified /\ f.saved = FALSE /\ stored = Nothing
                           \/ sent /\ f = Done(answer, saved)
      BY <2>1, <2>2 DEF ToldInv, Done
    <3> QED BY <2>3 DEF EndInv, ToldInv
  <2>5. EarlyInv'
    BY <2>1 DEF EndInv, EarlyInv, Unfinished, NotSetUp, Served
  <2>6. SentInv' /\ GoneInv'
    BY <2>1, <2>2 DEF EndInv, SentInv, GoneInv
  <2>7. SavingInv' /\ OutcomeInv'
    BY <2>1, <2>2 DEF EndInv, SavingInv, OutcomeInv
  <2> QED BY <2>4, <2>5, <2>6, <2>7 DEF EndInv
<1>4. ASSUME Leave PROVE EndInv'
  <2>1. /\ pc \in {"leaving", "refusing"} /\ pc' = "gone"
        /\ UNCHANGED <<out, wire, identified, outcome, answer, saved, sent, inflight, orphan,
                       stored, usage, begun, lost, cutInSave>>
    BY <1>4 DEF Leave, At, result, store, history
  <2>2. ~sent /\ stored = Nothing /\ orphan = Nothing /\ inflight = Nothing /\ ~identified
    BY <2>1 DEF TypeInv, EndTypes, EndInv, EarlyInv, Unfinished, NotSetUp
  <2>3. Ends' \subseteq Ends
    BY <2>1, EndsSame DEF TypeInv
  <2>4. ToldInv'
    <3>1. \A f \in Ends' : f.saved = FALSE
      BY <2>2, <2>3 DEF EndInv, ToldInv
    <3> QED BY <2>1, <2>2, <3>1 DEF ToldInv
  <2>5. EarlyInv' /\ SentInv' /\ GoneInv'
    BY <2>1, <2>2 DEF EndInv, EarlyInv, SentInv, GoneInv, Unfinished, NotSetUp, Served
  <2>6. SavingInv' /\ OutcomeInv'
    BY <2>1, <2>2 DEF EndInv, SavingInv, OutcomeInv
  <2> QED BY <2>4, <2>5, <2>6 DEF EndInv
<1> QED BY <1>1, <1>2, <1>3, <1>4

LEMMA EndStep == TypeInv /\ EndInv /\ [Next]_vars => EndInv'
<1> SUFFICES ASSUME TypeInv, EndInv, [Next]_vars PROVE EndInv'
  OBVIOUS
<1>1. CASE Send
  <2>1. UNCHANGED <<pc, identified, result, store, history>>
    BY <1>1 DEF Send
  <2> QED BY <1>1, <2>1, EndsSend, FramesKeep DEF TypeInv
<1>2. CASE UNCHANGED vars
  <2>1. UNCHANGED <<pc, identified, result, store, history>> /\ UNCHANGED <<wire, out>>
    BY <1>2 DEF vars
  <2> QED BY <2>1, EndsSame, FramesKeep DEF TypeInv
<1>3. CASE \/ \E mark \in BOOLEAN : Text(mark)
           \/ FinalText
           \/ \E n \in 1..MaxCalls : CallTools(n)
           \/ \E c \in open, state \in {"running", "completed"} : Progress(c, state)
           \/ \E found, redrawn \in BOOLEAN : Respond(found, redrawn)
           \/ StreamEnds \/ RepeatCall
           \/ \E event \in BOOLEAN : Rerun(event)
           \/ \E kind \in {"error", "timeout"}, event, said \in BOOLEAN : Break(kind, event, said)
  BY <1>3, StreamEndInv
<1>4. CASE \/ Acquire \/ SetUp \/ Settle \/ SettleFails
           \/ \E meta \in BOOLEAN : Enrich(meta)
           \/ \E broken \in BOOLEAN : Closeout(broken)
  BY <1>4, ClosingEndInv
<1>5. CASE SetUpFails \/ Persist \/ Disconnect
  BY <1>5, SetUpFailsEndInv, PersistEndInv, DisconnectEndInv
<1>6. CASE \/ Commit
           \/ \E landed \in BOOLEAN : WriteFails(landed)
           \/ \E landed \in BOOLEAN : OrphanEnds(landed)
  BY <1>6, StoreEndInv
<1>7. CASE Rescue \/ RescueFails \/ Close \/ Leave
  BY <1>7, LeavingEndInv
<1> QED BY <1>1, <1>2, <1>3, <1>4, <1>5, <1>6, <1>7, Steps

LEMMA EndRecordedFromInv == TypeInv /\ EndInv => EndRecorded
<1> SUFFICES ASSUME TypeInv, EndInv PROVE EndRecorded
  OBVIOUS
<1>1. HistoryAgrees
  <2> SUFFICES ASSUME Ended
               PROVE  LET told == [text |-> Verdict.text, status |-> Verdict.status]
                      IN  IF Verdict.saved THEN stored = told ELSE stored \in {Nothing, told}
    BY DEF HistoryAgrees
  <2>1. Verdict \in Ends
    BY DEF Ended, Verdict, OfKind, Ends
  <2>2. CASE Verdict.saved = FALSE /\ stored = Nothing
    BY <2>2
  <2>3. CASE sent /\ Verdict = Done(answer, saved)
    <3>1. /\ Verdict.text = answer.text /\ Verdict.status = answer.status /\ Verdict.saved = saved
      BY <2>3 DEF Done
    <3>2. answer = [text |-> answer.text, status |-> answer.status]
      BY DEF TypeInv, EndTypes, Snapshots
    <3> QED BY <2>3, <3>1, <3>2 DEF EndInv, SentInv
  <2> QED BY <2>1, <2>2, <2>3 DEF EndInv, ToldInv
<1>2. BegunTurnKept
  BY DEF BegunTurnKept, EndInv, EarlyInv, GoneInv
<1>3. UsageAgrees
  <2> SUFFICES ASSUME pc = "gone", stored # Nothing, ~cutInSave
               PROVE  CASE stored.status = "completed" -> usage = "ok"
                        [] stored.status = "failed" -> usage \in {"empty", "error", "timeout"}
                        [] OTHER -> usage = "aborted"
    BY DEF UsageAgrees
  <2>1. CASE sent
    <3>1. stored = answer /\ usage = outcome
      BY <2>1 DEF EndInv, SentInv, OutcomeInv
    <3> QED BY <2>1, <3>1 DEF EndInv, OutcomeInv
  <2>2. CASE stored.status = "interrupted" /\ usage = "aborted"
    BY <2>2
  <2> QED BY <2>1, <2>2 DEF EndInv, OutcomeInv
<1> QED BY <1>1, <1>2, <1>3 DEF EndRecorded

\* done, history and the usage row tell one story of a turn, and a turn that has
\* begun has one, on every path out of the generator (completion, the closeout of
\* errors, the finally block), whenever the client leaves.
THEOREM EndRecordedHolds == Spec => []EndRecorded
<1>1. Init => TypeInv /\ EndInv
  BY InitTypes, InitEnds
<1>2. TypeInv /\ EndInv /\ [Next]_vars => TypeInv' /\ EndInv'
  BY TypeStep, EndStep
<1>3. TypeInv /\ EndInv => EndRecorded
  BY EndRecordedFromInv
<1> QED BY <1>1, <1>2, <1>3, PTL DEF Spec

-----------------------------------------------------------------------------
(* The contract of the stream.  View is what the frames so far show.         *)

ViewAfter(view, frame) ==
    [stage |-> StageAfter(view.stage, frame), screen |-> ScreenAfter(view.screen, frame)]

View(frames) == [stage |-> StageOf(frames), screen |-> ScreenOf(frames)]

\* The functions by which StageOf and ScreenOf are defined, for the first n frames.
Part(of, view) == IF of = "stage" THEN view.stage ELSE view.screen
PartAfter(of, before, frame) ==
    IF of = "stage" THEN StageAfter(before, frame) ELSE ScreenAfter(before, frame)
Blank == [stage |-> "live", screen |-> <<>>]

Viewing(f, of, frames, n) ==
    f = [i \in 0..n |->
           IF i = 0 THEN Part(of, Blank) ELSE PartAfter(of, f[i - 1], frames[i])]

LEMMA ViewingExists ==
  ASSUME NEW of, NEW frames, NEW length \in Nat
  PROVE  \E f : Viewing(f, of, frames, length)
<1> DEFINE T == {n \in Nat : ~\E f : Viewing(f, of, frames, n)}
           first == Part(of, Blank)
<1> SUFFICES ASSUME T # {} PROVE FALSE
  OBVIOUS
<1>1. PICK n \in T : \A k \in T : n <= k
  BY LeastNat
<1>2. CASE n = 0
  <2> DEFINE r == [i \in 0..0 |-> first]
  <2>1. Viewing(r, of, frames, 0)
    BY DEF Viewing
  <2> QED BY <1>1, <1>2, <2>1
<1>3. CASE n > 0
  <2>1. n - 1 \in Nat /\ n - 1 \notin T
    BY <1>1, <1>3
  <2>2. PICK r : Viewing(r, of, frames, n - 1)
    BY <2>1
  <2> DEFINE f == [i \in 0..n |->
                     IF i = n THEN PartAfter(of, r[n - 1], frames[n]) ELSE r[i]]
  <2>3. \A i \in 0..n : f[i] = IF i = 0 THEN first ELSE PartAfter(of, f[i - 1], frames[i])
    <3> SUFFICES ASSUME NEW i \in 0..n
                 PROVE  f[i] = IF i = 0 THEN first ELSE PartAfter(of, f[i - 1], frames[i])
      OBVIOUS
    <3>1. CASE i = n
      BY <1>3, <3>1
    <3>2. CASE i # n
      <4>1. i \in 0..(n - 1) /\ f[i] = r[i] /\ (i # 0 => f[i - 1] = r[i - 1])
        BY <1>3, <3>2
      <4>2. r[i] = IF i = 0 THEN first ELSE PartAfter(of, r[i - 1], frames[i])
        BY <2>2, <4>1 DEF Viewing
      <4> HIDE DEF f
      <4> QED BY <4>1, <4>2
    <3> QED BY <3>1, <3>2
  <2>4. Viewing(f, of, frames, n)
    <3>1. f = [i \in 0..n |-> f[i]]
      OBVIOUS
    <3> HIDE DEF f
    <3> QED BY <2>3, <3>1 DEF Viewing
  <2> HIDE DEF f
  <2> QED BY <1>1, <2>4
<1> QED BY <1>1, <1>2, <1>3

LEMMA ViewIs ==
  ASSUME NEW frames, Len(frames) \in Nat
  PROVE  \E h : /\ View(frames) = h[Len(frames)]
                /\ h[0] = Blank
                /\ \A i \in 1..Len(frames) : h[i] = ViewAfter(h[i - 1], frames[i])
<1> DEFINE n == Len(frames)
           f == CHOOSE f : Viewing(f, "stage", frames, n)
           g == CHOOSE g : Viewing(g, "screen", frames, n)
           h == [i \in 0..n |-> [stage |-> f[i], screen |-> g[i]]]
<1>1. Viewing(f, "stage", frames, n)
  BY ViewingExists
<1>2. Viewing(g, "screen", frames, n)
  BY ViewingExists
<1>3. StageOf(frames) = f[n]
  BY DEF StageOf, Viewing, Part, PartAfter, Blank
<1>4. ScreenOf(frames) = g[n]
  BY DEF ScreenOf, Viewing, Part, PartAfter, Blank
<1> HIDE DEF f, g
<1>5. f[0] = "live" /\ g[0] = <<>>
  BY <1>1, <1>2 DEF Viewing, Part, Blank
<1>6. ASSUME NEW i \in 1..n
      PROVE  f[i] = StageAfter(f[i - 1], frames[i]) /\ g[i] = ScreenAfter(g[i - 1], frames[i])
  <2>1. i \in 0..n /\ i # 0
    OBVIOUS
  <2> HIDE DEF n
  <2>2. f[i] = PartAfter("stage", f[i - 1], frames[i])
    BY <1>1, <2>1 DEF Viewing
  <2>3. g[i] = PartAfter("screen", g[i - 1], frames[i])
    BY <1>2, <2>1 DEF Viewing
  <2> QED BY <2>2, <2>3 DEF PartAfter
<1>7. \A i \in 0..n : h[i] = [stage |-> f[i], screen |-> g[i]]
  OBVIOUS
<1> HIDE DEF h
<1>8. View(frames) = h[n] /\ h[0] = Blank
  BY <1>3, <1>4, <1>5, <1>7 DEF View, Blank
<1>9. ASSUME NEW i \in 1..n PROVE h[i] = ViewAfter(h[i - 1], frames[i])
  <2>1. i \in 0..n /\ i - 1 \in 0..n
    OBVIOUS
  <2> HIDE DEF n
  <2>2. /\ h[i] = [stage |-> f[i], screen |-> g[i]]
        /\ h[i - 1] = [stage |-> f[i - 1], screen |-> g[i - 1]]
        /\ f[i] = StageAfter(f[i - 1], frames[i]) /\ g[i] = ScreenAfter(g[i - 1], frames[i])
    BY <1>6, <1>7, <2>1
  <2> QED BY <2>2 DEF ViewAfter
<1> QED BY <1>8, <1>9

LEMMA ViewEmpty == View(<<>>) = Blank
<1>1. Len(<<>>) = 0
  OBVIOUS
<1> QED BY <1>1, ViewIs

LEMMA ViewAppend ==
  ASSUME NEW frames \in Seq(Frames), NEW frame \in Frames
  PROVE  View(Append(frames, frame)) = ViewAfter(View(frames), frame)
<1> DEFINE n == Len(frames)
           more == Append(frames, frame)
<1>1. /\ n \in Nat /\ Len(more) = n + 1 /\ more[n + 1] = frame
      /\ \A i \in 1..n : more[i] = frames[i]
  OBVIOUS
<1> HIDE DEF more
<1>2. PICK f : /\ View(frames) = f[n]
               /\ f[0] = Blank
               /\ \A i \in 1..n : f[i] = ViewAfter(f[i - 1], frames[i])
  BY <1>1, ViewIs
<1>3. PICK g : /\ View(more) = g[n + 1]
               /\ g[0] = Blank
               /\ \A i \in 1..(n + 1) : g[i] = ViewAfter(g[i - 1], more[i])
  BY <1>1, ViewIs
<1> HIDE DEF n
<1> DEFINE T == {i \in 0..n : f[i] # g[i]}
<1>4. T = {}
  <2> SUFFICES ASSUME T # {} PROVE FALSE
    OBVIOUS
  <2>1. PICK i \in T : \A k \in T : i <= k
    <3>1. T \in SUBSET Nat
      BY <1>1
    <3> HIDE DEF T
    <3> QED BY <3>1, LeastNat
  <2>2. i # 0 /\ i \in 1..n /\ i - 1 \in 0..n
    BY <1>1, <1>2, <1>3
  <2>3. f[i - 1] = g[i - 1]
    <3>1. i - 1 \notin T
      BY <1>1, <2>1, <2>2
    <3> QED BY <2>2, <3>1
  <2>4. f[i] = ViewAfter(f[i - 1], frames[i]) /\ g[i] = ViewAfter(g[i - 1], more[i])
        /\ more[i] = frames[i]
    BY <1>1, <1>2, <1>3, <2>2
  <2> QED BY <2>1, <2>3, <2>4
<1>5. f[n] = g[n]
  BY <1>1, <1>4
<1>6. g[n + 1] = ViewAfter(g[n], more[n + 1])
  BY <1>1, <1>3
<1> QED BY <1>1, <1>2, <1>3, <1>5, <1>6 DEF more

-----------------------------------------------------------------------------
(* Who wrote what.  Text that went out has the round and the try of what the *)
(* model wrote, and a round is written in one try: the first token of a round *)
(* opens it, and from then on its call is not repeated.                      *)

OneCall(said) ==
    \A i, j \in DOMAIN said : said[i].round = said[j].round => said[i].try = said[j].try

\* One text has the rounds and tries of the other, as far as it goes.
Repeats(shown, body) ==
    \A i \in DOMAIN shown : shown[i].round = body[i].round /\ shown[i].try = body[i].try

CallInv ==
    /\ OneCall(raw) /\ Repeats(streamed, raw) /\ Len(finalText) <= 1
    /\ \A k \in DOMAIN raw : raw[k].round <= round
    /\ pc = "streaming" /\ ~toolPending =>
         \A k \in DOMAIN raw : raw[k].round = round => started /\ raw[k].try = tries
    /\ pc \in {"waiting", "preparing"} => raw = <<>>

LEMMA RepeatsFeed ==
  ASSUME NEW body \in Seq(Tokens), NEW final \in BOOLEAN,
         streamed \in Seq(Shown), Len(streamed) <= Len(body),
         final \/ Len(streamed) <= Stable(body), Repeats(streamed, body)
  PROVE  Repeats(streamed \o Feed(body, final), body)
<1> DEFINE chunk == Feed(body, final)
           n == Len(streamed)
<1>1. /\ chunk \in Seq(Shown)
      /\ \A i \in DOMAIN chunk : /\ chunk[i].round = body[n + i].round
                                 /\ chunk[i].try = body[n + i].try
  BY FeedIs
<1> HIDE DEF chunk
<1>2. /\ n \in Nat /\ DOMAIN (streamed \o chunk) = 1..(n + Len(chunk)) /\ Len(chunk) \in Nat
      /\ DOMAIN streamed = 1..n /\ DOMAIN chunk = 1..Len(chunk)
      /\ \A i \in 1..n : (streamed \o chunk)[i] = streamed[i]
      /\ \A i \in 1..Len(chunk) : (streamed \o chunk)[n + i] = chunk[i]
  BY <1>1
<1> DEFINE all == streamed \o chunk
<1> SUFFICES ASSUME NEW i \in DOMAIN all
             PROVE  all[i].round = body[i].round /\ all[i].try = body[i].try
  BY DEF Repeats, chunk
<1> HIDE DEF n, all
<1>3. CASE i \in 1..n
  <2>1. all[i] = streamed[i] /\ i \in DOMAIN streamed
    BY <1>2, <1>3 DEF all
  <2> QED BY <2>1 DEF Repeats
<1>4. CASE i \notin 1..n
  <2> DEFINE k == i - n
  <2>1. k \in 1..Len(chunk) /\ i = n + k
    BY <1>2, <1>4 DEF all
  <2> HIDE DEF k
  <2>2. all[i] = chunk[k] /\ k \in DOMAIN chunk
    BY <1>2, <2>1 DEF all
  <2> QED BY <1>1, <2>1, <2>2
<1> QED BY <1>3, <1>4

\* What repeats one call's text is one call's text.
LEMMA OneCallRepeats ==
  ASSUME NEW S, NEW T, NEW shown \in Seq(S), NEW body \in Seq(T), OneCall(body),
         \A i \in DOMAIN shown : \E k \in DOMAIN body :
            shown[i].round = body[k].round /\ shown[i].try = body[k].try
  PROVE  OneCall(shown)
BY DEF OneCall

LEMMA OneCallShown ==
  ASSUME NEW shown \in Seq(Shown), NEW body \in Seq(Tokens), Len(shown) <= Len(body),
         OneCall(body), Repeats(shown, body)
  PROVE  OneCall(shown)
<1>1. \A i \in DOMAIN shown : i \in DOMAIN body
  OBVIOUS
<1> QED BY <1>1, OneCallRepeats DEF Repeats

LEMMA OneCallBody ==
  ASSUME TypeInv, CallInv
  PROVE  OneCall(Body) /\ Body \in Seq(Tokens)
<1>1. raw \in Seq(Tokens) /\ finalText \in Seq(Tokens) /\ Len(finalText) \in Nat
  BY DEF TypeInv, TextTypes
<1>2. OneCall(finalText)
  <2>1. DOMAIN finalText = 1..Len(finalText)
    BY <1>1
  <2>2. \A i, j \in DOMAIN finalText : i = j
    BY <1>1, <2>1 DEF CallInv
  <2> QED BY <2>2 DEF OneCall
<1> QED BY <1>1, <1>2 DEF Body, CallInv

\* The text an answer shows.
LEMMA OneCallAnswer ==
  /\ OneCall(Apology) /\ OneCall(<<>>)
  /\ TypeInv /\ CallInv => OneCall(Substantive(Finalized))
  /\ \A shown \in Seq(Shown) : OneCall(shown) => OneCall(Substantive(Salvaged(shown)))
<1>1. OneCall(Apology) /\ OneCall(<<>>)
  BY ApologyIs DEF OneCall
<1>2. ASSUME TypeInv, CallInv PROVE OneCall(Substantive(Finalized))
  <2> DEFINE final == Finalized
  <2>1. /\ final \in Seq(Shown)
        /\ \A i \in DOMAIN final : \E k \in DOMAIN Body :
             final[i].round = Body[k].round /\ final[i].try = Body[k].try
    BY <1>2, FinalizedIs DEF TypeInv, TextTypes
  <2> HIDE DEF final
  <2>2. OneCall(final)
    BY <1>2, <2>1, OneCallBody, OneCallRepeats
  <2> QED BY <1>1, <2>2 DEF Substantive, final
<1>3. ASSUME NEW shown \in Seq(Shown), OneCall(shown)
      PROVE  OneCall(Substantive(Salvaged(shown)))
  <2> DEFINE final == Salvaged(shown)
  <2>1. /\ final \in Seq(Shown)
        /\ \A i \in DOMAIN final : \E k \in DOMAIN shown : final[i] = shown[k]
    BY SalvagedIs
  <2> HIDE DEF final
  <2>2. OneCall(final)
    BY <1>3, <2>1, OneCallRepeats
  <2> QED BY <1>1, <2>2 DEF Substantive, final
<1> QED BY <1>1, <1>2, <1>3

LEMMA InitCalls == Init => CallInv
<1> SUFFICES ASSUME Init PROVE CallInv
  OBVIOUS
<1>1. raw = <<>> /\ streamed = <<>> /\ finalText = <<>> /\ DOMAIN raw = {} /\ Len(finalText) = 0
  BY DEF Init
<1> QED BY <1>1 DEF CallInv, OneCall, Repeats

LEMMA TextCalls ==
  ASSUME TypeInv, CallInv, NEW mark \in BOOLEAN, Text(mark)
  PROVE  CallInv'
<1> DEFINE token == [mark |-> mark, round |-> Round, try |-> tries]
           body == Append(raw, token)
           chunk == Feed(body, FALSE)
           n == Len(raw)
<1>1. /\ pc = "streaming" /\ pc' = pc
      /\ raw' = body /\ streamed' = streamed \o chunk
      /\ round' = Round /\ started' = TRUE /\ tries' = tries /\ finalText' = finalText
  BY DEF Text, Reading, At, ModelEvent
<1>2. /\ body \in Seq(Tokens) /\ raw \in Seq(Tokens) /\ streamed \in Seq(Shown)
      /\ Len(body) = n + 1 /\ n \in Nat /\ Len(streamed) <= n /\ Len(streamed) \in Nat
      /\ \A k \in 1..n : body[k] = raw[k]
      /\ body[n + 1] = token /\ DOMAIN body = 1..(n + 1) /\ DOMAIN raw = 1..n
  BY TokenIs DEF TypeInv, TextTypes
<1>3. token.round = Round /\ token.try = tries
  OBVIOUS
<1>r. round \in Nat /\ Round \in Nat /\ round <= Round
  BY RoundIs DEF TypeInv, ProcessTypes, Round
<1> HIDE DEF token, body, n
<1>4. Repeats(streamed, body)
  <2> SUFFICES ASSUME NEW i \in DOMAIN streamed
               PROVE  streamed[i].round = body[i].round /\ streamed[i].try = body[i].try
    BY DEF Repeats
  <2>1. i \in 1..n
    BY <1>2
  <2> QED BY <1>2, <2>1 DEF CallInv, Repeats
<1>5. Repeats(streamed \o chunk, body)
  <2>1. Stable(body) >= Len(body) - 1 /\ Stable(body) \in Nat
    BY <1>2, StableIs
  <2>2. Len(streamed) <= Stable(body) /\ Len(streamed) <= Len(body)
    BY <1>2, <2>1
  <2> QED BY <1>2, <1>4, <2>2, RepeatsFeed
<1> HIDE DEF chunk
<1>6. ASSUME NEW k \in 1..n PROVE body[k].round <= Round /\ (body[k].round = Round => body[k].try = tries)
  <2>0. raw[k] \in Tokens
    BY <1>2, ElementOfSeq
  <2>1. body[k] = raw[k] /\ raw[k].round <= round /\ raw[k].round \in Nat
    BY <1>2, <2>0 DEF CallInv, Tokens
  <2>2. CASE toolPending
    <3>1. Round = round + 1
      BY <2>2 DEF Round
    <3> QED BY <1>r, <2>1, <3>1
  <2>3. CASE ~toolPending
    <3>1. Round = round
      BY <2>3 DEF Round
    <3> QED BY <1>1, <1>2, <2>1, <2>3, <3>1 DEF CallInv
  <2> QED BY <1>r, <2>1, <2>2, <2>3
<1>7. \A k \in 1..(n + 1) : body[k].round <= Round /\ (body[k].round = Round => body[k].try = tries)
  <2> SUFFICES ASSUME NEW k \in 1..(n + 1)
               PROVE  body[k].round <= Round /\ (body[k].round = Round => body[k].try = tries)
    OBVIOUS
  <2>1. CASE k = n + 1
    BY <1>2, <1>3, <1>r, <2>1
  <2>2. CASE k # n + 1
    BY <1>2, <1>6, <2>2
  <2> QED BY <2>1, <2>2
<1>8. OneCall(body)
  <2> SUFFICES ASSUME NEW i \in 1..(n + 1), NEW j \in 1..(n + 1), body[i].round = body[j].round
               PROVE  body[i].try = body[j].try
    BY <1>2 DEF OneCall
  <2>1. CASE body[i].round = Round
    BY <1>7, <2>1
  <2>2. CASE body[i].round # Round
    <3>1. i \in 1..n /\ j \in 1..n
      BY <1>2, <1>3, <2>2
    <3> QED BY <1>2, <3>1 DEF CallInv, OneCall
  <2> QED BY <2>1, <2>2
<1> QED BY <1>1, <1>2, <1>5, <1>7, <1>8 DEF CallInv

\* The rest of what a model event may do to the text.
LEMMA EventCalls ==
  ASSUME TypeInv, CallInv, pc = "streaming", pc' = pc, raw' = raw, round' = Round,
         toolPending' = FALSE, started' = TRUE, tries' = tries,
         Repeats(streamed', raw), Len(finalText') <= 1
  PROVE  CallInv'
<1>1. raw \in Seq(Tokens) /\ round \in Nat
  BY DEF TypeInv, TextTypes, ProcessTypes
<1>2. \A k \in DOMAIN raw : raw[k].round <= Round /\ (raw[k].round = Round => raw[k].try = tries)
  <2> SUFFICES ASSUME NEW k \in DOMAIN raw
               PROVE  raw[k].round <= Round /\ (raw[k].round = Round => raw[k].try = tries)
    OBVIOUS
  <2>0. raw[k] \in Tokens
    BY <1>1, ElementOfSeq
  <2>1. raw[k].round <= round /\ raw[k].round \in Nat
    BY <2>0 DEF CallInv, Tokens
  <2>2. CASE toolPending
    <3>1. Round = round + 1
      BY <2>2 DEF Round
    <3> QED BY <1>1, <2>1, <3>1
  <2>3. CASE ~toolPending
    <3>1. Round = round
      BY <2>3 DEF Round
    <3> QED BY <2>1, <2>3, <3>1 DEF CallInv
  <2> QED BY <2>2, <2>3
<1> QED BY <1>2 DEF CallInv

LEMMA FedCalls ==
  ASSUME TypeInv, CallInv
  PROVE  Repeats(streamed \o Feed(raw, TRUE), raw)
BY RepeatsFeed DEF TypeInv, TextTypes, CallInv

\* The screen is one call's text in each round, with the held tail and with the
\* next piece of text.
LEMMA OneCallFed ==
  ASSUME TypeInv, CallInv
  PROVE  OneCall(streamed) /\ OneCall(streamed \o Feed(raw, TRUE))
<1> DEFINE all == streamed \o Feed(raw, TRUE)
<1>1. /\ raw \in Seq(Tokens) /\ streamed \in Seq(Shown) /\ Len(streamed) <= Len(raw)
      /\ OneCall(raw) /\ Repeats(streamed, raw) /\ Len(raw) \in Nat
  BY DEF TypeInv, TextTypes, CallInv
<1>2. all \in Seq(Shown) /\ Len(all) = Len(raw)
  BY <1>1, FeedIs
<1>3. Repeats(all, raw)
  BY FedCalls
<1> HIDE DEF all
<1>4. Len(all) <= Len(raw)
  BY <1>1, <1>2
<1> QED BY <1>1, <1>2, <1>3, <1>4, OneCallShown DEF all

LEMMA OneCallText ==
  ASSUME TypeInv, CallInv, NEW mark \in BOOLEAN, Text(mark)
  PROVE  OneCall(streamed')
<1>1. TypeInv' /\ CallInv'
  BY TextTyped, TextCalls
<1>2. /\ raw' \in Seq(Tokens) /\ streamed' \in Seq(Shown) /\ Len(streamed') <= Len(raw')
  BY <1>1 DEF TypeInv, TextTypes
<1>3. OneCall(raw') /\ Repeats(streamed', raw')
  BY <1>1 DEF CallInv, OneCall, Repeats
<1> QED BY <1>2, <1>3, OneCallShown

\* Text and round as they were, and no new claim on the present call.
LEMMA SameCalls ==
  ASSUME CallInv, raw' = raw, Repeats(streamed', raw), Len(finalText') <= 1, round' = round,
         pc' = "streaming" /\ ~toolPending' =>
           \/ pc = "streaming" /\ ~toolPending /\ UNCHANGED <<started, tries>>
           \/ pc = "streaming" /\ ~toolPending /\ ~started
           \/ raw = <<>>,
         pc' \in {"waiting", "preparing"} => pc \in {"waiting", "preparing"}
  PROVE  CallInv'
<1>1. \A k \in DOMAIN raw : raw # <<>>
  OBVIOUS
<1> QED BY <1>1 DEF CallInv

LEMMA CallStep == TypeInv /\ CallInv /\ [Next]_vars => CallInv'
<1> SUFFICES ASSUME TypeInv, CallInv, [Next]_vars PROVE CallInv'
  OBVIOUS
<1>0. Repeats(streamed, raw) /\ Len(finalText) <= 1 /\ (pc \in {"waiting", "preparing"} => raw = <<>>)
  BY DEF CallInv
<1>1. CASE \E mark \in BOOLEAN : Text(mark)
  BY <1>1, TextCalls
<1>2. CASE FinalText
  <2>1. /\ pc = "streaming" /\ pc' = pc /\ raw' = raw /\ round' = Round /\ toolPending' = FALSE
        /\ started' = TRUE /\ tries' = tries /\ streamed' = streamed
        /\ finalText' = <<[mark |-> FALSE, round |-> Round, try |-> tries]>>
    BY <1>2 DEF FinalText, Reading, At, ModelEvent
  <2>2. Len(finalText') <= 1
    <3>1. Len(finalText') = 1
      BY <2>1
    <3> QED BY <3>1
  <2>3. Repeats(streamed', raw)
    BY <1>0, <2>1
  <2> QED BY <2>1, <2>2, <2>3, EventCalls
<1>3. ASSUME NEW n \in 1..MaxCalls, CallTools(n) PROVE CallInv'
  <2>1. /\ pc = "streaming" /\ pc' = pc /\ raw' = raw /\ round' = Round /\ toolPending' = FALSE
        /\ started' = TRUE /\ tries' = tries /\ streamed' = streamed \o Feed(raw, TRUE)
        /\ finalText' = finalText
    BY <1>3 DEF CallTools, Reading, At, ModelEvent
  <2> QED BY <1>0, <2>1, FedCalls, EventCalls
<1>4. ASSUME NEW c \in open, NEW state \in {"running", "completed"}, Progress(c, state)
      PROVE  CallInv'
  <2>1. UNCHANGED <<pc, raw, streamed, finalText, round, toolPending, started, tries>>
    BY <1>4 DEF Progress, text, request
  <2> QED BY <1>0, <2>1 DEF CallInv
<1>5. ASSUME NEW found \in BOOLEAN, NEW redrawn \in BOOLEAN, Respond(found, redrawn)
      PROVE  CallInv'
  <2>1. toolPending' = TRUE /\ pc' = "streaming" /\ UNCHANGED <<raw, streamed, finalText, round>>
    BY <1>5 DEF Respond, At
  <2> QED BY <1>0, <2>1, SameCalls
<1>6. CASE StreamEnds
  <2>1. /\ pc' = "settling" /\ UNCHANGED <<raw, finalText, round>>
        /\ streamed' = streamed \o Feed(raw, TRUE)
    BY <1>6 DEF StreamEnds
  <2> QED BY <1>0, <2>1, FedCalls, SameCalls
<1>7. CASE RepeatCall
  <2>1. pc = "streaming" /\ ~started /\ UNCHANGED <<pc, raw, streamed, finalText, round, toolPending>>
    BY <1>7 DEF RepeatCall, Reading, At, text, process
  <2> QED BY <1>0, <2>1, SameCalls
<1>8. ASSUME NEW event \in BOOLEAN, Rerun(event) PROVE CallInv'
  <2>1. raw' = <<>> /\ streamed' = <<>> /\ finalText' = <<>> /\ DOMAIN raw' = {} /\ Len(finalText') = 0
    BY <1>8 DEF Rerun
  <2> QED BY <2>1 DEF CallInv, OneCall, Repeats
<1>9. ASSUME NEW kind \in {"error", "timeout"}, NEW event \in BOOLEAN, NEW said \in BOOLEAN,
             Break(kind, event, said)
      PROVE  CallInv'
  <2>1. /\ pc' = "failing" /\ UNCHANGED <<raw, streamed, round>>
        /\ finalText' = IF said THEN <<[mark |-> FALSE, round |-> Round, try |-> tries]>>
                        ELSE finalText
    BY <1>9 DEF Break, BreakIn, process
  <2>2. Len(finalText') <= 1
    <3>1. CASE said
      <4>1. Len(finalText') = 1
        BY <2>1, <3>1
      <4> QED BY <4>1
    <3>2. CASE ~said
      BY <1>0, <2>1, <3>2
    <3> QED BY <3>1, <3>2
  <2> QED BY <1>0, <2>1, <2>2, SameCalls
<1>10. ASSUME NEW broken \in BOOLEAN, Closeout(broken) PROVE CallInv'
  <2>1. /\ pc' = "persisting" /\ UNCHANGED <<raw, finalText, round>>
        /\ streamed' = streamed \o Feed(raw, TRUE)
    BY <1>10 DEF Closeout
  <2> QED BY <1>0, <2>1, FedCalls, SameCalls
<1>11. ASSUME UNCHANGED <<text, process, request>>, pc' = "streaming" => pc \in {"preparing", "streaming"},
              pc' \in {"waiting", "preparing"} => pc \in {"waiting", "preparing"}
       PROVE  CallInv'
  <2>1. UNCHANGED <<raw, streamed, finalText, round, toolPending, started, tries>>
    BY <1>11 DEF text, process, request
  <2> QED BY <1>0, <1>11, <2>1, SameCalls
<1>12. CASE Send \/ Acquire \/ SetUp \/ SetUpFails
  BY <1>11, <1>12 DEF Send, Acquire, SetUp, SetUpFails, At
<1>13. CASE \/ Settle \/ SettleFails \/ \E meta \in BOOLEAN : Enrich(meta)
  BY <1>11, <1>13 DEF Settle, SettleFails, Enrich
<1>14. CASE Persist \/ Disconnect \/ Rescue \/ RescueFails \/ Close \/ Leave
  BY <1>11, <1>14 DEF Persist, Disconnect, Rescue, RescueFails, Close, Leave, Closed
<1>15. CASE Commit \/ (\E landed \in BOOLEAN : WriteFails(landed))
  BY <1>11, <1>15 DEF Commit, WriteFails, Resume, Closed
<1>16. CASE (\E landed \in BOOLEAN : OrphanEnds(landed)) \/ UNCHANGED vars
  BY <1>11, <1>16 DEF OrphanEnds, vars
<1> QED
  BY <1>1, <1>2, <1>3, <1>4, <1>5, <1>6, <1>7, <1>8, <1>9, <1>10, <1>12, <1>13, <1>14, <1>15,
     <1>16, Steps

-----------------------------------------------------------------------------
(* Frames that are still on their way.  Allowed says which frame the contract *)
(* has a step for in a view, Leads that frames, each allowed in turn, take    *)
(* the client from one view to another.                                       *)

\* A view.
Showing(stage, screen) == [stage |-> stage, screen |-> screen]

\* The frames that leave the text as it is.
Remarks == {"error", "step", "preview", "content"}

\* The frames that the contract has a step for.
Allowed(view, frame) ==
    \/ frame.kind \in Remarks /\ view.stage = "live"
    \/ frame.kind = "refs"
    \/ /\ frame.kind = "delta" /\ frame.text # <<>> /\ OneCall(view.screen \o frame.text)
       /\ view.stage = "live" \/ (view.stage = "settled" /\ view.screen = <<>>)
    \/ frame.kind = "reset" /\ view.stage = "live" /\ view.screen # <<>>
    \/ frame.kind = "sources" /\ view.stage \in {"live", "revised"}
    \/ frame.kind = "answer" /\ view.stage \in {"settled", "corrected"} /\ view.screen # <<>>
    \/ frame.kind = "meta" /\ view.stage = "answered"
    \/ frame.kind = "done" /\ view.stage \in {"answered", "extra"} /\ frame.text = view.screen

\* The frames, all allowed, lead from one view to the other: g holds the views.
Leads(from, frames, to) ==
    \E g : /\ g[0] = from /\ g[Len(frames)] = to
           /\ \A i \in 1..Len(frames) : /\ Allowed(g[i - 1], frames[i])
                                        /\ g[i] = ViewAfter(g[i - 1], frames[i])

LEMMA LeadsNone ==
  ASSUME NEW from
  PROVE  /\ Leads(from, <<>>, from)
         /\ \A to : Leads(from, <<>>, to) => to = from
<1>1. Len(<<>>) = 0
  OBVIOUS
<1>2. Leads(from, <<>>, from)
  <2> DEFINE g == [i \in {0} |-> from]
  <2>1. g[0] = from
    OBVIOUS
  <2> HIDE DEF g
  <2> QED BY <1>1, <2>1 DEF Leads
<1> QED BY <1>1, <1>2 DEF Leads

LEMMA LeadsOne ==
  ASSUME NEW from, NEW frame, Allowed(from, frame)
  PROVE  Leads(from, <<frame>>, ViewAfter(from, frame))
<1> DEFINE g == [i \in 0..1 |-> IF i = 0 THEN from ELSE ViewAfter(from, frame)]
<1>1. g[0] = from /\ g[1] = ViewAfter(from, frame)
  OBVIOUS
<1>2. Len(<<frame>>) = 1 /\ <<frame>>[1] = frame
  OBVIOUS
<1> HIDE DEF g
<1>3. \A i \in 1..1 : Allowed(g[i - 1], <<frame>>[i]) /\ g[i] = ViewAfter(g[i - 1], <<frame>>[i])
  BY <1>1, <1>2
<1> QED BY <1>1, <1>2, <1>3 DEF Leads

LEMMA LeadsOn ==
  ASSUME NEW S, NEW a \in Seq(S), NEW b \in Seq(S), NEW from, NEW mid, NEW to,
         Leads(from, a, mid), Leads(mid, b, to)
  PROVE  Leads(from, a \o b, to)
<1> DEFINE m == Len(a)
           n == Len(b)
           c == a \o b
<1>1. /\ m \in Nat /\ n \in Nat /\ Len(c) = m + n
      /\ \A i \in 1..m : c[i] = a[i]
      /\ \A i \in 1..n : c[m + i] = b[i]
  OBVIOUS
<1>2. PICK f : /\ f[0] = from /\ f[m] = mid
               /\ \A i \in 1..m : Allowed(f[i - 1], a[i]) /\ f[i] = ViewAfter(f[i - 1], a[i])
  BY DEF Leads
<1>3. PICK g : /\ g[0] = mid /\ g[n] = to
               /\ \A i \in 1..n : Allowed(g[i - 1], b[i]) /\ g[i] = ViewAfter(g[i - 1], b[i])
  BY DEF Leads
<1> HIDE DEF m, n, c
<1> DEFINE h == [i \in 0..(m + n) |-> IF i <= m THEN f[i] ELSE g[i - m]]
<1>4. /\ \A i \in 0..m : h[i] = f[i]
      /\ \A i \in 0..n : h[m + i] = g[i]
  <2>1. \A i \in 0..m : h[i] = f[i]
    BY <1>1
  <2>2. ASSUME NEW i \in 0..n PROVE h[m + i] = g[i]
    <3>1. CASE i = 0
      BY <1>1, <1>2, <1>3, <3>1
    <3>2. CASE i > 0
      <4>1. m + i \in 0..(m + n) /\ ~(m + i <= m) /\ (m + i) - m = i
        BY <1>1, <3>2
      <4> QED BY <4>1
    <3> QED BY <3>1, <3>2
  <2> QED BY <2>1, <2>2
<1> HIDE DEF h
<1>5. ASSUME NEW i \in 1..(m + n)
      PROVE  Allowed(h[i - 1], c[i]) /\ h[i] = ViewAfter(h[i - 1], c[i])
  <2>1. CASE i <= m
    <3>1. i \in 1..m /\ i \in 0..m /\ i - 1 \in 0..m
      BY <1>1, <2>1
    <3>2. h[i] = f[i] /\ h[i - 1] = f[i - 1] /\ c[i] = a[i]
      BY <1>1, <1>4, <3>1
    <3> QED BY <1>2, <3>1, <3>2
  <2>2. CASE i > m
    <3> DEFINE k == i - m
    <3>1. k \in 1..n /\ k \in 0..n /\ k - 1 \in 0..n /\ i = m + k /\ i - 1 = m + (k - 1)
      BY <1>1, <2>2
    <3> HIDE DEF k
    <3>2. h[i] = g[k] /\ h[i - 1] = g[k - 1] /\ c[i] = b[k]
      BY <1>1, <1>4, <3>1
    <3> QED BY <1>3, <3>1, <3>2
  <2> QED BY <1>1, <2>1, <2>2
<1>6. h[0] = from /\ h[m + n] = to
  <2>1. 0 \in 0..m /\ n \in 0..n
    BY <1>1
  <2> QED BY <1>2, <1>3, <1>4, <2>1
<1>7. \E p : /\ p[0] = from /\ p[Len(c)] = to
             /\ \A i \in 1..Len(c) : Allowed(p[i - 1], c[i]) /\ p[i] = ViewAfter(p[i - 1], c[i])
  BY <1>1, <1>5, <1>6
<1> QED BY <1>7 DEF Leads, c

\* The first of the frames can be sent, and the others lead on.
LEMMA LeadsNext ==
  ASSUME NEW S, NEW frames \in Seq(S), frames # <<>>, NEW from, NEW to, Leads(from, frames, to)
  PROVE  /\ Allowed(from, Head(frames))
         /\ Leads(ViewAfter(from, Head(frames)), Tail(frames), to)
<1> DEFINE n == Len(frames)
           rest == Tail(frames)
<1>1. /\ n \in Nat \ {0} /\ Len(rest) = n - 1 /\ Head(frames) = frames[1]
      /\ \A i \in 1..(n - 1) : rest[i] = frames[i + 1]
  BY EmptySeq
<1>2. PICK g : /\ g[0] = from /\ g[n] = to
               /\ \A i \in 1..n : /\ Allowed(g[i - 1], frames[i])
                                  /\ g[i] = ViewAfter(g[i - 1], frames[i])
  BY DEF Leads
<1> HIDE DEF n, rest
<1>3. Allowed(from, Head(frames)) /\ g[1] = ViewAfter(from, Head(frames))
  <2>1. 1 \in 1..n /\ 1 - 1 = 0
    BY <1>1
  <2>2. Allowed(g[0], frames[1]) /\ g[1] = ViewAfter(g[0], frames[1])
    BY <1>2, <2>1
  <2> QED BY <1>1, <1>2, <2>2
<1> DEFINE h == [i \in 0..(n - 1) |-> g[i + 1]]
<1>4. \A i \in 0..(n - 1) : h[i] = g[i + 1]
  OBVIOUS
<1> HIDE DEF h
<1>5. h[0] = g[1] /\ h[n - 1] = to
  <2>1. 0 \in 0..(n - 1) /\ n - 1 \in 0..(n - 1) /\ 0 + 1 = 1 /\ (n - 1) + 1 = n
    BY <1>1
  <2> QED BY <1>2, <1>4, <2>1
<1>6. ASSUME NEW i \in 1..(n - 1)
      PROVE  Allowed(h[i - 1], rest[i]) /\ h[i] = ViewAfter(h[i - 1], rest[i])
  <2>1. i + 1 \in 1..n /\ i \in 0..(n - 1) /\ i - 1 \in 0..(n - 1) /\ (i - 1) + 1 = i
        /\ (i + 1) - 1 = i
    BY <1>1
  <2>2. h[i - 1] = g[i] /\ h[i] = g[i + 1] /\ rest[i] = frames[i + 1]
    BY <1>1, <1>4, <2>1
  <2>3. Allowed(g[i], frames[i + 1]) /\ g[i + 1] = ViewAfter(g[i], frames[i + 1])
    BY <1>2, <2>1
  <2> QED BY <2>2, <2>3
<1>7. \E p : /\ p[0] = g[1] /\ p[Len(rest)] = to
             /\ \A i \in 1..Len(rest) : Allowed(p[i - 1], rest[i]) /\ p[i] = ViewAfter(p[i - 1], rest[i])
  BY <1>1, <1>5, <1>6
<1>8. Leads(g[1], rest, to)
  BY <1>7 DEF Leads
<1> QED BY <1>3, <1>8 DEF rest

\* Remarks leave the view as it is.
LEMMA LeadsRemarks ==
  ASSUME NEW screen, NEW S, NEW frames \in Seq(S),
         \A i \in 1..Len(frames) : frames[i].kind \in Remarks \cup {"refs"}
  PROVE  Leads(Showing("live", screen), frames, Showing("live", screen))
<1> DEFINE v == Showing("live", screen)
           g == [i \in 0..Len(frames) |-> v]
<1>1. Len(frames) \in Nat
  OBVIOUS
<1>2. \A i \in 0..Len(frames) : g[i] = v
  OBVIOUS
<1> HIDE DEF g
<1>3. ASSUME NEW i \in 1..Len(frames)
      PROVE  Allowed(g[i - 1], frames[i]) /\ g[i] = ViewAfter(g[i - 1], frames[i])
  <2>1. g[i - 1] = v /\ g[i] = v
    BY <1>1, <1>2
  <2>2. Allowed(v, frames[i])
    BY DEF Allowed, Showing
  <2>3. ViewAfter(v, frames[i]) = v
    <3>1. frames[i].kind \in {"error", "step", "preview", "content", "refs"}
      BY DEF Remarks
    <3> QED BY <3>1 DEF ViewAfter, Showing, StageAfter, ScreenAfter
  <2> QED BY <2>1, <2>2, <2>3
<1>4. g[0] = v /\ g[Len(frames)] = v
  BY <1>1, <1>2
<1> QED BY <1>3, <1>4 DEF Leads

\* What single frames do.
LEMMA LeadsFrame ==
  ASSUME NEW screen
  PROVE  /\ \A kind \in {"error", "refs", "preview"} : \A stage :
              (stage = "live" \/ kind = "refs") =>
              Leads(Showing(stage, screen), <<Plain(kind)>>, Showing(stage, screen))
         /\ \A chunk, r : chunk # <<>> =>
              /\ OneCall(screen \o chunk) =>
                   Leads(Showing("live", screen), <<Delta(chunk, r)>>, Showing("live", screen \o chunk))
              /\ OneCall(<<>> \o chunk) =>
                   Leads(Showing("settled", <<>>), <<Delta(chunk, r)>>,
                         Showing("corrected", <<>> \o chunk))
         /\ \A ph, r : Leads(Showing("live", screen), <<Content(ph, r)>>, Showing("live", screen))
         /\ screen # <<>> =>
              Leads(Showing("live", screen), <<Plain("reset")>>, Showing("revised", <<>>))
         /\ \A stage \in {"live", "revised"} :
              Leads(Showing(stage, screen), <<Plain("sources")>>, Showing("settled", screen))
         /\ screen # <<>> => \A stage \in {"settled", "corrected"} :
              Leads(Showing(stage, screen), <<Plain("answer")>>, Showing("answered", screen))
         /\ Leads(Showing("answered", screen), <<Plain("meta")>>, Showing("extra", screen))
<1> USE DEF ViewAfter, Showing, StageAfter, ScreenAfter, Allowed, Remarks, Plain, Delta, Content
<1>1. ASSUME NEW frame, NEW from, NEW to, Allowed(from, frame), ViewAfter(from, frame) = to
      PROVE  Leads(from, <<frame>>, to)
  BY <1>1, LeadsOne, Zenon
<1>2. ASSUME NEW kind \in {"error", "refs", "preview"}, NEW stage, stage = "live" \/ kind = "refs"
      PROVE  Leads(Showing(stage, screen), <<Plain(kind)>>, Showing(stage, screen))
  <2>1. Allowed(Showing(stage, screen), Plain(kind))
        /\ ViewAfter(Showing(stage, screen), Plain(kind)) = Showing(stage, screen)
    BY <1>2
  <2> HIDE DEF ViewAfter, Showing, Allowed, Plain
  <2> QED BY <1>1, <2>1
<1>3. ASSUME NEW chunk, NEW r, chunk # <<>>
      PROVE  /\ OneCall(screen \o chunk) =>
                  Leads(Showing("live", screen), <<Delta(chunk, r)>>, Showing("live", screen \o chunk))
             /\ OneCall(<<>> \o chunk) =>
                  Leads(Showing("settled", <<>>), <<Delta(chunk, r)>>,
                        Showing("corrected", <<>> \o chunk))
  <2>1. (OneCall(screen \o chunk) => Allowed(Showing("live", screen), Delta(chunk, r)))
        /\ ViewAfter(Showing("live", screen), Delta(chunk, r)) = Showing("live", screen \o chunk)
    BY <1>3
  <2>2. (OneCall(<<>> \o chunk) => Allowed(Showing("settled", <<>>), Delta(chunk, r)))
        /\ ViewAfter(Showing("settled", <<>>), Delta(chunk, r)) = Showing("corrected", <<>> \o chunk)
    BY <1>3
  <2> HIDE DEF ViewAfter, Showing, Allowed, Delta
  <2> QED BY <1>1, <2>1, <2>2
<1>4. ASSUME NEW ph, NEW r
      PROVE  Leads(Showing("live", screen), <<Content(ph, r)>>, Showing("live", screen))
  <2>1. Allowed(Showing("live", screen), Content(ph, r))
        /\ ViewAfter(Showing("live", screen), Content(ph, r)) = Showing("live", screen)
    OBVIOUS
  <2> HIDE DEF ViewAfter, Showing, Allowed, Content
  <2> QED BY <1>1, <2>1
<1>5. ASSUME screen # <<>>
      PROVE  Leads(Showing("live", screen), <<Plain("reset")>>, Showing("revised", <<>>))
  <2>1. Allowed(Showing("live", screen), Plain("reset"))
        /\ ViewAfter(Showing("live", screen), Plain("reset")) = Showing("revised", <<>>)
    BY <1>5
  <2> HIDE DEF ViewAfter, Showing, Allowed, Plain
  <2> QED BY <1>1, <2>1
<1>6. ASSUME NEW stage \in {"live", "revised"}
      PROVE  Leads(Showing(stage, screen), <<Plain("sources")>>, Showing("settled", screen))
  <2>1. Allowed(Showing(stage, screen), Plain("sources"))
        /\ ViewAfter(Showing(stage, screen), Plain("sources")) = Showing("settled", screen)
    BY <1>6
  <2> HIDE DEF ViewAfter, Showing, Allowed, Plain
  <2> QED BY <1>1, <2>1
<1>7. ASSUME screen # <<>>, NEW stage \in {"settled", "corrected"}
      PROVE  Leads(Showing(stage, screen), <<Plain("answer")>>, Showing("answered", screen))
  <2>1. Allowed(Showing(stage, screen), Plain("answer"))
        /\ ViewAfter(Showing(stage, screen), Plain("answer")) = Showing("answered", screen)
    BY <1>7
  <2> HIDE DEF ViewAfter, Showing, Allowed, Plain
  <2> QED BY <1>1, <2>1
<1>8. Leads(Showing("answered", screen), <<Plain("meta")>>, Showing("extra", screen))
  <2>1. Allowed(Showing("answered", screen), Plain("meta"))
        /\ ViewAfter(Showing("answered", screen), Plain("meta")) = Showing("extra", screen)
    OBVIOUS
  <2> HIDE DEF ViewAfter, Showing, Allowed, Plain
  <2> QED BY <1>1, <2>1
<1> HIDE DEF ViewAfter, Showing, StageAfter, ScreenAfter, Allowed, Remarks, Plain, Delta, Content
<1> QED BY <1>2, <1>3, <1>4, <1>5, <1>6, <1>7, <1>8

\* Live text extends the screen.
LEMMA DisplayFramesLead ==
  ASSUME NEW screen \in Seq(Shown), NEW chunk \in Seq(Shown), NEW r \in Nat, NEW ph,
         OneCall(screen \o chunk)
  PROVE  Leads(Showing("live", screen), DisplayFrames(chunk, r, ph), Showing("live", screen \o chunk))
<1> DEFINE v == Showing("live", screen)
           w == Showing("live", screen \o chunk)
           refs == IF HasNumber(chunk) /\ ~HasNumber(streamed)
                   THEN <<Plain("refs"), Plain("preview")>> ELSE <<>>
           role == IF ph = "none" THEN <<Content("provisional", r)>> ELSE <<>>
           say == <<Delta(chunk, r)>>
<1>1. DisplayFrames(chunk, r, ph) = IF chunk = <<>> THEN <<>> ELSE refs \o role \o say
  BY DEF DisplayFrames
<1>2. refs \in Seq(Working) /\ role \in Seq(Working) /\ say \in Seq(Working)
  BY WorkingFrames
<1>3. Leads(v, refs, v)
  <2>1. \A i \in 1..Len(refs) : refs[i].kind \in Remarks \cup {"refs"}
    BY DEF Plain, Remarks
  <2> HIDE DEF refs
  <2> QED BY <1>2, <2>1, LeadsRemarks
<1>4. Leads(v, role, v)
  <2>1. \A i \in 1..Len(role) : role[i].kind \in Remarks \cup {"refs"}
    BY DEF Content, Remarks
  <2> HIDE DEF role
  <2> QED BY <1>2, <2>1, LeadsRemarks
<1>5. chunk # <<>> => Leads(v, say, w)
  BY LeadsFrame
<1> HIDE DEF refs, role, say
<1>6. CASE chunk = <<>>
  <2>1. screen \o chunk = screen
    BY <1>6
  <2> QED BY <1>1, <1>6, <2>1, LeadsNone
<1>7. CASE chunk # <<>>
  <2>1. Leads(v, refs \o role, v) /\ refs \o role \in Seq(Working)
    BY <1>2, <1>3, <1>4, LeadsOn
  <2>2. Leads(v, (refs \o role) \o say, w)
    BY <1>2, <1>5, <1>7, <2>1, LeadsOn
  <2> QED BY <1>1, <1>7, <2>2
<1> QED BY <1>6, <1>7

\* The answer is settled, marked, and on the screen.
LEMMA BodyFramesLead ==
  ASSUME NEW shown \in Seq(Shown), NEW final \in Seq(Shown), final # <<>>, OneCall(final)
  PROVE  Leads(Showing("live", shown), BodyFrames(shown, final), Showing("answered", final))
<1> DEFINE a == IF shown # final /\ shown # <<>> THEN <<Plain("reset")>> ELSE <<>>
           b == IF shown # final /\ HasNumber(final) THEN <<Plain("refs")>> ELSE <<>>
           c == IF shown # final THEN <<Delta(final, Nothing)>> ELSE <<>>
           s == <<Plain("sources")>>
           d == <<Plain("answer")>>
           settled == IF shown = final THEN shown ELSE <<>>
           corrected == IF shown = final THEN "settled" ELSE "corrected"
           revised == IF shown # final /\ shown # <<>> THEN "revised" ELSE "live"
<1>1. /\ a \in Seq(Working) /\ b \in Seq(Working) /\ c \in Seq(Working)
      /\ d \in Seq(Working) /\ s \in Seq(Working)
  <2>1. /\ Plain("reset") \in Working /\ Plain("sources") \in Working
        /\ Plain("refs") \in Working /\ Plain("answer") \in Working
        /\ Delta(final, Nothing) \in Working
    BY WorkingFrames
  <2> QED BY <2>1
<1>2. BodyFrames(shown, final) = a \o s \o b \o c \o d
  BY DEF BodyFrames
<1>3. Leads(Showing("live", shown), a, Showing(revised, settled))
  <2>1. CASE shown # final /\ shown # <<>>
    BY <2>1, LeadsFrame
  <2>2. CASE ~(shown # final /\ shown # <<>>)
    BY <2>2, LeadsNone
  <2> QED BY <2>1, <2>2
<1>4. Leads(Showing(revised, settled), s, Showing("settled", settled))
  <2>1. revised \in {"live", "revised"}
    OBVIOUS
  <2> HIDE DEF revised, settled
  <2> QED BY <2>1, LeadsFrame
<1>5. Leads(Showing("settled", settled), b, Showing("settled", settled))
  <2>1. Leads(Showing("settled", settled), <<Plain("refs")>>, Showing("settled", settled))
    BY LeadsFrame
  <2> HIDE DEF settled
  <2> QED BY <2>1, LeadsNone
<1>6. Leads(Showing("settled", settled), c, Showing(corrected, final))
  <2>1. CASE shown = final
    BY <2>1, LeadsNone
  <2>2. CASE shown # final
    <3>1. <<>> \o final = final
      OBVIOUS
    <3>2. Leads(Showing("settled", <<>>), <<Delta(final, Nothing)>>, Showing("corrected", <<>> \o final))
      BY LeadsFrame
    <3> QED BY <2>2, <3>1, <3>2
  <2> QED BY <2>1, <2>2
<1>7. Leads(Showing(corrected, final), d, Showing("answered", final))
  <2>1. corrected \in {"settled", "corrected"}
    OBVIOUS
  <2> HIDE DEF corrected
  <2> QED BY <2>1, LeadsFrame
<1> HIDE DEF a, b, c, d, s, settled, corrected, revised
<1> DEFINE one == a \o s
           two == one \o b
           three == two \o c
<1>s. one \in Seq(Working) /\ two \in Seq(Working) /\ three \in Seq(Working)
  BY <1>1
<1>8. Leads(Showing("live", shown), one, Showing("settled", settled))
  BY <1>1, <1>3, <1>4, LeadsOn
<1> HIDE DEF one
<1>9. Leads(Showing("live", shown), two, Showing("settled", settled))
  BY <1>1, <1>s, <1>5, <1>8, LeadsOn
<1> HIDE DEF two
<1>10. Leads(Showing("live", shown), three, Showing(corrected, final))
  BY <1>1, <1>s, <1>6, <1>9, LeadsOn
<1> HIDE DEF three
<1>11. Leads(Showing("live", shown), three \o d, Showing("answered", final))
  BY <1>1, <1>s, <1>7, <1>10, LeadsOn
<1> QED BY <1>2, <1>11 DEF one, two, three

-----------------------------------------------------------------------------
(* What the frames on their way will have shown when the client has taken     *)
(* them all: the text sent so far while the turn streams, the stored text,    *)
(* settled and answered, after it.                                            *)

\* What the client has seen when all frames are taken, by the place of the generator.
Due(view, place, shown, said) ==
    /\ place \in {"waiting", "preparing", "streaming", "settling", "failing"} =>
         view = Showing("live", shown)
    /\ place = "enriching" => view = Showing("answered", said.text)
    /\ place \in {"persisting", "saving"} =>
         \E stage \in {"answered", "extra"} : view = Showing(stage, said.text)

\* A stream that said nothing can begin again, and nothing is under way to the client
\* while the answer is stored.
SilentInv ==
    /\ pc \in {"waiting", "preparing"} \/ (pc = "streaming" /\ ~emitted) => streamed = <<>>
    /\ pc = "saving" => out = <<>>

DueInv == \E to : Leads(View(wire), out, to) /\ Due(to, pc, streamed, answer)

SeenInv ==
    /\ SilentInv /\ DueInv
    /\ ScreenOf(wire) \in Seq(Shown) /\ OneCall(ScreenOf(wire))
    /\ Ended => StageOf(wire) = "done"

LEMMA InitSeen == Init => SeenInv
<1> SUFFICES ASSUME Init PROVE SeenInv
  OBVIOUS
<1>1. /\ wire = <<>> /\ out = <<>> /\ streamed = <<>> /\ pc \in {"waiting", "preparing"}
  BY TurnAssumption DEF Init
<1>2. View(wire) = Showing("live", <<>>)
  BY <1>1, ViewEmpty DEF Showing, Blank
<1>3. Due(View(wire), pc, streamed, answer)
  BY <1>1, <1>2 DEF Due
<1>4. DueInv
  BY <1>1, <1>3, LeadsNone DEF DueInv
<1>5. ~Ended
  BY <1>1 DEF Ended, OfKind
<1>6. ScreenOf(wire) \in Seq(Shown) /\ OneCall(ScreenOf(wire))
  BY <1>2, EmptySeq, OneCallAnswer DEF View, Showing
<1> QED BY <1>1, <1>4, <1>5, <1>6 DEF SeenInv, SilentInv

\* With all frames taken, the client has seen what is due.
LEMMA SeenNow ==
  ASSUME SeenInv, out = <<>>
  PROVE  Due(View(wire), pc, streamed, answer)
BY LeadsNone DEF SeenInv, DueInv

LEMMA SeenNext ==
  ASSUME SeenInv, wire' = wire, SilentInv', NEW to, Leads(View(wire), out', to),
         Due(to, pc', streamed', answer')
  PROVE  SeenInv'
<1>1. /\ View(wire)' = View(wire)
      /\ StageOf(wire)' = StageOf(wire) /\ ScreenOf(wire)' = ScreenOf(wire)
  BY DEF View, StageOf, ScreenOf, StageAfter, ScreenAfter
<1>2. Ended' => Ended
  BY DEF Ended, OfKind
<1>3. DueInv'
  BY <1>1 DEF DueInv
<1>4. OneCall(ScreenOf(wire))' = OneCall(ScreenOf(wire))
  BY <1>1 DEF OneCall
<1> QED BY <1>1, <1>2, <1>3, <1>4 DEF SeenInv

\* Frames and texts as they were, and no more due than before.
LEMMA SeenSame ==
  ASSUME SeenInv, wire' = wire, out' = out, SilentInv',
         \A view : Due(view, pc, streamed, answer) => Due(view, pc', streamed', answer')
  PROVE  SeenInv'
<1>1. PICK to : Leads(View(wire), out, to) /\ Due(to, pc, streamed, answer)
  BY DEF SeenInv, DueInv
<1> QED BY <1>1, SeenNext

LEMMA SeenSend == TypeInv /\ SeenInv /\ Send => SeenInv'
<1> SUFFICES ASSUME TypeInv, SeenInv, Send PROVE SeenInv'
  OBVIOUS
<1> DEFINE frame == Head(out)
           rest == Tail(out)
<1>1. /\ out # <<>> /\ out \in Seq(Frames) /\ wire \in Seq(Frames) /\ frame \in Frames
      /\ wire' = Append(wire, frame) /\ out' = rest
      /\ UNCHANGED <<pc, streamed, emitted, answer>>
  BY SendTypes DEF TypeInv, FrameTypes, Send, text, attempt, result
<1>2. PICK to : Leads(View(wire), out, to) /\ Due(to, pc, streamed, answer)
  BY DEF SeenInv, DueInv
<1>3. Allowed(View(wire), frame) /\ Leads(ViewAfter(View(wire), frame), rest, to)
  BY <1>1, <1>2, LeadsNext
<1>4. View(Append(wire, frame)) = ViewAfter(View(wire), frame)
  BY <1>1, ViewAppend
<1>5. /\ View(wire)' = View(Append(wire, frame))
      /\ StageOf(wire)' = StageOf(Append(wire, frame))
      /\ ScreenOf(wire)' = ScreenOf(Append(wire, frame))
  BY <1>1 DEF View, StageOf, ScreenOf, StageAfter, ScreenAfter
<1>s. /\ StageOf(wire)' = StageAfter(StageOf(wire), frame)
      /\ ScreenOf(wire)' = ScreenAfter(ScreenOf(wire), frame)
  BY <1>4, <1>5 DEF View, ViewAfter
<1>6. DueInv'
  <2>1. Leads(View(wire)', out', to)
    BY <1>1, <1>3, <1>4, <1>5
  <2> QED BY <1>1, <1>2, <2>1 DEF DueInv
<1>7. SilentInv'
  BY <1>1 DEF SeenInv, SilentInv
<1>8. Ended' => StageOf(wire)' = "done"
  <2> SUFFICES ASSUME Ended' PROVE StageOf(wire)' = "done"
    OBVIOUS
  <2>1. PICK i \in DOMAIN wire' : wire'[i].kind = "done"
    BY DEF Ended, OfKind
  <2>2. i \in 1..(Len(wire) + 1) /\ Len(wire) \in Nat
    BY <1>1, <2>1
  <2>3. CASE i = Len(wire) + 1
    <3>1. frame.kind = "done"
      BY <1>1, <2>1, <2>2, <2>3
    <3> HIDE DEF frame
    <3> QED BY <1>s, <3>1 DEF StageAfter
  <2>4. CASE i # Len(wire) + 1
    <3>1. i \in DOMAIN wire /\ wire'[i] = wire[i]
      BY <1>1, <2>2, <2>4
    <3>2. StageOf(wire) = "done" /\ View(wire).stage = "done"
      BY <2>1, <3>1 DEF SeenInv, Ended, OfKind, View
    <3>3. frame.kind = "refs"
      BY <1>3, <3>2 DEF Allowed
    <3> HIDE DEF frame
    <3> QED BY <1>s, <3>2, <3>3 DEF StageAfter
  <2> QED BY <2>3, <2>4
<1>9. ScreenOf(wire)' \in Seq(Shown)
  <2>1. frame.kind = "delta" => frame.text \in Seq(Shown)
    BY <1>1 DEF Frames
  <2>2. ScreenOf(wire) \in Seq(Shown) /\ <<>> \in Seq(Shown)
    BY EmptySeq DEF SeenInv
  <2> HIDE DEF frame
  <2> QED BY <1>s, <2>1, <2>2 DEF ScreenAfter
<1>10. OneCall(ScreenOf(wire))'
  <2> HIDE DEF frame
  <2>1. frame.kind = "delta" => OneCall(ScreenOf(wire) \o frame.text)
    BY <1>3 DEF Allowed, Remarks, View
  <2>2. OneCall(ScreenAfter(ScreenOf(wire), frame))
    BY <2>1, OneCallAnswer DEF SeenInv, ScreenAfter
  <2> QED BY <1>s, <2>2 DEF OneCall
<1> QED BY <1>6, <1>7, <1>8, <1>9, <1>10 DEF SeenInv

\* A frame or none that leaves the view as it is.
LEMMA LeadsMaybe ==
  ASSUME NEW cond \in BOOLEAN, NEW frame \in Working, frame.kind \in Remarks, NEW screen
  PROVE  /\ (IF cond THEN <<frame>> ELSE <<>>) \in Seq(Working)
         /\ Leads(Showing("live", screen), IF cond THEN <<frame>> ELSE <<>>,
                  Showing("live", screen))
<1> DEFINE s == IF cond THEN <<frame>> ELSE <<>>
<1>1. s \in Seq(Working) /\ \A i \in 1..Len(s) : s[i].kind \in Remarks \cup {"refs"}
  OBVIOUS
<1> HIDE DEF s
<1>2. Leads(Showing("live", screen), s, Showing("live", screen))
  BY <1>1, LeadsRemarks
<1> QED BY <1>1, <1>2 DEF s

\* While the stream is read, the frames of a step show what it streams.
LEMMA SeenLive ==
  ASSUME SeenInv, pc = "streaming", out = <<>>, wire' = wire,
         pc' \in {"streaming", "settling"},
         Leads(Showing("live", streamed), out', Showing("live", streamed')),
         emitted' \/ streamed' = <<>> \/ pc' = "settling"
  PROVE  SeenInv'
<1>1. View(wire) = Showing("live", streamed)
  BY SeenNow DEF Due
<1>2. SilentInv'
  BY DEF SilentInv
<1>3. Due(Showing("live", streamed'), pc', streamed', answer')
  BY DEF Due
<1> QED BY <1>1, <1>2, <1>3, SeenNext

LEMMA TextSeen ==
  ASSUME TypeInv, CallInv, SeenInv, NEW mark \in BOOLEAN, Text(mark)
  PROVE  SeenInv'
<1> DEFINE body == Append(raw, [mark |-> mark, round |-> Round, try |-> tries])
           chunk == Feed(body, FALSE)
<1>1. /\ pc = "streaming" /\ out = <<>> /\ pc' = "streaming" /\ wire' = wire
      /\ raw' = body /\ streamed' = streamed \o chunk
      /\ out' = DisplayFrames(chunk, Round, Phase)
      /\ emitted' = (emitted \/ chunk # <<>>)
  BY DEF Text, Reading, At, ModelEvent
<1>2. chunk \in Seq(Shown) /\ streamed \in Seq(Shown)
  <2>1. /\ body \in Seq(Tokens) /\ Len(body) = Len(raw) + 1 /\ raw \in Seq(Tokens)
        /\ streamed \in Seq(Shown) /\ Len(streamed) <= Len(raw)
    BY TokenIs DEF TypeInv, TextTypes
  <2> HIDE DEF body
  <2>2. /\ Stable(body) \in Nat /\ Stable(body) >= Len(body) - 1 /\ Len(body) \in Nat
        /\ Len(raw) \in Nat /\ Len(streamed) \in Nat
    BY <2>1, StableIs
  <2>3. Len(streamed) <= Stable(body) /\ Len(streamed) <= Len(body)
    BY <2>1, <2>2
  <2> QED BY <2>1, <2>3, FeedIs
<1> HIDE DEF chunk
<1>3. Leads(Showing("live", streamed), out', Showing("live", streamed'))
  <2>1. OneCall(streamed \o chunk)
    BY <1>1, OneCallText
  <2> QED BY <1>1, <1>2, <2>1, RoundIs, DisplayFramesLead
<1>4. emitted' \/ streamed' = <<>>
  <2>1. CASE chunk = <<>> /\ ~emitted
    <3>1. streamed = <<>>
      BY <1>1, <2>1 DEF SeenInv, SilentInv
    <3> QED BY <1>1, <2>1, <3>1
  <2> QED BY <1>1, <2>1
<1> QED BY <1>1, <1>3, <1>4, SeenLive

LEMMA CallToolsSeen ==
  ASSUME TypeInv, CallInv, SeenInv, NEW n \in 1..MaxCalls, CallTools(n)
  PROVE  SeenInv'
<1> DEFINE chunk == Feed(raw, TRUE)
           shownPhase == PhaseAfter(chunk, Phase)
           narrated == shownPhase = "provisional"
           called == [i \in 1..n |-> Step(calls + i, "running", Round)]
           told == IF narrated THEN <<Content("narration", Round)>> ELSE <<>>
           shown == DisplayFrames(chunk, Round, Phase)
           v == Showing("live", streamed)
           w == Showing("live", streamed \o chunk)
<1>1. /\ pc = "streaming" /\ out = <<>> /\ pc' = "streaming" /\ wire' = wire
      /\ streamed' = streamed \o chunk /\ emitted'
      /\ out' = shown \o told \o called
      /\ n \in 1..(MaxCalls - calls)
  BY DEF CallTools, Reading, At, ModelEvent
<1>2. chunk \in Seq(Shown) /\ streamed \in Seq(Shown)
  BY FeedIs DEF TypeInv, TextTypes
<1>0. OneCall(streamed \o chunk)
  BY OneCallFed
<1> HIDE DEF chunk
<1>3. shown \in Seq(Working) /\ Leads(v, shown, w)
  BY <1>0, <1>2, RoundIs, DisplayFramesIs, DisplayFramesLead
<1>4. told \in Seq(Working) /\ Leads(w, told, w)
  <2>1. Content("narration", Round) \in Working
    BY RoundIs, WorkingFrames
  <2>2. Content("narration", Round).kind \in Remarks
    BY DEF Content, Remarks
  <2>3. narrated \in BOOLEAN
    OBVIOUS
  <2> DEFINE frame == Content("narration", Round)
  <2> HIDE DEF narrated, frame
  <2> QED BY <2>1, <2>2, <2>3, LeadsMaybe DEF frame
<1>5. called \in Seq(Working) /\ Leads(w, called, w)
  <2>1. calls \in Nat /\ MaxCalls \in Nat /\ n \in Nat
    BY TurnAssumption DEF TypeInv, ProcessTypes
  <2>2. \A i \in 1..n : calls + i \in 1..MaxCalls
    BY <1>1, <2>1
  <2>3. \A i \in 1..n : Step(calls + i, "running", Round) \in Working
    BY <2>2, RoundIs, WorkingFrames
  <2>4. called \in Seq(Working) /\ Len(called) = n
    BY <2>1, <2>3
  <2>5. \A i \in 1..n : called[i].kind \in Remarks
    BY DEF Step, Remarks
  <2> HIDE DEF called, w
  <2>6. \A i \in 1..Len(called) : called[i].kind \in Remarks \cup {"refs"}
    BY <2>4, <2>5
  <2> QED BY <2>4, <2>6, LeadsRemarks DEF w
<1> HIDE DEF shown, told, called
<1> DEFINE front == shown \o told
<1>6. front \in Seq(Working) /\ Leads(v, front, w)
  BY <1>3, <1>4, LeadsOn
<1> HIDE DEF front
<1>7. Leads(v, front \o called, w)
  BY <1>5, <1>6, LeadsOn
<1> QED BY <1>1, <1>7, SeenLive DEF front

LEMMA ProgressSeen ==
  ASSUME TypeInv, SeenInv, NEW c \in open, NEW state \in {"running", "completed"},
         Progress(c, state)
  PROVE  SeenInv'
<1>1. /\ pc = "streaming" /\ out = <<>> /\ pc' = "streaming" /\ wire' = wire
      /\ out' = <<Step(c, state, round)>>
      /\ UNCHANGED <<streamed, emitted>>
  BY DEF Progress, At, text, attempt
<1>2. out' \in Seq(Working)
  BY ProgressTyped
<1>3. \A i \in 1..Len(out') : out'[i].kind \in Remarks \cup {"refs"}
  BY <1>1 DEF Step, Remarks
<1>4. Leads(Showing("live", streamed), out', Showing("live", streamed))
  BY <1>2, <1>3, LeadsRemarks
<1>5. emitted' \/ streamed' = <<>>
  BY <1>1 DEF SeenInv, SilentInv
<1> QED BY <1>1, <1>4, <1>5, SeenLive

LEMMA RespondSeen ==
  ASSUME TypeInv, SeenInv, NEW found \in BOOLEAN, NEW redrawn \in BOOLEAN,
         Respond(found, redrawn)
  PROVE  SeenInv'
<1> DEFINE silent == Chosen([c \in 1..calls |-> c], open \ progressed)
           closed == [i \in DOMAIN silent |-> Step(silent[i], "completed", round)]
           card == IF redrawn THEN <<Plain("preview")>> ELSE <<>>
           v == Showing("live", streamed)
<1>1. /\ pc = "streaming" /\ out = <<>> /\ pc' = "streaming" /\ wire' = wire
      /\ out' = closed \o card
      /\ UNCHANGED <<streamed, emitted>>
  BY DEF Respond, At, attempt
<1>2. closed \in Seq(Working)
  BY ClosedIs
<1>3. \A i \in DOMAIN closed : closed[i].kind \in Remarks
  BY DEF Step, Remarks
<1> HIDE DEF closed
<1>4. Leads(v, closed, v)
  BY <1>2, <1>3, LeadsRemarks
<1>5. card \in Seq(Working) /\ Leads(v, card, v)
  <2>1. Plain("preview") \in Working /\ Plain("preview").kind \in Remarks
    BY WorkingFrames DEF Plain, Remarks
  <2> DEFINE frame == Plain("preview")
  <2> HIDE DEF frame
  <2> QED BY <2>1, LeadsMaybe DEF frame
<1> HIDE DEF card
<1>6. Leads(v, closed \o card, v)
  BY <1>2, <1>4, <1>5, LeadsOn
<1>7. emitted' \/ streamed' = <<>>
  BY <1>1 DEF SeenInv, SilentInv
<1> QED BY <1>1, <1>6, <1>7, SeenLive

LEMMA StreamEndsSeen ==
  ASSUME TypeInv, CallInv, SeenInv, StreamEnds
  PROVE  SeenInv'
<1> DEFINE chunk == Feed(raw, TRUE)
<1>1. /\ pc = "streaming" /\ out = <<>> /\ pc' = "settling" /\ wire' = wire
      /\ streamed' = streamed \o chunk
      /\ out' = DisplayFrames(chunk, round, phase)
  BY DEF StreamEnds, Reading, At
<1>2. chunk \in Seq(Shown) /\ streamed \in Seq(Shown) /\ round \in Nat
  BY FeedIs DEF TypeInv, TextTypes, ProcessTypes
<1>0. OneCall(streamed \o chunk)
  BY OneCallFed
<1> HIDE DEF chunk
<1>3. Leads(Showing("live", streamed), out', Showing("live", streamed'))
  BY <1>0, <1>1, <1>2, DisplayFramesLead
<1> QED BY <1>1, <1>3, SeenLive

\* Places at which nothing more is due.
Over == {"refusing", "ending", "leaving", "cleanup", "rescuing", "gone"}

LEMMA SeenOver ==
  ASSUME SeenInv, wire' = wire, out' = out \/ out' = <<>>, pc' \in Over
  PROVE  SeenInv'
<1>1. SilentInv'
  BY DEF SilentInv, Over
<1>2. \A view : Due(view, pc', streamed', answer')
  BY DEF Due, Over
<1>3. CASE out' = out
  BY <1>1, <1>2, <1>3, SeenSame
<1>4. CASE out' = <<>>
  <2>1. Leads(View(wire), out', View(wire))
    BY <1>4, LeadsNone
  <2> QED BY <1>1, <1>2, <2>1, SeenNext
<1> QED BY <1>3, <1>4

\* The done frame repeats what is on the screen.
LEMMA LeadsDone ==
  ASSUME NEW payload, NEW isSaved, NEW stage \in {"answered", "extra"}
  PROVE  Leads(Showing(stage, payload.text), <<Done(payload, isSaved)>>,
               ViewAfter(Showing(stage, payload.text), Done(payload, isSaved)))
<1>1. Allowed(Showing(stage, payload.text), Done(payload, isSaved))
  BY DEF Allowed, Showing, Done
<1> QED BY <1>1, LeadsOne

LEMMA SeenDone ==
  ASSUME SeenInv, pc \in {"persisting", "saving"}, out = <<>>, wire' = wire, pc' = "ending",
         NEW isSaved, out' = <<Done(answer, isSaved)>>
  PROVE  SeenInv'
<1>1. PICK stage \in {"answered", "extra"} : View(wire) = Showing(stage, answer.text)
  BY SeenNow DEF Due
<1>2. Leads(View(wire), out', ViewAfter(View(wire), Done(answer, isSaved)))
  BY <1>1, LeadsDone
<1>3. SilentInv' /\ \A view : Due(view, pc', streamed', answer')
  BY DEF SilentInv, Due
<1> QED BY <1>2, <1>3, SeenNext

LEMMA SetUpFailsSeen == TypeInv /\ SeenInv /\ SetUpFails => SeenInv'
<1> SUFFICES ASSUME TypeInv, SeenInv, SetUpFails PROVE SeenInv'
  OBVIOUS
<1> DEFINE alarm == <<Plain("error")>>
           body == BodyFrames(<<>>, Apology)
           isSaved == FALSE
           end == <<Done(Refused, isSaved)>>
           v == Showing("live", <<>>)
           w == Showing("answered", Apology)
           u == ViewAfter(w, Done(Refused, isSaved))
<1>1. /\ pc = "preparing" /\ out = <<>> /\ pc' = "refusing" /\ wire' = wire
      /\ out' = alarm \o body \o end
  BY DEF SetUpFails, At, Refused
<1>2. View(wire) = v
  BY <1>1, SeenNow DEF SeenInv, SilentInv, Due
<1>3. alarm \in Seq(Working) /\ body \in Seq(Working)
  <2>1. Plain("error") \in Working
    BY WorkingFrames
  <2>2. body \in Seq(Working)
    BY ApologyIs, EmptySeq, BodyFramesIs
  <2> HIDE DEF body
  <2> QED BY <2>1, <2>2
<1>4. end \in Seq(Frames)
  <2>1. isSaved \in BOOLEAN /\ Refused \in Snapshots
    BY ApologyIs DEF Refused, Snapshots
  <2> HIDE DEF isSaved
  <2> QED BY <2>1, DoneFrame
<1>5. Leads(v, alarm, v)
  BY LeadsFrame
<1>6. Leads(v, body, w)
  BY ApologyIs, EmptySeq, OneCallAnswer, BodyFramesLead
<1>7. Leads(w, end, u)
  <2>1. Refused.text = Apology
    BY DEF Refused
  <2> HIDE DEF isSaved
  <2> QED BY <2>1, LeadsDone
<1> DEFINE front == alarm \o body
<1> HIDE DEF alarm, body, end, v, w, u
<1>8. front \in Seq(Working) /\ front \in Seq(Frames)
  BY <1>3, WorkingSeq
<1>9. Leads(v, front, w)
  BY <1>3, <1>5, <1>6, LeadsOn
<1> HIDE DEF front
<1>10. Leads(v, front \o end, u)
  BY <1>4, <1>7, <1>8, <1>9, LeadsOn
<1>11. SilentInv' /\ \A view : Due(view, pc', streamed', answer')
  BY <1>1 DEF SilentInv, Due
<1> QED BY <1>1, <1>2, <1>10, <1>11, SeenNext DEF front

LEMMA SettleSeen == TypeInv /\ CallInv /\ SeenInv /\ Settle => SeenInv'
<1> SUFFICES ASSUME TypeInv, CallInv, SeenInv, Settle PROVE SeenInv'
  OBVIOUS
<1> DEFINE final == Substantive(Finalized)
           empty == Finalized = <<>>
           alarm == IF empty THEN <<Plain("error")>> ELSE <<>>
           body == BodyFrames(streamed, final)
           v == Showing("live", streamed)
           w == Showing("answered", final)
<1>1. /\ pc = "settling" /\ out = <<>> /\ pc' = "enriching" /\ wire' = wire
      /\ answer'.text = final /\ out' = alarm \o body
  BY DEF Settle, At
<1>2. final \in Seq(Shown) /\ final # <<>> /\ streamed \in Seq(Shown)
  BY FinalizedIs, SubstantiveIs DEF TypeInv, TextTypes
<1>0. OneCall(final)
  BY OneCallAnswer
<1>3. View(wire) = v
  BY <1>1, SeenNow DEF Due
<1>4. alarm \in Seq(Working) /\ Leads(v, alarm, v)
  <2>1. Plain("error") \in Working /\ Plain("error").kind \in Remarks
    BY WorkingFrames DEF Plain, Remarks
  <2> DEFINE frame == Plain("error")
  <2>2. empty \in BOOLEAN
    OBVIOUS
  <2> HIDE DEF frame, empty
  <2> QED BY <2>1, <2>2, LeadsMaybe DEF frame
<1> HIDE DEF final, alarm
<1>5. body \in Seq(Working) /\ Leads(v, body, w)
  BY <1>0, <1>2, BodyFramesIs, BodyFramesLead
<1> HIDE DEF body
<1>6. Leads(v, out', w)
  <2> HIDE DEF v, w
  <2> QED BY <1>1, <1>4, <1>5, LeadsOn
<1>7. SilentInv' /\ Due(w, pc', streamed', answer')
  BY <1>1 DEF SilentInv, Due
<1> QED BY <1>1, <1>3, <1>6, <1>7, SeenNext

LEMMA CloseoutSeen ==
  ASSUME TypeInv, CallInv, SeenInv, NEW broken \in BOOLEAN, Closeout(broken)
  PROVE  SeenInv'
<1> DEFINE chunk == Feed(raw, TRUE)
           shown == streamed \o chunk
           final == Substantive(IF broken THEN Salvaged(shown) ELSE Finalized)
           alarm == <<Plain("error")>>
           tail == DisplayFrames(chunk, round, phase)
           body == BodyFrames(shown, final)
           v == Showing("live", streamed)
           w == Showing("live", shown)
           u == Showing("answered", final)
<1>1. /\ pc = "failing" /\ out = <<>> /\ pc' = "persisting" /\ wire' = wire
      /\ answer'.text = final /\ out' = alarm \o tail \o body
  BY DEF Closeout, At
<1>2. chunk \in Seq(Shown) /\ shown \in Seq(Shown) /\ streamed \in Seq(Shown) /\ round \in Nat
  BY FeedIs DEF TypeInv, TextTypes, ProcessTypes
<1>o. OneCall(shown) /\ OneCall(Substantive(Finalized))
  BY OneCallFed, OneCallAnswer
<1> HIDE DEF chunk
<1>3. tail \in Seq(Working) /\ Leads(v, tail, w)
  BY <1>2, <1>o, DisplayFramesIs, DisplayFramesLead
<1> HIDE DEF shown
<1>4. final \in Seq(Shown) /\ final # <<>>
  BY <1>2, FinalizedIs, SalvagedIs, SubstantiveIs DEF TypeInv, TextTypes
<1>f. OneCall(final)
  BY <1>2, <1>o, OneCallAnswer
<1>5. View(wire) = v
  BY <1>1, SeenNow DEF Due
<1>6. alarm \in Seq(Working) /\ Leads(v, alarm, v)
  BY WorkingFrames, LeadsFrame
<1> HIDE DEF final, alarm, tail
<1>7. body \in Seq(Working) /\ Leads(w, body, u)
  BY <1>2, <1>4, <1>f, BodyFramesIs, BodyFramesLead
<1> HIDE DEF body
<1> DEFINE front == alarm \o tail
<1>8. front \in Seq(Working)
  BY <1>3, <1>6
<1>9. Leads(v, out', u)
  <2> HIDE DEF v, w, u
  <2>1. Leads(v, front, w)
    BY <1>3, <1>6, LeadsOn
  <2> HIDE DEF front
  <2>2. Leads(v, front \o body, u)
    BY <1>7, <1>8, <2>1, LeadsOn
  <2> QED BY <1>1, <2>2 DEF front
<1>10. SilentInv' /\ Due(u, pc', streamed', answer')
  BY <1>1 DEF SilentInv, Due
<1> QED BY <1>1, <1>5, <1>9, <1>10, SeenNext

LEMMA EnrichSeen ==
  ASSUME SeenInv, NEW meta \in BOOLEAN, Enrich(meta)
  PROVE  SeenInv'
<1> DEFINE v == Showing("answered", answer.text)
           w == Showing("extra", answer.text)
<1>1. /\ pc = "enriching" /\ out = <<>> /\ pc' = "persisting" /\ wire' = wire /\ answer' = answer
      /\ out' = IF meta THEN <<Plain("meta")>> ELSE <<>>
  BY DEF Enrich, At, result
<1>2. View(wire) = v
  BY <1>1, SeenNow DEF Due
<1>3. SilentInv' /\ Due(v, pc', streamed', answer') /\ Due(w, pc', streamed', answer')
  BY <1>1 DEF SilentInv, Due
<1>4. CASE meta
  <2>1. Leads(v, out', w)
    BY <1>1, <1>4, LeadsFrame
  <2> HIDE DEF v, w
  <2> QED BY <1>1, <1>2, <1>3, <2>1, SeenNext
<1>5. CASE ~meta
  <2> HIDE DEF v, w
  <2>1. Leads(v, out', v)
    BY <1>1, <1>5, LeadsNone
  <2> QED BY <1>1, <1>2, <1>3, <2>1, SeenNext
<1> QED BY <1>4, <1>5

\* The steps that put no frame in front of the client.
LEMMA QuietSeen ==
  ASSUME TypeInv, SeenInv
  PROVE  /\ Acquire => SeenInv'
         /\ SetUp => SeenInv'
         /\ FinalText => SeenInv'
         /\ RepeatCall => SeenInv'
         /\ \A event \in BOOLEAN : Rerun(event) => SeenInv'
         /\ \A kind \in {"error", "timeout"}, event, said \in BOOLEAN :
              Break(kind, event, said) => SeenInv'
         /\ SettleFails => SeenInv'
         /\ \A landed \in BOOLEAN : OrphanEnds(landed) => SeenInv'
         /\ UNCHANGED vars => SeenInv'
<1>0. /\ pc \in {"waiting", "preparing"} \/ (pc = "streaming" /\ ~emitted) => streamed = <<>>
      /\ pc = "saving" => out = <<>>
  BY DEF SeenInv, SilentInv
<1>1. ASSUME Acquire PROVE SeenInv'
  <2>1. pc = "waiting" /\ pc' = "preparing" /\ UNCHANGED <<out, wire, streamed, answer>>
    BY <1>1 DEF Acquire, At, text, result
  <2>2. SilentInv' /\ \A view : Due(view, pc, streamed, answer) => Due(view, pc', streamed', answer')
    BY <1>0, <2>1 DEF SilentInv, Due
  <2> QED BY <2>1, <2>2, SeenSame
<1>2. ASSUME SetUp PROVE SeenInv'
  <2>1. pc = "preparing" /\ pc' = "streaming" /\ UNCHANGED <<out, wire, streamed, answer>>
    BY <1>2 DEF SetUp, At, text, result
  <2>2. SilentInv' /\ \A view : Due(view, pc, streamed, answer) => Due(view, pc', streamed', answer')
    BY <1>0, <2>1 DEF SilentInv, Due
  <2> QED BY <2>1, <2>2, SeenSame
<1>3. ASSUME UNCHANGED <<pc, out, wire, streamed, emitted, answer>> PROVE SeenInv'
  <2>1. SilentInv' /\ \A view : Due(view, pc, streamed, answer) => Due(view, pc', streamed', answer')
    BY <1>0, <1>3 DEF SilentInv
  <2> QED BY <1>3, <2>1, SeenSame
<1>4. ASSUME FinalText PROVE SeenInv'
  BY <1>3, <1>4 DEF FinalText, ModelEvent, result
<1>5. ASSUME RepeatCall PROVE SeenInv'
  BY <1>3, <1>5 DEF RepeatCall, text, attempt, result
<1>6. ASSUME NEW event \in BOOLEAN, Rerun(event) PROVE SeenInv'
  <2>1. /\ pc = "streaming" /\ pc' = "streaming" /\ ~emitted /\ streamed' = <<>>
        /\ UNCHANGED <<out, wire, emitted, answer>>
    BY <1>6 DEF Rerun, Retryable, At, result
  <2>2. SilentInv' /\ \A view : Due(view, pc, streamed, answer) => Due(view, pc', streamed', answer')
    BY <1>0, <2>1 DEF SilentInv, Due
  <2> QED BY <2>1, <2>2, SeenSame
<1>7. ASSUME pc \in {"streaming", "settling"}, pc' = "failing",
             UNCHANGED <<out, wire, streamed>>
      PROVE  SeenInv'
  <2>1. SilentInv' /\ \A view : Due(view, pc, streamed, answer) => Due(view, pc', streamed', answer')
    BY <1>7 DEF SilentInv, Due
  <2> QED BY <1>7, <2>1, SeenSame
<1>8. ASSUME NEW kind \in {"error", "timeout"}, NEW event \in BOOLEAN, NEW said \in BOOLEAN,
             Break(kind, event, said)
      PROVE  SeenInv'
  BY <1>7, <1>8 DEF Break, BreakIn, At
<1>9. ASSUME SettleFails PROVE SeenInv'
  BY <1>7, <1>9 DEF SettleFails, At, text
<1>10. ASSUME NEW landed \in BOOLEAN, OrphanEnds(landed) PROVE SeenInv'
  BY <1>3, <1>10 DEF OrphanEnds, text, attempt, result
<1>11. ASSUME UNCHANGED vars PROVE SeenInv'
  BY <1>3, <1>11 DEF vars, text, attempt, result
<1> QED BY <1>1, <1>2, <1>4, <1>5, <1>6, <1>8, <1>9, <1>10, <1>11

\* The answer is stored and told, or the generator ends.
LEMMA EndingSeen ==
  ASSUME TypeInv, SeenInv
  PROVE  /\ Persist => SeenInv'
         /\ Commit => SeenInv'
         /\ \A landed \in BOOLEAN : WriteFails(landed) => SeenInv'
         /\ Disconnect => SeenInv'
         /\ Rescue => SeenInv'
         /\ RescueFails => SeenInv'
         /\ Close => SeenInv'
         /\ Leave => SeenInv'
<1>0. (pc = "saving" => out = <<>>) /\ (inflight # Nothing => pc \in {"saving", "rescuing"})
  BY DEF TypeInv, EndTypes, SeenInv, SilentInv
<1>1. ASSUME Persist PROVE SeenInv'
  <2>1. pc = "persisting" /\ out = <<>> /\ UNCHANGED <<wire, streamed, answer>>
    BY <1>1 DEF Persist, At, text
  <2>2. CASE identified
    <3>1. pc' = "saving" /\ out' = out
      BY <1>1, <2>2 DEF Persist
    <3>2. SilentInv' /\ \A view : Due(view, pc, streamed, answer) => Due(view, pc', streamed', answer')
      BY <2>1, <3>1 DEF SilentInv, Due
    <3> QED BY <2>1, <3>1, <3>2, SeenSame
  <2>3. CASE ~identified
    <3> DEFINE isSaved == FALSE
    <3>1. pc' = "ending" /\ out' = <<Done(answer, isSaved)>>
      BY <1>1, <2>3 DEF Persist
    <3> HIDE DEF isSaved
    <3> QED BY <2>1, <3>1, SeenDone
  <2> QED BY <2>2, <2>3
<1>2. ASSUME NEW isSaved, Resume(isSaved), inflight # Nothing, wire' = wire PROVE SeenInv'
  <2>1. CASE pc = "saving"
    <3>1. pc' = "ending" /\ out' = <<Done(answer, isSaved)>> /\ out = <<>>
      BY <1>0, <1>2, <2>1 DEF Resume
    <3> QED BY <1>2, <2>1, <3>1, SeenDone
  <2>2. CASE pc = "rescuing"
    <3>1. pc' = "gone" /\ out' = out
      BY <1>2, <2>2 DEF Resume, Closed
    <3> QED BY <1>2, <3>1, SeenOver DEF Over
  <2> QED BY <1>0, <1>2, <2>1, <2>2
<1>3. ASSUME Commit PROVE SeenInv'
  <2> DEFINE isSaved == stored' = inflight
  <2>1. Resume(isSaved) /\ inflight # Nothing /\ wire' = wire
    BY <1>3 DEF Commit
  <2> HIDE DEF isSaved
  <2> QED BY <1>2, <2>1
<1>4. ASSUME NEW landed \in BOOLEAN, WriteFails(landed) PROVE SeenInv'
  <2> DEFINE isSaved == FALSE
  <2>1. Resume(isSaved) /\ inflight # Nothing /\ wire' = wire
    BY <1>4 DEF WriteFails
  <2> HIDE DEF isSaved
  <2> QED BY <1>2, <2>1
<1>5. ASSUME Disconnect PROVE SeenInv'
  <2>1. wire' = wire /\ out' = <<>> /\ pc' \in Over
    BY <1>5 DEF Disconnect, Over
  <2> QED BY <2>1, SeenOver
<1>6. ASSUME Rescue \/ RescueFails \/ Close \/ Leave PROVE SeenInv'
  <2>1. wire' = wire /\ out' = out /\ pc' \in Over
    BY <1>6 DEF Rescue, RescueFails, Close, Leave, Closed, Over
  <2> QED BY <2>1, SeenOver
<1> QED BY <1>1, <1>3, <1>4, <1>5, <1>6

LEMMA SeenStep == TypeInv /\ CallInv /\ SeenInv /\ [Next]_vars => SeenInv'
<1> SUFFICES ASSUME TypeInv, CallInv, SeenInv, [Next]_vars PROVE SeenInv'
  OBVIOUS
<1>1. CASE \/ Send \/ SetUpFails \/ Settle
           \/ \E meta \in BOOLEAN : Enrich(meta)
           \/ \E broken \in BOOLEAN : Closeout(broken)
  BY <1>1, SeenSend, SetUpFailsSeen, SettleSeen, EnrichSeen, CloseoutSeen
<1>2. CASE \/ \E mark \in BOOLEAN : Text(mark)
           \/ \E n \in 1..MaxCalls : CallTools(n)
           \/ \E c \in open, state \in {"running", "completed"} : Progress(c, state)
           \/ \E found, redrawn \in BOOLEAN : Respond(found, redrawn)
           \/ StreamEnds
  BY <1>2, TextSeen, CallToolsSeen, ProgressSeen, RespondSeen, StreamEndsSeen
<1>3. CASE \/ Acquire \/ SetUp \/ FinalText \/ RepeatCall \/ SettleFails \/ UNCHANGED vars
           \/ \E event \in BOOLEAN : Rerun(event)
           \/ \E kind \in {"error", "timeout"}, event, said \in BOOLEAN : Break(kind, event, said)
           \/ \E landed \in BOOLEAN : OrphanEnds(landed)
  BY <1>3, QuietSeen
<1>4. CASE \/ Persist \/ Commit \/ Disconnect \/ Rescue \/ RescueFails \/ Close \/ Leave
           \/ \E landed \in BOOLEAN : WriteFails(landed)
  BY <1>4, EndingSeen
<1> QED BY <1>1, <1>2, <1>3, <1>4, Steps

-----------------------------------------------------------------------------
(* Only a frame the client takes is a step of the contract. *)

LEMMA OfKindAppend ==
  ASSUME NEW frames \in Seq(Frames), NEW frame \in Frames, NEW kinds
  PROVE  /\ IsFiniteSet(OfKind(frames, kinds))
         /\ frame.kind \notin kinds => OfKind(Append(frames, frame), kinds) = OfKind(frames, kinds)
         /\ frame.kind \in kinds =>
              /\ OfKind(Append(frames, frame), kinds) = OfKind(frames, kinds) \cup {Len(frames) + 1}
              /\ Len(frames) + 1 \notin OfKind(frames, kinds)
<1> DEFINE n == Len(frames)
           more == Append(frames, frame)
<1>1. /\ n \in Nat /\ DOMAIN frames = 1..n /\ DOMAIN more = 1..(n + 1) /\ more[n + 1] = frame
      /\ \A i \in 1..n : more[i] = frames[i]
  OBVIOUS
<1> HIDE DEF n, more
<1>2. IsFiniteSet(OfKind(frames, kinds))
  <2>1. IsFiniteSet(1..n)
    BY <1>1, FS_Interval
  <2>2. OfKind(frames, kinds) \subseteq 1..n
    BY <1>1 DEF OfKind
  <2> QED BY <2>1, <2>2, FS_Subset
<1>3. \A i : i \in OfKind(more, kinds) <=>
               \/ i \in OfKind(frames, kinds)
               \/ i = n + 1 /\ frame.kind \in kinds
  BY <1>1 DEF OfKind
<1>4. n + 1 \notin OfKind(frames, kinds)
  BY <1>1 DEF OfKind
<1> QED BY <1>2, <1>3, <1>4 DEF n, more

LEMMA ContractInit == Init => Contract!Init
<1> SUFFICES ASSUME Init PROVE Contract!Init
  OBVIOUS
<1>1. wire = <<>>
  BY DEF Init
<1>2. StageOf(wire) = "live" /\ ScreenOf(wire) = <<>>
  BY <1>1, ViewEmpty DEF View, Blank
<1>3. \A kinds : OfKind(wire, kinds) = {}
  BY <1>1 DEF OfKind
<1>4. Cardinality(OfKind(wire, {"error", "step", "preview", "content"})) = 0 /\ ~Ended
  BY <1>3, FS_EmptySet DEF Ended
<1> QED BY <1>2, <1>4 DEF Contract!Init

\* What the client makes of the next frame.
LEMMA ContractFrame ==
  ASSUME TypeInv, SeenInv, Send
  PROVE  Contract!Next \/ UNCHANGED Contract!vars
<1> DEFINE frame == Head(out)
           stage == StageOf(wire)
           screen == ScreenOf(wire)
           kinds == {"error", "step", "preview", "content"}
           notes == Cardinality(OfKind(wire, kinds))
           verdict == IF Ended THEN Verdict.text ELSE Nothing
<1>1. /\ out # <<>> /\ out \in Seq(Frames) /\ wire \in Seq(Frames) /\ frame \in Frames
      /\ wire' = Append(wire, frame)
  BY SendTypes DEF TypeInv, FrameTypes, Send
<1>2. Allowed(View(wire), frame)
  <2>1. PICK to : Leads(View(wire), out, to)
    BY DEF SeenInv, DueInv
  <2> QED BY <1>1, <2>1, LeadsNext
<1> HIDE DEF frame
<1>3. stage' = StageAfter(stage, frame) /\ screen' = ScreenAfter(screen, frame)
  <2>1. View(Append(wire, frame)) = ViewAfter(View(wire), frame)
    BY <1>1, ViewAppend
  <2>2. stage' = StageOf(Append(wire, frame)) /\ screen' = ScreenOf(Append(wire, frame))
    BY <1>1 DEF StageOf, ScreenOf, StageAfter, ScreenAfter
  <2> QED BY <2>1, <2>2 DEF View, ViewAfter
<1>4. notes' = IF frame.kind \in kinds THEN notes + 1 ELSE notes
  <2> DEFINE before == OfKind(wire, kinds)
             after == OfKind(Append(wire, frame), kinds)
  <2>1. /\ IsFiniteSet(before)
        /\ frame.kind \notin kinds => after = before
        /\ frame.kind \in kinds => /\ after = before \cup {Len(wire) + 1}
                                   /\ Len(wire) + 1 \notin before
    <3> HIDE DEF kinds
    <3> QED BY <1>1, OfKindAppend
  <2>2. notes' = Cardinality(after) /\ notes = Cardinality(before)
    BY <1>1 DEF OfKind
  <2> HIDE DEF before, after, kinds, notes
  <2>3. Cardinality(before \cup {Len(wire) + 1}) =
          IF Len(wire) + 1 \in before THEN Cardinality(before) ELSE Cardinality(before) + 1
    BY <2>1, FS_AddElement
  <2> QED BY <2>1, <2>2, <2>3
<1>5. verdict' = IF frame.kind = "done" THEN frame.text ELSE verdict
  <2> DEFINE ends == OfKind(wire, {"done"})
             more == OfKind(Append(wire, frame), {"done"})
  <2>1. Ended <=> ends # {}
    BY DEF Ended
  <2>2. Ended' <=> more # {}
    BY <1>1 DEF Ended, OfKind
  <2>3. Verdict' = Append(wire, frame)[CHOOSE i \in more : TRUE]
    BY <1>1 DEF Verdict, OfKind
  <2>4. CASE frame.kind = "done"
    <3>1. ~Ended
      BY <1>2, <2>4 DEF SeenInv, Allowed, View
    <3>2. more = {Len(wire) + 1}
      <4>1. more = ends \cup {Len(wire) + 1}
        BY <1>1, <2>4, OfKindAppend
      <4> QED BY <2>1, <3>1, <4>1
    <3>3. (CHOOSE i \in more : TRUE) = Len(wire) + 1
      BY <3>2
    <3>4. Append(wire, frame)[Len(wire) + 1] = frame
      BY <1>1
    <3> HIDE DEF more, ends
    <3> QED BY <2>2, <2>3, <2>4, <3>2, <3>3, <3>4
  <2>5. CASE frame.kind # "done"
    <3>1. more = ends
      BY <1>1, <2>5, OfKindAppend
    <3>2. CASE ends = {}
      BY <2>1, <2>2, <2>5, <3>1, <3>2
    <3>3. CASE ends # {}
      <4> DEFINE i == CHOOSE i \in ends : TRUE
      <4>1. i \in ends /\ i \in 1..Len(wire)
        BY <1>1, <3>3 DEF OfKind
      <4>2. Verdict = wire[i]
        BY DEF Verdict
      <4>3. Verdict' = Append(wire, frame)[i]
        BY <2>3, <3>1
      <4> HIDE DEF i
      <4>4. Append(wire, frame)[i] = wire[i]
        BY <1>1, <4>1
      <4> HIDE DEF ends, more
      <4> QED BY <2>1, <2>2, <2>5, <3>1, <3>3, <4>2, <4>3, <4>4
    <3> QED BY <3>2, <3>3
  <2> QED BY <2>4, <2>5
<1> HIDE DEF stage, screen, kinds, notes, verdict
<1> USE DEF StageAfter, ScreenAfter
<1>6. CASE frame.kind \in Remarks
  <2>1. stage = "live"
    BY <1>2, <1>6 DEF Allowed, Remarks, View, stage
  <2>2. stage' = stage /\ screen' = screen /\ notes' = notes + 1 /\ verdict' = verdict
    BY <1>3, <1>4, <1>5, <1>6 DEF Remarks, kinds
  <2> QED BY <2>1, <2>2 DEF Contract!Next, Contract!Note, stage, screen, notes, verdict, kinds
<1>7. CASE frame.kind = "refs"
  <2>1. stage' = stage /\ screen' = screen /\ notes' = notes /\ verdict' = verdict
    BY <1>3, <1>4, <1>5, <1>7 DEF kinds
  <2>2. UNCHANGED Contract!vars
    BY <2>1 DEF Contract!vars, stage, screen, notes, verdict, kinds
  <2> QED BY <2>2
<1>8. CASE frame.kind = "delta"
  <2>1. frame.text # <<>> /\ (stage = "live" \/ (stage = "settled" /\ screen = <<>>))
    BY <1>2, <1>8 DEF Allowed, Remarks, View, stage, screen
  <2>2. screen' = screen \o frame.text /\ notes' = notes /\ verdict' = verdict
    BY <1>3, <1>4, <1>5, <1>8 DEF kinds
  <2>3. screen \in Seq(Shown) /\ frame.text \in Seq(Shown)
    BY <1>1, <1>8 DEF SeenInv, screen, Frames
  <2>4. Len(screen) \in Nat /\ Len(frame.text) \in Nat \ {0}
    BY <2>1, <2>3, EmptySeq
  <2>5. CASE stage = "live"
    <3>1. stage' = stage
      BY <1>3, <1>8, <2>5
    <3>2. Contract!IsStrictPrefix(screen, screen')
      <4>1. Len(screen \o frame.text) = Len(screen) + Len(frame.text)
        BY <2>3
      <4>2. SubSeq(screen, 1, Len(screen)) = SubSeq(screen \o frame.text, 1, Len(screen))
        BY <2>3, <2>4
      <4>3. screen # screen \o frame.text
        BY <2>4, <4>1
      <4> QED BY <2>2, <2>4, <4>1, <4>2, <4>3 DEF Contract!IsStrictPrefix, Contract!IsPrefix
    <3> QED BY <2>2, <2>5, <3>1, <3>2
            DEF Contract!Next, Contract!Say, stage, screen, notes, verdict, kinds
  <2>6. CASE stage = "settled" /\ screen = <<>>
    <3>1. stage' = "corrected" /\ screen' # <<>>
      BY <1>3, <1>8, <2>2, <2>3, <2>4, <2>6
    <3> QED BY <2>2, <2>6, <3>1
            DEF Contract!Next, Contract!Correct, stage, screen, notes, verdict, kinds
  <2> QED BY <2>1, <2>5, <2>6
<1>9. CASE frame.kind \in {"reset", "sources", "answer", "meta"}
  <2>1. notes' = notes /\ verdict' = verdict
    BY <1>4, <1>5, <1>9 DEF kinds
  <2>2. \/ frame.kind = "reset" /\ stage = "live" /\ screen # <<>>
        \/ frame.kind = "sources" /\ stage \in {"live", "revised"}
        \/ frame.kind = "answer" /\ stage \in {"settled", "corrected"} /\ screen # <<>>
        \/ frame.kind = "meta" /\ stage = "answered"
    BY <1>2, <1>9 DEF Allowed, Remarks, View, stage, screen
  <2>3. /\ frame.kind = "reset" => stage' = "revised" /\ screen' = <<>>
        /\ frame.kind = "sources" => stage' = "settled" /\ screen' = screen
        /\ frame.kind = "answer" => stage' = "answered" /\ screen' = screen
        /\ frame.kind = "meta" => stage' = "extra" /\ screen' = screen
    BY <1>3
  <2> QED BY <2>1, <2>2, <2>3
          DEF Contract!Next, Contract!Revise, Contract!SettleSources, Contract!Answer,
              Contract!Extra, stage, screen, notes, verdict, kinds
<1>10. CASE frame.kind = "done"
  <2>1. stage \in {"answered", "extra"} /\ frame.text = screen
    BY <1>2, <1>10 DEF Allowed, Remarks, View, stage, screen
  <2>2. stage' = "done" /\ screen' = screen /\ notes' = notes /\ verdict' = screen
    BY <1>3, <1>4, <1>5, <1>10, <2>1 DEF kinds
  <2> QED BY <2>1, <2>2 DEF Contract!Next, Contract!Done, stage, screen, notes, verdict, kinds
<1>11. frame.kind \in Remarks \cup {"refs", "delta", "reset", "sources", "answer", "meta", "done"}
  BY <1>2 DEF Allowed
<1> QED BY <1>6, <1>7, <1>8, <1>9, <1>10, <1>11

LEMMA WireKept == [Next]_vars => Send \/ wire' = wire
<1> SUFFICES ASSUME [Next]_vars PROVE Send \/ wire' = wire
  OBVIOUS
<1>1. ASSUME Stream PROVE wire' = wire
  BY <1>1 DEF Stream, Text, FinalText, CallTools, ModelEvent, Progress, Respond, StreamEnds,
              RepeatCall, Rerun, Break, BreakIn
<1>2. ASSUME Closing PROVE wire' = wire
  BY <1>2 DEF Closing, Settle, SettleFails, Enrich, Closeout, Persist, Commit, WriteFails,
              Rescue, RescueFails, Close, Leave
<1>3. ASSUME Acquire \/ SetUp \/ SetUpFails \/ Disconnect \/ Gone
             \/ \E landed \in BOOLEAN : OrphanEnds(landed)
      PROVE  wire' = wire
  BY <1>3 DEF Acquire, SetUp, SetUpFails, Disconnect, Gone, OrphanEnds, vars
<1>4. UNCHANGED vars => wire' = wire
  BY DEF vars
<1> QED BY <1>1, <1>2, <1>3, <1>4 DEF Next, Advance

LEMMA ContractStep ==
  TypeInv /\ SeenInv /\ [Next]_vars => Contract!Next \/ UNCHANGED Contract!vars
<1> SUFFICES ASSUME TypeInv, SeenInv, [Next]_vars PROVE Contract!Next \/ UNCHANGED Contract!vars
  OBVIOUS
<1>1. CASE wire' = wire
  <2>1. UNCHANGED Contract!vars
    BY <1>1 DEF Contract!vars, StageOf, ScreenOf, StageAfter, ScreenAfter, OfKind, Ended, Verdict
  <2> QED BY <2>1
<1>2. CASE wire' # wire
  <2>1. Send
    BY <1>2, WireKept
  <2> QED BY <2>1, ContractFrame
<1> QED BY <1>1, <1>2

\* The stream keeps the contract that opens run_agent_stream, on the normal path, on
\* both failing ones and after a rerun, wherever the client leaves: text grows, is
\* taken back at most once and settled once, the extras follow, and done repeats the
\* text on the screen.
THEOREM StreamKeepsContract == Spec => ContractHolds
<1>1. Init => TypeInv /\ CallInv /\ SeenInv /\ Contract!Init
  BY InitTypes, InitCalls, InitSeen, ContractInit
<1>2. TypeInv /\ CallInv /\ SeenInv /\ [Next]_vars => TypeInv' /\ CallInv' /\ SeenInv'
  BY TypeStep, CallStep, SeenStep
<1>3. TypeInv /\ SeenInv /\ [Next]_vars => [Contract!Next]_(Contract!vars)
  BY ContractStep
<1> QED BY <1>1, <1>2, <1>3, PTL DEF Spec, ContractHolds, Contract!Spec

-----------------------------------------------------------------------------
(* What Chosen picks from a sequence in two parts, and from one of a kind.   *)

LEMMA ChosenBy ==
  ASSUME NEW S, NEW s \in Seq(S), NEW places
  PROVE  \E h : /\ Chosen(s, places) = h[Len(s)]
                /\ h[0] = <<>>
                /\ \A i \in 1..Len(s) :
                     h[i] = IF i \in places THEN Append(h[i - 1], s[i]) ELSE h[i - 1]
<1> DEFINE f == CHOOSE f : Choosing(f, s, places, Len(s))
<1>1. Choosing(f, s, places, Len(s)) /\ Len(s) \in Nat
  BY ChoosingExists
<1>2. Chosen(s, places) = f[Len(s)]
  BY DEF Chosen, Choosing
<1> HIDE DEF f
<1>3. \A n \in 0..Len(s) :
        f[n] = IF n = 0 THEN <<>>
               ELSE IF n \in places THEN Append(f[n - 1], s[n]) ELSE f[n - 1]
  BY <1>1 DEF Choosing
<1>4. f[0] = <<>>
  BY <1>1, <1>3
<1>5. ASSUME NEW i \in 1..Len(s)
      PROVE  f[i] = IF i \in places THEN Append(f[i - 1], s[i]) ELSE f[i - 1]
  <2>1. i \in 0..Len(s) /\ i # 0
    BY <1>1
  <2> QED BY <1>3, <2>1
<1> QED BY <1>2, <1>4, <1>5

LEMMA ChosenConcat ==
  ASSUME NEW S, NEW s \in Seq(S), NEW t \in Seq(S), NEW places, NEW inS, NEW inT,
         \A i \in 1..Len(s) : i \in places <=> i \in inS,
         \A i \in 1..Len(t) : Len(s) + i \in places <=> i \in inT
  PROVE  Chosen(s \o t, places) = Chosen(s, inS) \o Chosen(t, inT)
<1> DEFINE m == Len(s)
           n == Len(t)
           all == s \o t
<1>1. /\ m \in Nat /\ n \in Nat /\ all \in Seq(S) /\ Len(all) = m + n
      /\ \A i \in 1..m : all[i] = s[i]
      /\ \A i \in 1..n : all[m + i] = t[i]
  OBVIOUS
<1>t. \A i \in 1..n : t[i] \in S
  BY ElementOfSeq
<1>2. PICK f : /\ Chosen(s, inS) = f[m] /\ f[0] = <<>>
               /\ \A i \in 1..m : f[i] = IF i \in inS THEN Append(f[i - 1], s[i]) ELSE f[i - 1]
  BY ChosenBy
<1>3. PICK g : /\ Chosen(t, inT) = g[n] /\ g[0] = <<>>
               /\ \A i \in 1..n : g[i] = IF i \in inT THEN Append(g[i - 1], t[i]) ELSE g[i - 1]
  BY ChosenBy
<1>4. PICK h : /\ Chosen(all, places) = h[m + n] /\ h[0] = <<>>
               /\ \A i \in 1..(m + n) :
                    h[i] = IF i \in places THEN Append(h[i - 1], all[i]) ELSE h[i - 1]
  <2>1. all \in Seq(S) /\ Len(all) = m + n
    BY <1>1
  <2> HIDE DEF m, n, all
  <2>2. PICK h : /\ Chosen(all, places) = h[Len(all)] /\ h[0] = <<>>
                 /\ \A i \in 1..Len(all) :
                      h[i] = IF i \in places THEN Append(h[i - 1], all[i]) ELSE h[i - 1]
    BY <2>1, ChosenBy
  <2> QED BY <2>1, <2>2
<1>p. /\ \A i \in 1..m : i \in places <=> i \in inS
      /\ \A i \in 1..n : m + i \in places <=> i \in inT
  OBVIOUS
<1>c. f[m] \in Seq(S)
  BY <1>2, ChosenIs
<1> HIDE DEF m, n, all
<1>5. h[m] = f[m]
  <2> DEFINE T == {i \in 0..m : h[i] # f[i]}
  <2> SUFFICES ASSUME T # {} PROVE FALSE
    BY <1>1
  <2>1. PICK i \in T : \A k \in T : i <= k
    <3>1. T \in SUBSET Nat
      BY <1>1
    <3> HIDE DEF T
    <3> QED BY <3>1, LeastNat
  <2>2. i # 0 /\ i \in 1..m /\ i - 1 \in 0..m /\ i \in 1..(m + n)
    BY <1>1, <1>2, <1>4
  <2>3. h[i - 1] = f[i - 1]
    <3>1. i - 1 \notin T
      BY <1>1, <2>1, <2>2
    <3> QED BY <2>2, <3>1
  <2>4. h[i] = IF i \in places THEN Append(h[i - 1], all[i]) ELSE h[i - 1]
    BY <1>4, <2>2
  <2>5. f[i] = IF i \in inS THEN Append(f[i - 1], s[i]) ELSE f[i - 1]
    BY <1>2, <2>2
  <2>6. all[i] = s[i] /\ (i \in places <=> i \in inS)
    BY <1>1, <1>p, <2>2
  <2> QED BY <2>1, <2>3, <2>4, <2>5, <2>6
<1> DEFINE Good(i) == g[i] \in Seq(S) /\ h[m + i] = f[m] \o g[i]
           T == {i \in 0..n : ~Good(i)}
<1>6. Good(0)
  <2>1. g[0] = <<>> /\ m + 0 = m
    BY <1>1, <1>3
  <2> QED BY <1>5, <1>c, <2>1
<1>7. ASSUME NEW i \in 1..n, Good(i - 1) PROVE Good(i)
  <2>1. m + i \in 1..(m + n) /\ (m + i) - 1 = m + (i - 1) /\ i - 1 \in Nat
    BY <1>1
  <2>2. h[m + i] = IF m + i \in places THEN Append(h[m + (i - 1)], all[m + i]) ELSE h[m + (i - 1)]
    BY <1>4, <2>1
  <2>3. g[i] = IF i \in inT THEN Append(g[i - 1], t[i]) ELSE g[i - 1]
    BY <1>3
  <2>4. all[m + i] = t[i] /\ (m + i \in places <=> i \in inT) /\ t[i] \in S
    BY <1>1, <1>p, <1>t
  <2> DEFINE before == g[i - 1]
             front == f[m]
             old == h[m + (i - 1)]
             x == t[i]
  <2>5. before \in Seq(S) /\ old = front \o before /\ front \in Seq(S) /\ x \in S
    BY <1>7, <1>c, <2>4
  <2>6. g[i] = (IF i \in inT THEN Append(before, x) ELSE before)
        /\ h[m + i] = IF i \in inT THEN Append(old, x) ELSE old
    BY <2>2, <2>3, <2>4
  <2> HIDE DEF before, front, old, x
  <2>7. Append(before, x) \in Seq(S) /\ Append(front \o before, x) = front \o Append(before, x)
    <3>1. <<x>> \in Seq(S) /\ front \o before \in Seq(S)
      BY <2>5
    <3>2. Append(before, x) = before \o <<x>> /\ Append(front \o before, x) = (front \o before) \o <<x>>
      BY <2>5, <3>1
    <3>3. (front \o before) \o <<x>> = front \o (before \o <<x>>)
      BY <2>5, <3>1, ConcatAssociative
    <3> QED BY <2>5, <3>1, <3>2, <3>3
  <2>8. g[i] \in Seq(S) /\ h[m + i] = front \o g[i]
    BY <2>5, <2>6, <2>7
  <2> QED BY <2>8 DEF front
<1> HIDE DEF Good
<1>8. Good(n)
  <2> SUFFICES ASSUME T # {} PROVE FALSE
    BY <1>1
  <2>1. PICK i \in T : \A k \in T : i <= k
    <3>1. T \in SUBSET Nat
      BY <1>1
    <3> HIDE DEF T
    <3> QED BY <3>1, LeastNat
  <2>2. i # 0 /\ i \in 0..n /\ ~Good(i)
    BY <1>6, <2>1
  <2>3. i \in 1..n /\ i - 1 \in 0..n
    BY <1>1, <2>2
  <2>4. Good(i - 1)
    <3>1. i - 1 \notin T
      BY <1>1, <2>1, <2>3
    <3> QED BY <2>3, <3>1
  <2> QED BY <1>7, <2>2, <2>3, <2>4
<1> QED BY <1>2, <1>3, <1>4, <1>8 DEF Good, all

LEMMA ChosenAll ==
  ASSUME NEW S, NEW s \in Seq(S), NEW places
  PROVE  /\ (\A i \in 1..Len(s) : i \in places) => Chosen(s, places) = s
         /\ (\A i \in 1..Len(s) : i \notin places) => Chosen(s, places) = <<>>
<1> DEFINE n == Len(s)
<1>1. n \in Nat /\ \A i \in 1..n : s[i] \in S
  BY ElementOfSeq
<1>2. PICK h : /\ Chosen(s, places) = h[n] /\ h[0] = <<>>
               /\ \A i \in 1..n : h[i] = IF i \in places THEN Append(h[i - 1], s[i]) ELSE h[i - 1]
  BY ChosenBy
<1> HIDE DEF n
<1>3. ASSUME \A i \in 1..n : i \in places PROVE h[n] = s
  <2> DEFINE Good(i) == h[i] \in Seq(S) /\ Len(h[i]) = i /\ \A k \in 1..i : h[i][k] = s[k]
             T == {i \in 0..n : ~Good(i)}
  <2>1. Good(0)
    BY <1>2, EmptySeq
  <2>2. ASSUME NEW i \in 1..n, Good(i - 1) PROVE Good(i)
    <3> DEFINE before == h[i - 1]
               x == s[i]
    <3>1. before \in Seq(S) /\ Len(before) = i - 1 /\ x \in S /\ i \in Nat /\ i - 1 \in Nat
          /\ \A k \in 1..(i - 1) : before[k] = s[k]
      BY <1>1, <2>2
    <3>2. h[i] = Append(before, x)
      BY <1>2, <1>3
    <3> HIDE DEF before
    <3>3. /\ Append(before, x) \in Seq(S) /\ Len(Append(before, x)) = i
          /\ \A k \in 1..(i - 1) : Append(before, x)[k] = before[k]
          /\ Append(before, x)[i] = x
      BY <3>1
    <3>4. \A k \in 1..i : k # i => k \in 1..(i - 1)
      BY <3>1
    <3> QED BY <3>1, <3>2, <3>3, <3>4
  <2> HIDE DEF Good
  <2>3. Good(n)
    <3> SUFFICES ASSUME T # {} PROVE FALSE
      BY <1>1
    <3>1. PICK i \in T : \A k \in T : i <= k
      <4>1. T \in SUBSET Nat
        BY <1>1
      <4> HIDE DEF T
      <4> QED BY <4>1, LeastNat
    <3>2. i # 0 /\ i \in 0..n /\ ~Good(i)
      BY <2>1, <3>1
    <3>3. i \in 1..n /\ i - 1 \in 0..n
      BY <1>1, <3>2
    <3>4. Good(i - 1)
      <4>1. i - 1 \notin T
        BY <1>1, <3>1, <3>3
      <4> QED BY <3>3, <4>1
    <3> QED BY <2>2, <3>2, <3>3, <3>4
  <2>4. h[n] \in Seq(S) /\ Len(h[n]) = Len(s) /\ \A k \in 1..Len(h[n]) : h[n][k] = s[k]
    BY <2>3 DEF Good, n
  <2> QED BY <2>4, SeqEqual
<1>4. ASSUME \A i \in 1..n : i \notin places PROVE h[n] = <<>>
  <2> DEFINE T == {i \in 0..n : h[i] # <<>>}
  <2> SUFFICES ASSUME T # {} PROVE FALSE
    BY <1>1
  <2>1. PICK i \in T : \A k \in T : i <= k
    <3>1. T \in SUBSET Nat
      BY <1>1
    <3> HIDE DEF T
    <3> QED BY <3>1, LeastNat
  <2>2. i # 0 /\ i \in 1..n /\ i - 1 \in 0..n /\ h[i] # <<>>
    BY <1>1, <1>2
  <2>3. h[i - 1] = <<>>
    <3>1. i - 1 \notin T
      BY <1>1, <2>1, <2>2
    <3> QED BY <2>2, <3>1
  <2> QED BY <1>2, <1>4, <2>2, <2>3
<1> QED BY <1>2, <1>3, <1>4 DEF n

\* The steps among the frames.
StepsOf(frames) == Chosen(frames, OfKind(frames, {"step"}))

LEMMA StepsMore ==
  ASSUME NEW S, NEW s \in Seq(S), NEW t \in Seq(S)
  PROVE  /\ (\A i \in 1..Len(t) : t[i].kind = "step") => StepsOf(s \o t) = StepsOf(s) \o t
         /\ (\A i \in 1..Len(t) : t[i].kind # "step") => StepsOf(s \o t) = StepsOf(s)
         /\ StepsOf(<<>>) = <<>>
<1> DEFINE all == s \o t
           places == OfKind(all, {"step"})
           inS == OfKind(s, {"step"})
           inT == OfKind(t, {"step"})
<1>1. /\ Len(s) \in Nat /\ Len(t) \in Nat
      /\ DOMAIN all = 1..(Len(s) + Len(t)) /\ DOMAIN s = 1..Len(s) /\ DOMAIN t = 1..Len(t)
      /\ \A i \in 1..Len(s) : all[i] = s[i] /\ i \in 1..(Len(s) + Len(t))
      /\ \A i \in 1..Len(t) : all[Len(s) + i] = t[i] /\ Len(s) + i \in 1..(Len(s) + Len(t))
  OBVIOUS
<1> HIDE DEF all
<1>2. /\ \A i \in 1..Len(s) : i \in places <=> i \in inS
      /\ \A i \in 1..Len(t) : Len(s) + i \in places <=> i \in inT
      /\ \A i \in 1..Len(t) : i \in inT <=> t[i].kind = "step"
  BY <1>1 DEF OfKind
<1> HIDE DEF places, inS, inT
<1>3. Chosen(all, places) = Chosen(s, inS) \o Chosen(t, inT)
  BY <1>2, ChosenConcat DEF all
<1>4. /\ (\A i \in 1..Len(t) : t[i].kind = "step") => Chosen(t, inT) = t
      /\ (\A i \in 1..Len(t) : t[i].kind # "step") => Chosen(t, inT) = <<>>
  BY <1>2, ChosenAll
<1>5. Chosen(s, inS) \in Seq(S)
  BY ChosenIs
<1>6. Chosen(s, inS) \o <<>> = Chosen(s, inS)
  BY <1>5
<1>7. StepsOf(<<>>) = <<>>
  <2> DEFINE none == OfKind(<<>>, {"step"})
  <2>1. <<>> \in Seq(S) /\ \A i \in 1..Len(<<>>) : i \notin none
    BY EmptySeq
  <2> HIDE DEF none
  <2>2. Chosen(<<>>, none) = <<>>
    BY <2>1, ChosenAll
  <2> QED BY <2>2 DEF StepsOf, none
<1> QED BY <1>3, <1>4, <1>6, <1>7 DEF StepsOf, all, places, inS, inT

-----------------------------------------------------------------------------
(* Frames in order.  What WireInOrder asks of a frame looks only at those    *)
(* before it, so it can be asked of the frames on their way, too.            *)

Narration(r) == Content("narration", r)

\* A hint is among the frames.
Hinted(s) == \E j \in DOMAIN s : s[j].kind = "refs"

\* Text of the round is there, and no narration after it.
Loose(s, r) ==
    \E j \in 1..Len(s) : /\ s[j].kind = "delta" /\ s[j].round = r
                         /\ \A k \in (j + 1)..Len(s) : s[k] # Narration(r)

\* Each frame after what it needs.
HintFits(s, i) ==
    s[i].kind = "delta" /\ HasNumber(s[i].text) => \E j \in 1..(i - 1) : s[j].kind = "refs"
TextFits(f) ==
    f.kind = "delta" /\ f.round # Nothing =>
      \A k \in DOMAIN f.text : f.text[k].round = f.round
StepFits(s, i) ==
    s[i].kind = "step" =>
      \A j \in 1..(i - 1) : s[j].kind = "delta" /\ s[j].round = s[i].round =>
         \E k \in j..i : s[k] = Narration(s[i].round)
Fits(s, i) == HintFits(s, i) /\ TextFits(s[i]) /\ StepFits(s, i)
InOrder(s) == \A i \in 1..Len(s) : Fits(s, i)

LEMMA InOrderPrefix ==
  ASSUME NEW S, NEW s \in Seq(S), NEW t \in Seq(S), InOrder(s \o t)
  PROVE  InOrder(s)
<1> DEFINE all == s \o t
<1>1. /\ Len(s) \in Nat /\ Len(all) = Len(s) + Len(t) /\ Len(t) \in Nat
      /\ \A i \in 1..Len(s) : all[i] = s[i]
  OBVIOUS
<1> SUFFICES ASSUME NEW i \in 1..Len(s) PROVE Fits(s, i)
  BY DEF InOrder
<1> HIDE DEF all
<1>2. i \in 1..Len(all) /\ \A j \in 1..i : all[j] = s[j]
  BY <1>1
<1>3. HintFits(all, i) /\ TextFits(all[i]) /\ StepFits(all, i)
  BY <1>2 DEF InOrder, Fits, all
<1>4. HintFits(s, i)
  <2>1. \A j \in 1..(i - 1) : j \in 1..i
    OBVIOUS
  <2> QED BY <1>2, <1>3, <2>1 DEF HintFits
<1>5. StepFits(s, i)
  <2> SUFFICES ASSUME s[i].kind = "step", NEW j \in 1..(i - 1),
                      s[j].kind = "delta", s[j].round = s[i].round
               PROVE  \E k \in j..i : s[k] = Narration(s[i].round)
    BY DEF StepFits
  <2>1. all[i] = s[i] /\ all[j] = s[j]
    BY <1>2
  <2>2. PICK k \in j..i : all[k] = Narration(s[i].round)
    BY <1>3, <2>1 DEF StepFits
  <2>3. k \in 1..i
    OBVIOUS
  <2> QED BY <1>2, <2>2, <2>3
<1>6. TextFits(s[i])
  BY <1>2, <1>3
<1> QED BY <1>4, <1>5, <1>6 DEF Fits

LEMMA InOrderMore ==
  ASSUME NEW S, NEW s \in Seq(S), NEW t \in Seq(S), InOrder(s),
         \A i \in 1..Len(t) :
           /\ TextFits(t[i])
           /\ Hinted(s) \/ HintFits(t, i)
           /\ t[i].kind = "step" => /\ ~Loose(s, t[i].round)
                                    /\ \A j \in 1..Len(t) : t[j].kind # "delta"
  PROVE  InOrder(s \o t)
<1> DEFINE all == s \o t
           m == Len(s)
           n == Len(t)
<1>1. /\ m \in Nat /\ n \in Nat /\ Len(all) = m + n /\ DOMAIN s = 1..m
      /\ \A i \in 1..m : all[i] = s[i]
      /\ \A i \in 1..n : all[m + i] = t[i]
  OBVIOUS
<1>0. \A i \in 1..n :
           /\ TextFits(t[i])
           /\ Hinted(s) \/ HintFits(t, i)
           /\ t[i].kind = "step" => ~Loose(s, t[i].round) /\ \A j \in 1..n : t[j].kind # "delta"
  OBVIOUS
<1> HIDE DEF all, m, n
<1>2. ASSUME NEW i \in 1..m PROVE Fits(all, i)
  <2>1. \A j \in 1..i : j \in 1..m /\ all[j] = s[j]
    BY <1>1
  <2>2. HintFits(s, i) /\ TextFits(s[i]) /\ StepFits(s, i)
    BY DEF InOrder, Fits, m
  <2>3. all[i] = s[i]
    BY <1>1
  <2>4. HintFits(all, i)
    <3>1. \A j \in 1..(i - 1) : j \in 1..i
      BY <1>1
    <3> QED BY <2>1, <2>2, <2>3, <3>1 DEF HintFits
  <2>5. StepFits(all, i)
    <3> SUFFICES ASSUME all[i].kind = "step", NEW j \in 1..(i - 1),
                        all[j].kind = "delta", all[j].round = all[i].round
                 PROVE  \E k \in j..i : all[k] = Narration(all[i].round)
      BY DEF StepFits
    <3>1. all[j] = s[j]
      BY <1>1, <2>1
    <3>2. PICK k \in j..i : s[k] = Narration(s[i].round)
      BY <2>2, <2>3, <3>1 DEF StepFits
    <3>3. k \in 1..i
      BY <1>1
    <3> QED BY <2>1, <2>3, <3>2, <3>3
  <2> QED BY <2>2, <2>3, <2>4, <2>5 DEF Fits
<1>3. ASSUME NEW i \in 1..n PROVE Fits(all, m + i)
  <2>1. all[m + i] = t[i] /\ i \in Nat
    BY <1>1
  <2>2. HintFits(all, m + i)
    <3> SUFFICES ASSUME all[m + i].kind = "delta", HasNumber(all[m + i].text)
                 PROVE  \E j \in 1..((m + i) - 1) : all[j].kind = "refs"
      BY DEF HintFits
    <3>0. t[i].kind = "delta" /\ HasNumber(t[i].text)
      BY <2>1
    <3>1. CASE Hinted(s)
      <4>1. PICK j \in 1..m : s[j].kind = "refs"
        BY <1>1, <3>1 DEF Hinted
      <4>2. j \in 1..((m + i) - 1) /\ all[j] = s[j]
        BY <1>1, <2>1
      <4>3. all[j].kind = "refs"
        BY <4>1, <4>2
      <4> QED BY <4>2, <4>3
    <3>2. CASE HintFits(t, i)
      <4>1. PICK j \in 1..(i - 1) : t[j].kind = "refs"
        BY <3>0, <3>2 DEF HintFits
      <4> DEFINE k == m + j
      <4>2. k \in 1..((m + i) - 1) /\ all[k] = t[j]
        BY <1>1, <2>1
      <4> HIDE DEF k
      <4>3. all[k].kind = "refs"
        BY <4>1, <4>2
      <4> QED BY <4>2, <4>3
    <3> QED BY <1>0, <3>1, <3>2
  <2>3. StepFits(all, m + i)
    <3> SUFFICES ASSUME all[m + i].kind = "step", NEW j \in 1..((m + i) - 1),
                        all[j].kind = "delta", all[j].round = all[m + i].round
                 PROVE  \E k \in j..(m + i) : all[k] = Narration(all[m + i].round)
      BY DEF StepFits
    <3>0. t[i].kind = "step" /\ all[j].round = t[i].round
      BY <2>1
    <3>1. ~Loose(s, t[i].round) /\ \A l \in 1..n : t[l].kind # "delta"
      BY <1>0, <3>0
    <3>2. j \in 1..m
      <4> SUFFICES ASSUME j \notin 1..m PROVE FALSE
        OBVIOUS
      <4> DEFINE l == j - m
      <4>1. l \in 1..n /\ m + l = j
        BY <1>1, <2>1
      <4> HIDE DEF l
      <4>2. all[j] = t[l]
        BY <1>1, <4>1
      <4> QED BY <3>1, <4>1, <4>2
    <3>3. s[j].kind = "delta" /\ s[j].round = t[i].round
      BY <1>1, <3>0, <3>2
    <3>4. PICK k \in (j + 1)..m : s[k] = Narration(t[i].round)
      BY <3>1, <3>2, <3>3 DEF Loose, m
    <3>5. k \in 1..m /\ k \in j..(m + i) /\ all[k] = s[k]
      BY <1>1, <2>1, <3>2
    <3> QED BY <2>1, <3>4, <3>5
  <2>4. TextFits(all[m + i])
    BY <1>0, <2>1
  <2> QED BY <2>2, <2>3, <2>4 DEF Fits
<1> SUFFICES ASSUME NEW i \in 1..(m + n) PROVE Fits(all, i)
  BY <1>1 DEF InOrder, all
<1>4. CASE i \in 1..m
  BY <1>2, <1>4
<1>5. CASE i \notin 1..m
  <2> DEFINE l == i - m
  <2>1. l \in 1..n /\ i = m + l
    BY <1>1, <1>5
  <2> HIDE DEF l
  <2> QED BY <1>3, <2>1
<1> QED BY <1>4, <1>5

\* What more frames do to hints and to loose text.
LEMMA HintedMore ==
  ASSUME NEW S, NEW s \in Seq(S), NEW t \in Seq(S), Hinted(s) \/ Hinted(t)
  PROVE  Hinted(s \o t)
<1> DEFINE all == s \o t
<1>1. /\ Len(s) \in Nat /\ Len(t) \in Nat /\ DOMAIN all = 1..(Len(s) + Len(t))
      /\ DOMAIN s = 1..Len(s) /\ DOMAIN t = 1..Len(t)
      /\ \A i \in 1..Len(s) : all[i] = s[i] /\ i \in DOMAIN all
      /\ \A i \in 1..Len(t) : all[Len(s) + i] = t[i] /\ Len(s) + i \in DOMAIN all
  OBVIOUS
<1> HIDE DEF all
<1>2. Hinted(all)
  BY <1>1 DEF Hinted
<1> QED BY <1>2 DEF all

LEMMA LooseMore ==
  ASSUME NEW S, NEW s \in Seq(S), NEW t \in Seq(S), NEW r, Loose(s \o t, r),
         \A i \in 1..Len(t) : t[i].kind = "delta" => t[i].round # r
  PROVE  Loose(s, r) /\ \A i \in 1..Len(t) : t[i] # Narration(r)
<1> DEFINE all == s \o t
           m == Len(s)
           n == Len(t)
<1>1. /\ m \in Nat /\ n \in Nat /\ Len(all) = m + n
      /\ \A i \in 1..m : all[i] = s[i]
      /\ \A i \in 1..n : all[m + i] = t[i]
  OBVIOUS
<1>2. \A i \in 1..n : t[i].kind = "delta" => t[i].round # r
  OBVIOUS
<1> HIDE DEF all, m, n
<1>3. PICK j \in 1..(m + n) : /\ all[j].kind = "delta" /\ all[j].round = r
                              /\ \A k \in (j + 1)..(m + n) : all[k] # Narration(r)
  BY <1>1 DEF Loose, all
<1>4. j \in 1..m
  <2> SUFFICES ASSUME j \notin 1..m PROVE FALSE
    OBVIOUS
  <2> DEFINE l == j - m
  <2>1. l \in 1..n /\ m + l = j
    BY <1>1
  <2> HIDE DEF l
  <2>2. all[j] = t[l]
    BY <1>1, <2>1
  <2> QED BY <1>2, <1>3, <2>1, <2>2
<1>5. s[j].kind = "delta" /\ s[j].round = r
  BY <1>1, <1>3, <1>4
<1>6. \A k \in (j + 1)..m : s[k] # Narration(r)
  <2> SUFFICES ASSUME NEW k \in (j + 1)..m PROVE s[k] # Narration(r)
    OBVIOUS
  <2>1. k \in 1..m /\ k \in (j + 1)..(m + n)
    BY <1>1, <1>4
  <2> QED BY <1>1, <1>3, <2>1
<1>7. ASSUME NEW i \in 1..n PROVE t[i] # Narration(r)
  <2>1. m + i \in (j + 1)..(m + n) /\ all[m + i] = t[i]
    BY <1>1, <1>4
  <2> QED BY <1>3, <2>1
<1> QED BY <1>4, <1>5, <1>6, <1>7 DEF Loose, m, n

\* Frames that are neither text nor steps disturb nothing.
LEMMA OtherFrames ==
  ASSUME NEW S, NEW s \in Seq(S), NEW t \in Seq(S),
         \A i \in 1..Len(t) : t[i].kind \notin {"delta", "step"}
  PROVE  /\ InOrder(s) => InOrder(s \o t)
         /\ StepsOf(s \o t) = StepsOf(s)
         /\ \A r : Loose(s \o t, r) => Loose(s, r)
         /\ Hinted(s) => Hinted(s \o t)
<1>1. InOrder(s) => InOrder(s \o t)
  <2>1. \A i \in 1..Len(t) : TextFits(t[i]) /\ HintFits(t, i) /\ t[i].kind # "step"
    BY DEF TextFits, HintFits
  <2> QED BY <2>1, InOrderMore
<1>2. \A r : Loose(s \o t, r) => Loose(s, r)
  BY LooseMore
<1> QED BY <1>1, <1>2, StepsMore, HintedMore

\* Steps of a round with no loose text.
LEMMA StepFrames ==
  ASSUME NEW S, NEW s \in Seq(S), NEW t \in Seq(S), NEW r, ~Loose(s, r),
         \A i \in 1..Len(t) : t[i].kind = "step" /\ t[i].round = r
  PROVE  /\ InOrder(s) => InOrder(s \o t)
         /\ StepsOf(s \o t) = StepsOf(s) \o t
         /\ \A q : Loose(s \o t, q) => Loose(s, q)
         /\ Hinted(s) => Hinted(s \o t)
<1>1. InOrder(s) => InOrder(s \o t)
  <2>1. \A i \in 1..Len(t) : TextFits(t[i]) /\ HintFits(t, i) /\ t[i].kind # "delta"
    BY DEF TextFits, HintFits
  <2> QED BY <2>1, InOrderMore
<1>2. \A q : Loose(s \o t, q) => Loose(s, q)
  BY LooseMore
<1> QED BY <1>1, <1>2, StepsMore, HintedMore

\* The narration of a round leaves none of its text loose.
LEMMA NarrationFrame ==
  ASSUME NEW S, NEW s \in Seq(S), NEW r, Narration(r) \in S
  PROVE  /\ InOrder(s) => InOrder(s \o <<Narration(r)>>)
         /\ StepsOf(s \o <<Narration(r)>>) = StepsOf(s)
         /\ ~Loose(s \o <<Narration(r)>>, r)
         /\ \A q : Loose(s \o <<Narration(r)>>, q) => Loose(s, q)
         /\ Hinted(s) => Hinted(s \o <<Narration(r)>>)
<1> DEFINE t == <<Narration(r)>>
<1>1. t \in Seq(S) /\ Len(t) = 1 /\ t[1] = Narration(r)
  OBVIOUS
<1>2. Narration(r).kind = "content"
  BY DEF Narration, Content
<1> HIDE DEF t
<1>3. \A i \in 1..Len(t) : t[i].kind \notin {"delta", "step"}
  BY <1>1, <1>2
<1>4. ~Loose(s \o t, r)
  <2> SUFFICES ASSUME Loose(s \o t, r) PROVE FALSE
    OBVIOUS
  <2>1. \A i \in 1..Len(t) : t[i] # Narration(r)
    BY <1>1, <1>3, LooseMore
  <2> QED BY <1>1, <2>1
<1>5. /\ InOrder(s) => InOrder(s \o t)
      /\ StepsOf(s \o t) = StepsOf(s)
      /\ \A q : Loose(s \o t, q) => Loose(s, q)
      /\ Hinted(s) => Hinted(s \o t)
  BY <1>1, <1>3, OtherFrames
<1> QED BY <1>4, <1>5 DEF t

-----------------------------------------------------------------------------
(* The same of what one step sends, piece by piece. *)

\* More frames leave the order, the steps, the hints and loose text as they are.
Keeps(s, t) ==
    /\ InOrder(s) => InOrder(t)
    /\ StepsOf(t) = StepsOf(s)
    /\ \A q : Loose(t, q) => Loose(s, q)
    /\ Hinted(s) => Hinted(t)

LEMMA OtherFrame ==
  ASSUME NEW S, NEW s \in Seq(S), NEW f \in S, f.kind \notin {"delta", "step"}
  PROVE  /\ Keeps(s, s \o <<f>>)
         /\ f.kind = "refs" => Hinted(s \o <<f>>)
<1> DEFINE t == <<f>>
<1>1. t \in Seq(S) /\ Len(t) = 1 /\ t[1] = f /\ DOMAIN t = {1}
  OBVIOUS
<1> HIDE DEF t
<1>2. \A i \in 1..Len(t) : t[i].kind \notin {"delta", "step"}
  BY <1>1
<1>3. Keeps(s, s \o t)
  BY <1>1, <1>2, OtherFrames DEF Keeps
<1>4. f.kind = "refs" => Hinted(s \o t)
  <2>1. f.kind = "refs" => Hinted(t)
    BY <1>1 DEF Hinted
  <2> QED BY <1>1, <2>1, HintedMore
<1> QED BY <1>3, <1>4 DEF t

LEMMA MaybeFrame ==
  ASSUME NEW S, NEW s \in Seq(S), NEW f \in S, f.kind \notin {"delta", "step"}, NEW c,
         NEW t, t = IF c THEN <<f>> ELSE <<>>
  PROVE  /\ t \in Seq(S) /\ s \o t \in Seq(S)
         /\ Keeps(s, s \o t)
         /\ c /\ f.kind = "refs" => Hinted(s \o t)
<1>1. CASE c
  <2>1. t = <<f>>
    BY <1>1
  <2> QED BY <2>1, OtherFrame
<1>2. CASE ~c
  <2>1. t = <<>> /\ s \o t = s
    BY <1>2
  <2> QED BY <1>2, <2>1 DEF Keeps
<1> QED BY <1>1, <1>2

\* Text after its hint, under its round.
LEMMA TextFrame ==
  ASSUME NEW S, NEW s \in Seq(S), NEW chunk, NEW r, Delta(chunk, r) \in S,
         HasNumber(chunk) => Hinted(s),
         r # Nothing => \A k \in DOMAIN chunk : chunk[k].round = r
  PROVE  /\ InOrder(s) => InOrder(s \o <<Delta(chunk, r)>>)
         /\ StepsOf(s \o <<Delta(chunk, r)>>) = StepsOf(s)
         /\ \A q : Loose(s \o <<Delta(chunk, r)>>, q) => Loose(s, q) \/ q = r
         /\ Hinted(s) => Hinted(s \o <<Delta(chunk, r)>>)
<1> DEFINE f == Delta(chunk, r)
           t == <<f>>
<1>1. f.kind = "delta" /\ f.round = r /\ f.text = chunk /\ f \in S
  BY DEF Delta
<1> HIDE DEF f
<1>2. t \in Seq(S) /\ Len(t) = 1 /\ t[1] = f
  BY <1>1
<1> HIDE DEF t
<1>3. InOrder(s) => InOrder(s \o t)
  <2>1. TextFits(f)
    BY <1>1 DEF TextFits
  <2>2. Hinted(s) \/ HintFits(t, 1)
    BY <1>1, <1>2 DEF HintFits
  <2>3. \A i \in 1..Len(t) : i = 1
    BY <1>2
  <2>4. \A i \in 1..Len(t) : /\ TextFits(t[i]) /\ (Hinted(s) \/ HintFits(t, i))
                             /\ t[i].kind # "step"
    BY <1>1, <1>2, <2>1, <2>2, <2>3
  <2> QED BY <1>2, <2>4, InOrderMore
<1>4. StepsOf(s \o t) = StepsOf(s)
  BY <1>1, <1>2, StepsMore
<1>5. \A q : Loose(s \o t, q) => Loose(s, q) \/ q = r
  <2> SUFFICES ASSUME NEW q, q # r, Loose(s \o t, q) PROVE Loose(s, q)
    OBVIOUS
  <2>1. \A i \in 1..Len(t) : t[i].kind = "delta" => t[i].round # q
    BY <1>1, <1>2
  <2> QED BY <1>2, <2>1, LooseMore
<1>6. Hinted(s) => Hinted(s \o t)
  BY <1>2, HintedMore
<1> QED BY <1>3, <1>4, <1>5, <1>6 DEF t, f

LEMMA TwoFrames ==
  ASSUME NEW S, NEW f \in S, NEW g \in S
  PROVE  <<f>> \o <<g>> = <<f, g>>
<1> DEFINE s == <<f>> \o <<g>>
           t == <<f, g>>
<1>1. s \in Seq(S) /\ t \in Seq(S) /\ Len(s) = 2 /\ Len(t) = 2
  OBVIOUS
<1>2. s[1] = t[1] /\ s[2] = t[2]
  OBVIOUS
<1> HIDE DEF s, t
<1>3. \A i \in 1..Len(s) : s[i] = t[i]
  BY <1>1, <1>2
<1>4. s = t
  BY <1>1, <1>3, SeqEqual
<1> QED BY <1>4 DEF s, t

LEMMA Joined ==
  \A s, a, b \in Seq(Frames) : s \o (a \o b) = (s \o a) \o b /\ a \o b \in Seq(Frames)
<1> TAKE s, a, b \in Seq(Frames)
<1>1. s \o (a \o b) = (s \o a) \o b
  BY ConcatAssociative
<1> QED BY <1>1

\* Live text, with its hint and its role.
LEMMA DisplayInOrder ==
  ASSUME NEW s \in Seq(Frames), NEW chunk \in Seq(Shown), NEW r \in Nat, NEW ph,
         HasNumber(streamed) => Hinted(s),
         \A k \in DOMAIN chunk : chunk[k].round = r
  PROVE  LET t == s \o DisplayFrames(chunk, r, ph)
         IN  /\ t \in Seq(Frames)
             /\ InOrder(s) => InOrder(t)
             /\ StepsOf(t) = StepsOf(s)
             /\ \A q : Loose(t, q) => Loose(s, q) \/ (q = r /\ chunk # <<>>)
             /\ Hinted(s) => Hinted(t)
             /\ HasNumber(streamed) \/ HasNumber(chunk) => Hinted(t)
<1> DEFINE hints == HasNumber(chunk) /\ ~HasNumber(streamed)
           hint == IF hints THEN <<Plain("refs")>> ELSE <<>>
           card == IF hints THEN <<Plain("preview")>> ELSE <<>>
           role == IF ph = "none" THEN <<Content("provisional", r)>> ELSE <<>>
           say == <<Delta(chunk, r)>>
           d == DisplayFrames(chunk, r, ph)
<1>1. /\ Plain("refs") \in Frames /\ Plain("preview") \in Frames
      /\ Content("provisional", r) \in Frames /\ Delta(chunk, r) \in Frames
      /\ Plain("refs").kind = "refs" /\ Plain("preview").kind = "preview"
      /\ Content("provisional", r).kind = "content"
  <2>1. /\ Plain("refs") \in Working /\ Plain("preview") \in Working
        /\ Content("provisional", r) \in Working /\ Delta(chunk, r) \in Working
    BY WorkingFrames
  <2> QED BY <2>1 DEF Working, Plain, Content
<1>2. CASE chunk = <<>>
  <2>1. d = <<>> /\ s \o d = s
    BY <1>2 DEF DisplayFrames
  <2>2. ~HasNumber(chunk)
    BY <1>2 DEF HasNumber
  <2> QED BY <2>1, <2>2
<1>3. CASE chunk # <<>>
  <2>1. d = (hint \o card) \o role \o say
    <3>1. hint \o card = IF hints THEN <<Plain("refs"), Plain("preview")>> ELSE <<>>
      <4>1. CASE hints
        BY <1>1, <4>1, TwoFrames
      <4>2. CASE ~hints
        BY <4>2
      <4> QED BY <4>1, <4>2
    <3> QED BY <1>3, <3>1 DEF DisplayFrames
  <2> HIDE DEF d
  <2>2. hint \in Seq(Frames) /\ card \in Seq(Frames) /\ role \in Seq(Frames) /\ say \in Seq(Frames)
    BY <1>1
  <2> DEFINE s1 == s \o hint
             s2 == s1 \o card
             s3 == s2 \o role
             s4 == s3 \o say
  <2>3. s1 \in Seq(Frames) /\ Keeps(s, s1) /\ (hints => Hinted(s1))
    <3> HIDE DEF hints
    <3> QED BY <1>1, MaybeFrame
  <2>4. s2 \in Seq(Frames) /\ Keeps(s1, s2)
    <3> HIDE DEF hints, s1
    <3> QED BY <1>1, <2>3, MaybeFrame
  <2>5. s3 \in Seq(Frames) /\ Keeps(s2, s3)
    <3> HIDE DEF s2
    <3> QED BY <1>1, <2>4, MaybeFrame
  <2>6. s \o d = s4
    <3> HIDE DEF hint, card, role, say
    <3> DEFINE front == hint \o card
               most == front \o role
    <3>1. s \o front = (s \o hint) \o card /\ front \in Seq(Frames)
      BY <2>2, Joined, Zenon
    <3> HIDE DEF front
    <3>2. s \o most = (s \o front) \o role /\ most \in Seq(Frames)
      BY <2>2, <3>1, Joined, Zenon
    <3> HIDE DEF most
    <3>3. s \o (most \o say) = (s \o most) \o say
      BY <2>2, <3>2, Joined, Zenon
    <3>4. d = most \o say
      BY <2>1 DEF front, most
    <3> QED BY <3>1, <3>2, <3>3, <3>4
  <2>7. HasNumber(chunk) => Hinted(s3)
    <3>1. CASE hints
      BY <2>3, <2>4, <2>5, <3>1 DEF Keeps
    <3>2. CASE ~hints
      BY <2>3, <2>4, <2>5, <3>2 DEF Keeps
    <3> QED BY <3>1, <3>2
  <2>8. /\ s4 \in Seq(Frames)
        /\ InOrder(s3) => InOrder(s4)
        /\ StepsOf(s4) = StepsOf(s3)
        /\ \A q : Loose(s4, q) => Loose(s3, q) \/ q = r
        /\ Hinted(s3) => Hinted(s4)
    <3> HIDE DEF s3
    <3> QED BY <1>1, <2>2, <2>5, <2>7, TextFrame
  <2> HIDE DEF s1, s2, s3, s4, hints
  <2> QED BY <1>3, <2>3, <2>4, <2>5, <2>6, <2>7, <2>8 DEF Keeps, d
<1> QED BY <1>2, <1>3

\* The frames that settle the answer.
LEMMA BodyInOrder ==
  ASSUME NEW s \in Seq(Frames), NEW shown \in Seq(Shown), NEW final \in Seq(Shown)
  PROVE  LET t == s \o BodyFrames(shown, final)
         IN  /\ t \in Seq(Frames)
             /\ InOrder(s) => InOrder(t)
             /\ StepsOf(t) = StepsOf(s)
<1> DEFINE changed == shown # final
           numbered == changed /\ HasNumber(final)
           back == IF changed /\ shown # <<>> THEN <<Plain("reset")>> ELSE <<>>
           list == <<Plain("sources")>>
           hint == IF numbered THEN <<Plain("refs")>> ELSE <<>>
           say == IF changed THEN <<Delta(final, Nothing)>> ELSE <<>>
           end == <<Plain("answer")>>
           b == BodyFrames(shown, final)
<1>1. /\ Plain("reset") \in Frames /\ Plain("sources") \in Frames /\ Plain("refs") \in Frames
      /\ Plain("answer") \in Frames /\ Delta(final, Nothing) \in Frames
      /\ Plain("reset").kind = "reset" /\ Plain("sources").kind = "sources"
      /\ Plain("refs").kind = "refs" /\ Plain("answer").kind = "answer"
  <2>1. /\ Plain("reset") \in Working /\ Plain("sources") \in Working /\ Plain("refs") \in Working
        /\ Plain("answer") \in Working /\ Delta(final, Nothing) \in Working
    BY WorkingFrames
  <2> QED BY <2>1 DEF Working, Plain
<1>2. b = back \o list \o hint \o say \o end
  BY DEF BodyFrames
<1> HIDE DEF b
<1>3. /\ back \in Seq(Frames) /\ list \in Seq(Frames) /\ hint \in Seq(Frames)
      /\ say \in Seq(Frames) /\ end \in Seq(Frames)
  BY <1>1
<1> DEFINE s1 == s \o back
           s2 == s1 \o list
           s3 == s2 \o hint
           s4 == s3 \o say
           s5 == s4 \o end
<1>4. s1 \in Seq(Frames) /\ Keeps(s, s1)
  <2> HIDE DEF changed
  <2> QED BY <1>1, MaybeFrame
<1>5. s2 \in Seq(Frames) /\ Keeps(s1, s2)
  <2> HIDE DEF s1
  <2> QED BY <1>1, <1>3, <1>4, OtherFrame
<1>6. s3 \in Seq(Frames) /\ Keeps(s2, s3) /\ (numbered => Hinted(s3))
  <2> HIDE DEF s2, numbered
  <2> QED BY <1>1, <1>5, MaybeFrame
<1>7. s4 \in Seq(Frames) /\ (InOrder(s3) => InOrder(s4)) /\ StepsOf(s4) = StepsOf(s3)
  <2>1. CASE changed
    <3>1. say = <<Delta(final, Nothing)>> /\ (HasNumber(final) => Hinted(s3))
      BY <1>6, <2>1
    <3> HIDE DEF s3, say
    <3> QED BY <1>1, <1>3, <1>6, <3>1, TextFrame
  <2>2. CASE ~changed
    <3>1. say = <<>>
      BY <2>2
    <3> HIDE DEF s3, say
    <3> QED BY <1>6, <3>1
  <2> QED BY <2>1, <2>2
<1>8. s5 \in Seq(Frames) /\ Keeps(s4, s5)
  <2> HIDE DEF s4
  <2> QED BY <1>1, <1>3, <1>7, OtherFrame
<1>9. s \o b = s5
  <2> HIDE DEF back, list, hint, say, end
  <2> DEFINE b2 == back \o list
             b3 == b2 \o hint
             b4 == b3 \o say
  <2>0. hint \in Seq(Frames) /\ say \in Seq(Frames) /\ end \in Seq(Frames)
    BY <1>3
  <2>1. s \o b2 = (s \o back) \o list /\ b2 \in Seq(Frames)
    BY <1>3, Joined, Zenon
  <2> HIDE DEF b2
  <2>a. s \in Seq(Frames) /\ b2 \in Seq(Frames) /\ hint \in Seq(Frames)
    BY <2>0, <2>1
  <2>2. s \o b3 = (s \o b2) \o hint /\ b3 \in Seq(Frames)
    BY <2>a, Joined, Zenon
  <2> HIDE DEF b3
  <2>b. s \in Seq(Frames) /\ b3 \in Seq(Frames) /\ say \in Seq(Frames)
    BY <2>0, <2>2
  <2>3. s \o b4 = (s \o b3) \o say /\ b4 \in Seq(Frames)
    BY <2>b, Joined, Zenon
  <2> HIDE DEF b4
  <2>c. s \in Seq(Frames) /\ b4 \in Seq(Frames) /\ end \in Seq(Frames)
    BY <2>0, <2>3
  <2>4. s \o (b4 \o end) = (s \o b4) \o end
    BY <2>c, Joined, Zenon
  <2>5. b = b4 \o end
    BY <1>2 DEF b2, b3, b4
  <2> QED BY <2>1, <2>2, <2>3, <2>4, <2>5
<1> HIDE DEF s1, s2, s3, s4, s5
<1> QED BY <1>4, <1>5, <1>6, <1>7, <1>8, <1>9 DEF Keeps, b

-----------------------------------------------------------------------------
(* What is on the screen, or on its way, belongs where it stands.            *)

Early == {"waiting", "preparing"}
Writing == {"streaming", "settling", "failing"}

\* The frames the client took and those on their way to it.
Sending == wire \o out

\* A turn that showed nothing may begin again.
FreshInv ==
    pc \in Early \/ (pc = "streaming" /\ ~emitted) =>
      ~emitted /\ Sending = <<>> /\ steps = <<>> /\ streamed = <<>> /\ open = {}

\* What is held back was written in the present round, and its tools were not
\* called.
HeldInv ==
    pc \in Writing =>
      \A k \in (Len(streamed) + 1)..Len(raw) : raw[k].round = round /\ ~toolPending /\ open = {}

HintInv == pc \in Writing /\ HasNumber(streamed) => Hinted(Sending)

\* Text of a round waits for its narration only until the tools are called.
LooseInv ==
    /\ pc = "streaming" => \A r \in Nat : Loose(Sending, r) =>
         r = round /\ open = {} /\ ~toolPending /\ phase = "provisional"
    /\ pc \in Early \cup {"streaming"} /\ open = {} /\ ~toolPending => phase # "narration"

ListInv == pc \in Served => StepsOf(Sending) = steps

OrderInv == FreshInv /\ HeldInv /\ HintInv /\ LooseInv /\ InOrder(Sending) /\ ListInv

LEMMA HasNumberMore ==
  ASSUME NEW s \in Seq(Shown), NEW t \in Seq(Shown), HasNumber(s \o t)
  PROVE  HasNumber(s) \/ HasNumber(t)
<1> DEFINE all == s \o t
<1>1. /\ Len(s) \in Nat /\ Len(t) \in Nat /\ DOMAIN all = 1..(Len(s) + Len(t))
      /\ DOMAIN s = 1..Len(s) /\ DOMAIN t = 1..Len(t)
      /\ \A i \in 1..(Len(s) + Len(t)) : all[i] = IF i <= Len(s) THEN s[i] ELSE t[i - Len(s)]
  OBVIOUS
<1>2. PICK i \in DOMAIN all : all[i].form = "number"
  BY DEF HasNumber
<1> HIDE DEF all
<1>3. CASE i <= Len(s)
  BY <1>1, <1>2, <1>3 DEF HasNumber
<1>4. CASE i > Len(s)
  <2> DEFINE k == i - Len(s)
  <2>1. k \in DOMAIN t /\ all[i] = t[k]
    BY <1>1, <1>2, <1>4
  <2> HIDE DEF k
  <2> QED BY <1>2, <2>1 DEF HasNumber
<1> QED BY <1>1, <1>2, <1>3, <1>4

\* Nothing has been shown of nothing.
LEMMA NothingSent ==
  /\ InOrder(<<>>) /\ \A r : ~Loose(<<>>, r) /\ StepsOf(<<>>) = <<>> /\ ~HasNumber(<<>>)
<1>1. Len(<<>>) = 0 /\ DOMAIN <<>> = {}
  OBVIOUS
<1>2. StepsOf(<<>>) = <<>>
  <2>1. <<>> \in Seq(Frames)
    BY EmptySeq
  <2> QED BY <2>1, StepsMore
<1> QED BY <1>1, <1>2 DEF InOrder, Loose, HasNumber

LEMMA InitOrder == Init => OrderInv
<1> SUFFICES ASSUME Init PROVE OrderInv
  OBVIOUS
<1>1. /\ pc \in Early /\ ~emitted /\ wire = <<>> /\ out = <<>> /\ steps = <<>> /\ streamed = <<>>
      /\ open = {} /\ phase = "none"
  BY TurnAssumption DEF Init, Early
<1>2. Sending = <<>>
  BY <1>1 DEF Sending
<1>3. pc \notin Writing /\ pc # "streaming" /\ pc \notin Served
  BY <1>1 DEF Early, Writing, Served
<1> QED
  BY <1>1, <1>2, <1>3, NothingSent DEF OrderInv, FreshInv, HeldInv, HintInv, LooseInv, ListInv

\* A step of the generator when all frames were taken: the new ones follow.
LEMMA SendingIs ==
  ASSUME TypeInv
  PROVE  /\ wire \in Seq(Frames) /\ out \in Seq(Frames) /\ Sending \in Seq(Frames)
         /\ out = <<>> => Sending = wire
         /\ wire' = wire => Sending' = wire \o out'
BY DEF TypeInv, FrameTypes, Sending

\* The held tail goes out under the round that wrote it.
LEMMA TailIs ==
  ASSUME TypeInv, HeldInv, pc \in Writing
  PROVE  /\ Feed(raw, TRUE) \in Seq(Shown) /\ streamed \o Feed(raw, TRUE) \in Seq(Shown)
         /\ Len(streamed \o Feed(raw, TRUE)) = Len(raw)
         /\ \A k \in DOMAIN Feed(raw, TRUE) : Feed(raw, TRUE)[k].round = round
         /\ Feed(raw, TRUE) # <<>> => ~toolPending /\ open = {}
<1> DEFINE chunk == Feed(raw, TRUE)
           n == Len(streamed)
<1>1. /\ raw \in Seq(Tokens) /\ streamed \in Seq(Shown) /\ Len(streamed) <= Len(raw)
      /\ Len(raw) \in Nat /\ n \in Nat
  BY DEF TypeInv, TextTypes
<1>2. /\ chunk \in Seq(Shown) /\ streamed \o chunk \in Seq(Shown)
      /\ Len(streamed \o chunk) = Len(raw)
      /\ \A i \in DOMAIN chunk : n + i \in DOMAIN raw /\ chunk[i].round = raw[n + i].round
  BY <1>1, FeedIs
<1> HIDE DEF chunk
<1>3. ASSUME NEW i \in DOMAIN chunk
      PROVE  chunk[i].round = round /\ ~toolPending /\ open = {}
  <2>1. i \in Nat /\ i >= 1 /\ n + i \in 1..Len(raw)
    BY <1>1, <1>2
  <2>2. n + i \in (n + 1)..Len(raw)
    BY <1>1, <2>1
  <2> QED BY <1>2, <2>2 DEF HeldInv
<1>4. chunk # <<>> => 1 \in DOMAIN chunk
  BY <1>2
<1> QED BY <1>2, <1>3, <1>4 DEF chunk

\* Where nobody writes any more the frames need only be in order.
LEMMA OverOrder ==
  ASSUME pc' \notin Early \cup Writing, InOrder(Sending'), pc' \in Served => StepsOf(Sending') = steps'
  PROVE  OrderInv'
<1>1. pc' # "streaming"
  BY DEF Writing
<1> QED
  BY <1>1 DEF OrderInv, FreshInv, HeldInv, HintInv, LooseInv, ListInv

LEMMA SameOrder ==
  ASSUME OrderInv, Sending' = Sending, steps' = steps, pc' \notin Early \cup Writing,
         pc' \in Served => pc \in Served
  PROVE  OrderInv'
BY OverOrder DEF OrderInv, ListInv

LEMMA SendOrder == TypeInv /\ OrderInv /\ Send => OrderInv'
<1> SUFFICES ASSUME TypeInv, OrderInv, Send PROVE OrderInv'
  OBVIOUS
<1>1. /\ out # <<>> /\ wire' = Append(wire, Head(out)) /\ out' = Tail(out)
      /\ UNCHANGED <<pc, text, process, request, attempt>>
  BY DEF Send
<1>2. Sending' = Sending
  <2>1. out = <<Head(out)>> \o Tail(out) /\ Head(out) \in Frames /\ Tail(out) \in Seq(Frames)
        /\ wire \in Seq(Frames)
    BY <1>1 DEF TypeInv, FrameTypes
  <2> DEFINE h == <<Head(out)>>
             t == Tail(out)
  <2>2. h \in Seq(Frames) /\ t \in Seq(Frames) /\ out = h \o t /\ wire' = wire \o h /\ out' = t
    BY <1>1, <2>1
  <2> HIDE DEF h, t
  <2>3. wire \o (h \o t) = (wire \o h) \o t
    BY <2>1, <2>2, Joined
  <2> QED BY <2>2, <2>3 DEF Sending
<1>3. UNCHANGED <<raw, streamed, round, phase, toolPending, open, steps, emitted>>
  BY <1>1 DEF text, process, attempt
<1> QED BY <1>1, <1>2, <1>3 DEF OrderInv, FreshInv, HeldInv, HintInv, LooseInv, ListInv

\* What a step of the stream sends, and what it leaves of the text.
LEMMA TextOrder ==
  ASSUME TypeInv, OrderInv, NEW mark \in BOOLEAN, Text(mark)
  PROVE  OrderInv'
<1> DEFINE token == [mark |-> mark, round |-> Round, try |-> tries]
           body == Append(raw, token)
           chunk == Feed(body, FALSE)
           n == Len(raw)
           m == Len(streamed)
<1>1. /\ pc = "streaming" /\ pc' = pc /\ out = <<>> /\ open = {} /\ open' = {}
      /\ raw' = body /\ streamed' = streamed \o chunk
      /\ round' = Round /\ toolPending' = FALSE /\ wire' = wire
      /\ out' = DisplayFrames(chunk, Round, Phase)
      /\ phase' = PhaseAfter(chunk, Phase)
      /\ emitted' = (emitted \/ chunk # <<>>) /\ steps' = steps
  BY DEF Text, Reading, At, ModelEvent
<1>2. /\ body \in Seq(Tokens) /\ raw \in Seq(Tokens) /\ streamed \in Seq(Shown)
      /\ Len(body) = n + 1 /\ n \in Nat /\ m <= n /\ m \in Nat
      /\ \A k \in 1..n : body[k] = raw[k]
      /\ body[n + 1] = token /\ DOMAIN body = 1..(n + 1)
  BY TokenIs DEF TypeInv, TextTypes
<1>3. token.round = Round /\ Round \in Nat /\ Phase \in Phases
  BY RoundIs
<1>4. pc \in Writing
  BY <1>1 DEF Writing
<1> HIDE DEF token, body, n, m
<1>5. Stable(body) \in Nat /\ Stable(body) <= n + 1 /\ Stable(body) >= n
  BY <1>2, StableIs
<1>6. /\ chunk \in Seq(Shown) /\ streamed \o chunk \in Seq(Shown)
      /\ Len(streamed \o chunk) = Stable(body)
      /\ \A i \in DOMAIN chunk : m + i \in DOMAIN body /\ chunk[i].round = body[m + i].round
  <2>1. Len(streamed) <= Stable(body) /\ Len(streamed) <= Len(body)
    BY <1>2, <1>5 DEF m
  <2>2. \A i \in DOMAIN chunk :
          Len(streamed) + i \in DOMAIN body /\ chunk[i].round = body[Len(streamed) + i].round
    BY <1>2, <2>1, FeedIs
  <2> QED BY <1>2, <1>5, <2>1, <2>2, FeedIs DEF m
<1> HIDE DEF chunk
<1>7. \A i \in DOMAIN chunk : chunk[i].round = Round
  <2> TAKE i \in DOMAIN chunk
  <2>1. i \in Nat /\ i >= 1 /\ m + i \in 1..(n + 1) /\ chunk[i].round = body[m + i].round
    BY <1>2, <1>6
  <2>2. CASE m + i = n + 1
    BY <1>2, <1>3, <2>1, <2>2
  <2>3. CASE m + i # n + 1
    <3>1. m + i \in (m + 1)..n /\ m + i \in 1..n
      BY <1>2, <2>1, <2>3
    <3>2. raw[m + i].round = round /\ ~toolPending
      BY <1>4, <3>1 DEF OrderInv, HeldInv, m, n
    <3> QED BY <1>2, <2>1, <3>1, <3>2 DEF Round
  <2> QED BY <2>2, <2>3
<1>8. Sending = wire /\ Sending' = wire \o DisplayFrames(chunk, Round, Phase) /\ wire \in Seq(Frames)
  BY <1>1, SendingIs
<1>9. HasNumber(streamed) => Hinted(wire)
  BY <1>4, <1>8 DEF OrderInv, HintInv
<1>10. /\ InOrder(Sending) => InOrder(Sending')
       /\ StepsOf(Sending') = StepsOf(Sending)
       /\ \A q : Loose(Sending', q) => Loose(Sending, q) \/ (q = Round /\ chunk # <<>>)
       /\ HasNumber(streamed) \/ HasNumber(chunk) => Hinted(Sending')
  BY <1>3, <1>6, <1>7, <1>8, <1>9, DisplayInOrder
<1>11. Phase # "narration" /\ (~toolPending => Round = round /\ Phase = phase)
  BY <1>1 DEF OrderInv, LooseInv, Phase, Round
<1>12. FreshInv'
  <2> SUFFICES ASSUME ~emitted'
               PROVE  Sending' = <<>> /\ steps' = <<>> /\ streamed' = <<>> /\ open' = {}
    BY <1>1 DEF FreshInv, Early
  <2>1. ~emitted /\ chunk = <<>>
    BY <1>1
  <2>2. Sending = <<>> /\ steps = <<>> /\ streamed = <<>>
    BY <1>1, <2>1 DEF OrderInv, FreshInv
  <2>3. DisplayFrames(chunk, Round, Phase) = <<>>
    BY <2>1 DEF DisplayFrames
  <2> QED BY <1>1, <1>8, <2>1, <2>2, <2>3
<1>13. HeldInv'
  <2> SUFFICES ASSUME NEW k \in (Len(streamed') + 1)..Len(raw')
               PROVE  raw'[k].round = round' /\ ~toolPending' /\ open' = {}
    BY DEF HeldInv
  <2>1. k = n + 1
    BY <1>1, <1>2, <1>5, <1>6
  <2> QED BY <1>1, <1>2, <1>3, <2>1
<1>14. HintInv'
  BY <1>1, <1>2, <1>6, <1>10, HasNumberMore DEF HintInv
<1>15. LooseInv'
  <2>1. ASSUME NEW r \in Nat, Loose(Sending', r)
        PROVE  r = round' /\ open' = {} /\ ~toolPending' /\ phase' = "provisional"
    <3>1. CASE Loose(Sending, r)
      <4>1. r = round /\ ~toolPending /\ phase = "provisional"
        BY <1>1, <3>1 DEF OrderInv, LooseInv
      <4> QED BY <1>1, <1>11, <4>1 DEF PhaseAfter
    <3>2. CASE r = Round /\ chunk # <<>>
      BY <1>1, <1>3, <1>11, <3>2 DEF PhaseAfter, Phases
    <3> QED BY <1>10, <2>1, <3>1, <3>2
  <2>2. phase' # "narration"
    BY <1>1, <1>11 DEF PhaseAfter
  <2> QED BY <2>1, <2>2 DEF LooseInv
<1>16. ListInv'
  BY <1>1, <1>10 DEF OrderInv, ListInv
<1> QED BY <1>10, <1>12, <1>13, <1>14, <1>15, <1>16 DEF OrderInv

LEMMA FinalTextOrder ==
  ASSUME TypeInv, OrderInv, FinalText
  PROVE  OrderInv'
<1>1. /\ pc = "streaming" /\ pc' = pc /\ raw = <<>> /\ raw' = raw /\ streamed' = streamed
      /\ round' = Round /\ toolPending' = FALSE /\ phase' = Phase /\ wire' = wire /\ out' = out
      /\ open = {} /\ open' = open /\ steps' = steps /\ emitted' = emitted
  BY DEF FinalText, Reading, At, ModelEvent
<1>2. Len(raw') = 0 /\ Len(streamed') \in Nat
  BY <1>1 DEF TypeInv, TextTypes
<1>3. Sending' = Sending
  BY <1>1 DEF Sending
<1>4. Phase # "narration" /\ (~toolPending => Round = round /\ Phase = phase)
  BY <1>1 DEF OrderInv, LooseInv, Phase, Round
<1>5. HeldInv'
  BY <1>2 DEF HeldInv
<1>6. LooseInv'
  BY <1>1, <1>3, <1>4 DEF OrderInv, LooseInv
<1>7. FreshInv' /\ HintInv' /\ ListInv'
  BY <1>1, <1>3 DEF OrderInv, FreshInv, HintInv, ListInv
<1> QED BY <1>3, <1>5, <1>6, <1>7 DEF OrderInv

LEMMA CallToolsOrder ==
  ASSUME TypeInv, OrderInv, NEW n \in 1..MaxCalls, CallTools(n)
  PROVE  OrderInv'
<1> DEFINE chunk == Feed(raw, TRUE)
           shownPhase == PhaseAfter(chunk, Phase)
           called == [i \in 1..n |-> Step(calls + i, "running", Round)]
           told == IF shownPhase = "provisional" THEN <<Narration(Round)>> ELSE <<>>
           d == DisplayFrames(chunk, Round, Phase)
           f1 == wire \o d
           f2 == f1 \o told
           f3 == f2 \o called
<1>1. /\ pc = "streaming" /\ pc' = pc /\ out = <<>> /\ open = {} /\ raw' = raw
      /\ streamed' = streamed \o chunk /\ wire' = wire
      /\ out' = d \o told \o called
      /\ emitted' = TRUE /\ open' = (calls + 1)..(calls + n)
      /\ steps' = steps \o called /\ toolPending' = FALSE
  BY DEF CallTools, Reading, At, ModelEvent, Narration
<1>2. pc \in Writing /\ pc' \notin Early /\ Round \in Nat
  BY <1>1, RoundIs DEF Writing, Early
<1>3. calls + 1 \in open'
  BY <1>1 DEF TypeInv, ProcessTypes
<1>4. Phase # "narration" /\ Phase \in Phases /\ (~toolPending => Round = round /\ Phase = phase)
  BY <1>1, RoundIs DEF OrderInv, LooseInv, Phase, Round
<1>5. /\ chunk \in Seq(Shown) /\ streamed' \in Seq(Shown) /\ Len(streamed') = Len(raw)
      /\ \A k \in DOMAIN chunk : chunk[k].round = Round
  <2>1. chunk # <<>> => Round = round
    BY <1>2, <1>4, TailIs DEF OrderInv
  <2>2. chunk \in Seq(Shown) /\ \A k \in DOMAIN chunk : chunk[k].round = round
    BY <1>2, TailIs DEF OrderInv
  <2>3. streamed' \in Seq(Shown) /\ Len(streamed') = Len(raw)
    BY <1>1, <1>2, TailIs DEF OrderInv
  <2> HIDE DEF chunk
  <2>4. DOMAIN chunk # {} => chunk # <<>>
    OBVIOUS
  <2> QED BY <2>1, <2>2, <2>3, <2>4
<1>6. Sending = wire /\ Sending' = wire \o out' /\ wire \in Seq(Frames)
  BY <1>1, SendingIs
<1>7. HasNumber(streamed) => Hinted(wire)
  BY <1>2, <1>6 DEF OrderInv, HintInv
<1> HIDE DEF chunk
<1>8. /\ f1 \in Seq(Frames) /\ d \in Seq(Frames)
      /\ InOrder(wire) => InOrder(f1)
      /\ StepsOf(f1) = StepsOf(wire)
      /\ \A q : Loose(f1, q) => Loose(wire, q) \/ (q = Round /\ chunk # <<>>)
      /\ HasNumber(streamed) \/ HasNumber(chunk) => Hinted(f1)
  <2>1. d \in Seq(Working)
    BY <1>2, <1>5, DisplayFramesIs
  <2> QED BY <1>2, <1>5, <1>6, <1>7, <2>1, WorkingSeq, DisplayInOrder
<1> HIDE DEF d
<1>9. \A r \in Nat : Loose(f1, r) => r = Round /\ shownPhase = "provisional"
  <2> SUFFICES ASSUME NEW r \in Nat, Loose(f1, r) PROVE r = Round /\ shownPhase = "provisional"
    OBVIOUS
  <2>1. CASE Loose(wire, r)
    BY <1>1, <1>4, <1>6, <2>1 DEF OrderInv, LooseInv, PhaseAfter
  <2>2. CASE r = Round /\ chunk # <<>>
    BY <1>4, <2>2 DEF PhaseAfter, Phases
  <2> QED BY <1>8, <2>1, <2>2
<1>10. Narration(Round) \in Frames /\ Narration(Round).kind = "content"
  <2>1. Content("narration", Round) \in Working
    BY <1>2, WorkingFrames
  <2> QED BY <2>1 DEF Working, Narration, Content
<1> HIDE DEF f1, shownPhase
<1>11. told \in Seq(Frames) /\ f2 \in Seq(Frames) /\ Keeps(f1, f2)
  BY <1>8, <1>10, MaybeFrame
<1>12. \A r \in Nat : ~Loose(f2, r)
  <2>1. CASE shownPhase = "provisional"
    <3>1. f2 = f1 \o <<Narration(Round)>>
      BY <2>1
    <3>2. ~Loose(f2, Round)
      BY <1>8, <1>10, <3>1, NarrationFrame
    <3> QED BY <1>9, <1>11, <3>2 DEF Keeps
  <2>2. CASE shownPhase # "provisional"
    BY <1>9, <1>11, <2>2 DEF Keeps
  <2> QED BY <2>1, <2>2
<1>13. called \in Seq(Frames) /\ \A i \in 1..Len(called) : called[i].kind = "step" /\ called[i].round = Round
  <2>1. \A i \in 1..n : calls + i \in 1..MaxCalls
    BY TurnAssumption DEF TypeInv, ProcessTypes, CallTools
  <2>2. \A i \in 1..n : Step(calls + i, "running", Round) \in Frames
    BY <1>2, <2>1, WorkingFrames DEF Working
  <2>3. n \in Nat /\ Len(called) = n
    BY TurnAssumption
  <2>4. called \in Seq(Frames)
    BY <2>2, <2>3
  <2>5. \A i \in 1..n : called[i].kind = "step" /\ called[i].round = Round
    BY DEF Step
  <2> QED BY <2>3, <2>4, <2>5
<1> HIDE DEF f2, called, told
<1>14. /\ InOrder(f2) => InOrder(f3)
       /\ StepsOf(f3) = StepsOf(f2) \o called
       /\ \A q : Loose(f3, q) => Loose(f2, q)
       /\ Hinted(f2) => Hinted(f3)
  BY <1>2, <1>11, <1>12, <1>13, StepFrames
<1>15. Sending' = f3
  <2> DEFINE more == d \o told
  <2>1. wire \o more = f2 /\ more \in Seq(Frames)
    BY <1>6, <1>8, <1>11, Joined DEF f1, f2
  <2> HIDE DEF more
  <2>2. wire \o (more \o called) = (wire \o more) \o called
    BY <1>6, <1>13, <2>1, Joined
  <2>3. out' = more \o called
    BY <1>1 DEF more
  <2> QED BY <1>6, <2>1, <2>2, <2>3
<1> HIDE DEF f3
<1>16. InOrder(Sending') /\ ListInv'
  BY <1>1, <1>6, <1>8, <1>11, <1>14, <1>15 DEF OrderInv, ListInv, Keeps, Served
<1>17. LooseInv'
  BY <1>3, <1>12, <1>14, <1>15 DEF LooseInv
<1>18. HintInv'
  <2>1. streamed \in Seq(Shown)
    BY DEF TypeInv, TextTypes
  <2> QED BY <1>1, <1>5, <1>8, <1>11, <1>14, <1>15, <2>1, HasNumberMore DEF HintInv, Keeps
<1>19. FreshInv'
  BY <1>1, <1>2 DEF FreshInv
<1>20. HeldInv'
  <2>1. Len(raw') = Len(streamed') /\ Len(raw') \in Nat
    BY <1>1, <1>5
  <2> QED BY <2>1 DEF HeldInv
<1> QED BY <1>16, <1>17, <1>18, <1>19, <1>20 DEF OrderInv

LEMMA ProgressOrder ==
  ASSUME TypeInv, OrderInv, NEW c \in open, NEW state \in {"running", "completed"},
         Progress(c, state)
  PROVE  OrderInv'
<1> DEFINE f == Step(c, state, round)
           t == <<f>>
<1>1. /\ pc = "streaming" /\ pc' = pc /\ out = <<>> /\ out' = t /\ steps' = steps \o t
      /\ UNCHANGED <<wire, raw, streamed, round, phase, toolPending, open, emitted>>
  BY DEF Progress, At, text, attempt
<1>2. pc \in Writing /\ pc' \notin Early /\ open # {}
  BY <1>1 DEF Writing, Early
<1>3. f \in Frames /\ f.kind = "step" /\ f.round = round /\ round \in Nat
  <2>1. c \in 1..MaxCalls /\ round \in Nat
    BY TurnAssumption DEF TypeInv, ProcessTypes
  <2>2. Step(c, state, round) \in Working
    BY <2>1, WorkingFrames
  <2> QED BY <2>1, <2>2 DEF Working, Step
<1> HIDE DEF f
<1>4. t \in Seq(Frames) /\ \A i \in 1..Len(t) : t[i].kind = "step" /\ t[i].round = round
  <2>1. t \in Seq(Frames) /\ Len(t) = 1 /\ t[1] = f
    BY <1>3
  <2> QED BY <1>3, <2>1
<1> HIDE DEF t
<1>5. Sending = wire /\ Sending' = wire \o t /\ wire \in Seq(Frames)
  BY <1>1, SendingIs
<1>6. \A r \in Nat : ~Loose(wire, r)
  BY <1>1, <1>2, <1>5 DEF OrderInv, LooseInv
<1>7. /\ InOrder(wire) => InOrder(Sending')
      /\ StepsOf(Sending') = StepsOf(wire) \o t
      /\ \A q : Loose(Sending', q) => Loose(wire, q)
      /\ Hinted(wire) => Hinted(Sending')
  BY <1>3, <1>4, <1>5, <1>6, StepFrames
<1>8. InOrder(Sending') /\ ListInv' /\ HintInv' /\ HeldInv'
  BY <1>1, <1>5, <1>7 DEF OrderInv, ListInv, HintInv, HeldInv, Served
<1>9. LooseInv'
  BY <1>1, <1>2, <1>6, <1>7 DEF LooseInv
<1>10. FreshInv'
  BY <1>1, <1>2 DEF OrderInv, FreshInv
<1> QED BY <1>8, <1>9, <1>10 DEF OrderInv

LEMMA RespondOrder ==
  ASSUME TypeInv, OrderInv, NEW found \in BOOLEAN, NEW redrawn \in BOOLEAN,
         Respond(found, redrawn)
  PROVE  OrderInv'
<1> DEFINE silent == Chosen([c \in 1..calls |-> c], open \ progressed)
           closed == [i \in DOMAIN silent |-> Step(silent[i], "completed", round)]
           card == IF redrawn THEN <<Plain("preview")>> ELSE <<>>
           f1 == wire \o closed
           f2 == f1 \o card
<1>1. /\ pc = "streaming" /\ pc' = pc /\ out = <<>> /\ out' = closed \o card
      /\ steps' = steps \o closed /\ open # {} /\ open' = {} /\ toolPending' = TRUE
      /\ UNCHANGED <<wire, raw, streamed, round, phase, emitted>>
  BY DEF Respond, At, attempt
<1>2. pc \in Writing /\ pc' \notin Early
  BY <1>1 DEF Writing, Early
<1>3. closed \in Seq(Frames) /\ \A i \in 1..Len(closed) : closed[i].kind = "step" /\ closed[i].round = round
  <2>1. closed \in Seq(Frames)
    <3>1. closed \in Seq(Working)
      BY ClosedIs
    <3> QED BY <3>1, WorkingSeq
  <2> HIDE DEF silent
  <2>2. 1..Len(closed) = DOMAIN closed /\ DOMAIN closed = DOMAIN silent
    BY <2>1
  <2>3. \A i \in DOMAIN silent : closed[i].kind = "step" /\ closed[i].round = round
    BY DEF Step
  <2> QED BY <2>1, <2>2, <2>3
<1> HIDE DEF closed
<1>4. Sending = wire /\ Sending' = wire \o out' /\ wire \in Seq(Frames) /\ round \in Nat
  BY <1>1, SendingIs DEF TypeInv, ProcessTypes
<1>5. \A r \in Nat : ~Loose(wire, r)
  BY <1>1, <1>4 DEF OrderInv, LooseInv
<1>6. /\ f1 \in Seq(Frames)
      /\ InOrder(wire) => InOrder(f1)
      /\ StepsOf(f1) = StepsOf(wire) \o closed
      /\ \A q : Loose(f1, q) => Loose(wire, q)
      /\ Hinted(wire) => Hinted(f1)
  <2>1. ~Loose(wire, round)
    BY <1>4, <1>5
  <2>2. f1 \in Seq(Frames)
    BY <1>3, <1>4
  <2> QED BY <1>3, <1>4, <2>1, <2>2, StepFrames
<1> HIDE DEF f1
<1>7. card \in Seq(Frames) /\ Keeps(f1, f2)
  <2>1. Plain("preview") \in Frames /\ Plain("preview").kind = "preview"
    BY WorkingFrames DEF Working, Plain
  <2> QED BY <1>6, <2>1, MaybeFrame
<1> HIDE DEF card
<1>8. Sending' = f2
  <2>1. wire \o (closed \o card) = (wire \o closed) \o card
    BY <1>3, <1>4, <1>7, Joined
  <2> QED BY <1>1, <1>4, <2>1 DEF f1
<1> HIDE DEF f2
<1>9. InOrder(Sending') /\ ListInv' /\ HintInv'
  BY <1>1, <1>4, <1>6, <1>7, <1>8 DEF OrderInv, ListInv, HintInv, Keeps, Served
<1>10. LooseInv'
  BY <1>1, <1>5, <1>6, <1>7, <1>8 DEF LooseInv, Keeps
<1>11. FreshInv'
  BY <1>1, <1>2 DEF OrderInv, FreshInv
<1>12. HeldInv'
  BY <1>1, <1>2 DEF OrderInv, HeldInv
<1> QED BY <1>9, <1>10, <1>11, <1>12 DEF OrderInv

LEMMA StreamEndsOrder ==
  ASSUME TypeInv, OrderInv, StreamEnds
  PROVE  OrderInv'
<1> DEFINE chunk == Feed(raw, TRUE)
<1>1. /\ pc = "streaming" /\ pc' = "settling" /\ out = <<>> /\ wire' = wire /\ raw' = raw
      /\ streamed' = streamed \o chunk /\ out' = DisplayFrames(chunk, round, phase)
      /\ steps' = steps
  BY DEF StreamEnds, Reading, At
<1>2. pc \in Writing /\ round \in Nat /\ streamed \in Seq(Shown)
  BY <1>1 DEF Writing, TypeInv, ProcessTypes, TextTypes
<1>3. /\ chunk \in Seq(Shown) /\ streamed' \in Seq(Shown) /\ Len(streamed') = Len(raw)
      /\ \A k \in DOMAIN chunk : chunk[k].round = round
  BY <1>1, <1>2, TailIs DEF OrderInv
<1> HIDE DEF chunk
<1>4. Sending = wire /\ Sending' = wire \o out' /\ wire \in Seq(Frames)
  BY <1>1, SendingIs
<1>5. HasNumber(streamed) => Hinted(wire)
  BY <1>2, <1>4 DEF OrderInv, HintInv
<1>6. /\ InOrder(wire) => InOrder(Sending')
      /\ StepsOf(Sending') = StepsOf(wire)
      /\ HasNumber(streamed) \/ HasNumber(chunk) => Hinted(Sending')
  BY <1>1, <1>2, <1>3, <1>4, <1>5, DisplayInOrder
<1>7. InOrder(Sending') /\ ListInv'
  BY <1>1, <1>4, <1>6 DEF OrderInv, ListInv, Served
<1>8. HintInv'
  BY <1>1, <1>2, <1>3, <1>6, HasNumberMore DEF HintInv
<1>9. HeldInv'
  <2>1. Len(raw') = Len(streamed') /\ Len(raw') \in Nat
    BY <1>1, <1>3
  <2> QED BY <2>1 DEF HeldInv
<1>10. FreshInv' /\ LooseInv'
  BY <1>1 DEF FreshInv, LooseInv, Early
<1> QED BY <1>7, <1>8, <1>9, <1>10 DEF OrderInv

LEMMA RerunOrder ==
  ASSUME OrderInv, NEW event \in BOOLEAN, Rerun(event)
  PROVE  OrderInv'
<1>1. /\ pc = "streaming" /\ pc' = pc /\ ~emitted /\ UNCHANGED <<wire, out, emitted>>
      /\ raw' = <<>> /\ streamed' = <<>> /\ open' = {} /\ steps' = <<>> /\ phase' = "none"
  BY DEF Rerun, At, Retryable
<1>2. Sending' = <<>>
  BY <1>1 DEF OrderInv, FreshInv, Sending
<1>3. HeldInv'
  <2>1. Len(raw') = 0 /\ Len(streamed') = 0
    BY <1>1
  <2> QED BY <2>1 DEF HeldInv
<1> QED
  BY <1>1, <1>2, <1>3, NothingSent DEF OrderInv, FreshInv, HintInv, LooseInv, ListInv

\* The other steps of the stream send nothing.
LEMMA BreakOrder ==
  ASSUME OrderInv, pc \in {"streaming", "settling"}, pc' = "failing",
         UNCHANGED <<wire, out, raw, streamed, round, toolPending, open, steps>>
  PROVE  OrderInv'
<1>1. Sending' = Sending /\ pc \in Writing /\ pc' \in Writing /\ pc \in Served
      /\ pc' \notin Early \cup {"streaming"}
  BY DEF Sending, Writing, Served, Early
<1> QED
  BY <1>1 DEF OrderInv, FreshInv, HeldInv, HintInv, LooseInv, ListInv

LEMMA StartOrder ==
  ASSUME TypeInv, CallInv, OrderInv
  PROVE  (Acquire \/ SetUp \/ RepeatCall) => OrderInv'
<1>1. ASSUME Acquire PROVE OrderInv'
  <2>1. /\ pc = "waiting" /\ pc' = "preparing"
        /\ UNCHANGED <<wire, out, raw, streamed, round, phase, toolPending, open, steps, emitted>>
    BY <1>1 DEF Acquire, At, text, process, attempt
  <2>2. Sending' = Sending
    BY <2>1 DEF Sending
  <2> QED
    BY <2>1, <2>2 DEF OrderInv, FreshInv, HeldInv, HintInv, LooseInv, ListInv, Early, Writing, Served
<1>2. ASSUME SetUp PROVE OrderInv'
  <2>1. /\ pc = "preparing" /\ pc' = "streaming"
        /\ UNCHANGED <<wire, out, raw, streamed, round, phase, toolPending, open, steps, emitted>>
    BY <1>2 DEF SetUp, At, text, process, attempt
  <2>2. Sending' = <<>> /\ steps' = <<>> /\ streamed' = <<>> /\ open' = {} /\ ~emitted'
    BY <2>1 DEF OrderInv, FreshInv, Early, Sending
  <2>3. raw' = <<>>
    BY <2>1 DEF CallInv
  <2>4. HeldInv'
    <3>1. Len(raw') = 0 /\ Len(streamed') = 0
      BY <2>2, <2>3
    <3> QED BY <3>1 DEF HeldInv
  <2>5. LooseInv'
    BY <2>1, <2>2, NothingSent DEF OrderInv, LooseInv, Early
  <2> QED
    BY <2>2, <2>4, <2>5, NothingSent DEF OrderInv, FreshInv, HintInv, ListInv
<1>3. ASSUME RepeatCall PROVE OrderInv'
  <2>1. UNCHANGED <<pc, wire, out, raw, streamed, round, phase, toolPending, open, steps, emitted>>
    BY <1>3 DEF RepeatCall, text, process, attempt
  <2>2. Sending' = Sending
    BY <2>1 DEF Sending
  <2> QED
    BY <2>1, <2>2 DEF OrderInv, FreshInv, HeldInv, HintInv, LooseInv, ListInv
<1> QED BY <1>1, <1>2, <1>3

-----------------------------------------------------------------------------
(* Closing the stream. *)

LEMMA SetUpFailsOrder ==
  ASSUME TypeInv, OrderInv, SetUpFails
  PROVE  OrderInv'
<1> DEFINE alarm == <<Plain("error")>>
           b == BodyFrames(<<>>, Apology)
           end == <<Done(Refused, FALSE)>>
           f1 == wire \o alarm
           f2 == f1 \o b
           f3 == f2 \o end
<1>1. /\ pc' = "refusing" /\ out = <<>> /\ wire' = wire /\ out' = alarm \o b \o end
  BY DEF SetUpFails, At, Refused
<1>2. Sending = wire /\ Sending' = wire \o out' /\ wire \in Seq(Frames) /\ InOrder(wire)
  BY <1>1, SendingIs DEF OrderInv
<1>3. /\ alarm \in Seq(Frames) /\ Plain("error") \in Frames /\ Plain("error").kind = "error"
      /\ <<>> \in Seq(Shown)
  BY WorkingFrames DEF Working, Plain
<1>4. Done(Refused, FALSE) \in Frames /\ end \in Seq(Frames) /\ Done(Refused, FALSE).kind = "done"
  <2>1. Refused \in Snapshots /\ FALSE \in BOOLEAN
    BY ApologyIs DEF Refused, Snapshots
  <2>2. Done(Refused, FALSE) \in Frames
    BY <2>1, DoneFrame, Zenon
  <2>3. Done(Refused, FALSE).kind = "done"
    BY DEF Done
  <2> DEFINE last == Done(Refused, FALSE)
  <2>4. end = <<last>> /\ last \in Frames
    BY <2>2
  <2> HIDE DEF last
  <2>5. <<last>> \in Seq(Frames)
    BY <2>4
  <2> HIDE DEF end
  <2> QED BY <2>2, <2>3, <2>4, <2>5
<1>5. b \in Seq(Frames)
  <2>1. b \in Seq(Working)
    BY <1>3, ApologyIs, BodyFramesIs
  <2> QED BY <2>1, WorkingSeq
<1>6. f1 \in Seq(Frames) /\ Keeps(wire, f1)
  BY <1>2, <1>3, OtherFrame
<1> HIDE DEF f1
<1>7. f2 \in Seq(Frames) /\ (InOrder(f1) => InOrder(f2))
  BY <1>3, <1>6, ApologyIs, BodyInOrder
<1> HIDE DEF f2
<1>8. Keeps(f2, f3)
  BY <1>4, <1>7, OtherFrame
<1>9. Sending' = f3
  <2> HIDE DEF alarm, b, end
  <2> DEFINE more == alarm \o b
  <2>1. wire \o more = (wire \o alarm) \o b /\ more \in Seq(Frames)
    BY <1>2, <1>3, <1>5, Joined
  <2> HIDE DEF more
  <2>2. wire \o (more \o end) = (wire \o more) \o end
    BY <1>2, <1>4, <2>1, Joined
  <2>3. out' = more \o end
    BY <1>1 DEF more
  <2> QED BY <1>2, <2>1, <2>2, <2>3 DEF f1, f2
<1> HIDE DEF f3
<1>10. InOrder(Sending')
  BY <1>2, <1>6, <1>7, <1>8, <1>9 DEF Keeps
<1> QED BY <1>1, <1>10, OverOrder DEF Early, Writing, Served

LEMMA SettleOrder ==
  ASSUME TypeInv, OrderInv, Settle
  PROVE  OrderInv'
<1> DEFINE final == Substantive(Finalized)
           empty == Finalized = <<>>
           alarm == IF empty THEN <<Plain("error")>> ELSE <<>>
           b == BodyFrames(streamed, final)
           f1 == wire \o alarm
           f2 == f1 \o b
<1>1. /\ pc = "settling" /\ out = <<>> /\ pc' = "enriching" /\ wire' = wire
      /\ out' = alarm \o b /\ steps' = steps
  BY DEF Settle, At, process
<1>2. /\ Sending = wire /\ Sending' = wire \o out' /\ wire \in Seq(Frames) /\ InOrder(wire)
      /\ StepsOf(wire) = steps
  BY <1>1, SendingIs DEF OrderInv, ListInv, Served
<1>3. final \in Seq(Shown) /\ streamed \in Seq(Shown)
  BY FinalizedIs, SubstantiveIs DEF TypeInv, TextTypes
<1>4. b \in Seq(Frames)
  <2>1. b \in Seq(Working)
    BY <1>3, BodyFramesIs
  <2> QED BY <2>1, WorkingSeq
<1> HIDE DEF final, empty
<1>5. alarm \in Seq(Frames) /\ f1 \in Seq(Frames) /\ Keeps(wire, f1)
  <2>1. Plain("error") \in Frames /\ Plain("error").kind = "error"
    BY WorkingFrames DEF Working, Plain
  <2> QED BY <1>2, <2>1, MaybeFrame
<1> HIDE DEF f1
<1>6. (InOrder(f1) => InOrder(f2)) /\ StepsOf(f2) = StepsOf(f1)
  BY <1>3, <1>5, BodyInOrder
<1>7. Sending' = f2
  <2> HIDE DEF alarm, b
  <2>1. wire \o (alarm \o b) = (wire \o alarm) \o b
    BY <1>2, <1>4, <1>5, Joined
  <2> QED BY <1>1, <1>2, <2>1 DEF f1
<1> HIDE DEF f2
<1>8. InOrder(Sending') /\ StepsOf(Sending') = steps'
  BY <1>1, <1>2, <1>5, <1>6, <1>7 DEF Keeps
<1> QED BY <1>1, <1>8, OverOrder DEF Early, Writing

LEMMA CloseoutOrder ==
  ASSUME TypeInv, OrderInv, NEW broken \in BOOLEAN, Closeout(broken)
  PROVE  OrderInv'
<1> DEFINE chunk == Feed(raw, TRUE)
           shown == streamed \o chunk
           final == Substantive(IF broken THEN Salvaged(shown) ELSE Finalized)
           alarm == <<Plain("error")>>
           d == DisplayFrames(chunk, round, phase)
           b == BodyFrames(shown, final)
           f1 == wire \o alarm
           f2 == f1 \o d
           f3 == f2 \o b
<1>1. /\ pc = "failing" /\ out = <<>> /\ pc' = "persisting" /\ wire' = wire
      /\ out' = alarm \o d \o b /\ steps' = steps
  BY DEF Closeout, At
<1>2. /\ Sending = wire /\ Sending' = wire \o out' /\ wire \in Seq(Frames) /\ InOrder(wire)
      /\ StepsOf(wire) = steps /\ pc \in Writing /\ round \in Nat
  BY <1>1, SendingIs DEF OrderInv, ListInv, Served, Writing, TypeInv, ProcessTypes
<1>3. /\ chunk \in Seq(Shown) /\ shown \in Seq(Shown)
      /\ \A k \in DOMAIN chunk : chunk[k].round = round
  BY <1>2, TailIs DEF OrderInv
<1> HIDE DEF chunk, shown
<1>4. final \in Seq(Shown)
  BY <1>3, SalvagedIs, FinalizedIs, SubstantiveIs DEF TypeInv, TextTypes
<1> HIDE DEF final
<1>5. HasNumber(streamed) => Hinted(wire)
  BY <1>2 DEF OrderInv, HintInv
<1>6. d \in Seq(Frames) /\ b \in Seq(Frames)
  <2>1. d \in Seq(Working) /\ b \in Seq(Working)
    BY <1>2, <1>3, <1>4, DisplayFramesIs, BodyFramesIs
  <2> QED BY <2>1, WorkingSeq
<1>7. alarm \in Seq(Frames) /\ f1 \in Seq(Frames) /\ Keeps(wire, f1)
  <2>1. Plain("error") \in Frames /\ Plain("error").kind = "error"
    BY WorkingFrames DEF Working, Plain
  <2> QED BY <1>2, <2>1, OtherFrame
<1> HIDE DEF f1
<1>8. f2 \in Seq(Frames) /\ (InOrder(f1) => InOrder(f2)) /\ StepsOf(f2) = StepsOf(f1)
  <2>1. HasNumber(streamed) => Hinted(f1)
    BY <1>5, <1>7 DEF Keeps
  <2> QED BY <1>2, <1>3, <1>7, <2>1, DisplayInOrder
<1> HIDE DEF f2
<1>9. (InOrder(f2) => InOrder(f3)) /\ StepsOf(f3) = StepsOf(f2)
  BY <1>3, <1>4, <1>8, BodyInOrder
<1>10. Sending' = f3
  <2> HIDE DEF alarm, d, b
  <2> DEFINE more == alarm \o d
  <2>1. wire \o more = (wire \o alarm) \o d /\ more \in Seq(Frames)
    BY <1>2, <1>6, <1>7, Joined
  <2> HIDE DEF more
  <2>2. wire \o (more \o b) = (wire \o more) \o b
    BY <1>2, <1>6, <2>1, Joined
  <2>3. out' = more \o b
    BY <1>1 DEF more
  <2> QED BY <1>2, <2>1, <2>2, <2>3 DEF f1, f2
<1> HIDE DEF f3
<1>11. InOrder(Sending') /\ StepsOf(Sending') = steps'
  BY <1>1, <1>2, <1>7, <1>8, <1>9, <1>10 DEF Keeps
<1> QED BY <1>1, <1>11, OverOrder DEF Early, Writing

\* The last frames: follow-ups, and done.
LEMMA EndOrder ==
  ASSUME TypeInv, OrderInv, wire' = wire, steps' = steps, out = <<>>, pc \in Served,
         pc' \notin Early \cup Writing, NEW f \in Frames, f.kind \notin {"delta", "step"},
         out' = <<f>>
  PROVE  OrderInv'
<1>1. /\ Sending = wire /\ Sending' = wire \o <<f>> /\ wire \in Seq(Frames) /\ InOrder(wire)
      /\ StepsOf(wire) = steps
  BY SendingIs DEF OrderInv, ListInv
<1>2. Keeps(wire, wire \o <<f>>)
  BY <1>1, OtherFrame
<1> QED BY <1>1, <1>2, OverOrder DEF Keeps

LEMMA AnswerDone ==
  ASSUME TypeInv, NEW isSaved \in BOOLEAN
  PROVE  Done(answer, isSaved) \in Frames /\ Done(answer, isSaved).kind = "done"
<1>1. answer \in Snapshots
  BY DEF TypeInv, EndTypes
<1>2. Done(answer, isSaved) \in Frames
  BY <1>1, DoneFrame, Zenon
<1>3. Done(answer, isSaved).kind = "done"
  BY DEF Done
<1> QED BY <1>2, <1>3

LEMMA ResumeOrder ==
  ASSUME TypeInv, OrderInv, pc = "saving" => out = <<>>, inflight # Nothing,
         NEW isSaved \in BOOLEAN, Resume(isSaved), UNCHANGED <<wire, process>>
  PROVE  OrderInv'
<1>1. steps' = steps /\ wire' = wire
  BY DEF process
<1>2. CASE pc = "saving"
  <2>1. out' = <<Done(answer, isSaved)>> /\ pc' = "ending" /\ out = <<>>
    BY <1>2 DEF Resume
  <2>2. Done(answer, isSaved) \in Frames /\ Done(answer, isSaved).kind = "done"
    BY AnswerDone
  <2>3. pc \in Served /\ pc' \notin Early \cup Writing
    BY <1>2, <2>1 DEF Served, Early, Writing
  <2> QED BY <1>1, <2>1, <2>2, <2>3, EndOrder
<1>3. CASE pc # "saving"
  <2>1. out' = out /\ pc' = "gone"
    BY <1>3 DEF Resume, Closed
  <2> QED BY <1>1, <2>1, SameOrder DEF Sending, Early, Writing, Served
<1> QED BY <1>2, <1>3

LEMMA OrderStep == TypeInv /\ CallInv /\ SilentInv /\ OrderInv /\ [Next]_vars => OrderInv'
<1> SUFFICES ASSUME TypeInv, CallInv, SilentInv, OrderInv, [Next]_vars PROVE OrderInv'
  OBVIOUS
<1>0. pc = "saving" => out = <<>>
  BY DEF SilentInv
<1>1. CASE Send
  BY <1>1, SendOrder
<1>2. CASE Acquire \/ SetUp \/ RepeatCall
  BY <1>2, StartOrder
<1>3. CASE SetUpFails
  BY <1>3, SetUpFailsOrder
<1>4. CASE \E mark \in BOOLEAN : Text(mark)
  BY <1>4, TextOrder
<1>5. CASE FinalText
  BY <1>5, FinalTextOrder
<1>6. CASE \E n \in 1..MaxCalls : CallTools(n)
  BY <1>6, CallToolsOrder
<1>7. CASE \E c \in open, state \in {"running", "completed"} : Progress(c, state)
  BY <1>7, ProgressOrder
<1>8. CASE \E found, redrawn \in BOOLEAN : Respond(found, redrawn)
  BY <1>8, RespondOrder
<1>9. CASE StreamEnds
  BY <1>9, StreamEndsOrder
<1>10. CASE \E event \in BOOLEAN : Rerun(event)
  BY <1>10, RerunOrder
<1>11. CASE \E kind \in {"error", "timeout"}, event, said \in BOOLEAN : Break(kind, event, said)
  <2>1. /\ pc = "streaming" /\ pc' = "failing"
        /\ UNCHANGED <<wire, out, raw, streamed, round, toolPending, open, steps>>
    BY <1>11 DEF Break, BreakIn, At, process
  <2> QED BY <2>1, BreakOrder
<1>12. CASE Settle
  BY <1>12, SettleOrder
<1>13. CASE SettleFails
  <2>1. /\ pc = "settling" /\ pc' = "failing"
        /\ UNCHANGED <<wire, out, raw, streamed, round, toolPending, open, steps>>
    BY <1>13 DEF SettleFails, At, process, text
  <2> QED BY <2>1, BreakOrder
<1>14. CASE \E meta \in BOOLEAN : Enrich(meta)
  <2>1. PICK meta \in BOOLEAN : Enrich(meta)
    BY <1>14
  <2>2. /\ pc = "enriching" /\ out = <<>> /\ pc' = "persisting" /\ wire' = wire /\ steps' = steps
        /\ out' = IF meta THEN <<Plain("meta")>> ELSE <<>>
    BY <2>1 DEF Enrich, At, process
  <2>3. Plain("meta") \in Frames /\ Plain("meta").kind = "meta"
    BY WorkingFrames DEF Working, Plain
  <2>4. pc \in Served /\ pc' \notin Early \cup Writing
    BY <2>2 DEF Served, Early, Writing
  <2>5. CASE meta
    BY <2>2, <2>3, <2>4, <2>5, EndOrder
  <2>6. CASE ~meta
    BY <2>2, <2>4, <2>6, SameOrder DEF Sending
  <2> QED BY <2>5, <2>6
<1>15. CASE \E broken \in BOOLEAN : Closeout(broken)
  BY <1>15, CloseoutOrder
<1>16. CASE Persist
  <2>1. pc = "persisting" /\ out = <<>> /\ wire' = wire /\ steps' = steps
    BY <1>16 DEF Persist, At, process
  <2>2. CASE identified
    <3>1. pc' = "saving" /\ out' = out
      BY <1>16, <2>2 DEF Persist
    <3> QED BY <2>1, <3>1, SameOrder DEF Sending, Early, Writing, Served
  <2>3. CASE ~identified
    <3>1. pc' = "ending" /\ out' = <<Done(answer, FALSE)>>
      BY <1>16, <2>3 DEF Persist
    <3>2. Done(answer, FALSE) \in Frames /\ Done(answer, FALSE).kind = "done"
      BY AnswerDone
    <3> QED BY <2>1, <3>1, <3>2, EndOrder DEF Early, Writing, Served
  <2> QED BY <2>2, <2>3
<1>17. CASE Commit
  <2>1. inflight # Nothing /\ Resume(stored' = inflight) /\ UNCHANGED <<wire, process>>
    BY <1>17 DEF Commit
  <2>2. (stored' = inflight) \in BOOLEAN
    OBVIOUS
  <2> QED BY <1>0, <2>1, <2>2, ResumeOrder
<1>18. CASE \E landed \in BOOLEAN : WriteFails(landed)
  <2>1. inflight # Nothing /\ Resume(FALSE) /\ UNCHANGED <<wire, process>>
    BY <1>18 DEF WriteFails
  <2> QED BY <1>0, <2>1, ResumeOrder
<1>19. CASE \E landed \in BOOLEAN : OrphanEnds(landed)
  <2>1. UNCHANGED <<pc, wire, out, raw, streamed, round, phase, toolPending, open, steps, emitted>>
    BY <1>19 DEF OrphanEnds, text, process, attempt
  <2>2. Sending' = Sending
    BY <2>1 DEF Sending
  <2> QED
    BY <2>1, <2>2 DEF OrderInv, FreshInv, HeldInv, HintInv, LooseInv, ListInv
<1>20. CASE Rescue \/ RescueFails \/ Close \/ Leave
  <2>1. pc' \in {"rescuing", "gone"} /\ UNCHANGED <<wire, out, steps>>
    BY <1>20 DEF Rescue, RescueFails, Close, Leave, Closed, process
  <2> QED BY <2>1, SameOrder DEF Sending, Early, Writing, Served
<1>21. CASE Disconnect
  <2>1. /\ wire' = wire /\ out' = <<>> /\ pc' \in {"leaving", "cleanup"}
    BY <1>21 DEF Disconnect
  <2>2. Sending' = wire /\ wire \in Seq(Frames) /\ out \in Seq(Frames)
    BY <2>1, SendingIs
  <2>3. InOrder(wire)
    BY <2>2, InOrderPrefix DEF OrderInv, Sending
  <2> QED BY <2>1, <2>2, <2>3, OverOrder DEF Early, Writing, Served
<1>22. CASE UNCHANGED vars
  <2>1. UNCHANGED <<pc, wire, out, raw, streamed, round, phase, toolPending, open, steps, emitted>>
    BY <1>22 DEF vars, text, process, attempt
  <2>2. Sending' = Sending
    BY <2>1 DEF Sending
  <2> QED
    BY <2>1, <2>2 DEF OrderInv, FreshInv, HeldInv, HintInv, LooseInv, ListInv
<1> QED
  BY <1>1, <1>2, <1>3, <1>4, <1>5, <1>6, <1>7, <1>8, <1>9, <1>10, <1>11, <1>12, <1>13, <1>14,
     <1>15, <1>16, <1>17, <1>18, <1>19, <1>20, <1>21, <1>22, Steps

LEMMA OrderShows ==
  ASSUME TypeInv, SeenInv, OrderInv
  PROVE  WireInOrder
<1>1. wire \in Seq(Frames) /\ out \in Seq(Frames) /\ DOMAIN wire = 1..Len(wire)
  BY DEF TypeInv, FrameTypes
<1>2. InOrder(wire)
  BY <1>1, InOrderPrefix DEF OrderInv, Sending
<1>3. \A i \in DOMAIN wire : HintFits(wire, i) /\ TextFits(wire[i]) /\ StepFits(wire, i)
  BY <1>1, <1>2 DEF InOrder, Fits
<1>4. HintBeforeMarker
  BY <1>3 DEF HintFits, HintBeforeMarker
<1>5. TextInItsRound
  BY <1>3 DEF TextFits, TextInItsRound
<1>6. OneCallPerRound
  BY DEF SeenInv, OneCall, OneCallPerRound
<1>7. StepsAsListed
  BY DEF OrderInv, ListInv, StepsAsListed, StepsOf, Sending
<1>8. NarrationAnnounced
  <2> SUFFICES ASSUME NEW i \in DOMAIN wire, NEW j \in DOMAIN wire, j < i,
                      wire[i].kind = "step", wire[j].kind = "delta",
                      wire[i].round = wire[j].round
               PROVE  \E k \in j..i : wire[k] = Content("narration", wire[i].round)
    BY DEF NarrationAnnounced
  <2>1. j \in 1..(i - 1)
    BY <1>1
  <2> QED BY <1>3, <2>1 DEF StepFits, Narration
<1> QED BY <1>4, <1>5, <1>6, <1>7, <1>8 DEF WireInOrder

\* The text on the screen belongs where it stands, whatever the model sends, where a
\* call is repeated or a turn rerun, and wherever the client leaves: it has its hint,
\* the round and the one call that wrote it, and a round's steps follow its narration;
\* all steps of the turn are on the wire or on their way (_display_frames, the flush
\* at a tool call, TurnProcess.content_event, TurnProcess.step_event).
THEOREM WireInOrderHolds == Spec => []WireInOrder
<1>1. Init => TypeInv /\ CallInv /\ SeenInv /\ OrderInv
  BY InitTypes, InitCalls, InitSeen, InitOrder
<1>2. TypeInv /\ CallInv /\ SeenInv /\ OrderInv /\ [Next]_vars
        => TypeInv' /\ CallInv' /\ SeenInv' /\ OrderInv'
  BY TypeStep, CallStep, SeenStep, OrderStep DEF SeenInv
<1>3. TypeInv /\ SeenInv /\ OrderInv => WireInOrder
  BY OrderShows
<1> QED BY <1>1, <1>2, <1>3, PTL DEF Spec

-----------------------------------------------------------------------------
(* The generator only goes on: every step lowers its rank, so that a turn    *)
(* has finitely many steps, whatever the model, the tools and the client do. *)

\* Ranks are compared from their first part on, and there is no endless descent.
Less == OpToRel(<, Nat)
Below == LexProductOrdering(Less, Nat, 10)
Ranks == [1..10 -> Nat]

LEMMA BelowWellFounded == IsWellFoundedOn(Below, Ranks)
<1>1. IsWellFoundedOn(Less, Nat)
  BY NatLessThanWellFounded, Zenon DEF Less
<1> QED
  BY <1>1, WFLexProductOrdering, Zenon DEF Below, Ranks

\* A rank is lower when one part is and those before it are the same.
LEMMA LowerRank ==
  ASSUME NEW a \in Ranks, NEW b \in Ranks,
         \/ a[1] < b[1]
         \/ a[1] = b[1] /\ a[2] < b[2]
         \/ a[1] = b[1] /\ a[2] = b[2] /\ a[3] < b[3]
         \/ a[1] = b[1] /\ a[2] = b[2] /\ a[3] = b[3] /\ a[4] < b[4]
         \/ a[1] = b[1] /\ a[2] = b[2] /\ a[3] = b[3] /\ a[4] = b[4] /\ a[5] < b[5]
         \/ /\ a[1] = b[1] /\ a[2] = b[2] /\ a[3] = b[3] /\ a[4] = b[4] /\ a[5] = b[5]
            /\ a[6] < b[6]
         \/ /\ a[1] = b[1] /\ a[2] = b[2] /\ a[3] = b[3] /\ a[4] = b[4] /\ a[5] = b[5]
            /\ a[6] = b[6] /\ a[7] < b[7]
         \/ /\ a[1] = b[1] /\ a[2] = b[2] /\ a[3] = b[3] /\ a[4] = b[4] /\ a[5] = b[5]
            /\ a[6] = b[6] /\ a[7] = b[7] /\ a[8] < b[8]
         \/ /\ a[1] = b[1] /\ a[2] = b[2] /\ a[3] = b[3] /\ a[4] = b[4] /\ a[5] = b[5]
            /\ a[6] = b[6] /\ a[7] = b[7] /\ a[8] = b[8] /\ a[9] < b[9]
         \/ /\ a[1] = b[1] /\ a[2] = b[2] /\ a[3] = b[3] /\ a[4] = b[4] /\ a[5] = b[5]
            /\ a[6] = b[6] /\ a[7] = b[7] /\ a[8] = b[8] /\ a[9] = b[9] /\ a[10] < b[10]
  PROVE  <<a, b>> \in Below
<1>1. \E j \in 1..10 : a[j] < b[j] /\ \A i \in 1..(j - 1) : a[i] = b[i]
  <2>1. CASE a[1] < b[1]
    BY <2>1
  <2>2. CASE a[1] = b[1] /\ a[2] < b[2]
    BY <2>2
  <2>3. CASE a[1] = b[1] /\ a[2] = b[2] /\ a[3] < b[3]
    BY <2>3
  <2>4. CASE a[1] = b[1] /\ a[2] = b[2] /\ a[3] = b[3] /\ a[4] < b[4]
    BY <2>4
  <2>5. CASE a[1] = b[1] /\ a[2] = b[2] /\ a[3] = b[3] /\ a[4] = b[4] /\ a[5] < b[5]
    BY <2>5
  <2>6. CASE /\ a[1] = b[1] /\ a[2] = b[2] /\ a[3] = b[3] /\ a[4] = b[4] /\ a[5] = b[5]
            /\ a[6] < b[6]
    BY <2>6
  <2>7. CASE /\ a[1] = b[1] /\ a[2] = b[2] /\ a[3] = b[3] /\ a[4] = b[4] /\ a[5] = b[5]
            /\ a[6] = b[6] /\ a[7] < b[7]
    BY <2>7
  <2>8. CASE /\ a[1] = b[1] /\ a[2] = b[2] /\ a[3] = b[3] /\ a[4] = b[4] /\ a[5] = b[5]
            /\ a[6] = b[6] /\ a[7] = b[7] /\ a[8] < b[8]
    BY <2>8
  <2>9. CASE /\ a[1] = b[1] /\ a[2] = b[2] /\ a[3] = b[3] /\ a[4] = b[4] /\ a[5] = b[5]
            /\ a[6] = b[6] /\ a[7] = b[7] /\ a[8] = b[8] /\ a[9] < b[9]
    BY <2>9
  <2>10. CASE /\ a[1] = b[1] /\ a[2] = b[2] /\ a[3] = b[3] /\ a[4] = b[4] /\ a[5] = b[5]
            /\ a[6] = b[6] /\ a[7] = b[7] /\ a[8] = b[8] /\ a[9] = b[9] /\ a[10] < b[10]
    BY <2>10
  <2> QED
    BY <2>1, <2>2, <2>3, <2>4, <2>5, <2>6, <2>7, <2>8, <2>9, <2>10
<1>2. PICK j \in 1..10 : a[j] < b[j] /\ \A i \in 1..(j - 1) : a[i] = b[i]
  BY <1>1
<1>3. <<a[j], b[j]>> \in Less
  BY <1>2 DEF OpToRel, Less, Ranks
<1> QED
  BY <1>2, <1>3, Zenon DEF Below, LexProductOrdering, Ranks

\* How far the place is from the end.
Distance ==
    [place \in Pcs |->
        CASE place = "waiting" -> 13 [] place = "preparing" -> 12 [] place = "streaming" -> 11
          [] place = "settling" -> 10 [] place \in {"enriching", "failing"} -> 9
          [] place = "persisting" -> 8 [] place = "saving" -> 7 [] place = "ending" -> 6
          [] place = "cleanup" -> 5 [] place \in {"rescuing", "refusing"} -> 4
          [] place = "leaving" -> 3 [] OTHER -> 0]

LEMMA DistanceIs ==
  /\ \A place \in Pcs : Distance[place] \in Nat
  /\ Distance["waiting"] = 13 /\ Distance["preparing"] = 12 /\ Distance["streaming"] = 11
  /\ Distance["settling"] = 10 /\ Distance["enriching"] = 9 /\ Distance["failing"] = 9
  /\ Distance["persisting"] = 8 /\ Distance["saving"] = 7 /\ Distance["ending"] = 6
  /\ Distance["cleanup"] = 5 /\ Distance["rescuing"] = 4 /\ Distance["refusing"] = 4
  /\ Distance["leaving"] = 3 /\ Distance["gone"] = 0
BY DEF Distance, Pcs, NotSetUp, Served

\* The rank: the place, the rerun a turn may still have, the tool calls of the
\* attempt, whether some are open and how many of them have not reported, the
\* tokens it may write, whether the model has answered and how often the call
\* may be repeated, the frames to be taken, and the save that goes on detached.
Rank ==
    <<Distance[pc], IF retried THEN 0 ELSE 1, MaxCalls - calls, IF open = {} THEN 0 ELSE 1,
      Cardinality(open \ progressed), MaxText - Len(raw), IF started THEN 0 ELSE 1,
      MaxCallRetries - tries, Len(out), IF orphan = Nothing THEN 0 ELSE 1>>

Lowers == <<Rank', Rank>> \in Below

LEMMA RankIs ==
  /\ Rank[1] = Distance[pc] /\ Rank[2] = (IF retried THEN 0 ELSE 1)
  /\ Rank[3] = MaxCalls - calls /\ Rank[4] = (IF open = {} THEN 0 ELSE 1)
  /\ Rank[5] = Cardinality(open \ progressed) /\ Rank[6] = MaxText - Len(raw)
  /\ Rank[7] = (IF started THEN 0 ELSE 1) /\ Rank[8] = MaxCallRetries - tries
  /\ Rank[9] = Len(out) /\ Rank[10] = (IF orphan = Nothing THEN 0 ELSE 1)
BY DEF Rank

LEMMA OpenFinite ==
  ASSUME NEW S, NEW n \in Nat, S \subseteq 1..n
  PROVE  IsFiniteSet(S) /\ Cardinality(S) \in Nat
<1>1. IsFiniteSet(1..n)
  BY FS_Interval
<1> QED
  BY <1>1, FS_Subset, FS_CardinalityType

RankOK == Rank \in Ranks

LEMMA RankType == TypeInv => RankOK
<1> SUFFICES ASSUME TypeInv PROVE Rank \in Ranks
  BY DEF RankOK
<1>1. Distance[pc] \in Nat
  BY DistanceIs DEF TypeInv, EndTypes
<1>2. calls \in 0..MaxCalls /\ tries \in 0..MaxCallRetries /\ open \ progressed \subseteq 1..calls
  BY DEF TypeInv, ProcessTypes
<1>3. Cardinality(open \ progressed) \in Nat
  BY <1>2, OpenFinite, TurnAssumption
<1>4. Len(raw) \in 0..MaxText /\ Len(out) \in Nat
  BY TurnAssumption DEF TypeInv, TextTypes, FrameTypes
<1>5. MaxCalls - calls \in Nat /\ MaxCallRetries - tries \in Nat /\ MaxText - Len(raw) \in Nat
  BY <1>2, <1>4, TurnAssumption
<1> DEFINE c == Cardinality(open \ progressed)
           d == Distance[pc]
           x == MaxCalls - calls
           y == MaxCallRetries - tries
           z == MaxText - Len(raw)
           l == Len(out)
<1>6. c \in Nat /\ d \in Nat /\ x \in Nat /\ y \in Nat /\ z \in Nat /\ l \in Nat
  BY <1>1, <1>3, <1>4, <1>5
<1> HIDE DEF c, d, x, y, z, l
<1>7. <<d, IF retried THEN 0 ELSE 1, x, IF open = {} THEN 0 ELSE 1, c, z,
        IF started THEN 0 ELSE 1, y, l, IF orphan = Nothing THEN 0 ELSE 1>> \in Ranks
  BY <1>6 DEF Ranks
<1> QED
  BY <1>7 DEF Rank, c, d, x, y, z, l

\* A model call that has answered, but with nothing to be seen, has given its
\* text in one piece: a second piece would be the same.
PieceInv ==
    /\ pc \in {"waiting", "preparing"} => ~started
    /\ pc = "streaming" /\ started /\ open = {} /\ raw = <<>> =>
         /\ finalText = <<[mark |-> FALSE, round |-> round, try |-> tries]>>
         /\ ~toolPending /\ identified /\ begun

\* The generator is gone only without its lock, without frames and without a
\* snapshot to wait for.
LeftInv ==
    /\ pc \in {"cleanup", "rescuing", "leaving", "gone"} => out = <<>>
    /\ pc = "gone" => ~holding /\ inflight = Nothing

\* Who takes more leaves less.
LEMMA LessIsLeft == \A m, x, y \in Nat : x < y => m - y < m - x
OBVIOUS

\* The parts of the rank decide.
LEMMA LowersWhen ==
  ASSUME TypeInv, TypeInv',
         \/ Distance[pc'] < Distance[pc]
         \/ pc' = pc /\ ~retried /\ retried'
         \/ UNCHANGED <<pc, retried>> /\ calls < calls'
         \/ UNCHANGED <<pc, retried, calls>> /\ open # {} /\ open' = {}
         \/ /\ UNCHANGED <<pc, retried, calls, open>>
            /\ Cardinality(open' \ progressed') < Cardinality(open \ progressed)
         \/ UNCHANGED <<pc, retried, calls, open, progressed>> /\ Len(raw) < Len(raw')
         \/ UNCHANGED <<pc, retried, calls, open, progressed, raw>> /\ ~started /\ started'
         \/ UNCHANGED <<pc, retried, calls, open, progressed, raw, started>> /\ tries < tries'
         \/ /\ UNCHANGED <<pc, retried, calls, open, progressed, raw, started, tries>>
            /\ Len(out') < Len(out)
         \/ /\ UNCHANGED <<pc, retried, calls, open, progressed, raw, started, tries, out>>
            /\ orphan # Nothing /\ orphan' = Nothing
  PROVE  Lowers
<1> DEFINE a == Rank'
           b == Rank
<1>1. a \in Ranks /\ b \in Ranks
  <2>1. TypeInv' => RankOK'
    BY RankType, PTL
  <2> QED
    BY <2>1, RankType DEF RankOK
<1>2. /\ calls \in Nat /\ calls' \in Nat /\ tries \in Nat /\ tries' \in Nat
      /\ Len(raw) \in Nat /\ Len(raw') \in Nat
      /\ MaxCalls \in Nat /\ MaxCallRetries \in Nat /\ MaxText \in Nat
  BY TurnAssumption DEF TypeInv, ProcessTypes, TextTypes
<1>3. /\ a[1] = Distance[pc'] /\ a[2] = (IF retried' THEN 0 ELSE 1)
      /\ a[3] = MaxCalls - calls' /\ a[4] = (IF open' = {} THEN 0 ELSE 1)
      /\ a[5] = Cardinality(open' \ progressed') /\ a[6] = MaxText - Len(raw')
      /\ a[7] = (IF started' THEN 0 ELSE 1) /\ a[8] = MaxCallRetries - tries'
      /\ a[9] = Len(out') /\ a[10] = (IF orphan' = Nothing THEN 0 ELSE 1)
  BY DEF Rank
<1>4. /\ b[1] = Distance[pc] /\ b[2] = (IF retried THEN 0 ELSE 1)
      /\ b[3] = MaxCalls - calls /\ b[4] = (IF open = {} THEN 0 ELSE 1)
      /\ b[5] = Cardinality(open \ progressed) /\ b[6] = MaxText - Len(raw)
      /\ b[7] = (IF started THEN 0 ELSE 1) /\ b[8] = MaxCallRetries - tries
      /\ b[9] = Len(out) /\ b[10] = (IF orphan = Nothing THEN 0 ELSE 1)
  BY RankIs
<1> HIDE DEF a, b
<1>5. /\ Distance[pc'] < Distance[pc] => a[1] < b[1]
      /\ pc' = pc => a[1] = b[1]
      /\ ~retried /\ retried' => a[2] < b[2]
      /\ UNCHANGED retried => a[2] = b[2]
      /\ calls < calls' => a[3] < b[3]
      /\ UNCHANGED calls => a[3] = b[3]
      /\ open # {} /\ open' = {} => a[4] < b[4]
      /\ UNCHANGED open => a[4] = b[4]
  <2>1. Distance[pc'] < Distance[pc] => a[1] < b[1]
    BY <1>2, <1>3, <1>4
  <2>2. pc' = pc => a[1] = b[1]
    BY <1>2, <1>3, <1>4
  <2>3. ~retried /\ retried' => a[2] < b[2]
    BY <1>2, <1>3, <1>4
  <2>4. UNCHANGED retried => a[2] = b[2]
    BY <1>2, <1>3, <1>4
  <2>5. calls < calls' => a[3] < b[3]
    <3>1. a[3] = MaxCalls - calls' /\ b[3] = MaxCalls - calls
      BY <1>3, <1>4
    <3>2. calls < calls' => MaxCalls - calls' < MaxCalls - calls
      BY <1>2, LessIsLeft
    <3> QED
      BY <3>1, <3>2
  <2>6. UNCHANGED calls => a[3] = b[3]
    BY <1>2, <1>3, <1>4
  <2>7. open # {} /\ open' = {} => a[4] < b[4]
    BY <1>2, <1>3, <1>4
  <2>8. UNCHANGED open => a[4] = b[4]
    BY <1>2, <1>3, <1>4
  <2> QED
    BY <2>1, <2>2, <2>3, <2>4, <2>5, <2>6, <2>7, <2>8
<1>6. /\ Cardinality(open' \ progressed') < Cardinality(open \ progressed) => a[5] < b[5]
      /\ UNCHANGED <<open, progressed>> => a[5] = b[5]
      /\ Len(raw) < Len(raw') => a[6] < b[6]
      /\ UNCHANGED raw => a[6] = b[6]
      /\ ~started /\ started' => a[7] < b[7]
      /\ UNCHANGED started => a[7] = b[7]
  <2>1. Cardinality(open' \ progressed') < Cardinality(open \ progressed) => a[5] < b[5]
    BY <1>2, <1>3, <1>4
  <2>2. UNCHANGED <<open, progressed>> => a[5] = b[5]
    BY <1>2, <1>3, <1>4
  <2>3. Len(raw) < Len(raw') => a[6] < b[6]
    BY <1>2, <1>3, <1>4
  <2>4. UNCHANGED raw => a[6] = b[6]
    BY <1>2, <1>3, <1>4
  <2>5. ~started /\ started' => a[7] < b[7]
    BY <1>2, <1>3, <1>4
  <2>6. UNCHANGED started => a[7] = b[7]
    BY <1>2, <1>3, <1>4
  <2> QED
    BY <2>1, <2>2, <2>3, <2>4, <2>5, <2>6
<1>7. /\ tries < tries' => a[8] < b[8]
      /\ UNCHANGED tries => a[8] = b[8]
      /\ Len(out') < Len(out) => a[9] < b[9]
      /\ UNCHANGED out => a[9] = b[9]
      /\ orphan # Nothing /\ orphan' = Nothing => a[10] < b[10]
  <2>1. tries < tries' => a[8] < b[8]
    <3>1. a[8] = MaxCallRetries - tries' /\ b[8] = MaxCallRetries - tries
      BY <1>3, <1>4
    <3>2. tries < tries' => MaxCallRetries - tries' < MaxCallRetries - tries
      BY <1>2, LessIsLeft
    <3> QED
      BY <3>1, <3>2
  <2>2. UNCHANGED tries => a[8] = b[8]
    BY <1>2, <1>3, <1>4
  <2>3. Len(out') < Len(out) => a[9] < b[9]
    BY <1>2, <1>3, <1>4
  <2>4. UNCHANGED out => a[9] = b[9]
    BY <1>2, <1>3, <1>4
  <2>5. orphan # Nothing /\ orphan' = Nothing => a[10] < b[10]
    BY <1>2, <1>3, <1>4
  <2> QED
    BY <2>1, <2>2, <2>3, <2>4, <2>5
<1>8. CASE Distance[pc'] < Distance[pc]
  BY <1>1, <1>5, <1>8, LowerRank DEF Lowers, a, b
<1>9. CASE pc' = pc /\ ~retried /\ retried'
  <2>1. a[1] = b[1] /\ a[2] < b[2]
    BY <1>5, <1>6, <1>7, <1>9
  <2> QED
    BY <1>1, <2>1, LowerRank DEF Lowers, a, b
<1>10. CASE UNCHANGED <<pc, retried>> /\ calls < calls'
  <2>1. a[1] = b[1] /\ a[2] = b[2] /\ a[3] < b[3]
    BY <1>5, <1>6, <1>7, <1>10
  <2> QED
    BY <1>1, <2>1, LowerRank DEF Lowers, a, b
<1>11. CASE UNCHANGED <<pc, retried, calls>> /\ open # {} /\ open' = {}
  <2>1. a[1] = b[1] /\ a[2] = b[2] /\ a[3] = b[3] /\ a[4] < b[4]
    BY <1>5, <1>6, <1>7, <1>11
  <2> QED
    BY <1>1, <2>1, LowerRank DEF Lowers, a, b
<1>12. CASE /\ UNCHANGED <<pc, retried, calls, open>>
            /\ Cardinality(open' \ progressed') < Cardinality(open \ progressed)
  <2>1. a[1] = b[1] /\ a[2] = b[2] /\ a[3] = b[3] /\ a[4] = b[4] /\ a[5] < b[5]
    BY <1>5, <1>6, <1>7, <1>12
  <2> QED
    BY <1>1, <2>1, LowerRank DEF Lowers, a, b
<1>13. CASE UNCHANGED <<pc, retried, calls, open, progressed>> /\ Len(raw) < Len(raw')
  <2>1. /\ a[1] = b[1] /\ a[2] = b[2] /\ a[3] = b[3] /\ a[4] = b[4] /\ a[5] = b[5]
        /\ a[6] < b[6]
    BY <1>5, <1>6, <1>7, <1>13
  <2> QED
    BY <1>1, <2>1, LowerRank DEF Lowers, a, b
<1>14. CASE UNCHANGED <<pc, retried, calls, open, progressed, raw>> /\ ~started /\ started'
  <2>1. /\ a[1] = b[1] /\ a[2] = b[2] /\ a[3] = b[3] /\ a[4] = b[4] /\ a[5] = b[5]
        /\ a[6] = b[6] /\ a[7] < b[7]
    BY <1>5, <1>6, <1>7, <1>14
  <2> QED
    BY <1>1, <2>1, LowerRank DEF Lowers, a, b
<1>15. CASE UNCHANGED <<pc, retried, calls, open, progressed, raw, started>> /\ tries < tries'
  <2>1. /\ a[1] = b[1] /\ a[2] = b[2] /\ a[3] = b[3] /\ a[4] = b[4] /\ a[5] = b[5]
        /\ a[6] = b[6] /\ a[7] = b[7] /\ a[8] < b[8]
    BY <1>5, <1>6, <1>7, <1>15
  <2> QED
    BY <1>1, <2>1, LowerRank DEF Lowers, a, b
<1>16. CASE /\ UNCHANGED <<pc, retried, calls, open, progressed, raw, started, tries>>
            /\ Len(out') < Len(out)
  <2>1. /\ a[1] = b[1] /\ a[2] = b[2] /\ a[3] = b[3] /\ a[4] = b[4] /\ a[5] = b[5]
        /\ a[6] = b[6] /\ a[7] = b[7] /\ a[8] = b[8] /\ a[9] < b[9]
    BY <1>5, <1>6, <1>7, <1>16
  <2> QED
    BY <1>1, <2>1, LowerRank DEF Lowers, a, b
<1>17. CASE /\ UNCHANGED <<pc, retried, calls, open, progressed, raw, started, tries, out>>
            /\ orphan # Nothing /\ orphan' = Nothing
  <2>1. /\ a[1] = b[1] /\ a[2] = b[2] /\ a[3] = b[3] /\ a[4] = b[4] /\ a[5] = b[5]
        /\ a[6] = b[6] /\ a[7] = b[7] /\ a[8] = b[8] /\ a[9] = b[9] /\ a[10] < b[10]
    BY <1>5, <1>6, <1>7, <1>17
  <2> QED
    BY <1>1, <2>1, LowerRank DEF Lowers, a, b
<1> QED
  BY <1>8, <1>9, <1>10, <1>11, <1>12, <1>13, <1>14, <1>15, <1>16, <1>17

\* What a step leaves alone, part by part.
LEMMA Parts ==
  /\ UNCHANGED text => UNCHANGED <<raw, streamed, finalText, known>>
  /\ UNCHANGED process =>
       UNCHANGED <<round, phase, toolPending, calls, open, progressed, steps>>
  /\ UNCHANGED request => UNCHANGED <<started, tries>>
  /\ UNCHANGED attempt => UNCHANGED <<emitted, retried>>
  /\ UNCHANGED store => UNCHANGED <<inflight, orphan, stored, usage>>
  /\ UNCHANGED history => UNCHANGED <<begun, lost, cutInSave>>
BY DEF text, process, request, attempt, store, history

\* Every step keeps the two.
LEMMA PieceStep == TypeInv /\ PieceInv /\ [Next]_vars => PieceInv'
<1> SUFFICES ASSUME TypeInv, PieceInv, [Next]_vars PROVE PieceInv'
  OBVIOUS
<1> DEFINE Same == UNCHANGED <<pc, raw, finalText, round, toolPending, open, started, tries,
                               identified, begun>>
<1>1. Same => PieceInv'
  BY DEF PieceInv
<1>2. CASE Send \/ UNCHANGED vars
  <2>1. Same
    BY <1>2, Parts DEF Send, vars
  <2> QED BY <1>1, <2>1
<1>3. CASE Acquire \/ SetUp \/ SetUpFails
  BY <1>3, Parts DEF Acquire, SetUp, SetUpFails, At, PieceInv
<1>4. CASE \E mark \in BOOLEAN : Text(mark)
  <2>1. PICK mark \in BOOLEAN : Text(mark)
    BY <1>4
  <2>2. raw \in Seq(Tokens)
    BY DEF TypeInv, TextTypes
  <2>3. raw' # <<>> /\ pc' = "streaming"
    BY <2>1, <2>2 DEF Text, Reading, At, ModelEvent
  <2> QED BY <2>3 DEF PieceInv
<1>5. CASE FinalText
  BY <1>5 DEF FinalText, Reading, At, ModelEvent, PieceInv
<1>6. CASE \E n \in 1..MaxCalls : CallTools(n)
  <2>1. PICK n \in 1..MaxCalls : CallTools(n)
    BY <1>6
  <2>2. open' = (calls + 1)..(calls + n) /\ pc' = "streaming" /\ calls \in Nat
    BY <2>1 DEF CallTools, Reading, At, ModelEvent, TypeInv, ProcessTypes
  <2>3. calls + 1 \in open'
    BY <2>1, <2>2, TurnAssumption
  <2> QED BY <2>2, <2>3 DEF PieceInv
<1>7. CASE \E c \in open, state \in {"running", "completed"} : Progress(c, state)
  <2>1. UNCHANGED <<pc, open>> /\ open # {} /\ pc = "streaming"
    BY <1>7 DEF Progress, At
  <2> QED BY <2>1 DEF PieceInv
<1>8. CASE \E found, redrawn \in BOOLEAN : Respond(found, redrawn)
  BY <1>8 DEF Respond, At, PieceInv
<1>9. CASE RepeatCall
  BY <1>9, Parts DEF RepeatCall, Reading, At, PieceInv
<1>10. CASE \E event \in BOOLEAN : Rerun(event)
  BY <1>10 DEF Rerun, At, PieceInv
<1>11. CASE \E landed \in BOOLEAN : OrphanEnds(landed)
  <2>1. Same
    BY <1>11, Parts DEF OrphanEnds
  <2> QED BY <1>1, <2>1
<1>12. CASE StreamEnds \/ Settle \/ SettleFails \/ Persist \/ Commit
  <2>1. pc' \in {"settling", "enriching", "failing", "saving", "ending", "gone"}
    BY <1>12 DEF StreamEnds, Settle, SettleFails, Persist, Commit, Resume, Closed
  <2> QED BY <2>1 DEF PieceInv
<1>13. CASE \E kind \in {"error", "timeout"}, event, said \in BOOLEAN :
              Break(kind, event, said)
  BY <1>13 DEF Break, BreakIn, PieceInv
<1>14. CASE \E meta \in BOOLEAN : Enrich(meta)
  BY <1>14 DEF Enrich, PieceInv
<1>15. CASE \E broken \in BOOLEAN : Closeout(broken)
  BY <1>15 DEF Closeout, PieceInv
<1>16. CASE \E landed \in BOOLEAN : WriteFails(landed)
  BY <1>16 DEF WriteFails, Resume, Closed, PieceInv
<1>17. CASE Rescue \/ RescueFails \/ Close \/ Leave \/ Disconnect
  BY <1>17 DEF Rescue, RescueFails, Close, Leave, Disconnect, Closed, PieceInv
<1> QED
  BY <1>2, <1>3, <1>4, <1>5, <1>6, <1>7, <1>8, <1>9, <1>10, <1>11, <1>12, <1>13, <1>14,
     <1>15, <1>16, <1>17, Steps

LEMMA LeftStep == TypeInv /\ LeftInv /\ [Next]_vars => LeftInv'
<1> SUFFICES ASSUME TypeInv, LeftInv, [Next]_vars PROVE LeftInv'
  OBVIOUS
<1>0. inflight # Nothing <=> pc \in {"saving", "rescuing"}
  BY DEF TypeInv, EndTypes
<1>1. CASE Send
  BY <1>1, Parts DEF Send, LeftInv
<1>2. CASE Acquire \/ SetUp \/ SetUpFails
  BY <1>2 DEF Acquire, SetUp, SetUpFails, LeftInv
<1>3. CASE \/ \E mark \in BOOLEAN : Text(mark)
           \/ FinalText \/ \E n \in 1..MaxCalls : CallTools(n)
  <2>1. pc' = "streaming"
    BY <1>3 DEF Text, FinalText, CallTools, ModelEvent, Reading, At
  <2> QED BY <2>1 DEF LeftInv
<1>4. CASE \/ \E c \in open, state \in {"running", "completed"} : Progress(c, state)
           \/ \E found, redrawn \in BOOLEAN : Respond(found, redrawn)
           \/ RepeatCall \/ \E event \in BOOLEAN : Rerun(event)
  <2>1. pc' = "streaming"
    BY <1>4 DEF Progress, Respond, RepeatCall, Rerun, Reading, At
  <2> QED BY <2>1 DEF LeftInv
<1>5. CASE \/ StreamEnds \/ Settle \/ SettleFails \/ Persist
           \/ \E meta \in BOOLEAN : Enrich(meta)
           \/ \E broken \in BOOLEAN : Closeout(broken)
           \/ \E kind \in {"error", "timeout"}, event, said \in BOOLEAN :
                Break(kind, event, said)
  <2>1. pc' \in {"settling", "enriching", "failing", "persisting", "saving", "ending"}
    BY <1>5 DEF StreamEnds, Settle, SettleFails, Persist, Enrich, Closeout, Break, BreakIn
  <2> QED BY <2>1 DEF LeftInv
<1>6. CASE Commit \/ \E landed \in BOOLEAN : WriteFails(landed)
  <2>1. inflight' = Nothing /\ (\E isSaved \in BOOLEAN : Resume(isSaved))
        /\ pc \in {"saving", "rescuing"}
    <3>1. inflight # Nothing /\ inflight' = Nothing
      BY <1>6 DEF Commit, WriteFails
    <3>2. CASE Commit
      BY <1>0, <3>1, <3>2 DEF Commit
    <3>3. CASE \E landed \in BOOLEAN : WriteFails(landed)
      BY <1>0, <3>1, <3>3 DEF WriteFails
    <3> QED BY <1>6, <3>2, <3>3
  <2>2. CASE pc = "saving"
    BY <2>1, <2>2 DEF Resume, LeftInv
  <2>3. CASE pc = "rescuing"
    BY <2>1, <2>3 DEF Resume, Closed, LeftInv
  <2> QED BY <2>1, <2>2, <2>3
<1>7. CASE \E landed \in BOOLEAN : OrphanEnds(landed)
  BY <1>7, Parts DEF OrphanEnds, LeftInv
<1>8. CASE Rescue \/ Disconnect
  BY <1>8 DEF Rescue, Disconnect, InFinally, At, LeftInv
<1>9. CASE RescueFails \/ Close \/ Leave
  <2>1. /\ UNCHANGED <<out, inflight>> /\ holding' = FALSE /\ pc' = "gone" /\ out = <<>>
        /\ pc \in {"cleanup", "ending", "leaving", "refusing"}
    BY <1>9, Parts DEF RescueFails, Close, Leave, Closed, InFinally, At, LeftInv
  <2> QED BY <1>0, <2>1 DEF LeftInv
<1>10. CASE UNCHANGED vars
  BY <1>10, Parts DEF vars, LeftInv
<1> QED
  BY <1>1, <1>2, <1>3, <1>4, <1>5, <1>6, <1>7, <1>8, <1>9, <1>10, Steps

\* A frame is taken.
LEMMA SendLowers == TypeInv /\ TypeInv' /\ Send => Lowers
<1> SUFFICES ASSUME TypeInv, TypeInv', Send PROVE Lowers
  OBVIOUS
<1>1. UNCHANGED <<pc, retried, calls, open, progressed, raw, started, tries>>
  BY Parts DEF Send
<1>2. out \in Seq(Frames) /\ out # <<>> /\ out' = Tail(out)
  BY DEF Send, TypeInv, FrameTypes
<1>3. Len(out') < Len(out)
  BY <1>2
<1> QED BY <1>1, <1>3, LowersWhen

\* The model writes, or answers in one piece, or its call is made again.
LEMMA TextLowers ==
  TypeInv /\ TypeInv' /\ PieceInv /\ ((\E mark \in BOOLEAN : Text(mark)) \/ FinalText \/ RepeatCall)
    => Lowers \/ UNCHANGED vars
<1> SUFFICES ASSUME TypeInv, TypeInv', PieceInv,
                    (\E mark \in BOOLEAN : Text(mark)) \/ FinalText \/ RepeatCall
             PROVE  Lowers \/ UNCHANGED vars
  OBVIOUS
<1>0. tries \in Nat /\ raw \in Seq(Tokens) /\ toolPending \in BOOLEAN /\ identified \in BOOLEAN
      /\ started \in BOOLEAN /\ begun \in BOOLEAN
  BY TurnAssumption DEF TypeInv, ProcessTypes, TextTypes, EndTypes
<1>1. CASE \E mark \in BOOLEAN : Text(mark)
  <2>1. PICK mark \in BOOLEAN : Text(mark)
    BY <1>1
  <2>2. UNCHANGED <<pc, retried, calls, open, progressed>>
    BY <2>1 DEF Text, ModelEvent
  <2>3. raw' = Append(raw, [mark |-> mark, round |-> Round, try |-> tries])
    BY <2>1 DEF Text
  <2>4. Len(raw) < Len(raw')
    BY <1>0, <2>3
  <2> QED BY <2>2, <2>4, LowersWhen
<1>2. CASE FinalText /\ ~started
  <2>1. UNCHANGED <<pc, retried, calls, open, progressed, raw>> /\ started'
    BY <1>2 DEF FinalText, ModelEvent
  <2> QED BY <1>2, <2>1, LowersWhen
<1>3. CASE FinalText /\ started
  <2>1. /\ finalText = <<[mark |-> FALSE, round |-> round, try |-> tries]>>
        /\ ~toolPending /\ identified /\ begun
    BY <1>3 DEF FinalText, Reading, At, PieceInv
  <2>2. Round = round /\ Phase = phase
    BY <2>1 DEF Round, Phase
  <2>3. UNCHANGED <<finalText, phase, round, toolPending, started, identified, begun>>
    BY <1>0, <1>3, <2>1, <2>2 DEF FinalText, ModelEvent
  <2>4. /\ UNCHANGED <<out, raw, streamed, emitted, calls, open, progressed, steps>>
        /\ UNCHANGED <<pc, holding, wire, tries, retried, known, result, store, lost, cutInSave>>
    BY <1>3 DEF FinalText, ModelEvent
  <2> QED BY <2>3, <2>4 DEF vars, text, process, request, attempt, history
<1>4. CASE RepeatCall
  <2>1. /\ UNCHANGED <<pc, retried, calls, open, progressed, raw, started>>
        /\ tries < tries'
    BY <1>0, <1>4, Parts DEF RepeatCall
  <2> QED BY <2>1, LowersWhen
<1> QED BY <1>1, <1>2, <1>3, <1>4

\* Tools are called, report and respond.
LEMMA ToolsLower ==
  ASSUME TypeInv, TypeInv',
         \/ \E n \in 1..MaxCalls : CallTools(n)
         \/ \E c \in open, state \in {"running", "completed"} : Progress(c, state)
         \/ \E found, redrawn \in BOOLEAN : Respond(found, redrawn)
  PROVE  Lowers
<1>0. calls \in Nat /\ open \subseteq 1..calls /\ progressed \subseteq open
  BY TurnAssumption DEF TypeInv, ProcessTypes
<1>1. CASE \E n \in 1..MaxCalls : CallTools(n)
  <2>1. UNCHANGED <<pc, retried>> /\ calls < calls'
    BY <1>0, <1>1, TurnAssumption DEF CallTools, ModelEvent
  <2> QED BY <2>1, LowersWhen
<1>2. CASE \E c \in open, state \in {"running", "completed"} : Progress(c, state)
  <2>1. PICK c \in open \ progressed :
          /\ UNCHANGED <<pc, retried, calls, open>>
          /\ progressed' = progressed \cup {c}
    BY <1>2, Parts DEF Progress
  <2> DEFINE before == open \ progressed
             after == open' \ progressed'
  <2>2. after = before \ {c} /\ c \in before
    BY <2>1
  <2>3. IsFiniteSet(before) /\ Cardinality(before) \in Nat /\ Cardinality(after) \in Nat
    BY <1>0, <2>2, OpenFinite
  <2>4. Cardinality(after) = Cardinality(before) - 1
    BY <2>2, <2>3, FS_RemoveElement
  <2>5. Cardinality(after) < Cardinality(before)
    <3> HIDE DEF after, before
    <3> QED BY <2>3, <2>4
  <2> QED BY <2>1, <2>5, LowersWhen
<1>3. CASE \E found, redrawn \in BOOLEAN : Respond(found, redrawn)
  <2>1. UNCHANGED <<pc, retried, calls>> /\ open # {} /\ open' = {}
    BY <1>3, Parts DEF Respond
  <2> QED BY <2>1, LowersWhen
<1> QED BY <1>1, <1>2, <1>3

\* Every other step of the generator, and the client's leaving, goes to a place
\* that is nearer to the end.
LEMMA PlacesLower ==
  ASSUME TypeInv, TypeInv',
         \/ Acquire \/ SetUp \/ SetUpFails \/ StreamEnds
         \/ \E kind \in {"error", "timeout"}, event, said \in BOOLEAN :
              Break(kind, event, said)
         \/ Settle \/ SettleFails
         \/ \E meta \in BOOLEAN : Enrich(meta)
         \/ \E broken \in BOOLEAN : Closeout(broken)
         \/ Persist \/ Commit
         \/ \E landed \in BOOLEAN : WriteFails(landed)
         \/ Rescue \/ RescueFails \/ Close \/ Leave \/ Disconnect
  PROVE  Lowers
<1>0. inflight # Nothing <=> pc \in {"saving", "rescuing"}
  BY DEF TypeInv, EndTypes
<1>1. CASE \/ Acquire \/ SetUp \/ SetUpFails \/ StreamEnds
           \/ \E kind \in {"error", "timeout"}, event, said \in BOOLEAN :
                Break(kind, event, said)
  <2>1. \/ pc = "waiting" /\ pc' = "preparing"
        \/ pc = "preparing" /\ pc' \in {"streaming", "refusing"}
        \/ pc = "streaming" /\ pc' \in {"settling", "failing"}
    BY <1>1 DEF Acquire, SetUp, SetUpFails, StreamEnds, Break, BreakIn, Reading, At
  <2>2. Distance[pc'] < Distance[pc]
    BY <2>1, DistanceIs
  <2> QED BY <2>2, LowersWhen
<1>2. CASE \/ Settle \/ SettleFails
           \/ \E meta \in BOOLEAN : Enrich(meta)
           \/ \E broken \in BOOLEAN : Closeout(broken)
           \/ Persist
  <2>1. \/ pc = "settling" /\ pc' \in {"enriching", "failing"}
        \/ pc \in {"enriching", "failing"} /\ pc' = "persisting"
        \/ pc = "persisting" /\ pc' \in {"saving", "ending"}
    BY <1>2 DEF Settle, SettleFails, Enrich, Closeout, Persist, At
  <2>2. Distance[pc'] < Distance[pc]
    BY <2>1, DistanceIs
  <2> QED BY <2>2, LowersWhen
<1>3. CASE Commit \/ \E landed \in BOOLEAN : WriteFails(landed)
  <2>1. (\E isSaved \in BOOLEAN : Resume(isSaved)) /\ pc \in {"saving", "rescuing"}
    <3>1. CASE Commit
      BY <1>0, <3>1 DEF Commit
    <3>2. CASE \E landed \in BOOLEAN : WriteFails(landed)
      BY <1>0, <3>2 DEF WriteFails
    <3> QED BY <1>3, <3>1, <3>2
  <2>2. \/ pc = "saving" /\ pc' = "ending"
        \/ pc = "rescuing" /\ pc' = "gone"
    BY <2>1 DEF Resume, Closed
  <2> QED BY <2>2, DistanceIs, LowersWhen
<1>4. CASE Rescue \/ RescueFails \/ Close \/ Leave
  <2>1. \/ pc \in {"cleanup", "ending"} /\ pc' \in {"rescuing", "gone"}
        \/ pc \in {"leaving", "refusing"} /\ pc' = "gone"
    BY <1>4 DEF Rescue, RescueFails, Close, Leave, Closed, InFinally, At
  <2> QED BY <2>1, DistanceIs, LowersWhen
<1>5. CASE Disconnect
  <2>1. \/ pc \in NotSetUp /\ pc' = "leaving"
        \/ pc \in Served /\ pc' = "cleanup"
    BY <1>5 DEF Disconnect
  <2> QED BY <2>1, DistanceIs, LowersWhen DEF NotSetUp, Served
<1> QED BY <1>1, <1>2, <1>3, <1>4, <1>5

\* Every step lowers the rank, or changes nothing.
LEMMA StepLowers == TypeInv /\ TypeInv' /\ PieceInv /\ [Next]_vars => Lowers \/ UNCHANGED vars
<1> SUFFICES ASSUME TypeInv, TypeInv', PieceInv, [Next]_vars
             PROVE  Lowers \/ UNCHANGED vars
  OBVIOUS
<1>1. CASE \E event \in BOOLEAN : Rerun(event)
  <2>1. pc' = pc /\ ~retried /\ retried'
    BY <1>1 DEF Rerun, Retryable
  <2> QED BY <2>1, LowersWhen
<1>2. CASE \E landed \in BOOLEAN : OrphanEnds(landed)
  <2>1. /\ UNCHANGED <<pc, retried, calls, open, progressed, raw, started, tries, out>>
        /\ orphan # Nothing /\ orphan' = Nothing
    BY <1>2, Parts DEF OrphanEnds
  <2> QED BY <2>1, LowersWhen
<1> QED
  BY <1>1, <1>2, Steps, SendLowers, TextLowers, ToolsLower, PlacesLower

\* Where the generator has a step, without waiting for the client to leave.
GoesOn ==
    \/ out # <<>>
    \/ pc \in (NotSetUp \cup Served) \ {"saving"}
    \/ pc \in {"saving", "rescuing"} /\ inflight # Nothing
    \/ pc \in {"cleanup", "leaving"}

TurnDescends == [][Lowers]_vars

\* A turn has finitely many steps: each one lowers a rank below which there is
\* no endless descent, for texts, calls and retries of any number (the bounds
\* of run_agent_stream on model calls and reruns; the client may leave at any
\* step).
THEOREM TurnIsFinite == IsWellFoundedOn(Below, Ranks) /\ (Spec => TurnDescends)
<1>1. Init => PieceInv
  BY DEF Init, PieceInv, TurnAssumption
<1>2. TypeInv /\ TypeInv' /\ PieceInv /\ [Next]_vars => [Lowers]_vars
  BY StepLowers
<1> QED
  BY <1>1, <1>2, InitTypes, TypeStep, PieceStep, BelowWellFounded, PTL DEF Spec, TurnDescends

\* Until it is gone the generator has a step of its own, and when it is gone it
\* has given its lock back, owes no frame and waits for no save: with
\* TurnIsFinite, and the fairness of FairSpec, TurnEnds.
THEOREM TurnGoesOnUntilGone ==
  Spec => [](IF pc = "gone" THEN ~holding /\ out = <<>> /\ inflight = Nothing ELSE GoesOn)
<1>1. Init => LeftInv
  BY TurnAssumption DEF Init, LeftInv
<1>2. TypeInv /\ LeftInv =>
        IF pc = "gone" THEN ~holding /\ out = <<>> /\ inflight = Nothing ELSE GoesOn
  BY DEF TypeInv, EndTypes, Pcs, NotSetUp, Served, LeftInv, GoesOn
<1> QED
  BY <1>1, <1>2, InitTypes, TypeStep, LeftStep, PTL DEF Spec
=============================================================================
