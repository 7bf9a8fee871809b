------------------------ MODULE OverviewStreamProofs ------------------------
(***************************************************************************)
(* Proofs about OverviewStream, for any budget and texts of any length.     *)
(* CountInv says how many calls were made and paid at each place, ShownInv  *)
(* what the screen has while the generation goes on; GoodInv, which stands  *)
(* on them, why the valve lets only good texts through (ValveInv), what is  *)
(* in hand after a call (HandInv) and when a text may still be replaced     *)
(* (FirstInv, ReplacedInv).  The last part gives each state a rank that     *)
(* every step lowers, and shows that what the task waits for was begun.     *)
(***************************************************************************)
EXTENDS OverviewStream, SequenceTheorems, WellFoundedInduction, TLAPS

Calling == {"streaming", "closing"}

\* What was paid covers the calls, with one unit in advance for the first.
CountInv ==
    /\ pc \in Atomic \cup Awaited
    /\ calls \in Nat /\ spent \in Nat /\ left \in Nat
    /\ call \in 1..3
    /\ calls <= spent
    /\ pc \in {"start", "searching"} => calls = 0 /\ call = 1
    /\ pc \in {"closing", "deciding", "retrying", "recovering", "concluding", "reading"}
         => call < 3

\* Between calls nothing of a call is left.
CallInv ==
    /\ raw \in Seq(Tokens) /\ held \in Seq(Tokens) /\ fed \in 0..Len(raw)
    /\ released \in BOOLEAN
    /\ pc \notin Calling => raw = <<>> /\ held = <<>> /\ ~released

\* The screen has what the text in hand has put there, and in the appended
\* paragraph what that text and the paragraph have.
ShownInv ==
    /\ screen \in Seq(Tokens) \/ pc = "ended"
    /\ streamed \in Seq(Tokens)
    /\ pc \in {"start", "searching"} => streamed = <<>>
    /\ pc \in Calling /\ ~released => streamed = <<>>
    /\ pc = "streaming" /\ call = 3 =>
         /\ kept.streamed \in Seq(Tokens)
         /\ screen = kept.streamed \o streamed
         /\ released => HasCite(raw)
    /\ pc # "ended" /\ ~(pc = "streaming" /\ call = 3) => screen = streamed
    /\ pc = "ended" => screen = result.text

\* What is in hand is a text.
TextInv == text \in Seq(Tokens) /\ kept.text \in Seq(Tokens)

IInv == CountInv /\ CallInv /\ ShownInv /\ TextInv

-----------------------------------------------------------------------------
(* Lemmas about the text of a call. *)

LEMMA NoText == <<>> \in Seq(Tokens) /\ 0 \in 0..Len(<<>>)
BY EmptySeq

\* A part of a text is a text.
LEMMA PartIsText ==
  ASSUME NEW body \in Seq(Tokens), NEW m \in 1..(Len(body) + 1), NEW n \in 0..Len(body)
  PROVE  SubSeq(body, m, n) \in Seq(Tokens)
<1>1. \A i \in m..n : body[i] \in Tokens
  BY ElementOfSeq
<1> QED
  BY <1>1, SubSeqProperties

\* What is stable of a text is a prefix of it.
LEMMA StableBound ==
  ASSUME NEW body \in Seq(Tokens), body # <<>>
  PROVE  Stable(body) \in 0..Len(body) /\ Stable(body) >= Len(body) - 1
BY DEF Stable

\* Showing more of a paragraph leaves the text before it alone.
LEMMA ShowsMore ==
  ASSUME NEW before \in Seq(Tokens), NEW shown \in Seq(Tokens), NEW out \in Seq(Tokens)
  PROVE  /\ (before \o shown) \o out = before \o (shown \o out)
         /\ shown \o out \in Seq(Tokens)
BY ConcatAssociative, ConcatProperties

\* A text that cites still does with one token more.
LEMMA CiteStays ==
  ASSUME NEW body \in Seq(Tokens), NEW token \in Tokens, HasCite(body)
  PROVE  HasCite(Append(body, token))
<1>1. PICK i \in DOMAIN body : body[i].kind = "cite"
  BY DEF HasCite, HasKind
<1>2. i \in DOMAIN Append(body, token) /\ Append(body, token)[i] = body[i]
  BY <1>1
<1> QED
  BY <1>1, <1>2 DEF HasCite, HasKind

-----------------------------------------------------------------------------
(* What validating does to a text.  Validated is defined by recursion over   *)
(* the text, so what holds of it is shown of its first n tokens, and the     *)
(* least n of which it does not hold is one too small to exist.              *)

LEMMA LeastNat ==
  ASSUME NEW T \in SUBSET Nat, T # {}
  PROVE  \E n \in T : \A m \in T : n <= m
<1>1. PICK n \in T : \A m \in T : ~(<<m, n>> \in OpToRel(<, Nat))
  BY WFMin, NatLessThanWellFounded, Zenon
<1>2. \A m \in T : ~(m < n)
  BY <1>1, Zenon DEF OpToRel
<1> QED BY <1>2

\* The equation of the function by which Validated is defined.
Validates(valid, body, n) ==
    valid = [i \in 0..n |->
               IF i = 0 THEN <<>>
               ELSE IF body[i].kind = "bad" THEN valid[i - 1] ELSE Append(valid[i - 1], body[i])]

\* There is such a function: one for n - 1 tokens can be made one longer.
LEMMA ValidExists ==
  ASSUME NEW body, NEW length \in Nat
  PROVE  \E valid : Validates(valid, body, length)
<1> DEFINE T == {n \in Nat : ~\E valid : Validates(valid, body, n)}
<1> SUFFICES ASSUME T # {} PROVE FALSE
  OBVIOUS
<1>1. PICK n \in T : \A k \in T : n <= k
  BY LeastNat
<1>2. CASE n = 0
  <2> DEFINE r == [i \in 0..0 |-> <<>>]
  <2>1. Validates(r, body, 0)
    BY DEF Validates
  <2> QED BY <1>1, <1>2, <2>1
<1>3. CASE n > 0
  <2>1. n - 1 \in Nat /\ n - 1 \notin T
    BY <1>1, <1>3
  <2>2. PICK r : Validates(r, body, n - 1)
    BY <2>1
  <2> DEFINE next == IF body[n].kind = "bad" THEN r[n - 1] ELSE Append(r[n - 1], body[n])
             s == [i \in 0..n |-> IF i = n THEN next ELSE r[i]]
  <2>3. \A i \in 0..n :
          s[i] = IF i = 0 THEN <<>>
                 ELSE IF body[i].kind = "bad" THEN s[i - 1] ELSE Append(s[i - 1], body[i])
    <3> SUFFICES ASSUME NEW i \in 0..n
                 PROVE  s[i] = IF i = 0 THEN <<>>
                               ELSE IF body[i].kind = "bad" THEN s[i - 1]
                               ELSE Append(s[i - 1], body[i])
      OBVIOUS
    <3>1. CASE i = n
      BY <1>3, <3>1
    <3>2. CASE i # n
      <4>1. i \in 0..(n - 1) /\ s[i] = r[i] /\ (i # 0 => s[i - 1] = r[i - 1])
        BY <1>3, <3>2
      <4>2. r[i] = IF i = 0 THEN <<>>
                   ELSE IF body[i].kind = "bad" THEN r[i - 1] ELSE Append(r[i - 1], body[i])
        BY <2>2, <4>1 DEF Validates
      <4> HIDE DEF s
      <4> QED BY <4>1, <4>2
    <3> QED BY <3>1, <3>2
  <2>4. Validates(s, body, n)
    <3>1. s = [i \in 0..n |-> s[i]]
      OBVIOUS
    <3> HIDE DEF s
    <3> QED BY <2>3, <3>1 DEF Validates
  <2> HIDE DEF s
  <2> QED BY <1>1, <2>4
<1> QED BY <1>1, <1>2, <1>3

\* It is a text, it cites if the text cites, and it is the text if that has no
\* marker of no source.
LEMMA ValidatedIs ==
  ASSUME NEW body \in Seq(Tokens)
  PROVE  /\ Validated(body) \in Seq(Tokens)
         /\ HasCite(Validated(body)) <=> HasCite(body)
         /\ ~HasKind(body, "bad") => Validated(body) = body
<1> DEFINE valid == CHOOSE f : Validates(f, body, Len(body))
           Good(n) == /\ valid[n] \in Seq(Tokens)
                      /\ HasCite(valid[n]) <=> \E i \in 1..n : body[i].kind = "cite"
                      /\ (\A i \in 1..n : body[i].kind # "bad") =>
                           /\ Len(valid[n]) = n
                           /\ \A i \in 1..n : valid[n][i] = body[i]
           T == {n \in 0..Len(body) : ~Good(n)}
<1>1. Validates(valid, body, Len(body)) /\ Len(body) \in Nat
  BY ValidExists
<1>2. Validated(body) = valid[Len(body)]
  BY DEF Validated, Validates
<1> HIDE DEF valid
<1>3. \A n \in 0..Len(body) :
        valid[n] = IF n = 0 THEN <<>>
                   ELSE IF body[n].kind = "bad" THEN valid[n - 1] ELSE Append(valid[n - 1], body[n])
  BY <1>1 DEF Validates
<1>4. Good(0)
  <2>1. valid[0] = <<>>
    BY <1>1, <1>3
  <2> QED BY <2>1, EmptySeq DEF HasCite, HasKind
<1>5. ASSUME NEW n \in 1..Len(body), Good(n - 1) PROVE Good(n)
  <2>1. body[n] \in Tokens /\ n \in Nat /\ n - 1 \in Nat
    BY <1>1, <1>5
  <2>2. CASE body[n].kind = "bad"
    <3>1. valid[n] = valid[n - 1]
      BY <1>1, <1>3, <2>2
    <3>2. (\E i \in 1..n : body[i].kind = "cite") <=> \E i \in 1..(n - 1) : body[i].kind = "cite"
      BY <2>1, <2>2
    <3>3. ~\A i \in 1..n : body[i].kind # "bad"
      BY <2>1, <2>2
    <3> QED BY <1>5, <3>1, <3>2, <3>3
  <2>3. CASE body[n].kind # "bad"
    <3> DEFINE before == valid[n - 1]
    <3>1. valid[n] = Append(before, body[n]) /\ before \in Seq(Tokens)
      <4>1. n \in 0..Len(body) /\ n # 0
        BY <1>1
      <4>2. valid[n] = Append(valid[n - 1], body[n])
        BY <1>3, <2>3, <4>1
      <4> QED BY <1>5, <4>2
    <3> HIDE DEF before
    <3>2. /\ valid[n] \in Seq(Tokens) /\ Len(valid[n]) = Len(before) + 1
          /\ \A i \in 1..Len(before) : valid[n][i] = before[i]
          /\ valid[n][Len(before) + 1] = body[n] /\ Len(before) \in Nat
      BY <2>1, <3>1
    <3>3. HasCite(valid[n]) <=> HasCite(before) \/ body[n].kind = "cite"
      <4>1. DOMAIN valid[n] = 1..(Len(before) + 1) /\ DOMAIN before = 1..Len(before)
        BY <3>1, <3>2
      <4> QED BY <3>2, <4>1 DEF HasCite, HasKind
    <3>4. (\E i \in 1..n : body[i].kind = "cite") <=>
            (\E i \in 1..(n - 1) : body[i].kind = "cite") \/ body[n].kind = "cite"
      BY <2>1
    <3>5. ASSUME \A i \in 1..n : body[i].kind # "bad"
          PROVE  Len(valid[n]) = n /\ \A i \in 1..n : valid[n][i] = body[i]
      <4>1. Len(before) = n - 1 /\ \A i \in 1..(n - 1) : before[i] = body[i]
        BY <1>5, <2>1, <3>5 DEF before
      <4> HIDE DEF Good, T
      <4> DEFINE w == valid[n]
      <4>2. Len(w) = Len(before) + 1 /\ w[Len(before) + 1] = body[n]
            /\ \A i \in 1..Len(before) : w[i] = before[i]
        BY <3>2
      <4> HIDE DEF w
      <4>3. Len(w) = n /\ w[n] = body[n] /\ \A i \in 1..(n - 1) : w[i] = body[i]
        BY <2>1, <4>1, <4>2
      <4>4. \A i \in 1..n : i = n \/ i \in 1..(n - 1)
        BY <2>1
      <4>5. Len(w) = n /\ \A i \in 1..n : w[i] = body[i]
        BY <4>3, <4>4, Zenon
      <4> QED BY <4>5 DEF w
    <3>6. HasCite(before) <=> \E i \in 1..(n - 1) : body[i].kind = "cite"
      BY <1>5 DEF before
    <3> QED BY <3>2, <3>3, <3>4, <3>5, <3>6
  <2> QED BY <2>2, <2>3
<1> HIDE DEF Good
<1>6. Good(Len(body))
  <2> SUFFICES ASSUME T # {} PROVE FALSE
    BY <1>1
  <2>1. PICK n \in T : \A k \in T : n <= k
    <3>1. T \in SUBSET Nat
      BY <1>1
    <3> HIDE DEF T
    <3> QED BY <3>1, LeastNat
  <2>2. n # 0 /\ n \in 0..Len(body) /\ ~Good(n)
    BY <1>4
  <2>3. Good(n - 1) /\ n \in 1..Len(body)
    BY <1>1, <2>1, <2>2
  <2> QED BY <1>5, <2>2, <2>3
<1> USE DEF Good
<1>7. ASSUME ~HasKind(body, "bad") PROVE Validated(body) = body
  <2>1. \A i \in 1..Len(body) : body[i].kind # "bad"
    BY <1>7 DEF HasKind
  <2>2. Len(valid[Len(body)]) = Len(body) /\ \A i \in 1..Len(body) : valid[Len(body)][i] = body[i]
    BY <1>6, <2>1
  <2> QED BY <1>2, <1>6, <2>2, SeqEqual
<1>8. HasCite(body) <=> \E i \in 1..Len(body) : body[i].kind = "cite"
  BY DEF HasCite, HasKind
<1> QED BY <1>2, <1>6, <1>7, <1>8

-----------------------------------------------------------------------------
(* The invariant is inductive. *)

LEMMA InitInv == Init => IInv
<1> SUFFICES ASSUME Init PROVE IInv
  OBVIOUS
<1>1. CountInv
  BY OverviewAssumption DEF Init, CountInv, Awaited
<1>2. CallInv
  <2>1. raw = <<>> /\ held = <<>> /\ fed = 0 /\ released = FALSE
    BY DEF Init
  <2> QED
    BY <2>1, NoText DEF CallInv
<1>3. ShownInv
  BY DEF Init, ShownInv, Calling
<1>4. TextInv
  BY NoText DEF Init, TextInv, Nothing
<1> QED
  BY <1>1, <1>2, <1>3, <1>4 DEF IInv

\* The end: the screen must have what is published.
LEMMA ConcludeInv ==
  ASSUME IInv, NEW kind, NEW body, Conclude(kind, body),
         UNCHANGED <<calls, spent, left>>, screen' = body
  PROVE  IInv'
<1>1. /\ pc' = "ended" /\ call' = call /\ result'.text = body
      /\ raw' = <<>> /\ held' = <<>> /\ fed' = 0 /\ released' = FALSE /\ streamed' = <<>>
  BY DEF Conclude, CallOver
<1>2. CountInv'
  BY <1>1 DEF IInv, CountInv, Awaited
<1>3. CallInv'
  BY <1>1, NoText DEF CallInv
<1>4. ShownInv'
  BY <1>1, NoText DEF ShownInv, Calling
<1>5. TextInv'
  BY NoText DEF Conclude, TextInv, Nothing
<1> QED
  BY <1>2, <1>3, <1>4, <1>5 DEF IInv

LEMMA SearchInv ==
  ASSUME IInv, Searching
  PROVE  IInv'
<1> USE DEF IInv, CountInv, CallInv, ShownInv, TextInv, Calling, Atomic, Awaited
<1>1. ASSUME NEW plan \in BOOLEAN, Start(plan) PROVE IInv'
  BY <1>1 DEF Start, Pay, budget, judge, helpers, stream, hand, output, history
<1>2. ASSUME NEW widened \in BOOLEAN, Found(widened) PROVE IInv'
  BY <1>2 DEF Found, Pay, Begin, judge, helpers, hand, output, history
<1>3. ASSUME NEW kind, NEW body, Conclude(kind, body), UNCHANGED <<calls, spent, left>>,
             screen' = body
      PROVE  IInv'
  BY <1>3, ConcludeInv
<1>4. ASSUME NEW kind, NotFound(kind) PROVE IInv'
  <2>1. Conclude(kind, <<>>) /\ UNCHANGED <<calls, spent, left>>
    BY <1>4 DEF NotFound, budget
  <2>2. screen' = <<>>
    BY <1>4 DEF NotFound
  <2> QED
    BY <1>3, <2>1, <2>2
<1>5. CASE OverBudget
  <2>1. Conclude("over_budget", <<>>) /\ UNCHANGED <<calls, spent, left>>
    BY <1>5 DEF OverBudget, budget
  <2>2. screen' = <<>>
    BY <1>5 DEF OverBudget
  <2> QED
    BY <1>3, <2>1, <2>2
<1> QED
  BY <1>1, <1>2, <1>4, <1>5 DEF Searching

LEMMA PieceInv ==
  ASSUME IInv, NEW kind \in Kinds, Piece(kind)
  PROVE  IInv'
<1> DEFINE token == [kind |-> kind, call |-> call]
           body == Append(raw, token)
           chunk == SubSeq(body, fed + 1, Stable(body))
           open == released \/ Opens(body, chunk)
<1>0. token \in Tokens /\ raw \in Seq(Tokens) /\ fed \in 0..Len(raw)
  BY DEF IInv, CallInv, CountInv, Tokens
<1> HIDE DEF token
<1>1. body \in Seq(Tokens) /\ body # <<>> /\ Len(body) = Len(raw) + 1
  BY <1>0
<1> HIDE DEF body
<1>2. chunk \in Seq(Tokens) /\ Stable(body) \in 0..Len(body)
  <2>1. Stable(body) \in 0..Len(body)
    BY <1>1, StableBound
  <2>2. fed + 1 \in 1..(Len(body) + 1)
    BY <1>0, <1>1
  <2> QED
    BY <1>1, <2>1, <2>2, PartIsText
<1> HIDE DEF chunk, open
<1> DEFINE out == held \o chunk
<1>3. /\ pc = "streaming" /\ pc' = pc /\ call' = call /\ kept' = kept
      /\ calls' = calls /\ spent' = spent /\ left' = left
      /\ raw' = body /\ fed' = Stable(body) /\ released' = open
      /\ held' = IF open THEN <<>> ELSE out
      /\ streamed' = IF open THEN streamed \o out ELSE streamed
      /\ screen' = IF open THEN screen \o out ELSE screen
  BY DEF Piece, Show, body, token, chunk, open, hand, budget
<1>4. CountInv'
  BY <1>3 DEF IInv, CountInv
<1>5. open \in BOOLEAN
  BY DEF open, Opens, GateAllows, HasCite, HasKind, IInv, CallInv
<1>6. out \in Seq(Tokens)
  BY <1>2, ConcatProperties DEF IInv, CallInv
<1> HIDE DEF out
<1>7. CallInv'
  BY <1>1, <1>2, <1>3, <1>5, <1>6, NoText DEF IInv, CallInv, Calling
<1>8. ShownInv'
  <2>1. CASE ~open
    <3>1. ~released
      BY <2>1 DEF open
    <3> QED
      BY <1>3, <2>1, <3>1 DEF IInv, ShownInv, Calling
  <2>2. CASE open /\ call = 3
    <3>1. kept.streamed \in Seq(Tokens) /\ screen = kept.streamed \o streamed
      BY <1>3, <2>2 DEF IInv, ShownInv
    <3>2. streamed \o out \in Seq(Tokens) /\ screen' = kept.streamed \o (streamed \o out)
      BY <1>3, <1>6, <2>2, <3>1, ShowsMore DEF IInv, ShownInv
    <3>3. HasCite(body)
      BY <1>0, <1>3, <2>2, CiteStays DEF IInv, ShownInv, open, Opens, body
    <3>4. screen' \in Seq(Tokens)
      BY <3>1, <3>2, ConcatProperties
    <3> QED
      BY <1>3, <2>2, <3>1, <3>2, <3>3, <3>4 DEF ShownInv, Calling
  <2>3. CASE open /\ call # 3
    <3>1. streamed \o out \in Seq(Tokens)
      BY <1>6, ConcatProperties DEF IInv, ShownInv
    <3> QED
      BY <1>3, <2>3, <3>1 DEF IInv, ShownInv, Calling
  <2> QED
    BY <2>1, <2>2, <2>3, <1>5
<1>9. TextInv'
  BY DEF Piece, hand, IInv, TextInv
<1> QED
  BY <1>4, <1>7, <1>8, <1>9 DEF IInv

\* A call of the text in hand is over, and something else is in hand.
LEMMA CallEnds ==
  ASSUME IInv, pc \in Calling, pc' \in {"deciding", "concluding", "finishing"},
         pc' = "deciding" => call < 3, pc' = "concluding" => call < 3,
         CallOver, UNCHANGED <<call, calls, spent, left, kept>>,
         streamed' \in Seq(Tokens), screen' = streamed', text' \in Seq(Tokens)
  PROVE  IInv'
<1>1. CountInv'
  BY DEF IInv, CountInv, Atomic, Awaited, Calling
<1>2. CallInv'
  BY NoText DEF CallInv, CallOver
<1>3. ShownInv'
  BY DEF ShownInv, Calling, CallOver
<1>4. TextInv'
  BY DEF IInv, TextInv
<1> QED
  BY <1>1, <1>2, <1>3, <1>4 DEF IInv

LEMMA AbandonInv ==
  ASSUME IInv, Abandon
  PROVE  IInv'
<1>1. /\ pc = "streaming" /\ call < 3 /\ ~released
      /\ pc' \in {"deciding", "concluding"} /\ CallOver
      /\ text' = <<>> /\ streamed' = <<>>
      /\ UNCHANGED <<screen, call, calls, spent, left, kept>>
  BY DEF Abandon, At, Abandoned, budget, output
<1>2. screen' = <<>>
  BY <1>1 DEF IInv, ShownInv, Calling
<1> QED
  BY <1>1, <1>2, NoText, CallEnds DEF Calling

LEMMA AwaitJudgeInv ==
  ASSUME IInv, AwaitJudge
  PROVE  IInv'
BY DEF AwaitJudge, At, IInv, CountInv, CallInv, ShownInv, TextInv, Calling, Atomic, Awaited,
       budget, stream, hand, output

LEMMA WrittenInv ==
  ASSUME IInv, Written
  PROVE  IInv'
<1> DEFINE tail == SubSeq(raw, fed + 1, Len(raw))
           out == held \o tail
<1>0. raw \in Seq(Tokens) /\ held \in Seq(Tokens) /\ fed \in 0..Len(raw)
  BY DEF IInv, CallInv
<1>1. tail \in Seq(Tokens)
  BY <1>0, PartIsText
<1>2. out \in Seq(Tokens)
  BY <1>0, <1>1, ConcatProperties
<1>3. /\ pc \in Calling /\ call < 3
      /\ pc' \in {"deciding", "concluding"} /\ CallOver /\ text' = Validated(raw)
      /\ UNCHANGED <<call, calls, spent, left, kept>>
      /\ \/ streamed' = streamed /\ screen' = screen
         \/ streamed' = streamed \o out /\ screen' = screen \o out
  BY DEF Written, Show, At, Calling, budget
<1> HIDE DEF tail, out
<1>4. screen = streamed /\ streamed \in Seq(Tokens)
  BY <1>3 DEF IInv, ShownInv, Calling
<1>5. streamed' \in Seq(Tokens) /\ screen' = streamed'
  BY <1>2, <1>3, <1>4, ConcatProperties
<1> QED
  BY <1>0, <1>3, <1>5, CallEnds, ValidatedIs

LEMMA SecondFailsInv ==
  ASSUME IInv, NEW late, SecondFails(late)
  PROVE  IInv'
<1>1. /\ pc = "streaming" /\ call = 2 /\ pc' = "concluding" /\ CallOver
      /\ screen' = (IF streamed # <<>> THEN <<>> ELSE screen) /\ streamed' = <<>>
      /\ text' = kept.text
      /\ UNCHANGED <<call, calls, spent, left, kept>>
  BY DEF SecondFails, At, budget
<1>2. screen' = <<>> /\ kept.text \in Seq(Tokens)
  BY <1>1 DEF IInv, ShownInv, TextInv
<1> QED
  BY <1>1, <1>2, NoText, CallEnds DEF Calling

LEMMA AppendFailsInv ==
  ASSUME IInv, NEW late, AppendFails(late)
  PROVE  IInv'
<1>1. /\ pc = "streaming" /\ call = 3 /\ pc' = "finishing" /\ CallOver
      /\ streamed' = kept.streamed \o streamed /\ screen' = screen
      /\ text' = kept.text
      /\ UNCHANGED <<call, calls, spent, left, kept>>
  BY DEF AppendFails, At, budget, output
<1>2. /\ screen' = streamed' /\ kept.text \in Seq(Tokens)
      /\ kept.streamed \in Seq(Tokens) /\ streamed \in Seq(Tokens)
  BY <1>1 DEF IInv, ShownInv, TextInv
<1>3. streamed' \in Seq(Tokens)
  BY <1>1, <1>2, ConcatProperties
<1> QED
  BY <1>1, <1>2, <1>3, CallEnds DEF Calling

LEMMA AppendedInv ==
  ASSUME IInv, Appended
  PROVE  IInv'
<1> DEFINE out == held \o SubSeq(raw, fed + 1, Len(raw))
<1>0. /\ raw \in Seq(Tokens) /\ held \in Seq(Tokens) /\ fed \in 0..Len(raw)
      /\ kept.text \in Seq(Tokens)
  BY DEF IInv, CallInv, TextInv
<1>1. out \in Seq(Tokens)
  BY <1>0, PartIsText, ConcatProperties
<1>2. /\ pc = "streaming" /\ call = 3 /\ pc' = "finishing" /\ CallOver
      /\ UNCHANGED <<call, calls, spent, left, kept>>
      /\ text' = IF HasCite(raw) THEN kept.text \o Validated(raw) ELSE kept.text
      /\ streamed' = kept.streamed \o (IF HasCite(raw) THEN streamed \o out ELSE <<>>)
      /\ screen' = IF HasCite(raw) THEN screen \o out ELSE screen
  BY DEF Appended, At, budget
<1> HIDE DEF out
<1>3. /\ kept.streamed \in Seq(Tokens) /\ streamed \in Seq(Tokens)
      /\ screen = kept.streamed \o streamed
      /\ ~HasCite(raw) => streamed = <<>>
  BY <1>2 DEF IInv, CallInv, ShownInv, Calling
<1>4. text' \in Seq(Tokens)
  <2>1. Validated(raw) \in Seq(Tokens)
    BY <1>0, ValidatedIs
  <2> QED
    BY <1>0, <1>2, <2>1, ConcatProperties
<1>5. streamed' \in Seq(Tokens) /\ screen' = streamed'
  <2>1. CASE HasCite(raw)
    BY <1>1, <1>2, <1>3, <2>1, ShowsMore, ConcatProperties
  <2>2. CASE ~HasCite(raw)
    BY <1>2, <1>3, <2>2, NoText, ConcatProperties
  <2> QED
    BY <2>1, <2>2
<1> QED
  BY <1>2, <1>4, <1>5, CallEnds DEF Calling

LEMMA FirstFailsInv ==
  ASSUME IInv, NEW late, FirstFails(late)
  PROVE  IInv'
<1>1. /\ pc = "streaming" /\ call = 1
      /\ screen' = IF streamed # <<>> THEN <<>> ELSE screen
      /\ Conclude(IF late THEN "timeout" ELSE "failed", <<>>)
      /\ UNCHANGED <<calls, spent, left>>
  BY DEF FirstFails, At, budget
<1>2. screen' = <<>>
  BY <1>1 DEF IInv, ShownInv
<1> QED
  BY <1>1, <1>2, ConcludeInv

LEMMA StreamingInv ==
  ASSUME IInv, Streaming
  PROVE  IInv'
BY PieceInv, AbandonInv, AwaitJudgeInv, WrittenInv, FirstFailsInv, SecondFailsInv,
   AppendFailsInv, AppendedInv
   DEF Streaming

LEMMA HelpingInv ==
  ASSUME IInv, Helping
  PROVE  IInv'
<1>1. UNCHANGED <<pc, budget, stream, hand, output>>
  BY DEF Helping, Judge, Hear, Recovered
<1> QED
  BY <1>1 DEF IInv, CountInv, CallInv, ShownInv, TextInv, budget, stream, hand, output

LEMMA DecideInv ==
  ASSUME IInv, NEW time, Decide(time)
  PROVE  IInv'
<1>1. /\ pc = "deciding" /\ pc' \in {"concluding", "retrying", "recovering"}
      /\ kept'.text = text
      /\ UNCHANGED <<budget, stream, text, output>>
  BY DEF Decide, InHand
<1> QED
  BY <1>1 DEF IInv, CountInv, CallInv, ShownInv, TextInv, Calling, Atomic, Awaited,
              budget, stream, output

\* Another call begins, when the text before it is off the screen or stays on
\* it.
LEMMA BeginInv ==
  ASSUME IInv, NEW n \in {2, 3}, pc \notin Calling \cup {"ended"}, Pay, Begin(n),
         n = 2 => screen' = <<>> /\ kept' = kept,
         n = 3 => screen' = screen /\ kept' = InHand /\ streamed \in Seq(Tokens),
         UNCHANGED text
  PROVE  IInv'
<1>1. /\ pc' = "streaming" /\ call' = n /\ calls' = calls + 1 /\ spent' = spent + 1
      /\ left > 0 /\ left' = left - 1
      /\ streamed' = <<>> /\ UNCHANGED <<raw, fed, held, released>>
  BY DEF Pay, Begin
<1>2. CountInv'
  BY <1>1 DEF IInv, CountInv, Atomic, Awaited
<1>3. CallInv'
  BY <1>1 DEF IInv, CallInv, Calling
<1>4. ~released
  BY DEF IInv, CallInv
<1>5. ShownInv'
  <2>1. CASE n = 2
    BY <1>1, <1>4, <2>1, NoText DEF ShownInv, Calling
  <2>2. CASE n = 3
    <3>1. kept'.streamed = streamed /\ streamed \in Seq(Tokens) /\ screen' = screen
      BY <2>2 DEF InHand
    <3>2. screen = streamed
      BY DEF IInv, ShownInv, Calling
    <3>3. screen' = kept'.streamed \o <<>> /\ screen' \in Seq(Tokens)
      BY <3>1, <3>2, ConcatEmptySeq
    <3> QED
      BY <1>1, <1>4, <2>2, <3>1, <3>3, NoText DEF ShownInv, Calling
  <2> QED
    BY <2>1, <2>2
<1>6. TextInv'
  BY DEF IInv, TextInv, InHand
<1> QED
  BY <1>2, <1>3, <1>5, <1>6 DEF IInv

\* A step between calls that shows nothing and pays nothing.
LEMMA MoveInv ==
  ASSUME IInv, pc \in {"retrying", "recovering", "concluding", "reading"},
         pc' \in {"concluding", "reading", "finishing"},
         UNCHANGED <<calls, spent, left, stream, hand, output>>
  PROVE  IInv'
BY DEF IInv, CountInv, CallInv, ShownInv, TextInv, Calling, Atomic, Awaited, stream, hand, output

LEMMA RetrievedInv ==
  ASSUME IInv, NEW found, NEW time, Retrieved(found, time)
  PROVE  IInv'
<1>1. pc \in {"retrying", "recovering"}
  BY DEF Retrieved, Retried, Joined, At
<1>2. CASE found /\ time /\ left > 0
  <2>1. /\ Pay /\ Begin(2) /\ UNCHANGED <<kept, text>>
        /\ screen' = IF streamed # <<>> THEN <<>> ELSE screen
    BY <1>2 DEF Retrieved, hand
  <2>2. screen' = <<>>
    BY <1>1, <2>1 DEF IInv, ShownInv
  <2> QED
    BY <1>1, <2>1, <2>2, BeginInv DEF Calling
<1>3. CASE ~(found /\ time /\ left > 0)
  <2>1. pc' = "concluding" /\ UNCHANGED <<calls, spent, left, stream, hand, output>>
    BY <1>3 DEF Retrieved, output
  <2> QED
    BY <1>1, <2>1, MoveInv
<1> QED
  BY <1>2, <1>3

LEMMA HarvestInv ==
  ASSUME IInv, NEW arrived, Harvest(arrived)
  PROVE  IInv'
<1>1. pc = "reading"
  BY DEF Harvest, At
<1>2. CASE arrived /\ left > 0
  <2>1. Pay /\ Begin(3) /\ kept' = InHand /\ UNCHANGED <<text, screen>>
    BY <1>2 DEF Harvest, output
  <2>2. streamed \in Seq(Tokens)
    BY DEF IInv, ShownInv
  <2> QED
    BY <1>1, <2>1, <2>2, BeginInv DEF Calling
<1>3. CASE ~(arrived /\ left > 0)
  <2>1. pc' = "finishing" /\ UNCHANGED <<calls, spent, left, stream, hand, output>>
    BY <1>3 DEF Harvest, hand, output
  <2> QED
    BY <1>1, <2>1, MoveInv
<1> QED
  BY <1>2, <1>3

LEMMA WithholdInv ==
  ASSUME IInv, Withhold
  PROVE  IInv'
<1>1. /\ pc = "finishing"
      /\ Conclude(IF ~verdict.relevant THEN "irrelevant" ELSE "no_citations", <<>>)
      /\ screen' = IF streamed # <<>> THEN <<>> ELSE screen
      /\ UNCHANGED <<calls, spent, left>>
  BY DEF Withhold, budget
<1>2. screen' = <<>>
  BY <1>1 DEF IInv, ShownInv
<1> QED
  BY <1>1, <1>2, ConcludeInv

LEMMA PublishInv ==
  ASSUME IInv, Publish
  PROVE  IInv'
<1>1. /\ pc = "finishing" /\ Conclude("ok", text)
      /\ screen' = IF streamed = text THEN screen
                   ELSE (IF streamed # <<>> THEN <<>> ELSE screen) \o text
      /\ UNCHANGED <<calls, spent, left>>
  BY DEF Publish, budget
<1>2. screen = streamed /\ text \in Seq(Tokens)
  BY <1>1 DEF IInv, ShownInv, TextInv
<1>3. <<>> \o text = text
  BY <1>2, ConcatEmptySeq
<1>4. screen' = text
  BY <1>1, <1>2, <1>3
<1> QED
  BY <1>1, <1>4, ConcludeInv

LEMMA ClosingInv ==
  ASSUME IInv, Closing
  PROVE  IInv'
<1>1. CASE ReadDetails \/ NoDetails
  BY <1>1, MoveInv DEF ReadDetails, NoDetails, budget
<1> QED
  BY <1>1, DecideInv, RetrievedInv, HarvestInv, WithholdInv, PublishInv DEF Closing

LEMMA OthersInv ==
  ASSUME IInv, OthersPay \/ NewDay
  PROVE  IInv'
<1>1. /\ UNCHANGED <<pc, spent, calls, stream, hand, output>>
      /\ left' \in Nat
  BY OverviewAssumption DEF OthersPay, NewDay, IInv, CountInv
<1> QED
  BY <1>1 DEF IInv, CountInv, CallInv, ShownInv, TextInv, stream, hand, output

LEMMA StepInv == IInv /\ [Next]_vars => IInv'
<1> SUFFICES ASSUME IInv, [Next]_vars PROVE IInv'
  OBVIOUS
<1>1. CASE Advance
  BY <1>1, SearchInv, StreamingInv, HelpingInv, ClosingInv DEF Advance
<1>2. CASE OthersPay \/ NewDay
  BY <1>2, OthersInv
<1>3. CASE UNCHANGED vars
  BY <1>3 DEF vars, IInv, CountInv, CallInv, ShownInv, TextInv, budget, stream, hand, output
<1> QED
  BY <1>1, <1>2, <1>3 DEF Next, Ended

\* The counters need none of the texts.
LEMMA CountStep == CountInv /\ [Next]_vars => CountInv'
<1> SUFFICES ASSUME CountInv, [Next]_vars PROVE CountInv'
  OBVIOUS
<1> USE DEF CountInv, Atomic, Awaited
<1>1. CASE Searching
  BY <1>1 DEF Searching, Start, Found, NotFound, OverBudget, Pay, Begin, Conclude, budget,
              stream
<1>2. CASE Streaming
  <2> DEFINE Counted ==
               /\ pc' \in {"streaming", "closing", "deciding", "concluding", "finishing", "ended"}
               /\ pc' \in {"closing", "deciding", "concluding"} => call < 3
               /\ UNCHANGED <<calls, spent, left, call>>
  <2> SUFFICES Counted
    OBVIOUS
  <2>1. ASSUME NEW kind \in Kinds, Piece(kind) PROVE Counted
    BY <2>1 DEF Piece, budget
  <2>2. CASE Abandon
    BY <2>2 DEF Abandon, Abandoned, budget
  <2>3. CASE AwaitJudge \/ Written
    BY <2>3 DEF AwaitJudge, Written, budget, stream
  <2>4. ASSUME NEW late, FirstFails(late) PROVE Counted
    <3>1. pc' = "ended" /\ UNCHANGED call /\ UNCHANGED budget
      BY <2>4 DEF FirstFails, Conclude
    <3> QED
      BY <3>1 DEF budget
  <2>5. ASSUME NEW late, SecondFails(late) PROVE Counted
    BY <2>5 DEF SecondFails, budget
  <2>6. ASSUME NEW late, AppendFails(late) PROVE Counted
    BY <2>6 DEF AppendFails, budget
  <2>7. CASE Appended
    BY <2>7 DEF Appended, budget
  <2> QED
    BY <1>2, <2>1, <2>2, <2>3, <2>4, <2>5, <2>6, <2>7 DEF Streaming
<1>3. CASE Helping
  BY <1>3 DEF Helping, Judge, Hear, Recovered, budget, stream
<1>4. CASE Closing
  BY <1>4 DEF Closing, Decide, Retrieved, Retried, Joined, At, ReadDetails, NoDetails, Harvest,
              Withhold, Publish, Conclude, Pay, Begin, budget, stream
<1>5. CASE OthersPay \/ NewDay
  BY <1>5, OverviewAssumption DEF OthersPay, NewDay, stream
<1>6. CASE UNCHANGED vars
  BY <1>6 DEF vars, budget, stream
<1> QED
  BY <1>1, <1>2, <1>3, <1>4, <1>5, <1>6 DEF Next, Advance, Ended

-----------------------------------------------------------------------------
(* Theorems. *)

\* Every generation call was paid for (_consume_budget), whatever other
\* generations take of the budget and whenever midnight comes.
THEOREM CallsPaidHolds == Spec => []CallsPaid
<1>1. CountInv => CallsPaid
  BY DEF CountInv, CallsPaid
<1>2. Init => CountInv
  BY InitInv DEF IInv
<1>3. CountInv /\ [Next]_vars => CountInv'
  BY CountStep
<1> QED
  BY <1>1, <1>2, <1>3, PTL DEF Spec

\* In the end the screen has the published text and nothing else, for texts
\* of any length, whatever fails and whichever helper comes late (_generate).
THEOREM ScreenAgreesHolds == Spec => []ScreenAgrees
<1>1. IInv => ScreenAgrees
  BY DEF IInv, ShownInv, ScreenAgrees
<1>2. IInv /\ [Next]_vars => IInv'
  BY StepInv
<1> QED
  BY <1>1, <1>2, InitInv, PTL DEF Spec

-----------------------------------------------------------------------------
(* What is shown may be shown, and what may be shown stays. *)

\* The places after a call, before the next one or the end.
After == {"deciding", "retrying", "recovering", "concluding", "reading", "finishing"}

\* What the judge says is known once it has been asked and answered.
JudgeInv ==
    /\ verdict \in Verdicts /\ gate \in {"off", "asked", "rung", "late", "heard"}
    /\ marked \in BOOLEAN /\ boost \in BOOLEAN /\ citedFirst \in BOOLEAN /\ broke \in BOOLEAN
    /\ recovery \in {"none", "running", "hits", "nothing", "cancelled"}
    /\ days \in Nat
    /\ gate \in {"off", "asked"} => verdict = Open
    /\ gate = "off" => kept.verdict = Open
    /\ pc \in {"start", "searching"} => gate \in {"off", "asked"}
    /\ pc \in {"start", "searching", "deciding", "retrying", "recovering"} => call = 1

\* What went through the renumberer is on the screen or held, and the valve only
\* opens on a citation.
ValveInv ==
    /\ screen \in Seq(Tokens)
    /\ pc \notin Calling => ~marked
    /\ pc \in Calling => streamed \o held = SubSeq(raw, 1, fed)
    /\ pc \in Calling /\ call < 3 =>
         /\ \A i \in 1..fed : raw[i].kind = "cite" => marked
         /\ marked => released \/ HasCite(held)
         /\ released => HasCite(streamed)

\* The text in hand is what is on the screen of it; if it may be shown it is there.
HandInv ==
    /\ pc \in After /\ call < 3 =>
         /\ streamed # <<>> => text = Validated(streamed)
         /\ verdict.relevant /\ ~verdict.missing /\ HasCite(text) => streamed # <<>>
    /\ pc \in {"retrying", "recovering"} \/ (call = 2 /\ pc \in Calling) =>
         /\ kept.verdict \in Verdicts
         /\ kept.verdict.missing \/ ~HasCite(kept.text)
    /\ pc = "reading" => verdict.relevant /\ ~verdict.missing /\ HasCite(text)
    /\ pc = "streaming" /\ call = 3 =>
         kept.streamed # <<>> /\ kept.text = Validated(kept.streamed) /\ HasCite(kept.text)
    /\ pc = "finishing" /\ call = 3 =>
         HasCite(text) /\ (streamed = text \/ HasKind(streamed, "bad") \/ broke)

\* What became of a first text that cites.
FirstInv ==
    /\ pc \in {"start", "searching"} => ~citedFirst
    /\ call = 1 /\ citedFirst /\ pc \in Calling => HasCite(raw)
    /\ call = 1 /\ citedFirst /\ pc \in After =>
         HasCite(text) \/ ~verdict.relevant \/ recovery = "hits"

\* Where the verdict has not started a search although the book is missing, the
\* budget was at its end, and a text that is on the screen had no search coming.
ReplacedInv ==
    /\ call = 1 /\ gate = "heard" /\ verdict.missing /\ recovery = "none" /\ pc # "ended" =>
         boost \/ left = 0 \/ days > 0
    /\ call = 1 /\ pc \in Calling \cup After /\ streamed # <<>> /\ verdict.missing =>
         gate = "heard" /\ recovery = "none"
    /\ pc \in {"retrying", "recovering"} /\ streamed # <<>> => days > 0

GoodInv == /\ JudgeInv /\ ValveInv /\ HandInv /\ FirstInv /\ ReplacedInv
           /\ ShownIsGood /\ CitedKept

-----------------------------------------------------------------------------
(* Kinds of tokens in parts of a text. *)

LEMMA KindConcat ==
  ASSUME NEW a \in Seq(Tokens), NEW b \in Seq(Tokens), NEW kind
  PROVE  HasKind(a \o b, kind) <=> HasKind(a, kind) \/ HasKind(b, kind)
<1>1. /\ a \o b \in Seq(Tokens) /\ Len(a \o b) = Len(a) + Len(b)
      /\ \A i \in 1..Len(a) : (a \o b)[i] = a[i]
      /\ \A i \in 1..Len(b) : (a \o b)[Len(a) + i] = b[i]
  BY ConcatProperties
<1>2. ASSUME HasKind(a \o b, kind) PROVE HasKind(a, kind) \/ HasKind(b, kind)
  <2>1. PICK i \in 1..(Len(a) + Len(b)) : (a \o b)[i].kind = kind
    BY <1>1, <1>2 DEF HasKind
  <2>2. CASE i <= Len(a)
    BY <1>1, <2>1, <2>2 DEF HasKind
  <2>3. CASE i > Len(a)
    <3>1. i - Len(a) \in 1..Len(b) /\ i = Len(a) + (i - Len(a))
      BY <2>1, <2>3
    <3> QED BY <1>1, <2>1, <3>1 DEF HasKind
  <2> QED BY <2>1, <2>2, <2>3
<1>3. ASSUME HasKind(a, kind) PROVE HasKind(a \o b, kind)
  <2>1. PICK i \in 1..Len(a) : a[i].kind = kind
    BY <1>3 DEF HasKind
  <2>2. i \in DOMAIN (a \o b)
    BY <1>1
  <2> QED BY <1>1, <2>1, <2>2 DEF HasKind
<1>4. ASSUME HasKind(b, kind) PROVE HasKind(a \o b, kind)
  <2>1. PICK i \in 1..Len(b) : b[i].kind = kind
    BY <1>4 DEF HasKind
  <2>2. Len(a) + i \in DOMAIN (a \o b)
    BY <1>1, <2>1
  <2> QED BY <1>1, <2>1, <2>2 DEF HasKind
<1> QED BY <1>2, <1>3, <1>4

LEMMA KindNone == \A kind : ~HasKind(<<>>, kind)
BY DEF HasKind

LEMMA KindPart ==
  ASSUME NEW body \in Seq(Tokens), NEW m \in 1..(Len(body) + 1), NEW n \in 0..Len(body), NEW kind,
         NEW i \in m..n, body[i].kind = kind
  PROVE  HasKind(SubSeq(body, m, n), kind)
<1>1. SubSeq(body, m, n) = [j \in 1..(n - m + 1) |-> body[j + m - 1]]
  BY m <= n, \A j \in m..n : body[j] \in Tokens, SubSeqProperties
<1>2. i - m + 1 \in 1..(n - m + 1) /\ (i - m + 1) + m - 1 = i
  OBVIOUS
<1> QED BY <1>1, <1>2 DEF HasKind

\* A first part and the rest are the text.
LEMMA PartsJoin ==
  ASSUME NEW body \in Seq(Tokens), NEW m \in 0..Len(body), NEW n \in m..Len(body)
  PROVE  SubSeq(body, 1, m) \o SubSeq(body, m + 1, n) = SubSeq(body, 1, n)
BY ConcatAdjacentSubSeq

\* Texts that begin alike have the same first part.
LEMMA SamePart ==
  ASSUME NEW a \in Seq(Tokens), NEW b \in Seq(Tokens), NEW n \in Nat, n <= Len(a), n <= Len(b),
         \A i \in 1..n : a[i] = b[i]
  PROVE  SubSeq(a, 1, n) = SubSeq(b, 1, n)
<1>1. SubSeq(a, 1, n) = [j \in 1..n |-> a[j]] /\ SubSeq(b, 1, n) = [j \in 1..n |-> b[j]]
  OBVIOUS
<1> QED BY <1>1

LEMMA PrefixOf ==
  ASSUME NEW a \in Seq(Tokens), NEW b \in Seq(Tokens)
  PROVE  IsPrefix(a, a \o b) /\ IsPrefix(a, a)
<1>1. /\ a \o b \in Seq(Tokens) /\ Len(a \o b) = Len(a) + Len(b)
      /\ \A i \in 1..Len(a) : (a \o b)[i] = a[i]
      /\ Len(a) \in Nat /\ Len(b) \in Nat
  BY ConcatProperties
<1>2. SubSeq(a \o b, 1, Len(a)) = SubSeq(a, 1, Len(a))
  BY <1>1, SubSeqProperties
<1> QED BY <1>1, <1>2 DEF IsPrefix

\* A step of the screen that NotTakenBack allows.
Kept == IsPrefix(screen, screen') \/ HasKind(screen, "bad") \/ broke' \/ days > 0

\* What is on the screen before the end: it cites, and the text in hand, which
\* was made of it, cites too.
LEMMA OnScreen ==
  ASSUME IInv, GoodInv
  PROVE  /\ pc \notin {"ended"} /\ ~(pc = "streaming" /\ call = 3) => screen = streamed
         /\ screen # <<>> /\ pc # "ended" => gate = "off" \/ (gate # "asked" /\ verdict.relevant)
         /\ screen # <<>> /\ pc # "ended" => verdict.relevant
         /\ pc \in After /\ call < 3 /\ streamed # <<>> => HasCite(text) /\ text = Validated(streamed)
         /\ gate = "off" => verdict = Open
         /\ streamed \in Seq(Tokens) /\ screen \in Seq(Tokens)
<1>1. pc # "ended" /\ ~(pc = "streaming" /\ call = 3) => screen = streamed
  BY DEF IInv, ShownInv
<1>2. screen # <<>> /\ pc # "ended" =>
        HasCite(screen) /\ (gate = "off" \/ (gate # "asked" /\ verdict.relevant))
  BY DEF GoodInv, ShownIsGood
<1>3. gate = "off" => verdict = Open /\ verdict.relevant
  BY DEF GoodInv, JudgeInv, Open
<1>4. streamed \in Seq(Tokens) /\ screen \in Seq(Tokens)
  BY DEF GoodInv, ValveInv, IInv, ShownInv
<1>5. ASSUME pc \in After, call < 3, streamed # <<>>
      PROVE  HasCite(text) /\ text = Validated(streamed)
  <2>1. text = Validated(streamed) /\ HasCite(streamed)
    BY <1>1, <1>2, <1>5 DEF GoodInv, HandInv, After
  <2> QED BY <1>4, <2>1, ValidatedIs
<1> QED BY <1>1, <1>2, <1>3, <1>4, <1>5

\* The end.
LEMMA ConcludeGood ==
  ASSUME IInv, GoodInv, NEW kind, NEW body, Conclude(kind, body),
         UNCHANGED <<verdict, boost, citedFirst, days>>, broke' \in BOOLEAN,
         gate' = gate \/ (gate' = "heard" /\ gate # "off"), screen' \in Seq(Tokens),
         kind = "no_citations" /\ citedFirst => recovery = "hits" \/ call = 2
  PROVE  GoodInv'
<1>1. /\ pc' = "ended" /\ marked' = FALSE /\ result'.kind = kind /\ call' = call
      /\ kept'.verdict = Open
      /\ recovery' = IF recovery = "running" THEN "cancelled" ELSE recovery
  BY DEF Conclude, CallOver, Nothing
<1>2. JudgeInv'
  BY <1>1 DEF GoodInv, JudgeInv
<1>3. ValveInv' /\ HandInv' /\ FirstInv' /\ ReplacedInv'
  BY <1>1 DEF ValveInv, HandInv, FirstInv, ReplacedInv, Calling, After
<1>4. ShownIsGood' /\ CitedKept'
  BY <1>1 DEF ShownIsGood, CitedKept
<1> QED BY <1>2, <1>3, <1>4 DEF GoodInv

\* A step before the first call, or of the budget.
LEMMA SearchGood ==
  ASSUME IInv, GoodInv, Searching
  PROVE  GoodInv' /\ Kept
<1> USE OnScreen
<1>1. ASSUME NEW plan \in BOOLEAN, Start(plan) PROVE GoodInv' /\ Kept
  <2>1. /\ pc = "start" /\ pc' = "searching" /\ left' \in {left, left - 1}
        /\ UNCHANGED <<days, boost, gate, verdict, recovery, call, raw, fed, held, streamed,
                       marked, released, text, kept, screen, result, citedFirst, broke>>
    BY <1>1 DEF Start, Pay, judge, helpers, stream, hand, output, history
  <2>2. JudgeInv' /\ ValveInv' /\ HandInv' /\ FirstInv'
    BY <2>1 DEF GoodInv, JudgeInv, ValveInv, HandInv, FirstInv, Calling, After
  <2>3. ReplacedInv'
    BY <2>1 DEF GoodInv, JudgeInv, ReplacedInv, Calling, After
  <2>4. ShownIsGood' /\ CitedKept'
    BY <2>1 DEF GoodInv, ShownIsGood, CitedKept
  <2>5. Kept
    BY <2>1, PrefixOf DEF Kept
  <2> QED BY <2>2, <2>3, <2>4, <2>5 DEF GoodInv
<1>2. ASSUME NEW widened \in BOOLEAN, Found(widened) PROVE GoodInv' /\ Kept
  <2>1. /\ pc = "searching" /\ pc' = "streaming" /\ boost' = widened /\ call' = 1
        /\ streamed' = <<>>
        /\ UNCHANGED <<days, gate, verdict, recovery, raw, fed, held,
                       marked, released, text, kept, screen, result, citedFirst, broke>>
    BY <1>2 DEF Found, Pay, Begin, judge, helpers, hand, output, history
  <2>2. raw = <<>> /\ held = <<>> /\ fed = 0 /\ ~marked /\ ~released /\ gate \in {"off", "asked"}
        /\ verdict = Open /\ ~citedFirst /\ screen = <<>>
    BY <2>1 DEF IInv, CallInv, ShownInv, GoodInv, JudgeInv, ValveInv, FirstInv, Calling
  <2>3. JudgeInv'
    BY <2>1 DEF GoodInv, JudgeInv
  <2>4. ValveInv'
    BY <2>1, <2>2, SubSeqEmpty DEF GoodInv, ValveInv, Calling
  <2>5. HandInv' /\ FirstInv' /\ ReplacedInv'
    BY <2>1, <2>2 DEF HandInv, FirstInv, ReplacedInv, Calling, After, Open
  <2>6. ShownIsGood' /\ CitedKept' /\ Kept
    BY <2>1, <2>2, NoText, PrefixOf DEF ShownIsGood, CitedKept, Kept
  <2> QED BY <2>3, <2>4, <2>5, <2>6 DEF GoodInv
<1>3. ASSUME NEW kind \in {"search_timeout", "parse_error", "no_results", "failed", "over_budget"},
             Conclude(kind, <<>>), UNCHANGED <<budget, boost, judge, screen, history>>
      PROVE  GoodInv' /\ Kept
  <2>1. UNCHANGED <<days, boost, gate, verdict, screen, citedFirst, broke>> /\ broke \in BOOLEAN
    BY <1>3 DEF budget, judge, history, GoodInv, JudgeInv
  <2>2. GoodInv'
    BY <1>3, <2>1, ConcludeGood
  <2>3. Kept
    BY <2>1, PrefixOf DEF Kept
  <2> QED BY <2>2, <2>3
<1> QED
  BY <1>1, <1>2, <1>3 DEF Searching, NotFound, OverBudget

\* A piece of a text: shown if the valve is or gets open, held if not.
LEMMA PieceGood ==
  ASSUME IInv, GoodInv, NEW kind \in Kinds, Piece(kind)
  PROVE  GoodInv' /\ Kept
<1> DEFINE token == [kind |-> kind, call |-> call]
           body == Append(raw, token)
           chunk == SubSeq(body, fed + 1, Stable(body))
           open == released \/ Opens(body, chunk)
           out == held \o chunk
<1>0. /\ token \in Tokens /\ raw \in Seq(Tokens) /\ fed \in 0..Len(raw) /\ token.kind = kind
      /\ held \in Seq(Tokens) /\ streamed \in Seq(Tokens) /\ screen \in Seq(Tokens)
  BY OnScreen DEF IInv, CallInv, CountInv, Tokens
<1>1. /\ pc = "streaming"
      /\ raw' = body /\ fed' = Stable(body) /\ released' = open
      /\ held' = IF open THEN <<>> ELSE out
      /\ streamed' = IF open THEN streamed \o out ELSE streamed
      /\ screen' = IF open THEN screen \o out ELSE screen
      /\ marked' = (marked \/ HasCite(chunk))
      /\ citedFirst' = (citedFirst \/ (call = 1 /\ kind = "cite"))
      /\ gate' = IF gate = "rung" THEN "late" ELSE gate
      /\ UNCHANGED <<pc, left, days, boost, verdict, recovery, call, text, kept, result, broke>>
  BY DEF Piece, Show, GateMovesOn, helpers, hand, budget
<1> HIDE DEF token
<1>2. /\ body \in Seq(Tokens) /\ body # <<>> /\ Len(body) = Len(raw) + 1
      /\ \A i \in 1..Len(raw) : body[i] = raw[i]
      /\ body[Len(raw) + 1] = token
  <2>1. body \in Seq(Tokens) /\ body # <<>> /\ Len(body) = Len(raw) + 1
    <3>1. raw \in Seq(Tokens) /\ token \in Tokens
      BY <1>0
    <3> QED BY <3>1, AppendProperties
  <2>2. \A i \in 1..Len(raw) : body[i] = raw[i]
    BY <1>0
  <2>3. body[Len(raw) + 1] = token
    BY <1>0
  <2> QED BY <2>1, <2>2, <2>3
<1>3. HasCite(raw) \/ kind = "cite" => HasCite(body)
  <2>1. Len(raw) + 1 \in DOMAIN body /\ \A i \in DOMAIN raw : i \in DOMAIN body /\ body[i] = raw[i]
    BY <1>0, <1>2
  <2> QED BY <1>0, <1>2, <2>1 DEF HasCite, HasKind
<1>4. open \in BOOLEAN
  BY DEF Opens, GateAllows, HasCite, HasKind, IInv, CallInv, GoodInv, JudgeInv
<1> HIDE DEF body
<1>5. Stable(body) \in fed..Len(body) /\ Stable(body) \in 0..Len(body) /\ fed + 1 \in 1..(Len(body) + 1)
  BY <1>0, <1>2, StableBound
<1>6. chunk \in Seq(Tokens) /\ out \in Seq(Tokens)
  <2>1. chunk \in Seq(Tokens)
    BY <1>2, <1>5, PartIsText
  <2> QED BY <1>0, <2>1, ConcatProperties
<1>7. HasCite(out) <=> HasCite(held) \/ HasCite(chunk)
  BY <1>0, <1>6, KindConcat DEF HasCite
<1>8. \A i \in (fed + 1)..Stable(body) : body[i].kind = "cite" => HasCite(chunk)
  BY <1>2, <1>5, KindPart DEF HasCite
<1>9. streamed \o out = SubSeq(body, 1, Stable(body))
  <2>1. streamed \o held = SubSeq(raw, 1, fed)
    BY <1>1 DEF GoodInv, ValveInv, Calling
  <2>2. SubSeq(raw, 1, fed) = SubSeq(body, 1, fed)
    <3>1. fed \in Nat /\ fed <= Len(raw) /\ fed <= Len(body) /\ \A i \in 1..fed : raw[i] = body[i]
      BY <1>0, <1>2
    <3> QED BY <1>0, <1>2, <3>1, SamePart
  <2>3. streamed \o out = (streamed \o held) \o chunk
    <3>1. streamed \in Seq(Tokens) /\ held \in Seq(Tokens) /\ chunk \in Seq(Tokens)
      BY <1>0, <1>6
    <3> HIDE DEF chunk
    <3>2. (streamed \o held) \o chunk = streamed \o (held \o chunk)
      BY <3>1, ConcatAssociative
    <3> QED BY <3>2
  <2>4. SubSeq(body, 1, fed) \o chunk = SubSeq(body, 1, Stable(body))
    <3>1. fed \in 0..Len(body) /\ Len(body) \in Nat
      BY <1>0, <1>2
    <3> QED BY <1>2, <1>5, <3>1, PartsJoin
  <2> QED BY <2>1, <2>2, <2>3, <2>4
<1> HIDE DEF chunk, out
<1>10. HasCite(streamed \o out) <=> HasCite(streamed) \/ HasCite(out)
  BY <1>0, <1>6, KindConcat DEF HasCite
<1>11. ASSUME call < 3, open PROVE HasCite(streamed \o out)
  <2>1. CASE released
    BY <1>1, <1>10, <1>11, <2>1 DEF GoodInv, ValveInv, Calling
  <2>2. CASE ~released
    <3>1. marked \/ HasCite(chunk)
      BY <1>11, <2>2 DEF Opens
    <3> QED BY <1>1, <1>7, <1>10, <1>11, <2>2, <3>1 DEF GoodInv, ValveInv, Calling
  <2> QED BY <2>1, <2>2
<1>12. ASSUME call < 3, open, ~released
       PROVE  /\ gate = "off" \/ (gate \in {"rung", "late", "heard"} /\ verdict.relevant)
              /\ verdict.missing => gate = "heard" /\ (call = 1 => recovery = "none")
  <2>1. GateAllows
    BY <1>12 DEF Opens
  <2> QED BY <2>1 DEF GateAllows, Replacement, GoodInv, JudgeInv, Open
<1>13. JudgeInv'
  BY <1>1, <1>6 DEF GoodInv, JudgeInv, HasCite, HasKind
<1>14. ValveInv'
  <2>1. screen' \in Seq(Tokens)
    BY <1>0, <1>1, <1>6, ConcatProperties
  <2>2. streamed' \o held' = SubSeq(raw', 1, fed')
    <3>1. CASE open
      <4>1. (streamed \o out) \o <<>> = streamed \o out
        BY <1>0, <1>6, ConcatProperties, ConcatEmptySeq
      <4> QED BY <1>1, <1>9, <3>1, <4>1
    <3>2. CASE ~open
      BY <1>1, <1>9, <3>2
    <3> QED BY <3>1, <3>2
  <2>3. ASSUME call < 3, NEW i \in 1..fed', raw'[i].kind = "cite" PROVE marked'
    <3>1. CASE i <= fed
      <4>1. raw[i].kind = "cite" /\ i \in 1..fed
        BY <1>0, <1>1, <1>2, <2>3, <3>1
      <4> QED BY <1>1, <2>3, <4>1 DEF GoodInv, ValveInv, Calling
    <3>2. CASE i > fed
      <4>1. i \in (fed + 1)..Stable(body)
        BY <1>0, <1>1, <1>5, <2>3, <3>2
      <4> QED BY <1>1, <1>8, <2>3, <4>1
    <3> QED BY <1>0, <3>1, <3>2, <2>3, <1>1, <1>5
  <2>4. ASSUME call < 3, marked', ~released' PROVE HasCite(held')
    BY <1>1, <1>7, <2>4 DEF GoodInv, ValveInv, Calling
  <2>5. call < 3 /\ released' => HasCite(streamed')
    BY <1>1, <1>11
  <2> QED BY <1>1, <2>1, <2>2, <2>3, <2>4, <2>5 DEF ValveInv, Calling
<1>15. HandInv'
  BY <1>1 DEF GoodInv, HandInv, Calling, After
<1>16. FirstInv'
  BY <1>1, <1>3 DEF GoodInv, FirstInv, Calling, After
<1>17. ReplacedInv'
  <2>1. ASSUME call = 1, streamed' # <<>>, verdict.missing PROVE gate' = "heard" /\ recovery' = "none"
    <3>1. CASE streamed # <<>>
      BY <1>1, <2>1, <3>1 DEF GoodInv, ReplacedInv, Calling
    <3>2. CASE streamed = <<>>
      <4>1. open
        BY <1>1, <2>1, <3>2
      <4>2. ~released
        BY <1>1, <2>1, <3>2, KindNone DEF GoodInv, ValveInv, Calling, HasCite
      <4> QED BY <1>1, <1>12, <2>1, <4>1, <4>2
    <3> QED BY <3>1, <3>2
  <2> QED BY <1>1, <2>1 DEF GoodInv, ReplacedInv, Calling, After
<1>18. ShownIsGood'
  <2>1. CASE ~open
    BY <1>1, <2>1 DEF GoodInv, ShownIsGood
  <2>2. CASE open /\ call < 3
    <3>1. screen = streamed
      BY <1>1, <2>2, OnScreen DEF GoodInv, JudgeInv
    <3>2. CASE released
      <4>1. screen # <<>>
        BY <1>1, <2>2, <3>1, <3>2, KindNone DEF GoodInv, ValveInv, Calling, HasCite
      <4> QED BY <1>1, <1>11, <2>2, <3>1, <4>1 DEF GoodInv, ShownIsGood
    <3>3. CASE ~released
      BY <1>1, <1>11, <1>12, <2>2, <3>1, <3>3 DEF ShownIsGood
    <3> QED BY <3>2, <3>3
  <2>3. CASE open /\ call = 3
    <3>1. kept.streamed # <<>> /\ kept.streamed \in Seq(Tokens) /\ screen = kept.streamed \o streamed
      BY <1>1, <2>3 DEF GoodInv, HandInv, IInv, ShownInv
    <3>2. screen # <<>>
      BY <1>0, <3>1, ConcatEqualIffEmpty, ConcatProperties
    <3>3. HasCite(screen \o out)
      BY <1>0, <1>1, <1>6, <3>2, KindConcat DEF GoodInv, ShownIsGood, HasCite
    <3> QED BY <1>1, <2>3, <3>2, <3>3 DEF GoodInv, ShownIsGood
  <2> QED BY <2>1, <2>2, <2>3 DEF IInv, CountInv
<1>19. CitedKept' /\ Kept
  BY <1>0, <1>1, <1>6, PrefixOf DEF CitedKept, Kept
<1> QED BY <1>13, <1>14, <1>15, <1>16, <1>17, <1>18, <1>19 DEF GoodInv


LEMMA AbandonGood ==
  ASSUME IInv, GoodInv, Abandon
  PROVE  GoodInv' /\ Kept
<1>1. /\ pc = "streaming" /\ call < 3 /\ ~released /\ gate = "heard"
      /\ ~verdict.relevant \/ (call = 1 /\ recovery = "hits")
      /\ pc' = (IF call = 1 THEN "deciding" ELSE "concluding")
      /\ text' = <<>> /\ streamed' = <<>> /\ marked' = FALSE /\ gate' = gate
      /\ UNCHANGED <<left, days, boost, verdict, recovery, call, kept, screen, result,
                     citedFirst, broke>>
  BY DEF Abandon, At, Abandoned, Replacement, CallOver, GateMovesOn, budget, helpers, output, history
<1>2. screen = <<>>
  BY <1>1 DEF IInv, ShownInv, Calling
<1>3. ~HasCite(text')
  BY <1>1, KindNone DEF HasCite
<1>4. call \in 1..3
  BY DEF IInv, CountInv
<1>5. JudgeInv'
  BY <1>1 DEF GoodInv, JudgeInv
<1>6. ValveInv'
  BY <1>1 DEF GoodInv, ValveInv, Calling
<1>7. HandInv'
  BY <1>1, <1>3, <1>4 DEF HandInv, Calling
<1>8. FirstInv' /\ ReplacedInv'
  BY <1>1 DEF GoodInv, FirstInv, ReplacedInv, Calling
<1>9. ShownIsGood' /\ CitedKept' /\ Kept
  BY <1>1, <1>2, NoText, PrefixOf DEF ShownIsGood, CitedKept, Kept
<1> QED BY <1>5, <1>6, <1>7, <1>8, <1>9 DEF GoodInv

LEMMA AwaitJudgeGood ==
  ASSUME IInv, GoodInv, AwaitJudge
  PROVE  GoodInv' /\ Kept
<1>1. /\ pc = "streaming" /\ call < 3 /\ pc' = "closing"
      /\ UNCHANGED <<left, days, boost, gate, verdict, recovery, call, raw, fed, held, streamed,
                     marked, released, text, kept, screen, result, citedFirst, broke>>
  BY DEF AwaitJudge, At, budget, judge, helpers, stream, hand, output, history
<1>2. JudgeInv' /\ ValveInv'
  BY <1>1 DEF GoodInv, JudgeInv, ValveInv, Calling
<1>3. HandInv' /\ FirstInv' /\ ReplacedInv'
  BY <1>1 DEF GoodInv, HandInv, FirstInv, ReplacedInv, Calling, After
<1>4. ShownIsGood' /\ CitedKept' /\ Kept
  BY <1>1, OnScreen, PrefixOf DEF GoodInv, ShownIsGood, CitedKept, Kept
<1> QED BY <1>2, <1>3, <1>4 DEF GoodInv

\* The end of a text: all of it is on the screen, or nothing.
LEMMA WrittenGood ==
  ASSUME IInv, GoodInv, Written
  PROVE  GoodInv' /\ Kept
<1> DEFINE tail == SubSeq(raw, fed + 1, Len(raw))
           open == released \/ Opens(raw, tail)
           out == held \o tail
<1>0. /\ raw \in Seq(Tokens) /\ fed \in 0..Len(raw) /\ Len(raw) \in Nat
      /\ held \in Seq(Tokens) /\ streamed \in Seq(Tokens) /\ screen \in Seq(Tokens)
  BY OnScreen DEF IInv, CallInv
<1>1. /\ pc \in Calling /\ call \in {1, 2} /\ gate # "asked"
      /\ streamed' = IF open THEN streamed \o out ELSE streamed
      /\ screen' = IF open THEN screen \o out ELSE screen
      /\ marked' = FALSE /\ text' = Validated(raw)
      /\ pc' = IF call = 1 THEN "deciding" ELSE "concluding"
      /\ gate' = IF gate = "rung" THEN "late" ELSE gate
      /\ UNCHANGED <<left, days, boost, verdict, recovery, call, kept, result, citedFirst, broke>>
  BY DEF Written, At, Show, CallOver, GateMovesOn, Calling, budget, helpers, history, IInv, CountInv
<1>2. tail \in Seq(Tokens) /\ out \in Seq(Tokens)
  <2>1. tail \in Seq(Tokens)
    BY <1>0, PartIsText
  <2> QED BY <1>0, <2>1, ConcatProperties
<1>3. \A i \in (fed + 1)..Len(raw) : raw[i].kind = "cite" => HasCite(tail)
  <2>1. fed + 1 \in 1..(Len(raw) + 1) /\ Len(raw) \in 0..Len(raw)
    BY <1>0
  <2> QED BY <1>0, <2>1, KindPart DEF HasCite
<1>4. streamed \o out = raw
  <2>1. streamed \o held = SubSeq(raw, 1, fed)
    BY <1>1 DEF GoodInv, ValveInv
  <2>2. streamed \o out = (streamed \o held) \o tail
    <3>1. streamed \in Seq(Tokens) /\ held \in Seq(Tokens) /\ tail \in Seq(Tokens)
      BY <1>0, <1>2
    <3> HIDE DEF tail
    <3>2. (streamed \o held) \o tail = streamed \o (held \o tail)
      BY <3>1, ConcatAssociative
    <3> QED BY <3>2
  <2>3. SubSeq(raw, 1, fed) \o tail = SubSeq(raw, 1, Len(raw))
    <3>1. Len(raw) \in fed..Len(raw)
      BY <1>0
    <3> QED BY <1>0, <3>1, PartsJoin
  <2>4. SubSeq(raw, 1, Len(raw)) = raw
    BY <1>0, SubSeqFull
  <2> QED BY <2>1, <2>2, <2>3, <2>4
<1> HIDE DEF tail, out
<1>5. /\ Validated(raw) \in Seq(Tokens)
      /\ HasCite(Validated(raw)) <=> HasCite(raw)
  BY <1>0, ValidatedIs
<1>6. screen = streamed
  BY <1>1 DEF IInv, ShownInv, Calling
<1>7. ASSUME open PROVE HasCite(raw) /\ streamed' = raw /\ raw # <<>>
  <2>1. CASE released
    <3>1. HasCite(streamed)
      BY <1>1, <2>1 DEF GoodInv, ValveInv
    <3>2. HasCite(streamed \o out)
      BY <1>0, <1>2, <3>1, KindConcat DEF HasCite
    <3> QED BY <1>1, <1>4, <1>7, <3>2, KindNone DEF HasCite
  <2>2. CASE ~released
    <3>1. marked \/ HasCite(tail)
      BY <1>1, <1>7, <2>2 DEF Opens
    <3>2. HasCite(held) \/ HasCite(tail)
      BY <1>1, <2>2, <3>1 DEF GoodInv, ValveInv
    <3>3. HasCite(out)
      BY <1>0, <1>2, <3>2, KindConcat DEF HasCite, out
    <3>4. HasCite(streamed \o out)
      BY <1>0, <1>2, <3>3, KindConcat DEF HasCite
    <3> QED BY <1>1, <1>4, <1>7, <3>4, KindNone DEF HasCite
  <2> QED BY <2>1, <2>2
<1>8. ASSUME ~open PROVE streamed' = <<>> /\ screen' = <<>> /\ screen = <<>>
  BY <1>1, <1>6, <1>8 DEF IInv, ShownInv
<1>9. ASSUME open, ~released
      PROVE  /\ gate = "off" \/ (gate \in {"rung", "late", "heard"} /\ verdict.relevant)
             /\ verdict.missing => gate = "heard" /\ (call = 1 => recovery = "none")
  <2>1. GateAllows
    BY <1>1, <1>9 DEF Opens
  <2> QED BY <2>1 DEF GateAllows, Replacement, GoodInv, JudgeInv, Open
<1>10. ASSUME verdict.relevant, ~verdict.missing, HasCite(raw) PROVE open
  <2>1. GateAllows
    BY <1>1, <1>10 DEF GateAllows, GoodInv, JudgeInv
  <2>2. marked \/ HasCite(tail)
    <3>1. PICK i \in 1..Len(raw) : raw[i].kind = "cite"
      BY <1>0, <1>10 DEF HasCite, HasKind
    <3>2. CASE i <= fed
      BY <1>0, <1>1, <3>1, <3>2 DEF GoodInv, ValveInv
    <3>3. CASE i > fed
      BY <1>0, <1>3, <3>1, <3>3
    <3> QED BY <1>0, <3>1, <3>2, <3>3
  <2> QED BY <1>1, <2>1, <2>2 DEF Opens
<1>11. streamed' \in Seq(Tokens) /\ screen' = streamed'
  BY <1>0, <1>1, <1>2, <1>6, ConcatProperties
<1> HIDE DEF open
<1>12. JudgeInv'
  BY <1>1 DEF GoodInv, JudgeInv
<1>13. ValveInv'
  BY <1>1, <1>11 DEF ValveInv, Calling
<1>14. HandInv'
  <2>1. streamed' # <<>> => text' = Validated(streamed')
    BY <1>1, <1>7, <1>8
  <2>2. verdict'.relevant /\ ~verdict'.missing /\ HasCite(text') => streamed' # <<>>
    BY <1>1, <1>5, <1>7, <1>10
  <2> QED BY <1>1, <2>1, <2>2 DEF HandInv, Calling
<1>15. FirstInv'
  BY <1>1, <1>5 DEF GoodInv, FirstInv, Calling, After
<1>16. ReplacedInv'
  <2>1. ASSUME call = 1, streamed' # <<>>, verdict.missing PROVE gate' = "heard" /\ recovery = "none"
    <3>1. CASE released
      <4>1. streamed # <<>>
        BY <1>1, <3>1, KindNone DEF GoodInv, ValveInv, HasCite
      <4> QED BY <1>1, <2>1, <4>1 DEF GoodInv, ReplacedInv
    <3>2. CASE ~released
      BY <1>1, <1>8, <1>9, <2>1, <3>2
    <3> QED BY <3>1, <3>2
  <2> QED BY <1>1, <2>1 DEF GoodInv, ReplacedInv, Calling, After
<1>17. ShownIsGood'
  <2>1. CASE ~open
    BY <1>8, <2>1 DEF ShownIsGood
  <2>2. CASE open /\ released
    <3>1. screen # <<>>
      BY <1>1, <1>6, <2>2, KindNone DEF GoodInv, ValveInv, HasCite
    <3> QED BY <1>1, <1>7, <1>11, <2>2, <3>1 DEF GoodInv, ShownIsGood, Calling
  <2>3. CASE open /\ ~released
    BY <1>1, <1>7, <1>9, <1>11, <2>3 DEF ShownIsGood
  <2> QED BY <2>1, <2>2, <2>3
<1>18. CitedKept' /\ Kept
  BY <1>0, <1>1, <1>2, PrefixOf DEF CitedKept, Kept
<1> QED BY <1>12, <1>13, <1>14, <1>15, <1>16, <1>17, <1>18 DEF GoodInv

LEMMA FirstFailsGood ==
  ASSUME IInv, GoodInv, NEW late \in BOOLEAN, FirstFails(late)
  PROVE  GoodInv' /\ Kept
<1>1. /\ screen' = (IF streamed # <<>> THEN <<>> ELSE screen)
      /\ Conclude(IF late THEN "timeout" ELSE "failed", <<>>)
      /\ gate' = gate \/ (gate' = "heard" /\ gate # "off")
      /\ broke' = TRUE /\ UNCHANGED <<verdict, boost, citedFirst, days>>
  BY DEF FirstFails, budget
<1>2. screen' \in Seq(Tokens)
  BY <1>1, OnScreen, NoText
<1>3. (IF late THEN "timeout" ELSE "failed") # "no_citations"
  OBVIOUS
<1>4. GoodInv'
  BY <1>1, <1>2, <1>3, ConcludeGood
<1> QED BY <1>1, <1>4 DEF Kept

LEMMA SecondFailsGood ==
  ASSUME IInv, GoodInv, NEW late \in BOOLEAN, SecondFails(late)
  PROVE  GoodInv' /\ Kept
<1>1. /\ pc = "streaming" /\ call = 2 /\ pc' = "concluding"
      /\ screen' = (IF streamed # <<>> THEN <<>> ELSE screen) /\ streamed' = <<>>
      /\ text' = kept.text /\ verdict' = kept.verdict /\ marked' = FALSE
      /\ gate' = IF gate = "off" THEN "off" ELSE "heard"
      /\ broke' = TRUE
      /\ UNCHANGED <<left, days, boost, recovery, call, kept, result, citedFirst>>
  BY DEF SecondFails, At, CallOver, budget, helpers
<1>2. screen' = <<>>
  BY <1>1 DEF IInv, ShownInv
<1>3. kept.verdict \in Verdicts /\ (kept.verdict.missing \/ ~HasCite(kept.text))
  BY <1>1 DEF GoodInv, HandInv, Calling
<1>4. JudgeInv'
  BY <1>1, <1>3 DEF GoodInv, JudgeInv
<1>5. ValveInv' /\ HandInv'
  BY <1>1, <1>2, <1>3, NoText DEF ValveInv, HandInv, Calling
<1>6. FirstInv' /\ ReplacedInv'
  BY <1>1 DEF FirstInv, ReplacedInv, Calling, After
<1>7. ShownIsGood' /\ CitedKept' /\ Kept
  BY <1>1, <1>2 DEF ShownIsGood, CitedKept, Kept
<1> QED BY <1>4, <1>5, <1>6, <1>7 DEF GoodInv

LEMMA AppendFailsGood ==
  ASSUME IInv, GoodInv, NEW late \in BOOLEAN, AppendFails(late)
  PROVE  GoodInv' /\ Kept
<1>1. /\ pc = "streaming" /\ call = 3 /\ pc' = "finishing"
      /\ text' = kept.text /\ marked' = FALSE /\ broke' = TRUE
      /\ UNCHANGED <<left, days, boost, gate, verdict, recovery, call, kept, screen, result,
                     citedFirst>>
  BY DEF AppendFails, At, CallOver, budget, judge, helpers, output
<1>2. HasCite(kept.text)
  BY <1>1 DEF GoodInv, HandInv
<1>3. JudgeInv'
  BY <1>1 DEF GoodInv, JudgeInv
<1>4. ValveInv'
  BY <1>1 DEF GoodInv, ValveInv, Calling
<1>5. HandInv'
  BY <1>1, <1>2 DEF HandInv, Calling
<1>6. FirstInv' /\ ReplacedInv'
  BY <1>1 DEF FirstInv, ReplacedInv, Calling, After
<1>7. ShownIsGood' /\ CitedKept' /\ Kept
  BY <1>1 DEF GoodInv, ShownIsGood, CitedKept, Kept
<1> QED BY <1>3, <1>4, <1>5, <1>6, <1>7 DEF GoodInv


\* The end of a paragraph: what is on the screen is the text, but for markers of
\* no source.
LEMMA AppendedGood ==
  ASSUME IInv, GoodInv, Appended
  PROVE  GoodInv' /\ Kept
<1> DEFINE tail == SubSeq(raw, fed + 1, Len(raw))
           out == held \o tail
<1>0. /\ raw \in Seq(Tokens) /\ fed \in 0..Len(raw) /\ Len(raw) \in Nat
      /\ held \in Seq(Tokens) /\ streamed \in Seq(Tokens) /\ screen \in Seq(Tokens)
  BY OnScreen DEF IInv, CallInv
<1>1. /\ pc = "streaming" /\ call = 3 /\ pc' = "finishing" /\ marked' = FALSE
      /\ text' = IF HasCite(raw) THEN kept.text \o Validated(raw) ELSE kept.text
      /\ streamed' = kept.streamed \o (IF HasCite(raw) THEN streamed \o out ELSE <<>>)
      /\ screen' = IF HasCite(raw) THEN screen \o out ELSE screen
      /\ UNCHANGED <<left, days, boost, gate, verdict, recovery, call, kept, result,
                     citedFirst, broke>>
  BY DEF Appended, At, CallOver, budget, judge, helpers, history
<1>2. tail \in Seq(Tokens) /\ out \in Seq(Tokens)
  <2>1. tail \in Seq(Tokens)
    BY <1>0, PartIsText
  <2> QED BY <1>0, <2>1, ConcatProperties
<1>3. streamed \o out = raw
  <2>1. streamed \o held = SubSeq(raw, 1, fed)
    BY <1>1 DEF GoodInv, ValveInv, Calling
  <2>2. streamed \o out = (streamed \o held) \o tail
    <3>1. streamed \in Seq(Tokens) /\ held \in Seq(Tokens) /\ tail \in Seq(Tokens)
      BY <1>0, <1>2
    <3> HIDE DEF tail
    <3>2. (streamed \o held) \o tail = streamed \o (held \o tail)
      BY <3>1, ConcatAssociative
    <3> QED BY <3>2
  <2>3. SubSeq(raw, 1, fed) \o tail = SubSeq(raw, 1, Len(raw))
    <3>1. Len(raw) \in fed..Len(raw)
      BY <1>0
    <3> QED BY <1>0, <3>1, PartsJoin
  <2>4. SubSeq(raw, 1, Len(raw)) = raw
    BY <1>0, SubSeqFull
  <2> QED BY <2>1, <2>2, <2>3, <2>4
<1> HIDE DEF tail, out
<1>4. /\ kept.streamed # <<>> /\ kept.streamed \in Seq(Tokens) /\ screen = kept.streamed \o streamed
      /\ kept.text = Validated(kept.streamed) /\ HasCite(kept.text) /\ kept.text \in Seq(Tokens)
      /\ ~HasCite(raw) => streamed = <<>>
  BY <1>1 DEF GoodInv, HandInv, IInv, ShownInv, TextInv, Calling
<1>5. /\ Validated(raw) \in Seq(Tokens)
      /\ ~HasKind(raw, "bad") => Validated(raw) = raw
      /\ ~HasKind(kept.streamed, "bad") => Validated(kept.streamed) = kept.streamed
  BY <1>0, <1>4, ValidatedIs
<1>6. HasCite(text')
  <2> DEFINE paragraph == Validated(raw)
  <2>1. HasCite(kept.text \o paragraph)
    <3>1. paragraph \in Seq(Tokens) /\ kept.text \in Seq(Tokens) /\ HasKind(kept.text, "cite")
      BY <1>4, <1>5 DEF HasCite
    <3> HIDE DEF paragraph
    <3> QED BY <3>1, KindConcat DEF HasCite
  <2> QED BY <1>1, <1>4, <2>1
<1>7. streamed' = text' \/ HasKind(streamed', "bad")
  <2>1. CASE HasCite(raw)
    <3>1. streamed' = kept.streamed \o raw /\ text' = kept.text \o Validated(raw)
      BY <1>1, <1>3, <2>1
    <3>2. HasKind(streamed', "bad") <=> HasKind(kept.streamed, "bad") \/ HasKind(raw, "bad")
      BY <1>0, <1>4, <3>1, KindConcat
    <3> QED BY <1>4, <1>5, <3>1, <3>2
  <2>2. CASE ~HasCite(raw)
    <3>1. streamed' = kept.streamed
      BY <1>1, <1>4, <2>2, ConcatEmptySeq
    <3> QED BY <1>1, <1>4, <1>5, <2>2, <3>1
  <2> QED BY <2>1, <2>2
<1>8. screen' \in Seq(Tokens)
  BY <1>0, <1>1, <1>2, ConcatProperties
<1>9. JudgeInv'
  BY <1>1 DEF GoodInv, JudgeInv
<1>10. ValveInv'
  BY <1>1, <1>8 DEF ValveInv, Calling
<1>11. HandInv'
  <2>1. pc' = "finishing" /\ call' = 3
    BY <1>1
  <2> QED BY <1>6, <1>7, <2>1 DEF HandInv, Calling
<1>12. FirstInv' /\ ReplacedInv'
  BY <1>1 DEF FirstInv, ReplacedInv, Calling, After
<1>13. ShownIsGood'
  <2>1. screen # <<>>
    BY <1>0, <1>4, ConcatEqualIffEmpty, ConcatProperties
  <2>2. HasCite(screen')
    BY <1>0, <1>1, <1>2, <2>1, KindConcat DEF GoodInv, ShownIsGood, HasCite
  <2> QED BY <1>1, <2>1, <2>2 DEF GoodInv, ShownIsGood
<1>14. CitedKept' /\ Kept
  BY <1>0, <1>1, <1>2, PrefixOf DEF CitedKept, Kept
<1> QED BY <1>9, <1>10, <1>11, <1>12, <1>13, <1>14 DEF GoodInv

LEMMA StreamingGood ==
  ASSUME IInv, GoodInv, Streaming
  PROVE  GoodInv' /\ Kept
BY PieceGood, AbandonGood, AwaitJudgeGood, WrittenGood, FirstFailsGood, SecondFailsGood,
   AppendFailsGood, AppendedGood
   DEF Streaming

\* Before its verdict nothing is shown; a verdict that is heard starts a search
\* only for a text that may not be shown.
LEMMA HelpingGood ==
  ASSUME IInv, GoodInv, Helping
  PROVE  GoodInv' /\ Kept
<1>0. Kept
  <2>1. screen' = screen
    BY DEF Helping, Judge, Hear, Recovered, output
  <2> QED BY <2>1, OnScreen, PrefixOf DEF Kept
<1>1. ASSUME NEW v \in Verdicts, Judge(v) PROVE GoodInv'
  <2>1. /\ pc \in Calling /\ gate = "asked" /\ call < 3 /\ verdict' = v /\ gate' = "rung"
        /\ UNCHANGED <<pc, left, days, boost, recovery, call, raw, fed, held, streamed, marked,
                       released, text, kept, screen, result, citedFirst, broke>>
    BY <1>1 DEF Judge, Calling, budget, helpers, stream, hand, output, history
  <2>2. screen = <<>> /\ streamed = <<>>
    BY <2>1, OnScreen DEF Calling
  <2>3. JudgeInv' /\ ValveInv'
    BY <2>1 DEF GoodInv, JudgeInv, ValveInv, Calling
  <2>4. HandInv' /\ FirstInv' /\ ReplacedInv'
    BY <2>1, <2>2 DEF GoodInv, HandInv, FirstInv, ReplacedInv, Calling, After
  <2>5. ShownIsGood' /\ CitedKept'
    BY <2>1, <2>2 DEF ShownIsGood, CitedKept, Calling
  <2> QED BY <2>3, <2>4, <2>5 DEF GoodInv
<1>2. ASSUME Hear PROVE GoodInv'
  <2>1. /\ gate \in {"rung", "late"} /\ gate' = "heard"
        /\ recovery' = IF /\ call = 1 /\ verdict.missing /\ recovery = "none"
                          /\ ~boost \/ ~verdict.relevant
                          /\ left > 0
                       THEN "running" ELSE recovery
        /\ UNCHANGED <<pc, left, days, boost, verdict, call, raw, fed, held, streamed, marked,
                       released, text, kept, screen, result, citedFirst, broke>>
    BY <1>2 DEF Hear, budget, stream, hand, output, history
  <2>2. recovery' = "hits" <=> recovery = "hits"
    BY <2>1
  <2>3. JudgeInv' /\ ValveInv'
    BY <2>1 DEF GoodInv, JudgeInv, ValveInv, Calling
  <2>4. HandInv' /\ FirstInv'
    BY <2>1, <2>2 DEF GoodInv, HandInv, FirstInv, Calling, After
  <2>5. ReplacedInv'
    <3>1. left \in Nat
      BY DEF IInv, CountInv
    <3>2. call = 1 /\ verdict.missing /\ recovery' = "none" => boost \/ left = 0
      BY <2>1, <3>1
    <3> QED BY <2>1, <3>2 DEF GoodInv, ReplacedInv, Calling, After
  <2>6. ShownIsGood' /\ CitedKept'
    BY <2>1, <2>2 DEF GoodInv, ShownIsGood, CitedKept
  <2> QED BY <2>3, <2>4, <2>5, <2>6 DEF GoodInv
<1>3. ASSUME NEW found \in BOOLEAN, Recovered(found) PROVE GoodInv'
  <2>1. /\ recovery = "running" /\ recovery' \in {"hits", "nothing"}
        /\ UNCHANGED <<pc, left, days, boost, gate, verdict, call, raw, fed, held, streamed, marked,
                       released, text, kept, screen, result, citedFirst, broke>>
    BY <1>3 DEF Recovered, budget, judge, stream, hand, output, history
  <2>2. JudgeInv' /\ ValveInv'
    BY <2>1 DEF GoodInv, JudgeInv, ValveInv, Calling
  <2>3. HandInv' /\ FirstInv' /\ ReplacedInv'
    BY <2>1 DEF GoodInv, HandInv, FirstInv, ReplacedInv, Calling, After
  <2>4. ShownIsGood' /\ CitedKept'
    BY <2>1 DEF GoodInv, ShownIsGood, CitedKept
  <2> QED BY <2>2, <2>3, <2>4 DEF GoodInv
<1> QED BY <1>0, <1>1, <1>2, <1>3 DEF Helping

LEMMA DecideGood ==
  ASSUME IInv, GoodInv, NEW time \in BOOLEAN, Decide(time)
  PROVE  GoodInv' /\ Kept
<1>1. /\ pc = "deciding" /\ kept' = InHand
      /\ pc' \in {"concluding", "retrying", "recovering"}
      /\ pc' # "concluding" => NeedsRetry
      /\ UNCHANGED <<left, days, boost, gate, verdict, recovery, call, raw, fed, held, streamed,
                     marked, released, text, screen, result, citedFirst, broke>>
  BY DEF Decide, budget, judge, helpers, stream, output, history
<1>2. kept'.text = text /\ kept'.streamed = streamed /\ kept'.verdict = verdict /\ call = 1
  BY <1>1 DEF InHand, GoodInv, JudgeInv
<1>3. JudgeInv'
  BY <1>1, <1>2 DEF GoodInv, JudgeInv
<1>4. ValveInv'
  BY <1>1 DEF GoodInv, ValveInv, Calling
<1>5. HandInv'
  BY <1>1, <1>2 DEF GoodInv, JudgeInv, HandInv, NeedsRetry, Calling, After
<1>6. FirstInv'
  BY <1>1 DEF GoodInv, FirstInv, Calling, After
<1>7. ASSUME pc' \in {"retrying", "recovering"}, streamed # <<>> PROVE days > 0
  <2>1. HasCite(text) /\ verdict.relevant
    BY <1>1, <1>2, <1>7, OnScreen DEF After
  <2>2. verdict.missing /\ ~boost /\ left > 0
    BY <1>1, <1>7, <2>1 DEF NeedsRetry
  <2>3. left \in Nat /\ days \in Nat
    BY DEF IInv, CountInv, GoodInv, JudgeInv
  <2> QED BY <1>1, <1>2, <1>7, <2>2, <2>3 DEF GoodInv, ReplacedInv, After
<1>8. ReplacedInv'
  BY <1>1, <1>7 DEF GoodInv, ReplacedInv, Calling, After
<1>9. ShownIsGood' /\ CitedKept' /\ Kept
  BY <1>1, OnScreen, PrefixOf DEF GoodInv, ShownIsGood, CitedKept, Kept
<1> QED BY <1>3, <1>4, <1>5, <1>6, <1>8, <1>9 DEF GoodInv

\* A step after a call that shows nothing and searches for nothing.
LEMMA MoveGood ==
  ASSUME IInv, GoodInv, pc \in {"retrying", "recovering", "concluding", "reading"},
         pc' \in {"concluding", "reading", "finishing"},
         pc' = "reading" => verdict.relevant /\ ~verdict.missing /\ HasCite(text),
         gate' = gate \/ (gate = "rung" /\ gate' = "late"),
         UNCHANGED <<left, days, boost, verdict, recovery, stream, hand, output, history>>
  PROVE  GoodInv' /\ Kept
<1>1. call < 3
  BY DEF IInv, CountInv
<1>2. UNCHANGED <<call, raw, fed, held, streamed, marked, released, text, kept, screen, result,
                  citedFirst, broke>>
  BY DEF stream, hand, output, history
<1>3. JudgeInv'
  BY <1>2 DEF GoodInv, JudgeInv
<1>4. ValveInv'
  BY <1>2 DEF GoodInv, ValveInv, Calling
<1>5. HandInv'
  BY <1>1, <1>2 DEF GoodInv, HandInv, Calling, After
<1>6. FirstInv' /\ ReplacedInv'
  BY <1>2 DEF GoodInv, FirstInv, ReplacedInv, Calling, After
<1>7. ShownIsGood' /\ CitedKept' /\ Kept
  BY <1>2, OnScreen, PrefixOf DEF GoodInv, ShownIsGood, CitedKept, Kept
<1> QED BY <1>3, <1>4, <1>5, <1>6, <1>7 DEF GoodInv

LEMMA RetrievedGood ==
  ASSUME IInv, GoodInv, NEW found \in BOOLEAN, NEW time \in BOOLEAN, Retrieved(found, time)
  PROVE  GoodInv' /\ Kept
<1>1. pc \in {"retrying", "recovering"}
  BY DEF Retrieved, Retried, Joined, At
<1>2. CASE found /\ time /\ left > 0
  <2>1. /\ pc' = "streaming" /\ call' = 2 /\ streamed' = <<>> /\ verdict' = Open
        /\ screen' = (IF streamed # <<>> THEN <<>> ELSE screen)
        /\ gate' = (IF gate = "off" THEN "off" ELSE "asked")
        /\ UNCHANGED <<days, boost, recovery, raw, fed, held, marked, released, text, kept, result,
                       citedFirst, broke>>
    BY <1>2 DEF Retrieved, Begin, helpers, hand, history
  <2>2. screen = streamed /\ screen' = <<>>
    BY <1>1, <2>1, OnScreen
  <2>3. raw = <<>> /\ held = <<>> /\ fed = 0 /\ ~marked /\ ~released
    BY <1>1 DEF IInv, CallInv, GoodInv, ValveInv, Calling
  <2>4. Open \in Verdicts
    BY DEF Open, Verdicts
  <2>5. JudgeInv'
    BY <2>1, <2>4 DEF GoodInv, JudgeInv
  <2>6. ValveInv'
    <3>1. <<>> \o <<>> = SubSeq(<<>>, 1, 0)
      BY SubSeqEmpty
    <3>2. ~marked' /\ ~released' /\ fed' = 0 /\ held' = <<>> /\ raw' = <<>>
      BY <2>1, <2>3
    <3>3. streamed' \o held' = SubSeq(raw', 1, fed')
      BY <2>1, <3>1, <3>2
    <3>4. screen' \in Seq(Tokens) /\ ~\E i \in 1..fed' : TRUE
      BY <2>2, <3>2, NoText
    <3> QED BY <3>2, <3>3, <3>4 DEF ValveInv
  <2>7. HandInv'
    BY <1>1, <2>1 DEF GoodInv, HandInv, Calling, After
  <2>8. FirstInv' /\ ReplacedInv'
    BY <2>1 DEF FirstInv, ReplacedInv, Calling, After
  <2>9. ShownIsGood' /\ CitedKept'
    BY <2>1, <2>2 DEF ShownIsGood, CitedKept
  <2>10. Kept
    <3>1. CASE streamed = <<>>
      BY <2>2, <3>1, NoText, PrefixOf DEF Kept
    <3>2. CASE streamed # <<>>
      BY <1>1, <3>2 DEF GoodInv, ReplacedInv, Kept
    <3> QED BY <3>1, <3>2
  <2> QED BY <2>5, <2>6, <2>7, <2>8, <2>9, <2>10 DEF GoodInv
<1>3. CASE ~(found /\ time /\ left > 0)
  <2>1. /\ pc' = "concluding" /\ gate' = (IF gate = "rung" THEN "late" ELSE gate)
        /\ UNCHANGED <<left, days, boost, verdict, recovery, stream, hand, output, history>>
    BY <1>3 DEF Retrieved, GateMovesOn, helpers, output
  <2> QED BY <1>1, <2>1, MoveGood
<1> QED BY <1>2, <1>3

LEMMA ReadDetailsGood ==
  ASSUME IInv, GoodInv, ReadDetails \/ NoDetails
  PROVE  GoodInv' /\ Kept
<1>1. /\ pc = "concluding" /\ pc' \in {"reading", "finishing"}
      /\ pc' = "reading" => verdict.relevant /\ ~verdict.missing /\ HasCite(text)
      /\ UNCHANGED <<left, days, boost, gate, verdict, recovery, stream, hand, output, history>>
  BY DEF ReadDetails, NoDetails, WantsDetails, budget, judge, helpers
<1> QED BY <1>1, MoveGood


LEMMA HarvestGood ==
  ASSUME IInv, GoodInv, NEW arrived \in BOOLEAN, Harvest(arrived)
  PROVE  GoodInv' /\ Kept
<1>1. pc = "reading" /\ call < 3
  BY DEF Harvest, At, IInv, CountInv
<1>2. CASE arrived /\ left > 0
  <2>1. /\ pc' = "streaming" /\ call' = 3 /\ streamed' = <<>> /\ kept' = InHand
        /\ gate' = (IF gate = "rung" THEN "late" ELSE gate)
        /\ UNCHANGED <<days, boost, verdict, recovery, raw, fed, held, marked, released, text,
                       screen, result, citedFirst, broke>>
    BY <1>2 DEF Harvest, Begin, GateMovesOn, output, history
  <2>2. kept'.text = text /\ kept'.streamed = streamed /\ kept'.verdict = verdict
    BY <2>1 DEF InHand
  <2>3. raw = <<>> /\ held = <<>> /\ fed = 0
    BY <1>1 DEF IInv, CallInv, Calling
  <2>4. JudgeInv'
    BY <2>1, <2>2 DEF GoodInv, JudgeInv
  <2>5. ValveInv'
    <3>1. <<>> \o <<>> = SubSeq(<<>>, 1, 0)
      BY SubSeqEmpty
    <3>2. streamed' \o held' = SubSeq(raw', 1, fed')
      BY <2>1, <2>3, <3>1
    <3> QED BY <2>1, <3>2, OnScreen DEF ValveInv, Calling
  <2>6. HandInv'
    <3>1. verdict.relevant /\ ~verdict.missing /\ HasCite(text)
      BY <1>1 DEF GoodInv, HandInv
    <3>2. streamed # <<>> /\ text = Validated(streamed)
      BY <1>1, <3>1 DEF GoodInv, HandInv, After
    <3> QED BY <2>1, <2>2, <3>1, <3>2 DEF HandInv, After
  <2>7. FirstInv' /\ ReplacedInv'
    BY <2>1 DEF FirstInv, ReplacedInv, Calling, After
  <2>8. ShownIsGood' /\ CitedKept' /\ Kept
    BY <1>1, <2>1, OnScreen, PrefixOf DEF GoodInv, ShownIsGood, CitedKept, Kept
  <2> QED BY <2>4, <2>5, <2>6, <2>7, <2>8 DEF GoodInv
<1>3. CASE ~(arrived /\ left > 0)
  <2>1. /\ pc' = "finishing" /\ gate' = (IF gate = "rung" THEN "late" ELSE gate)
        /\ UNCHANGED <<left, days, boost, verdict, recovery, stream, hand, output, history>>
    BY <1>3 DEF Harvest, GateMovesOn, hand
  <2> QED BY <1>1, <2>1, MoveGood
<1> QED BY <1>2, <1>3

\* What is withheld was never on the screen.
LEMMA WithholdGood ==
  ASSUME IInv, GoodInv, Withhold
  PROVE  GoodInv' /\ Kept
<1>1. /\ pc = "finishing" /\ (~verdict.relevant \/ ~HasCite(text))
      /\ screen' = (IF streamed # <<>> THEN <<>> ELSE screen)
      /\ Conclude(IF ~verdict.relevant THEN "irrelevant" ELSE "no_citations", <<>>)
      /\ UNCHANGED <<days, boost, gate, verdict, citedFirst, broke>>
  BY DEF Withhold, budget, judge, history
<1>2. call \in 1..3 /\ screen = streamed
  BY <1>1, OnScreen DEF IInv, CountInv
<1>3. streamed = <<>>
  <2> SUFFICES ASSUME streamed # <<>> PROVE FALSE
    OBVIOUS
  <2>1. verdict.relevant
    BY <1>1, <1>2, OnScreen
  <2>2. HasCite(text)
    BY <1>1, <1>2, OnScreen DEF After, GoodInv, HandInv
  <2> QED BY <1>1, <2>1, <2>2
<1>4. screen' \in Seq(Tokens) /\ Kept
  BY <1>1, <1>2, <1>3, NoText, PrefixOf DEF Kept
<1>5. verdict.relevant /\ citedFirst => recovery = "hits" \/ call = 2
  BY <1>1, <1>2 DEF GoodInv, FirstInv, HandInv, After
<1>6. broke' \in BOOLEAN
  BY <1>1 DEF GoodInv, JudgeInv
<1>7. GoodInv'
  BY <1>1, <1>4, <1>5, <1>6, ConcludeGood
<1> QED BY <1>4, <1>7

\* What is published is what was on the screen, but for markers of no source, or
\* nothing was.
LEMMA PublishGood ==
  ASSUME IInv, GoodInv, Publish
  PROVE  GoodInv' /\ Kept
<1>1. /\ pc = "finishing" /\ verdict.relevant /\ HasCite(text)
      /\ Conclude("ok", text)
      /\ UNCHANGED <<days, boost, gate, verdict, citedFirst, broke>>
      /\ screen' = IF streamed = text THEN screen
                   ELSE (IF streamed # <<>> THEN <<>> ELSE screen) \o text
  BY DEF Publish, budget, judge, history
<1>2. /\ call \in 1..3 /\ screen = streamed /\ text \in Seq(Tokens) /\ streamed \in Seq(Tokens)
      /\ broke' \in BOOLEAN
  BY <1>1, OnScreen DEF IInv, CountInv, TextInv, GoodInv, JudgeInv
<1>3. screen' = text
  BY <1>1, <1>2, ConcatEmptySeq
<1>4. GoodInv'
  BY <1>1, <1>2, <1>3, ConcludeGood
<1>5. streamed = <<>> \/ streamed = text \/ HasKind(streamed, "bad") \/ broke
  <2>1. CASE call = 3
    BY <1>1, <2>1 DEF GoodInv, HandInv
  <2>2. CASE call < 3
    BY <1>1, <1>2, <2>2, ValidatedIs DEF GoodInv, HandInv, After
  <2> QED BY <1>2, <2>1, <2>2
<1>6. IsPrefix(text, text) /\ IsPrefix(<<>>, <<>> \o text) /\ <<>> \o text = text
  BY <1>2, NoText, PrefixOf, ConcatEmptySeq
<1>7. Kept
  BY <1>1, <1>2, <1>3, <1>5, <1>6 DEF Kept
<1> QED BY <1>4, <1>7

LEMMA ClosingGood ==
  ASSUME IInv, GoodInv, Closing
  PROVE  GoodInv' /\ Kept
BY DecideGood, RetrievedGood, ReadDetailsGood, HarvestGood, WithholdGood, PublishGood DEF Closing

LEMMA OthersGood ==
  ASSUME IInv, GoodInv, OthersPay \/ NewDay
  PROVE  GoodInv' /\ Kept
<1>1. /\ left \in Nat /\ days \in Nat
      /\ left' \in Nat /\ days' \in Nat
      /\ (left = 0 => left' = 0 \/ days' > 0) /\ (days > 0 => days' > 0)
      /\ UNCHANGED <<pc, boost, gate, verdict, recovery, call, raw, fed, held, streamed,
                     marked, released, text, kept, screen, result, citedFirst, broke>>
  BY OverviewAssumption
     DEF OthersPay, NewDay, IInv, CountInv, GoodInv, JudgeInv, judge, helpers, stream, hand, output,
         history
<1>2. JudgeInv'
  BY <1>1 DEF GoodInv, JudgeInv
<1>3. ValveInv'
  BY <1>1 DEF GoodInv, ValveInv, Calling
<1>4. HandInv' /\ FirstInv'
  BY <1>1 DEF GoodInv, HandInv, FirstInv, Calling, After
<1>5. ReplacedInv'
  BY <1>1 DEF GoodInv, ReplacedInv, Calling, After
<1>6. ShownIsGood' /\ CitedKept' /\ Kept
  BY <1>1, OnScreen, PrefixOf DEF GoodInv, ShownIsGood, CitedKept, Kept
<1> QED BY <1>2, <1>3, <1>4, <1>5, <1>6 DEF GoodInv

LEMMA InitGood == Init => GoodInv
<1> SUFFICES ASSUME Init PROVE GoodInv
  OBVIOUS
<1>1. /\ pc = "start" /\ days = 0 /\ boost = FALSE /\ gate \in {"asked", "off"} /\ verdict = Open
      /\ recovery = "none" /\ call = 1 /\ marked = FALSE /\ kept.verdict = Open /\ screen = <<>>
      /\ citedFirst = FALSE /\ broke = FALSE /\ Open \in Verdicts
  BY OverviewAssumption DEF Init, Nothing, Open, Verdicts
<1>2. JudgeInv /\ ValveInv /\ HandInv
  BY <1>1, NoText DEF JudgeInv, ValveInv, HandInv, Calling, After
<1>3. FirstInv /\ ReplacedInv /\ ShownIsGood /\ CitedKept
  BY <1>1 DEF FirstInv, ReplacedInv, ShownIsGood, CitedKept, Calling, After
<1> QED BY <1>2, <1>3 DEF GoodInv

LEMMA StepGood ==
  ASSUME IInv, GoodInv, [Next]_vars
  PROVE  GoodInv' /\ (Kept \/ UNCHANGED vars)
<1>1. CASE Advance
  BY <1>1, SearchGood, StreamingGood, HelpingGood, ClosingGood DEF Advance
<1>2. CASE OthersPay \/ NewDay
  BY <1>2, OthersGood
<1>3. CASE UNCHANGED vars
  <2>1. UNCHANGED <<pc, left, days, boost, gate, verdict, recovery, call, raw, fed, held, streamed,
                    marked, released, text, kept, screen, result, citedFirst, broke>>
    BY <1>3 DEF vars, budget, judge, helpers, stream, hand, output, history
  <2>2. JudgeInv'
    BY <2>1 DEF GoodInv, JudgeInv
  <2>3. ValveInv'
    BY <2>1 DEF GoodInv, ValveInv, Calling
  <2>4. HandInv'
    BY <2>1 DEF GoodInv, HandInv, Calling, After
  <2>5. FirstInv' /\ ReplacedInv' /\ ShownIsGood' /\ CitedKept'
    BY <2>1 DEF GoodInv, FirstInv, ReplacedInv, ShownIsGood, CitedKept, Calling, After
  <2> QED BY <1>3, <2>2, <2>3, <2>4, <2>5 DEF GoodInv
<1> QED BY <1>1, <1>2, <1>3 DEF Next, Ended

\* What is on the screen before the end cites and was let through by the judge,
\* and a relevant text that cites is not given up for a search that finds
\* nothing, for texts of any length and any budget (_attempt, _on_verdict).
THEOREM GoodTextKeptHolds == Spec => []GoodTextKept
<1>1. IInv /\ GoodInv => GoodTextKept
  BY DEF GoodInv, GoodTextKept
<1>2. IInv /\ GoodInv /\ [Next]_vars => (IInv /\ GoodInv)'
  BY StepInv, StepGood
<1> QED BY <1>1, <1>2, InitInv, InitGood, PTL DEF Spec

\* No step takes a text off the screen but for a marker of no source, a call that
\* failed, or a budget that midnight renewed (_gate_allows, _generate).
THEOREM NotTakenBackHolds == Spec => NotTakenBack
<1>1. IInv /\ GoodInv /\ [Next]_vars => (IInv /\ GoodInv)'
  BY StepInv, StepGood
<1>2. IInv /\ GoodInv /\ [Next]_vars =>
        [IsPrefix(screen, screen') \/ HasKind(screen, "bad") \/ broke' \/ days > 0]_vars
  BY StepGood DEF Kept
<1> QED BY <1>1, <1>2, InitInv, InitGood, PTL DEF Spec, NotTakenBack

-----------------------------------------------------------------------------
(* A generation is finite. *)

\* Ranks are compared from their first part on, and there is no endless descent.
Less == OpToRel(<, Nat)
Below == LexProductOrdering(Less, Nat, 6)
Ranks == [1..6 -> Nat]

LEMMA BelowWellFounded == IsWellFoundedOn(Below, Ranks)
<1>1. IsWellFoundedOn(Less, Nat)
  BY NatLessThanWellFounded, Zenon DEF Less
<1> QED
  BY <1>1, WFLexProductOrdering, Zenon DEF Below, Ranks

\* A rank is lower when one part is and those before it are the same.
LEMMA LowerRank ==
  ASSUME NEW a \in Ranks, NEW b \in Ranks,
         \/ a[1] < b[1]
         \/ a[1] = b[1] /\ a[2] < b[2]
         \/ a[1] = b[1] /\ a[2] = b[2] /\ a[3] < b[3]
         \/ a[1] = b[1] /\ a[2] = b[2] /\ a[3] = b[3] /\ a[4] < b[4]
         \/ a[1] = b[1] /\ a[2] = b[2] /\ a[3] = b[3] /\ a[4] = b[4] /\ a[5] < b[5]
         \/ /\ a[1] = b[1] /\ a[2] = b[2] /\ a[3] = b[3] /\ a[4] = b[4] /\ a[5] = b[5]
            /\ a[6] < b[6]
  PROVE  <<a, b>> \in Below
<1>1. \E j \in 1..6 : a[j] < b[j] /\ \A i \in 1..(j - 1) : a[i] = b[i]
  <2>1. CASE a[1] < b[1]
    BY <2>1
  <2>2. CASE a[1] = b[1] /\ a[2] < b[2]
    BY <2>2
  <2>3. CASE a[1] = b[1] /\ a[2] = b[2] /\ a[3] < b[3]
    BY <2>3
  <2>4. CASE a[1] = b[1] /\ a[2] = b[2] /\ a[3] = b[3] /\ a[4] < b[4]
    BY <2>4
  <2>5. CASE a[1] = b[1] /\ a[2] = b[2] /\ a[3] = b[3] /\ a[4] = b[4] /\ a[5] < b[5]
    BY <2>5
  <2>6. CASE /\ a[1] = b[1] /\ a[2] = b[2] /\ a[3] = b[3] /\ a[4] = b[4] /\ a[5] = b[5]
            /\ a[6] < b[6]
    BY <2>6
  <2> QED
    BY <2>1, <2>2, <2>3, <2>4, <2>5, <2>6
<1>2. PICK j \in 1..6 : a[j] < b[j] /\ \A i \in 1..(j - 1) : a[i] = b[i]
  BY <1>1
<1>3. <<a[j], b[j]>> \in Less
  BY <1>2 DEF OpToRel, Less, Ranks
<1> QED
  BY <1>2, <1>3, Zenon DEF Below, LexProductOrdering, Ranks

\* How far the end is: a call by its number, its text, its judge, the search
\* that the verdict started.
Stage(place, n) ==
    CASE place = "start" -> 13 [] place = "searching" -> 12
      [] place = "streaming" -> (IF n = 1 THEN 11 ELSE IF n = 2 THEN 7 ELSE 3)
      [] place = "closing" -> (IF n = 1 THEN 10 ELSE 6)
      [] place = "deciding" -> 9 [] place \in {"retrying", "recovering"} -> 8
      [] place = "concluding" -> 5 [] place = "reading" -> 4
      [] place = "finishing" -> 2 [] OTHER -> 0

JudgeLeft(g) == CASE g = "asked" -> 3 [] g = "rung" -> 2 [] g = "late" -> 1 [] OTHER -> 0
SearchLeft(r) == CASE r = "none" -> 2 [] r = "running" -> 1 [] OTHER -> 0

Rank ==
    <<Stage(pc, call), MaxText - Len(raw), JudgeLeft(gate), SearchLeft(recovery),
      MaxDays - days, left>>

Lowers == <<Rank', Rank>> \in Below

\* What the rank is made of.
RankInv ==
    /\ days \in 0..MaxDays /\ left \in Nat /\ Len(raw) \in 0..MaxText
    /\ gate \in {"off", "asked", "rung", "late", "heard"}
    /\ pc = "closing" => gate # "off"
    /\ recovery \in {"none", "running", "hits", "nothing"} \/ pc = "ended"
    /\ pc = "recovering" => recovery # "none"

LEMMA StageIs ==
  ASSUME NEW n
  PROVE  /\ Stage("start", n) = 13 /\ Stage("searching", n) = 12
         /\ Stage("streaming", 1) = 11 /\ Stage("streaming", 2) = 7 /\ Stage("streaming", 3) = 3
         /\ Stage("closing", 1) = 10 /\ Stage("closing", 2) = 6
         /\ Stage("deciding", n) = 9
         /\ Stage("retrying", n) = 8 /\ Stage("recovering", n) = 8
         /\ Stage("concluding", n) = 5 /\ Stage("reading", n) = 4
         /\ Stage("finishing", n) = 2 /\ Stage("ended", n) = 0
         /\ \A place : Stage(place, n) \in 0..13
BY DEF Stage

RankOK ==
    /\ Rank \in Ranks
    /\ Rank[1] = Stage(pc, call) /\ Rank[2] = MaxText - Len(raw)
    /\ Rank[3] = JudgeLeft(gate) /\ Rank[4] = SearchLeft(recovery)
    /\ Rank[5] = MaxDays - days /\ Rank[6] = left

LEMMA RankType == RankInv => RankOK
<1> SUFFICES ASSUME RankInv PROVE RankOK
  OBVIOUS
<1>1. /\ MaxText - Len(raw) \in Nat /\ MaxDays - days \in Nat /\ left \in Nat
  BY OverviewAssumption DEF RankInv
<1>3. Stage(pc, call) \in Nat
  BY DEF Stage
<1>2. JudgeLeft(gate) \in Nat /\ SearchLeft(recovery) \in Nat
  BY DEF JudgeLeft, SearchLeft
<1> QED
  BY <1>1, <1>2, <1>3 DEF RankOK, Rank, Ranks

\* A difference is lower when what is taken away is more.
LEMMA LessIsLeft ==
  ASSUME NEW m \in Nat, NEW x \in 0..m, NEW y \in 0..m, x < y
  PROVE  m - y < m - x
OBVIOUS

\* When a step lowers the rank.
LEMMA LowersWhen ==
  ASSUME RankInv, RankInv',
         \/ Stage(pc, call)' < Stage(pc, call)
         \/ Stage(pc, call)' = Stage(pc, call) /\ Len(raw) < Len(raw')
         \/ /\ UNCHANGED <<pc, call, raw>> /\ JudgeLeft(gate') < JudgeLeft(gate)
         \/ /\ UNCHANGED <<pc, call, raw, gate>>
            /\ SearchLeft(recovery') < SearchLeft(recovery)
         \/ UNCHANGED <<pc, call, raw, gate, recovery>> /\ days < days'
         \/ UNCHANGED <<pc, call, raw, gate, recovery, days>> /\ left' < left
  PROVE  Lowers
<1>1. RankOK /\ RankOK'
  BY RankType, PTL
<1> DEFINE a == Rank'
           b == Rank
<1>2. /\ a \in Ranks /\ b \in Ranks
      /\ a[1] = Stage(pc, call)' /\ b[1] = Stage(pc, call)
      /\ a[2] = MaxText - Len(raw') /\ b[2] = MaxText - Len(raw)
      /\ a[3] = JudgeLeft(gate') /\ b[3] = JudgeLeft(gate)
      /\ a[4] = SearchLeft(recovery') /\ b[4] = SearchLeft(recovery)
      /\ a[5] = MaxDays - days' /\ b[5] = MaxDays - days
      /\ a[6] = left' /\ b[6] = left
  BY <1>1 DEF RankOK
<1>3. /\ Len(raw) < Len(raw') => MaxText - Len(raw') < MaxText - Len(raw)
      /\ days < days' => MaxDays - days' < MaxDays - days
  BY LessIsLeft, OverviewAssumption DEF RankInv
<1>4. UNCHANGED <<pc, call>> => Stage(pc, call)' = Stage(pc, call)
  OBVIOUS
<1> HIDE DEF a, b
<1>5. <<a, b>> \in Below
  BY <1>2, <1>3, <1>4, LowerRank
<1> QED
  BY <1>5 DEF Lowers, a, b

-----------------------------------------------------------------------------

\* What the steps do to the parts of the rank.
LEMMA RankSearch ==
  IInv /\ RankInv /\ Searching =>
    /\ Stage(pc, call)' < Stage(pc, call)
    /\ RankInv'
<1> SUFFICES ASSUME IInv, RankInv, Searching
             PROVE  Stage(pc, call)' < Stage(pc, call) /\ RankInv'
  OBVIOUS
<1>1. left \in Nat /\ (pc \in {"start", "searching"} => raw = <<>>)
  BY DEF IInv, CountInv, CallInv, Calling
<1>2. Len(<<>>) = 0 /\ MaxText \in Nat
  BY OverviewAssumption
<1>3. CASE \E plan \in BOOLEAN : Start(plan)
  BY <1>3, <1>1, StageIs DEF Start, Pay, RankInv, budget, judge, stream, helpers
<1>4. CASE \E widened \in BOOLEAN : Found(widened)
  BY <1>4, <1>1, StageIs DEF Found, Begin, Pay, RankInv, judge, helpers
<1>5. CASE \E kind \in {"search_timeout", "parse_error", "no_results", "failed"} : NotFound(kind)
  BY <1>5, <1>1, <1>2, StageIs DEF NotFound, Conclude, CallOver, RankInv, budget, judge
<1>6. CASE OverBudget
  BY <1>6, <1>1, <1>2, StageIs DEF OverBudget, Conclude, CallOver, RankInv, budget, judge
<1> QED
  BY <1>3, <1>4, <1>5, <1>6 DEF Searching

LEMMA RankPiece ==
  ASSUME IInv, RankInv, NEW kind \in Kinds, Piece(kind)
  PROVE  UNCHANGED <<pc, call>> /\ Len(raw) < Len(raw') /\ RankInv'
<1>1. raw \in Seq(Tokens) /\ [kind |-> kind, call |-> call] \in Tokens
  BY DEF IInv, CallInv, CountInv, Tokens
<1>2. /\ raw' = Append(raw, [kind |-> kind, call |-> call]) /\ Len(raw) < MaxText
      /\ pc = "streaming" /\ pc' = pc /\ call' = call
      /\ left' = left /\ days' = days /\ recovery' = recovery
      /\ gate' = IF gate = "rung" THEN "late" ELSE gate
  BY DEF Piece, GateMovesOn, budget, helpers
<1>3. Len(raw') = Len(raw) + 1
  BY <1>1, <1>2
<1> QED
  BY <1>2, <1>3, OverviewAssumption DEF RankInv

LEMMA RankStreaming ==
  IInv /\ RankInv /\ Streaming =>
    /\ \/ Stage(pc, call)' < Stage(pc, call)
       \/ UNCHANGED <<pc, call>> /\ Len(raw) < Len(raw')
    /\ RankInv'
<1> SUFFICES ASSUME IInv, RankInv, Streaming
             PROVE  /\ \/ Stage(pc, call)' < Stage(pc, call)
                       \/ UNCHANGED <<pc, call>> /\ Len(raw) < Len(raw')
                    /\ RankInv'
  OBVIOUS
<1>1. Len(<<>>) = 0 /\ MaxText \in Nat /\ call \in 1..3
  BY OverviewAssumption DEF IInv, CountInv
<1>2. CASE \E kind \in Kinds : Piece(kind)
  BY <1>2, RankPiece
<1>3. CASE Abandon
  BY <1>3, <1>1, StageIs
  DEF Abandon, Abandoned, At, CallOver, GateMovesOn, RankInv, budget, helpers
<1>4. CASE AwaitJudge
  BY <1>4, <1>1, StageIs DEF AwaitJudge, At, RankInv, budget, judge, stream, helpers
<1>5. CASE Written
  BY <1>5, <1>1, StageIs DEF Written, At, CallOver, GateMovesOn, RankInv, budget, helpers
<1>6. CASE \E late \in BOOLEAN : FirstFails(late)
  BY <1>6, <1>1, StageIs DEF FirstFails, At, Conclude, CallOver, RankInv, budget
<1>7. CASE \E late \in BOOLEAN : SecondFails(late)
  BY <1>7, <1>1, StageIs DEF SecondFails, At, CallOver, RankInv, budget, helpers
<1>8. CASE \E late \in BOOLEAN : AppendFails(late)
  BY <1>8, <1>1, StageIs DEF AppendFails, At, CallOver, RankInv, budget, judge, helpers
<1>9. CASE Appended
  BY <1>9, <1>1, StageIs DEF Appended, At, CallOver, RankInv, budget, judge, helpers
<1> QED
  BY <1>2, <1>3, <1>4, <1>5, <1>6, <1>7, <1>8, <1>9 DEF Streaming

LEMMA RankHelping ==
  IInv /\ RankInv /\ Helping =>
    /\ UNCHANGED <<pc, call, raw>>
    /\ \/ JudgeLeft(gate') < JudgeLeft(gate)
       \/ gate' = gate /\ SearchLeft(recovery') < SearchLeft(recovery)
    /\ RankInv'
<1> SUFFICES ASSUME IInv, RankInv, Helping
             PROVE  /\ UNCHANGED <<pc, call, raw>>
                    /\ \/ JudgeLeft(gate') < JudgeLeft(gate)
                       \/ gate' = gate /\ SearchLeft(recovery') < SearchLeft(recovery)
                    /\ RankInv'
  OBVIOUS
<1>1. CASE \E v \in Verdicts : Judge(v)
  BY <1>1 DEF Judge, JudgeLeft, RankInv, budget, stream, helpers
<1>2. CASE Hear
  BY <1>2 DEF Hear, JudgeLeft, RankInv, budget, stream
<1>3. CASE \E found \in BOOLEAN : Recovered(found)
  BY <1>3 DEF Recovered, SearchLeft, RankInv, budget, judge, stream
<1> QED
  BY <1>1, <1>2, <1>3 DEF Helping

LEMMA RankClosing ==
  IInv /\ RankInv /\ Closing => Stage(pc, call)' < Stage(pc, call) /\ RankInv'
<1> SUFFICES ASSUME IInv, RankInv, Closing
             PROVE  Stage(pc, call)' < Stage(pc, call) /\ RankInv'
  OBVIOUS
<1>1. Len(<<>>) = 0 /\ MaxText \in Nat /\ left \in Nat
  BY OverviewAssumption DEF IInv, CountInv
<1>2. CASE \E time \in BOOLEAN : Decide(time)
  BY <1>2, <1>1, StageIs DEF Decide, RankInv, budget, judge, stream, helpers
<1>3. CASE \E found, time \in BOOLEAN : Retrieved(found, time)
  <2>1. PICK found \in BOOLEAN, time \in BOOLEAN : Retrieved(found, time)
    BY <1>3
  <2>2. /\ pc \in {"retrying", "recovering"} /\ days' = days /\ raw' = raw
        /\ recovery' = recovery /\ left' \in Nat
        /\ (pc' = "streaming" /\ call' = 2) \/ pc' = "concluding"
        /\ gate' \in {"off", "asked", "late", gate}
    BY <2>1, <1>1 DEF Retrieved, Retried, Joined, At, Begin, Pay, GateMovesOn, stream, helpers
  <2> QED
    BY <2>2, StageIs DEF RankInv
<1>4. CASE ReadDetails
  BY <1>4, <1>1, StageIs DEF ReadDetails, RankInv, budget, judge, stream
<1>5. CASE NoDetails
  BY <1>5, <1>1, StageIs DEF NoDetails, RankInv, budget, judge, stream, helpers
<1>6. CASE \E arrived \in BOOLEAN : Harvest(arrived)
  <2>1. PICK arrived \in BOOLEAN : Harvest(arrived)
    BY <1>6
  <2>2. /\ pc = "reading" /\ days' = days /\ raw' = raw
        /\ recovery' = recovery /\ left' \in Nat
        /\ (pc' = "streaming" /\ call' = 3) \/ pc' = "finishing"
        /\ gate' \in {"late", gate}
    BY <2>1, <1>1 DEF Harvest, At, Begin, Pay, GateMovesOn, stream
  <2> QED
    BY <2>2, StageIs DEF RankInv
<1>7. CASE Withhold
  BY <1>7, <1>1, StageIs DEF Withhold, Conclude, CallOver, RankInv, budget, judge
<1>8. CASE Publish
  BY <1>8, <1>1, StageIs DEF Publish, Conclude, CallOver, RankInv, budget, judge
<1> QED
  BY <1>2, <1>3, <1>4, <1>5, <1>6, <1>7, <1>8 DEF Closing

LEMMA RankOthers ==
  IInv /\ RankInv /\ (OthersPay \/ NewDay) =>
    /\ UNCHANGED <<pc, call, raw, gate, recovery>>
    /\ days < days' \/ (days' = days /\ left' < left)
    /\ RankInv'
<1> SUFFICES ASSUME IInv, RankInv, OthersPay \/ NewDay
             PROVE  /\ UNCHANGED <<pc, call, raw, gate, recovery>>
                    /\ days < days' \/ (days' = days /\ left' < left)
                    /\ RankInv'
  OBVIOUS
<1>1. left \in Nat /\ Budget \in Nat /\ MaxDays \in Nat
  BY OverviewAssumption DEF IInv, CountInv
<1>2. CASE OthersPay
  BY <1>1, <1>2 DEF OthersPay, RankInv, judge, stream, helpers
<1>3. CASE NewDay
  <2>1. days < days' /\ days' \in 0..MaxDays /\ left' \in Nat
    BY <1>1, <1>3 DEF NewDay, RankInv
  <2> QED
    BY <1>3, <2>1 DEF NewDay, RankInv, judge, stream, helpers
<1> QED
  BY <1>2, <1>3

\* Every step lowers the rank, or changes nothing.
LEMMA StepLowers ==
  IInv /\ RankInv /\ [Next]_vars => RankInv' /\ [Lowers]_vars
<1> SUFFICES ASSUME IInv, RankInv, Next
             PROVE  RankInv' /\ (Lowers \/ UNCHANGED vars)
  BY DEF RankInv, vars, budget, judge, helpers, stream
<1>1. CASE Searching
  BY <1>1, RankSearch, LowersWhen
<1>2. CASE Streaming
  BY <1>2, RankStreaming, LowersWhen
<1>3. CASE Helping
  <2>1. RankInv'
    BY <1>3, RankHelping
  <2>2. CASE UNCHANGED <<pc, call, raw>> /\ JudgeLeft(gate') < JudgeLeft(gate)
    BY <2>1, <2>2, LowersWhen
  <2>3. CASE UNCHANGED <<pc, call, raw, gate>> /\ SearchLeft(recovery') < SearchLeft(recovery)
    BY <2>1, <2>3, LowersWhen
  <2> QED
    BY <1>3, <2>1, <2>2, <2>3, RankHelping
<1>4. CASE Closing
  BY <1>4, RankClosing, LowersWhen
<1>5. CASE OthersPay \/ NewDay
  BY <1>5, RankOthers, LowersWhen
<1>6. CASE Ended
  BY <1>6 DEF Ended, RankInv, vars, budget, judge, helpers, stream
<1> QED
  BY <1>1, <1>2, <1>3, <1>4, <1>5, <1>6 DEF Next, Advance

GenerationDescends == [][Lowers]_vars

\* A generation has finitely many steps: each one, of its task or of a helper
\* of its own, and each payment of another task and each midnight, lowers a
\* rank below which there is no endless descent, for any budget and texts of
\* any length: a second text is tried once, a paragraph appended once
\* (_generate).
THEOREM GenerationIsFinite ==
  IsWellFoundedOn(Below, Ranks) /\ (Spec => GenerationDescends)
<1>1. Init => RankInv
  BY OverviewAssumption DEF Init, RankInv
<1> QED
  BY <1>1, InitInv, StepInv, StepLowers, BelowWellFounded, PTL DEF Spec, GenerationDescends

\* Where the generation has a step: a call is never closed for a judge that was
\* not asked, nor a search waited for that was not started.
GoesOn ==
    \/ pc \notin {"closing", "recovering", "ended"}
    \/ pc = "closing" /\ gate \in {"asked", "rung", "late", "heard"}
    \/ pc = "recovering" /\ recovery \in {"running", "hits", "nothing"}

\* Until it ends the generation, or a helper it waits for, has a step: with
\* GenerationIsFinite, and the fairness of FairSpec, GenerationEnds.
THEOREM GenerationGoesOn == Spec => [](pc = "ended" \/ GoesOn)
<1>1. Init => RankInv
  BY OverviewAssumption DEF Init, RankInv
<1>2. RankInv => pc = "ended" \/ GoesOn
  BY DEF RankInv, GoesOn
<1> QED
  BY <1>1, <1>2, InitInv, StepInv, StepLowers, PTL DEF Spec
=============================================================================
