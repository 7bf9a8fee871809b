--------------------------- MODULE MCStarterPool ---------------------------
EXTENDS StarterPool, StarterRules, TLC

CONSTANTS p1, p2, x, y, z, ma, mb

MCProcs == {p1, p2}
MCTexts == {x, y, z}
\* Two texts are about the same material.
MCAbout == x :> ma @@ y :> ma @@ z :> mb

-----------------------------------------------------------------------------
(* What the rules promise, on all small inputs. *)

\* One round of the rotation comes to every slot of a kind once, from whatever
\* day it starts (_stride is coprime with their number).
ASSUME RotationCoversAKind ==
    \A count \in 1 .. 40, day \in {0, 1, 7} :
        {AtPlace(count, day, offset) : offset \in 0 .. count - 1} = 0 .. count - 1

\* A day has as many different slots as its size says, and one of every kind
\* when the size is at least the number of kinds; with low < high the next
\* day's are others.
ASSUME EveryKindEveryDay ==
    \A a \in 1 .. 5, b \in 0 .. 5, c \in 0 .. 2, day \in 0 .. 6, low \in 0 .. 3, high \in 1 .. 4 :
        LET counts == SelectSeq(<<a, b, c>>, LAMBDA count : count > 0)
            slots == RotateSlots(counts, day, low, high)
            size == DaySize(a + b + c, day, low, high)
        IN  /\ Cardinality(slots) = size
            /\ size >= Len(counts) => {slot[1] : slot \in slots} = DOMAIN counts

\* With the 9 corners and 32 categories the comments measured and the default
\* sizes 3 .. 6, there are categories that come up once in 32 days only, which
\* is longer than the 14 days a question serves.
Gap(counts, slot) ==
    LET days == {day \in 0 .. 95 : slot \in RotateSlots(counts, day, 3, 6)}
    IN  CHOOSE g \in 0 .. 96 :
            /\ \E d \in days : d + g \in days /\ \A e \in days : ~(d < e /\ e < d + g)
            /\ \A d \in days : d < 48 => \E e \in days : d < e /\ e <= d + g
ASSUME SomeSlotsOutlastThePool ==
    LET late == {k \in 0 .. 31 : Gap(<<9, 32>>, <<2, k>>) > 14}
    IN  late # {} /\ \A k \in 0 .. 8 : Gap(<<9, 32>>, <<1, k>>) <= 14

Rows == [id : 1 .. 3, slot : {"a", "b"}, pin : {"none", "slot", "global"},
         names : {{"t1"}, {"t2"}, {"t3", "g"}, {"t4", "g"}}]
Pools == {{r1, r2, r3} : r1 \in {r \in Rows : r.id = 1}, r2 \in {r \in Rows : r.id = 2},
                         r3 \in {r \in Rows : r.id = 3}}
SomePools == {pool \in Pools : \A r, s \in pool :
                 r.id < s.id => r.names # s.names}
Orders(S) == {f \in [1 .. Cardinality(S) -> S] : {f[i] : i \in DOMAIN f} = S}

\* The first screen: at most as many questions as asked for, of different slots,
\* none naming what another names; the pins that fit are on it; the pinned
\* questions of a slot go before its others; and it is short only when every
\* slot left has nothing but repetitions.  It holds for every pool, also for one
\* with more global pins than an administrator may set, which two at once can.
ASSUME FirstScreenKept ==
    \A pool \in SomePools, slots \in {<<"a", "b">>, <<"b", "a">>}, size \in 1 .. 2 :
        \A order \in {SetToSeq(pool), Reverse(SetToSeq(pool))} :
            LET limit == GlobalPinLimit("unset", 2, size)
                screen == PickStarters(pool, size, limit, slots, order)
                pins == ToSet(GlobalPins(pool, limit))
                others == pool \ screen
            IN  /\ screen \subseteq pool
                /\ Cardinality(screen) <= size
                /\ \A r, s \in screen : r # s => r.slot # s.slot /\ r.names \cap s.names = {}
                /\ \A pin \in pins \ screen : Clash(pin, screen)
                /\ \A r \in screen \ pins, s \in others :
                     s.slot = r.slot /\ s.pin = "slot" /\ r.pin # "slot" => FALSE
                /\ Cardinality(screen) < size =>
                     \A slot \in {r.slot : r \in pool} \ {r.slot : r \in screen} :
                        \A r \in Candidates({s \in pool \ pins : s.slot = slot}) : Clash(r, screen)

\* pick_probabilities is the share of the shuffles that show the row, where no
\* rows clash.
ASSUME ProbabilityIsTheShare ==
    \A pins \in [1 .. 4 -> {"none", "slot", "global"}], size \in 1 .. 2 :
        LET pool == {[id |-> i, slot |-> IF i = 4 THEN "b" ELSE IF i = 3 THEN "c" ELSE "a",
                      pin |-> pins[i], names |-> {i}] : i \in 1 .. 4}
            limit == GlobalPinLimit("unset", 2, size)
            shuffles == Orders({"a", "b", "c"}) \X Orders({r \in pool : r.slot = "a"})
            shown(row) == {s \in shuffles : row \in PickStarters(pool, size, limit, s[1],
                              s[2] \o SetToSeq({r \in pool : r.slot # "a"}))}
        IN  \A row \in pool :
              LET p == PickProbability(pool, size, limit, row)
              IN  Cardinality(shown(row)) * p[2] = p[1] * Cardinality(shuffles)

\* Two administrators who each see their own pin alone can both pass the check
\* and leave one pin too many; one after the other they cannot.
ASSUME PinsMayExceedByRace ==
    LET pinOf(i, slot) == [id |-> i, slot |-> slot]
    IN  /\ PinAccepted({pinOf(1, "a")}, "a", 1) /\ PinAccepted({pinOf(2, "b")}, "b", 1)
        /\ ~PinAccepted({pinOf(1, "a"), pinOf(2, "b")}, "b", 1)

\* Every query has a goods among the candidates when there is room for all and
\* it found one the others did not; no goods is there twice.
Results == {<< >>, <<1>>, <<2>>, <<1, 2>>, <<2, 1>>, <<3, 1, 2>>}
ASSUME QueriesTakeTurns ==
    \A a, b, c \in Results, limit \in 0 .. 3 :
        LET picked == InterleaveCandidates(<<a, b, c>>, limit)
        IN  /\ Len(picked) <= limit
            /\ Cardinality(ToSet(picked)) = Len(picked)
            /\ limit = 3 => \A r \in {a, b, c} : r # << >> => r[1] \in ToSet(picked)

\* A section's corner has one owner, the first section that shows it.
ASSUME CornersAreNotShared ==
    \A shown \in [{"best", "new"} -> SUBSET {"best", "new", "day"}] :
        LET owners == CornerOwners(<<"best", "new">>, shown)
        IN  /\ \A o, q \in owners : o[1] = q[1] => o = q
            /\ \A key \in shown["best"] : <<key, "best">> \in owners

\* What a slot gets from the model: questions about observed materials, with
\* different texts, no more than wanted; and none about lately shown goods when
\* there are enough others.
Answers == [ref : {1, 2, 3}, text : {"s", "t"}, shows : {{1}, {1, 2}}, fits : {TRUE},
            book : {1}, quoted : {TRUE, FALSE}]
ASSUME GeneratedFromMaterials ==
    \A a, b \in Answers, exclude \in SUBSET {1, 2}, wanted \in 0 .. 2 :
        LET materials == {[ref |-> 1, books |-> {}], [ref |-> 2, books |-> {1}]}
            made == GenerateSlot(materials, exclude, wanted, <<a, b>>)
        IN  /\ Len(made) <= wanted
            /\ \A i \in DOMAIN made :
                 /\ made[i].ref \in {1, 2}
                 /\ Cardinality({1, 2} \ exclude) >= wanted => made[i].ref \notin exclude
                 /\ made[i].ref = 2 => made[i].quoted
            /\ \A i, j \in DOMAIN made : made[i].text = made[j].text => i = j

=============================================================================
