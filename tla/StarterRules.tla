---------------------------- MODULE StarterRules ----------------------------
(***************************************************************************)
(* The rules by which starters.py chooses: the slots that are renewed on a  *)
(* day (rotate_slots), the questions of a first screen (pick_starters), the *)
(* questions that serve (live_clauses), what is taken from the site and     *)
(* from the model's answer (generate_slot, validate_items and the           *)
(* observers).  They are functions of their inputs: the shuffles of the     *)
(* code are parameters here.                                                *)
(***************************************************************************)
EXTENDS Integers, FiniteSets, SequencesExt

-----------------------------------------------------------------------------
(* The slots of a day. *)

Coprime(a, b) == \A d \in 2 .. b : a % d # 0 \/ b % d # 0

\* The step of the rotation: coprime with the number of slots.
Stride(count) ==
    LET first == IF count \div 3 > 1 THEN count \div 3 ELSE 1
        steps == {step \in first .. count - 1 : Coprime(step, count)}
    IN  IF steps = {} THEN 1 ELSE CHOOSE step \in steps : \A s \in steps : step <= s

\* The slot of a kind with count slots that has the place offset on a day.
AtPlace(count, day, offset) == ((day % count) + offset * Stride(count)) % count

\* How many slots of several targets there are on a day.
DaySize(total, day, low, high) ==
    LET least == IF low > 1 THEN low ELSE 1
        most == IF high > 1 THEN high ELSE 1
        wanted == least + (day % (IF most > least THEN most - least + 1 ELSE 1))
    IN  IF high <= 0 THEN 0 ELSE IF wanted < total THEN wanted ELSE total

\* The places of the kinds, taken in turns: counts[k] is the number of slots of
\* the k-th kind in the order of the keys.
Places(counts) ==
    {place \in (0 .. FoldLeft(LAMBDA a, b : a + b, 0, counts)) \X DOMAIN counts :
        place[1] < counts[place[2]]}

Earlier(a, b) == a[1] < b[1] \/ (a[1] = b[1] /\ a[2] < b[2])

\* rotate_slots: the slots <<kind, number>> that are renewed on a day.
RotateSlots(counts, day, low, high) ==
    LET places == Places(counts)
        size == DaySize(Cardinality(places), day, low, high)
        picked == {place \in places :
                     Cardinality({other \in places : Earlier(other, place)}) < size}
    IN  {<<place[2], AtPlace(counts[place[2]], day, place[1])>> : place \in picked}

\* slot_catalogue: the corners of the sections, each key taken by the first
\* section that shows it; a section whose page shows none is a corner itself.
\* shown[s] is the set of keys on the page of section s.
CornerOwners(sections, shown) ==
    FoldLeft(LAMBDA owners, s :
               owners \cup {<<key, s>> : key \in
                   {k \in IF shown[s] = {} THEN {s} ELSE shown[s] :
                       \A owner \in owners : owner[1] # k}},
             {}, sections)

-----------------------------------------------------------------------------
(* A first screen.  A question is a record of its id, its slot, its pin     *)
(* ("none", "slot" or "global") and the names it must not share with        *)
(* another: its text, its goods and its source.                             *)

\* global_pin_limit: the setting, or one less than the usual number; never more
\* than the n that were asked for.
GlobalPinLimit(configured, usual, n) ==
    LET limit == IF configured = "unset" THEN usual - 1 ELSE configured
        capped == IF limit < n THEN limit ELSE n
    IN  IF capped > 0 THEN capped ELSE 0

\* Rows that are previewed have negative ids and come last.
InPinOrder(rows) ==
    SetToSortSeq(rows, LAMBDA a, b : IF (a.id < 0) = (b.id < 0) THEN a.id < b.id
                                     ELSE b.id < 0)

\* global_pins: in order, one of a slot, at most limit.
GlobalPins(pool, limit) ==
    FoldLeft(LAMBDA picked, row :
               IF /\ Len(picked) < limit
                  /\ \A k \in DOMAIN picked : picked[k].slot # row.slot
               THEN Append(picked, row) ELSE picked,
             << >>, InPinOrder({row \in pool : row.pin = "global"}))

Clash(row, selected) == \E other \in selected : other.names \cap row.names # {}

\* take: a row that names what another names is passed over.
Taken(selected, row) == IF Clash(row, selected) THEN selected ELSE selected \cup {row}

\* The rows of a slot that may be drawn: its pinned ones if it has any.
Candidates(rows) ==
    IF \E row \in rows : row.pin = "slot" THEN {row \in rows : row.pin = "slot"}
    ELSE rows

\* pick_starters, with the order in which the slots and the rows were shuffled:
\* first the pins, then of each slot that is left the first row that is no
\* repetition, until there are n.
PickStarters(pool, n, limit, slotOrder, rowOrder) ==
    LET pins == GlobalPins(pool, IF limit < n THEN limit ELSE n)
        first == FoldLeft(Taken, {}, pins)
        used == {row.slot : row \in first}
        rest == pool \ ToSet(pins)
        draw(selected, slot) ==
            LET rows == Candidates({row \in rest : row.slot = slot})
                fit == SelectSeq(rowOrder, LAMBDA row : row \in rows /\ ~Clash(row, selected))
            IN  IF slot \in used \/ Cardinality(selected) >= n \/ fit = << >>
                THEN selected ELSE selected \cup {Head(fit)}
    IN  FoldLeft(draw, first, slotOrder)

\* pick_probabilities: the chance of a row to be on the screen, as a fraction
\* <<numerator, denominator>>, when no two rows clash.
PickProbability(pool, n, limit, row) ==
    LET pins == GlobalPins(pool, IF limit < n THEN limit ELSE n)
        used == {pin.slot : pin \in ToSet(pins)}
        rest == {other \in pool \ ToSet(pins) : other.slot \notin used}
        slots == {other.slot : other \in rest}
        free == IF n > Len(pins) THEN n - Len(pins) ELSE 0
        share == IF free < Cardinality(slots) THEN free ELSE Cardinality(slots)
        rivals == Candidates({other \in rest : other.slot = row.slot})
    IN  CASE row \in ToSet(pins) -> <<1, 1>>
          [] row \in rest /\ row \in rivals
               -> <<share, Cardinality(slots) * Cardinality(rivals)>>
          [] OTHER -> <<0, 1>>

\* _check_global_pins: what a transaction sees after it wrote a global pin of a
\* slot; two transactions do not see each other's row.
PinAccepted(seen, slot, limit) ==
    /\ Cardinality({row \in seen : row.slot = slot}) <= 1
    /\ Cardinality(seen) <= limit

\* live_clauses, in the order in which they are named as the reason: the first
\* that does not hold, or "live".
Liveness(row, today, poolDays) ==
    CASE ~row.active -> "inactive"
      [] row.from > today \/ row.until < today -> "out_of_window"
      [] row.auto /\ row.day < today - poolDays -> "stale_auto"
      [] row.auto /\ row.dated /\ row.day # today -> "not_today"
      [] OTHER -> "live"

-----------------------------------------------------------------------------
(* What is taken from the site and from the model. *)

\* _recent_articles: the articles with a date in the window, an address and a
\* text; dates that cannot be read are 0.
RecentArticles(articles, today, window) ==
    {article \in articles : /\ article.date # 0
                            /\ today - window <= article.date /\ article.date <= today
                            /\ article.linked /\ article.worded}

\* _interleave_candidates: one goods of each query in turns, no goods twice.
InterleaveCandidates(results, limit) ==
    LET inTurns == FlattenSeq([i \in 1 .. limit |->
                      FlattenSeq([q \in DOMAIN results |->
                         IF i <= Len(results[q]) THEN <<results[q][i]>> ELSE << >>])])
        once == FoldLeft(LAMBDA kept, goods : IF goods \in ToSet(kept) THEN kept
                                               ELSE Append(kept, goods), << >>, inTurns)
    IN  SubSeq(once, 1, IF Len(once) < limit THEN Len(once) ELSE limit)

\* _today_corner: the rows of the slot's own page, or of the section's first page
\* when the own one has another markup or cannot be had.
TodayCorner(own, seed) == IF own \in {"other markup", "unreachable"} THEN seed ELSE own

\* observe_corner_products: the books of the page that could be read and have a
\* title; of a list without ranks those of this month.
CornerProducts(books, ranked, month) ==
    {book \in books : book.readable /\ book.titled /\ (ranked \/ book.month = month)}

\* observe_corner_categories: the links of the section's tree but for its root,
\* that have the slot's name.
CornerCategories(links, tree, wanted) ==
    {link \in links : link.tree = tree /\ ~link.root /\ link.name = wanted}

\* observe_web_topics: of the model's topics those with a new name whose sources
\* were all observed and one of which says what is quoted, at most most.
WebTopics(items, articles, most) ==
    FoldLeft(LAMBDA topics, item :
               IF /\ item.refs # {}
                  /\ item.refs \subseteq {article.ref : article \in articles}
                  /\ \E article \in articles : /\ article.ref \in item.refs
                                               /\ item.quote \in article.says
                  /\ \A k \in DOMAIN topics : topics[k].name # item.name
                  /\ Len(topics) < most
               THEN Append(topics, item) ELSE topics,
             << >>, items)

\* The materials of a dated slot: for the slot that asks about books, the topics
\* for which a book was found in time.
TopicMaterials(topics, books, aboutBooks) ==
    {topic.name : topic \in {t \in ToSet(topics) : aboutBooks => books[t.name] # {}}}

\* validate_items: an item is kept when its material was observed and shows in
\* its text, its book (where the material has books) was observed and its
\* reason is quoted from it, and its text is new and not too long.
ValidateItems(items, materials) ==
    FoldLeft(LAMBDA kept, item :
               IF /\ item.ref \in {m.ref : m \in materials}
                  /\ LET m == CHOOSE m \in materials : m.ref = item.ref
                     IN  /\ m.books = {} \/ (item.book \in m.books /\ item.quoted)
                         /\ m.ref \in item.shows
                  /\ item.fits
                  /\ \A k \in DOMAIN kept : kept[k].text # item.text
               THEN Append(kept, item) ELSE kept,
             << >>, items)

\* generate_slot: the goods that were shown lately are left out if there are
\* enough others; of what the model makes of the rest (answer) at most as many
\* questions as were wanted, and no more than there are materials.
Offered(materials, exclude, wanted) ==
    LET fresh == {m \in materials : m.ref \notin exclude}
        count == IF wanted < Cardinality(materials) THEN wanted ELSE Cardinality(materials)
    IN  IF Cardinality(fresh) >= count THEN fresh ELSE materials

GenerateSlot(materials, exclude, wanted, answer) ==
    LET count == IF wanted < Cardinality(materials) THEN wanted ELSE Cardinality(materials)
        kept == ValidateItems(answer, Offered(materials, exclude, wanted))
    IN  SubSeq(kept, 1, IF Len(kept) < count THEN Len(kept) ELSE count)

=============================================================================
