----------------------------- MODULE CitationText -----------------------------
(***************************************************************************)
(* Citation markers in an answer (postprocess.py).  The model writes the    *)
(* numbers of the session's sources; the reader sees numbers in the order   *)
(* in which sources are first cited, while the answer streams and in its    *)
(* final form.                                                              *)
(*                                                                          *)
(* A text is a sequence of pieces: a word, a gap, a stop, a span of code,   *)
(* a marker with its parts, each a range <<first, last>>, or the link that  *)
(* makes a marker one.  A span of code whose content is one marker has its  *)
(* parts.  (A label inside a marker is not told apart.)                     *)
(***************************************************************************)
EXTENDS Integers, SequencesExt

Plain(kind) == [kind |-> kind, parts |-> <<>>]
Word == Plain("word")
Gap  == Plain("gap")
Stop == Plain("stop")
Code == Plain("code")
Link == Plain("link")
Marker(parts) == [kind |-> "mark", parts |-> parts]
CodeOf(parts) == [kind |-> "code", parts |-> parts]
Single(n) == <<n, n>>

Once(s) == FoldLeft(LAMBDA kept, x : IF x \in ToSet(kept) THEN kept ELSE Append(kept, x),
                    <<>>, s)

Ascending(S) == SetToSortSeq(S, <)

-----------------------------------------------------------------------------
(* What a marker cites. *)

\* _marker_ids: single numbers as they stand, of a range those that are known.
MarkerIds(parts, known) ==
    FlattenSeq([k \in DOMAIN parts |->
        LET p == parts[k]
        IN IF p[1] = p[2] THEN <<p[1]>> ELSE Ascending({i \in known : p[1] <= i /\ i <= p[2]})])

\* A range is invalid when it runs backwards or names a number that is unknown.
InvalidRanges(parts, known) ==
    SelectSeq(parts, LAMBDA p : p[1] # p[2] /\ (p[1] > p[2] \/ ~(p[1] .. p[2] \subseteq known)))

IsMark(p) == p.kind = "mark"
Marks(text) == SelectSeq(text, IsMark)

\* normalize_marker_dialects: the link of a marker goes.
Normalized(text) ==
    LET stay == SelectSeq([k \in DOMAIN text |-> k],
                          LAMBDA k : ~(text[k] = Link /\ k > 1 /\ IsMark(text[k - 1])))
    IN  [n \in DOMAIN stay |-> text[stay[n]]]

\* _unwrap_cited_code: a marker that was put into code, if all it cites is known.
Unwrapped(text, valid) ==
    [k \in DOMAIN text |->
        LET p == text[k]
        IN IF /\ p.kind = "code" /\ p.parts # <<>>
              /\ MarkerIds(p.parts, valid) # <<>> /\ InvalidRanges(p.parts, valid) = <<>>
              /\ ToSet(MarkerIds(p.parts, valid)) \subseteq valid
           THEN Marker(p.parts) ELSE p]

\* prose_citation_ids
ProseCitationIds(text, known) ==
    FlattenSeq([k \in DOMAIN Marks(text) |-> MarkerIds(Marks(text)[k].parts, known)])

-----------------------------------------------------------------------------
(* The final form of an answer. *)

IsGap(p) == p.kind = "gap"

EndsWith(text, kind) == text # <<>> /\ Last(text).kind = kind

\* Gaps at the end (rstrip) and at the beginning (lstrip).
Stripped(text) ==
    LET keep == {n \in 0 .. Len(text) : \A k \in n + 1 .. Len(text) : IsGap(text[k])}
    IN  SubSeq(text, 1, CHOOSE n \in keep : \A m \in keep : n <= m)
Leading(text) ==
    Reverse(Stripped(Reverse(text)))

\* _seam_parts: what is left and right of a removed marker is joined by one gap,
\* or by none before a stop, at an end, or where there was none.
Seam(before, after) ==
    LET rest == Leading(after)
        core == Stripped(before)
        prefix == IF EndsWith(core, "stop") THEN Append(Stripped(Front(core)), Stop) ELSE core
        attach == \/ prefix = <<>> \/ rest = <<>> \/ Head(rest).kind \in {"stop", "mark", "code", "link"}
                  \/ (prefix = before /\ rest = after)
    IN  [prefix |-> IF attach THEN prefix ELSE Append(prefix, Gap), rest |-> rest]

\* One marker of validate_citations: the valid numbers remain, each once.  The
\* text between two markers is kept apart, as the seam looks no further back.
Validate(state, k, text, valid) ==
    IF k < state.next THEN state
    ELSE IF ~IsMark(text[k]) THEN [state EXCEPT !.open = Append(@, text[k]), !.next = k + 1]
    ELSE LET good == Once(SelectSeq(MarkerIds(text[k].parts, valid), LAMBDA i : i \in valid))
             seam == Seam(state.open, SubSeq(text, k + 1, Len(text)))
         IN IF good = <<>>
            THEN [state EXCEPT !.done = @ \o seam.prefix, !.open = <<>>,
                               !.next = Len(text) - Len(seam.rest) + 1, !.removed = @ + 1]
            ELSE [state EXCEPT !.done = Append(@ \o state.open,
                                 IF /\ ToSet(MarkerIds(text[k].parts, valid)) \subseteq valid
                                    /\ \A p \in ToSet(text[k].parts) : p[1] = p[2]
                                 THEN text[k]
                                 ELSE Marker([n \in DOMAIN good |-> Single(good[n])])),
                               !.open = <<>>, !.next = k + 1, !.used = Once(@ \o good)]

\* validate_citations: the text without what is not a source, and what it uses.
ValidateCitations(text, valid) ==
    LET clean == Unwrapped(Normalized(text), valid)
        end == FoldLeft(LAMBDA state, k : Validate(state, k, clean, valid),
                        [done |-> <<>>, open |-> <<>>, next |-> 1, used |-> <<>>, removed |-> 0],
                        [k \in DOMAIN clean |-> k])
    IN  [text |-> end.done \o end.open, used |-> end.used, removed |-> end.removed]

\* meaningful_supports = 0: no marker has a word before it.
Unsupported(text) ==
    \A k \in DOMAIN text : IsMark(text[k]) => \A j \in 1 .. k - 1 : text[j].kind # "word"

-----------------------------------------------------------------------------
(* Display numbers.  A mapping is a sequence of <<source, number>> in the order *)
(* in which sources were first cited; folds names the work of an edition.       *)

Known(mapping)  == {mapping[k][1] : k \in DOMAIN mapping}
Number(mapping, i) == mapping[CHOOSE k \in DOMAIN mapping : mapping[k][1] = i][2]
Work(folds, i) == IF i \in DOMAIN folds THEN folds[i] ELSE i
Highest(mapping) == FoldLeft(LAMBDA high, p : IF p[2] > high THEN p[2] ELSE high, 0, mapping)

\* An edition shares the number of its work, when one of the two is the work.
NumberFor(mapping, folds, i) ==
    LET same == SelectSeq(mapping, LAMBDA p : /\ Work(folds, p[1]) = Work(folds, i)
                                              /\ Work(folds, i) \in {p[1], i})
    IN  IF same # <<>> THEN same[1][2] ELSE Highest(mapping) + 1

\* assign_display_numbers
Assigned(text, valid, mapping, folds) ==
    FoldLeft(LAMBDA m, i : IF i \in valid /\ i \notin Known(m)
                           THEN Append(m, <<i, NumberFor(m, folds, i)>>) ELSE m,
             mapping, ProseCitationIds(text, valid))

Shown(mapping, i) == IF i \in Known(mapping) THEN Number(mapping, i) ELSE i

HasRange(parts) == \E p \in ToSet(parts) : p[1] # p[2]

Rendered(parts, mapping) ==
    LET ids == IF HasRange(parts)
               THEN SelectSeq(MarkerIds(parts, Known(mapping)), LAMBDA i : i \in Known(mapping))
               ELSE MarkerIds(parts, {})
    IN  Once([n \in DOMAIN ids |-> Shown(mapping, ids[n])])

ShownMarker(numbers) == Marker([n \in DOMAIN numbers |-> Single(numbers[n])])

\* renumber_markers: a marker that repeats the one right before it is dropped.
\* last is that marker, <<>> after anything else.
RenumberMarkers(text, mapping, last) ==
    FoldLeft(LAMBDA out, p :
               IF ~IsMark(p) THEN [text |-> Append(out.text, p), last |-> <<>>]
               ELSE LET now == Rendered(p.parts, mapping)
                    IN IF now = <<>> THEN [out EXCEPT !.last = <<>>]
                       ELSE IF now = out.last THEN out
                       ELSE [text |-> Append(out.text, ShownMarker(now)), last |-> now],
             [text |-> <<>>, last |-> last], text)

\* display_cards: the source behind each number, the work before its editions.
DisplayCards(mapping, folds) ==
    LET numbers == {mapping[k][2] : k \in DOMAIN mapping}
        owners(n) == SelectSeq(mapping, LAMBDA p : p[2] = n)
        works(n) == SelectSeq(owners(n), LAMBDA p : p[1] \notin DOMAIN folds)
    IN  [n \in numbers |-> IF works(n) # <<>> THEN Last(works(n))[1] ELSE owners(n)[1][1]]

\* finalize_answer, with renumber_for_display and build_done_payload.
Finalize(text, valid, folds) ==
    LET citation == ValidateCitations(text, valid)
        mapping == Assigned(citation.text, valid, <<>>, folds)
        cards == DisplayCards(mapping, folds)
        used == Once([n \in DOMAIN citation.used |-> Number(mapping, citation.used[n])])
    IN  [text |-> RenumberMarkers(citation.text, mapping, <<>>).text,
         cards |-> cards,
         sources |-> [n \in DOMAIN used |-> cards[used[n]]],
         cited |-> used, mapping |-> mapping]

-----------------------------------------------------------------------------
(* The stream. *)

\* What has arrived after e halves of pieces: a piece of which the first half is
\* there stands as begun.
Arrived(text, e) ==
    IF e % 2 = 0 THEN SubSeq(text, 1, e \div 2)
    ELSE Append(SubSeq(text, 1, e \div 2), Plain("begun"))

\* _stable_prefix: what no later character can change.  A marker, a link or a span
\* of code that has begun waits, and a marker waits for a link that may follow.
StablePrefix(text) ==
    LET whole == IF EndsWith(text, "begun") THEN Front(text) ELSE text
    IN  IF EndsWith(whole, "mark") THEN Front(whole) ELSE whole

Unfed == [mapping |-> <<>>, consumed |-> 0, last |-> <<>>, shown |-> <<>>]

\* StreamRenumberer.feed
Feed(state, raw, final, valid, folds) ==
    LET stable == Normalized(IF final THEN raw ELSE StablePrefix(raw))
        segment == SubSeq(Unwrapped(stable, valid), state.consumed + 1, Len(stable))
        mapping == Assigned(segment, valid, state.mapping, folds)
        out == RenumberMarkers(segment, mapping, state.last)
    IN  IF Len(stable) <= state.consumed THEN state
        ELSE [mapping |-> mapping, consumed |-> Len(stable), last |-> out.last,
              shown |-> state.shown \o out.text]

\* What is on the screen when the text came in chunks that end at the given halves.
Streamed(text, ends, valid, folds) ==
    LET inside == ends \cap (1 .. 2 * Len(text) - 1)
    IN  Feed(FoldLeft(LAMBDA state, e : Feed(state, Arrived(text, e), FALSE, valid, folds),
                      Unfed, Ascending(inside)),
             text, TRUE, valid, folds)
=============================================================================
