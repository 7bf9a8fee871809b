--------------------------- MODULE MCSourceRegistry ---------------------------
(* The registry of a session with two tool calls at a time; and the text that *)
(* cites its sources, over all short answers.                                 *)
EXTENDS SourceRegistry, TLC

CONSTANTS u1, u2

MCUrls == {u1, u2}

Symmetric == Permutations(MCUrls)

Cite == INSTANCE CitationText

\* Sources 2, 3 and 5 are there, 3 is an edition of the work 2.
Valid == {2, 3, 5}
Folds == 3 :> 2 @@ 2 :> 2
One(n) == Cite!Marker(<<Cite!Single(n)>>)
Pieces == {Cite!Word, Cite!Gap, Cite!Stop, One(5), One(3), One(9),
           Cite!Link, Cite!Marker(<<Cite!Single(2), Cite!Single(3)>>), Cite!Marker(<<<<2, 3>>>>),
           Cite!CodeOf(<<Cite!Single(5)>>)}
Short == UNION {[1 .. m -> Pieces] : m \in 0 .. 3}
Prose == UNION {[1 .. m -> {Cite!Word, Cite!Gap, Cite!Stop, One(5), One(9)}] : m \in 0 .. 5}

\* In whatever chunks an answer arrives, the same appears on the screen, and no
\* number that was shown is given to another source.
ASSUME ChunksDoNotMatter ==
    \A text \in Short :
        LET whole == Cite!Streamed(text, {}, Valid, Folds)
        IN  \A ends \in SUBSET (1 .. 2 * Len(text) - 1) :
                Cite!Streamed(text, ends, Valid, Folds).shown = whole.shown

\* The final form numbers its sources from 1 in the order they are cited, shows
\* no marker without a source, and repeats itself neither in a marker nor between
\* two; the stream has given the same numbers.
ASSUME FinalFormAgrees ==
    \A text \in Short :
        LET final == Cite!Finalize(text, Valid, Folds)
            stream == Cite!Streamed(text, {}, Valid, Folds)
            marks == Cite!Marks(final.text)
        IN  /\ final.cited = [n \in DOMAIN final.cited |-> n]
            /\ Cite!Once(Cite!ProseCitationIds(final.text, {})) = final.cited
            /\ stream.mapping = final.mapping
            /\ ToSet(final.sources) \subseteq Valid
            /\ \A k \in 1 .. Len(final.text) - 1 :
                 Cite!IsMark(final.text[k]) => final.text[k] # final.text[k + 1]
            /\ (\A k \in DOMAIN text : text[k] # One(9)) => stream.shown = final.text

\* Removing a marker never joins two words and never leaves two gaps where the
\* answer had one at a time.
ASSUME SeamsAreClean ==
    \A text \in Prose :
        LET kinds(t) == [k \in DOMAIN t |-> t[k].kind]
            twice(t, kind) == \E k \in 1 .. Len(t) - 1 : t[k].kind = kind /\ t[k + 1].kind = kind
            final == Cite!Finalize(text, Valid, Folds).text
        IN  /\ ~twice(text, "gap") => ~twice(final, "gap")
            /\ Len(SelectSeq(kinds(final), LAMBDA k : k = "word"))
                 = Len(SelectSeq(kinds(text), LAMBDA k : k = "word"))
=============================================================================
