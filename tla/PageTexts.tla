------------------------------ MODULE PageTexts ------------------------------
(***************************************************************************)
(* What of a Yes24 page reaches the model (tools/_text.py,                  *)
(* tools/yes24_fetch.py): the window around a word, the blocks of a product *)
(* page within one budget, the questions of an FAQ page, and what a batch   *)
(* of pages says only once.  A text is a sequence of characters that are no *)
(* blanks, so that strip() takes nothing from it; the remarks put in place  *)
(* of a text have their order of lengths and characters (below 0) of their   *)
(* own.  No word is << >>.                                                  *)
(***************************************************************************)
EXTENDS Integers, FiniteSets, SequencesExt

Suffix == <<-1>>              \* TRUNCATION_SUFFIX
Prefix == <<-2, -3>>          \* OMITTED_PREFIX, the longer one
Separator == <<-4, -4>>       \* "\n\n"

Joined(texts) ==
    FoldLeft(LAMBDA text, next : IF text = << >> THEN next ELSE text \o Separator \o next,
             << >>, texts)

\* Where find begins in text, counted from 0.
PlacesOf(find, text) ==
    {i \in 0..Len(text) - Len(find) : SubSeq(text, i + 1, i + Len(find)) = find}
Has(text, find) == find # << >> /\ PlacesOf(find, text) # {}

-----------------------------------------------------------------------------
(* Windows. *)

Truncate(text, maxChars) ==
    CASE Len(text) <= maxChars -> text
      [] Len(text) > maxChars /\ maxChars <= Len(Suffix) -> SubSeq(Suffix, 1, maxChars)
      [] OTHER -> SubSeq(text, 1, maxChars - Len(Suffix)) \o Suffix

\* window_around_find: the text from lead characters before the word, when the
\* word does not begin within the first maxChars.
WindowAt(text, maxChars, start) ==
    LET prefix == IF start > 0 THEN Prefix ELSE << >>
        suffix == IF start + maxChars < Len(text) THEN Suffix ELSE << >>
        budget == maxChars - Len(prefix) - Len(suffix)
    IN  IF budget <= 0 THEN SubSeq(prefix \o suffix, 1, maxChars)
        ELSE prefix \o SubSeq(text, start + 1, Min({start + budget, Len(text)})) \o suffix

WindowAroundFind(text, maxChars, find, lead) ==
    LET first == Min(PlacesOf(find, text))
    IN  [found |-> Has(text, find),
         text |-> IF Len(text) > maxChars /\ Has(text, find) /\ first >= maxChars
                  THEN WindowAt(text, maxChars, Max({0, first - lead}))
                  ELSE Truncate(text, maxChars)]

-----------------------------------------------------------------------------
(* A product page: its description, contents, publisher's review and weekly *)
(* reviews, [kind, text], in this order.                                    *)

TakeBlock(text, remaining, find, lead) ==
    CASE remaining <= 0 -> [taken |-> << >>, left |-> 0]
      [] remaining > 0 /\ Len(text) <= remaining -> [taken |-> text, left |-> remaining - Len(text)]
      [] OTHER -> [taken |-> WindowAroundFind(text, remaining, find, lead).text, left |-> 0]

\* The blocks that have the word go first.
InOrder(blocks, find) ==
    SelectSeq(blocks, LAMBDA b : Has(b.text, find))
        \o SelectSeq(blocks, LAMBDA b : ~Has(b.text, find))

\* One block after the other takes its part of what is left; a separator is paid
\* by the block after it.
Step(soFar, block, find, lead) ==
    LET separator == IF soFar.blocks = << >> THEN 0 ELSE Len(Separator)
        part == TakeBlock(block.text, Max({0, soFar.left - separator}), find, lead)
    IN  IF part.taken = << >> THEN soFar
        ELSE [blocks |-> Append(soFar.blocks, [block EXCEPT !.text = part.taken]), left |-> part.left]

Kinds == <<"intro", "toc", "pub_review", "weekly">>
TextsOf(blocks) == [k \in DOMAIN blocks |-> blocks[k].text]
TruncateDetailBlocks(page, maxChars, find, lead) ==
    LET blocks == SelectSeq(page, LAMBDA b : b.text # << >>)
        taken == FoldLeft(LAMBDA soFar, b : Step(soFar, b, find, lead),
                          [blocks |-> << >>, left |-> maxChars], InOrder(blocks, find)).blocks
        total == Len(FlattenSeq(TextsOf(blocks)))
    IN  [blocks |-> FlattenSeq([k \in DOMAIN Kinds |->
                                  SelectSeq(taken, LAMBDA b : b.kind = Kinds[k])]),
         truncated |-> total > maxChars, total |-> total,
         found |-> \E k \in DOMAIN blocks : Has(blocks[k].text, find)]

DetailContent(blocks) == Joined(TextsOf(blocks))

-----------------------------------------------------------------------------
(* An FAQ page: a sequence of questions with their answers. *)

\* _select_complete_faq_entries: whole entries, from the first one that has the
\* word.  The code has no answer for a word that is only found across two of
\* them (next() without a default).
SelectFaq(entries, maxChars, find) ==
    LET full == Joined(entries)
        having == {k \in DOMAIN entries : Has(entries[k], find)}
        start == IF Has(full, find) THEN Min(having) ELSE 1
        fits(n) == Len(Joined(SubSeq(entries, start, n))) <= maxChars
        last == Max({start - 1} \cup {n \in start..Len(entries) : fits(n)})
    IN  IF Len(full) <= maxChars
        THEN [fails |-> FALSE, text |-> full, count |-> Len(entries), found |-> Has(full, find)]
        ELSE IF Has(full, find) /\ having = {}
        THEN [fails |-> TRUE, text |-> << >>, count |-> 0, found |-> TRUE]
        ELSE [fails |-> FALSE, text |-> Joined(SubSeq(entries, start, last)),
              count |-> last - start + 1, found |-> Has(full, find)]

-----------------------------------------------------------------------------
(* The result of one page. *)

Error(type) == [status |-> "error", type |-> type]

\* What a registrar adds: the length when it was cut, the word when it was asked for.
Notes(trunc, find) ==
    (IF trunc.truncated THEN {<<"total_chars", trunc.total>>} ELSE {})
        \cup (IF find # << >> THEN {<<"find_found", trunc.found>>} ELSE {})

\* _parse_product_page, _register_product.
ProductPage(page, maxChars, find, lead) ==
    LET trunc == TruncateDetailBlocks(page.blocks, maxChars, find, lead)
    IN  IF ~page.parses THEN Error("parse")
        ELSE [status |-> "ok", type |-> "book_detail", text |-> DetailContent(trunc.blocks),
              links |-> {link \in page.links : link.kind = "product"}, notes |-> Notes(trunc, find)]

\* _parse_generic_page, _register_generic.
GenericPage(page, maxChars, minChars, find, lead) ==
    LET isFaq == page.entries # << >>
        text == IF isFaq THEN Joined(page.entries) ELSE page.text
        faq == SelectFaq(page.entries, maxChars, find)
        window == WindowAroundFind(text, maxChars, find, lead)
    IN  CASE Len(text) < minChars -> Error("empty")
          [] Len(text) >= minChars /\ isFaq /\ faq.count = 0 -> Error("content_too_large")
          [] OTHER -> [status |-> "ok", type |-> "notice",
                       text |-> IF isFaq THEN faq.text ELSE window.text, links |-> page.links,
                       notes |-> Notes([truncated |-> Len(text) > maxChars, total |-> Len(text),
                                        found |-> IF isFaq THEN faq.found ELSE window.found], find)]

\* yes24_fetch: what kind of page it is decides its form.
Fetch(page, maxChars, minChars, find, lead) ==
    CASE ~page.answered -> Error("fetch")
      [] page.answered /\ page.product -> ProductPage(page, maxChars, find, lead)
      [] OTHER -> GenericPage(page, maxChars, minChars, find, lead)

-----------------------------------------------------------------------------
(* The results of a batch, as the model gets them.  A detail has the whole   *)
(* text (snippet), its blocks and the tables of its facts, a function from   *)
(* captions; tabled says whether it has tables.                              *)

\* project_detail_for_model: the text is left out when the blocks make it up.
ProjectDetail(item) ==
    IF item.detail /\ item.snippet # << >> /\ item.snippet = DetailContent(item.blocks)
    THEN [item EXCEPT !.snippet = << >>] ELSE item

\* _fold_common_info_tables: what all details say of themselves is said once.
Common(items) ==
    LET details == {k \in DOMAIN items : items[k].detail}
    IN  IF Cardinality(details) < 2 \/ \E k \in details : ~items[k].tabled THEN {}
        ELSE {c \in UNION {DOMAIN items[k].tables : k \in details} :
                /\ \A k \in details : c \in DOMAIN items[k].tables
                /\ \A k, l \in details : items[k].tables[c] = items[l].tables[c]}

Fold(items) ==
    LET common == Common(items)
        rest(item) == Restrict(item.tables, DOMAIN item.tables \ common)
    IN  [k \in DOMAIN items |->
           IF ~items[k].detail \/ common = {} THEN items[k]
           ELSE [items[k] EXCEPT !.tables = rest(items[k]), !.tabled = rest(items[k]) # << >>]]

ProjectFetchMany(items) ==
    LET projected == [k \in DOMAIN items |-> ProjectDetail(items[k])]
        common == Common(projected)
        any == CHOOSE k \in DOMAIN items : items[k].detail
    IN  [results |-> Fold(projected),
         common |-> IF common = {} THEN << >> ELSE Restrict(items[any].tables, common)]

=============================================================================
