----------------------------- MODULE ListResults -----------------------------
(***************************************************************************)
(* What the tools make of several pages at once (tools/fetch_many.py,       *)
(* tools/yes24_search.py, tools/yes24_browse.py, tools/cremaclub.py,        *)
(* yes24/parsers.py, yes24/urls.py): which pages are asked for, what is     *)
(* told of each, and the rows their lists give together.  What a page       *)
(* answers is an input.                                                     *)
(***************************************************************************)
EXTENDS Integers, FiniteSets, SequencesExt

\* The members of a sequence, each where it comes first (dict.setdefault).
EachOnce(s) == FoldLeft(LAMBDA kept, x : IF x \in ToSet(kept) THEN kept ELSE Append(kept, x),
                        << >>, s)
Mapped(F(_), s) == [k \in DOMAIN s |-> F(s[k])]
Error(type) == [status |-> "error", type |-> type]

-----------------------------------------------------------------------------
(* fetch_many.  An item is an address, or NoUrl. *)

NoUrl == "no url"

\* The pages that are opened: each address once, at most maxItems places; an
\* address that found no place is not remembered.
Plan(items, maxItems) ==
    FoldLeft(LAMBDA p, item :
                CASE item # NoUrl /\ item \in ToSet(p.plan) ->
                       [p EXCEPT !.duplicates = @ + 1]
                  [] ~(item # NoUrl /\ item \in ToSet(p.plan)) /\ Len(p.plan) >= maxItems ->
                       [p EXCEPT !.dropped = Append(@, item)]
                  [] OTHER -> [p EXCEPT !.plan = Append(@, item)],
             [plan |-> << >>, dropped |-> << >>, duplicates |-> 0], items)

\* fetch_pages: a result for each place of the plan, in its order.
FetchMany(items, maxItems, page) ==
    LET p == Plan(items, maxItems)
        result(url) == IF url = NoUrl THEN Error("invalid_url") ELSE page[url]
        results == Mapped(result, p.plan)
        ok == Len(SelectSeq(results, LAMBDA r : r.status # "error"))
    IN  IF items = << >> THEN Error("empty_input")
        ELSE [status |-> IF ok > 0 THEN "ok" ELSE "error",
              type |-> IF ok > 0 THEN "pages" ELSE "all_failed",
              results |-> results, count |-> ok, requested |-> Len(items),
              dropped |-> p.dropped, duplicates |-> p.duplicates]

-----------------------------------------------------------------------------
(* Rows of a list.  A row has a key (its goods number or its address), the   *)
(* goods number found in it (0: none), its format and the goods numbers of   *)
(* the other formats it links to.                                            *)

\* _parse_list: the rows that could be read, or the reason to think that the
\* page has changed.
ParseList(page, limit) ==
    LET read == SelectSeq(page.items, LAMBDA item : item.readable)
    IN  CASE ~page.container /\ page.noResults -> [status |-> "ok", rows |-> << >>]
          [] page.container /\ read # << >> ->
               [status |-> "ok", rows |-> SubSeq(read, 1, Min({limit, Len(read)}))]
          [] OTHER -> [status |-> "error", rows |-> << >>]

\* edition_folds: the eBook rows that a row of the paper book links to.
EditionFolds(rows) ==
    LET ebooks == SelectSeq(rows, LAMBDA r : r.format = "ebook" /\ r.goods # 0)
        ebookOf(number) == SelectSeq(ebooks, LAMBDA r : r.goods = number)
        folds(r) == {ebookOf(n)[1].key : n \in {n \in r.others : ebookOf(n) # << >>}} \ {r.key}
    IN  UNION {folds(rows[k]) : k \in {k \in DOMAIN rows : rows[k].format = "paper"}}

DropListedEbooks(rows) == SelectSeq(rows, LAMBDA r : r.key \notin EditionFolds(rows))

\* pub_status, from a date of which the day may be unknown (0), in months of up
\* to 31 days.
PubStatus(date, today) ==
    LET months == 12 * (date.year - today.year) + date.month - today.month
        days == date.day - today.day
    IN  CASE date.day # 0 /\ months = 0 /\ days = 0 -> [out |-> TRUE, after |-> 0, unit |-> "today"]
          [] date.day # 0 /\ months = 0 /\ days > 0 -> [out |-> FALSE, after |-> days, unit |-> "days"]
          [] months = 0 /\ (date.day = 0 \/ days < 0) -> [out |-> TRUE, after |-> 0, unit |-> "this month"]
          [] months < 0 -> [out |-> TRUE, after |-> months, unit |-> "months"]
          [] OTHER -> [out |-> FALSE, after |-> months, unit |-> "months"]

-----------------------------------------------------------------------------
(* yes24_search.  reply[<<section, query>>] is what a search page gives:     *)
(* [status, type, rows]; the rows of a page that failed are << >>.           *)

Widest == "all"

\* _search_one.
SearchOne(section, query, reply) ==
    [query |-> query, section |-> section, status |-> reply[<<section, query>>].status,
     type |-> reply[<<section, query>>].type, rows |-> reply[<<section, query>>].rows]

\* An angle that found nothing in its section is searched everywhere.
Widens(section, outcome) == section # Widest /\ outcome.status = "ok" /\ outcome.rows = << >>
Searched(section, queries, reply) ==
    LET first == Mapped(LAMBDA q : SearchOne(section, q, reply), queries)
        widen == SelectSeq(first, LAMBDA o : Widens(section, o))
    IN  first \o Mapped(LAMBDA o : SearchOne(Widest, o.query, reply), widen)

\* What the progress of an angle tells (ToolProgressGroup.gather): it begins once,
\* and ends with the search that is its last one.
Progress(section, query, searched) ==
    LET its == SelectSeq(searched, LAMBDA o : o.query = query)
        last == SelectSeq(its, LAMBDA o : ~Widens(section, o) \/ o.section # section)
    IN  <<"begun">> \o Mapped(LAMBDA o : IF o.status = "error" THEN "failed" ELSE "done", last)

\* One row for a key, the first one, with all angles that found it.
Merged(searched) ==
    LET found == FlattenSeq(Mapped(LAMBDA o : Mapped(LAMBDA r : <<r, o.query>>, o.rows), searched))
        keys == EachOnce(Mapped(LAMBDA f : f[1].key, found))
        of(key) == SelectSeq(found, LAMBDA f : f[1].key = key)
        queries(key) == EachOnce(Mapped(LAMBDA f : f[2], of(key)))
    IN  Mapped(LAMBDA key : [key |-> key, goods |-> of(key)[1][1].goods,
                             format |-> of(key)[1][1].format, others |-> of(key)[1][1].others,
                             queries |-> queries(key)], keys)

\* yes24_search: an error only if no angle succeeded; otherwise the rows, and
\* what became of each search.
Search(section, queries, reply, known) ==
    LET asked == IF section \in known THEN section ELSE Widest
        searched == Searched(asked, queries, reply)
        rows == DropListedEbooks(Merged(searched))
        told(o) == [query |-> o.query, status |-> o.status, type |-> o.type,
                    count |-> Len(o.rows), widened |-> o.section # asked]
    IN  CASE queries = << >> -> Error("empty_query")
          [] queries # << >> /\ \A k \in DOMAIN searched : searched[k].status = "error" ->
               Error(searched[1].type)
          [] OTHER -> [status |-> "ok", rows |-> rows, searches |-> Mapped(told, searched)]

-----------------------------------------------------------------------------
(* yes24_browse. *)

\* _match_category: the categories of the section's tree whose name is the one
\* asked for, or else begins with it, or else has it.
MatchCategory(categories, name, tree) ==
    LET pool == SelectSeq(categories, LAMBDA c : c.tree = tree)
        equal == SelectSeq(pool, LAMBDA c : c.name = name)
        begins == SelectSeq(pool, LAMBDA c : IsPrefix(name, c.name))
        contains == SelectSeq(pool, LAMBDA c :
                        \E i, j \in 1..Len(c.name) : SubSeq(c.name, i, j) = name)
    IN  IF equal # << >> THEN equal ELSE IF begins # << >> THEN begins ELSE contains

\* _category_links: the categories that have a name, each number once.
CategoryLinks(anchors, limit) ==
    LET named == SelectSeq(anchors, LAMBDA a : a.name # << >>)
        numbers == EachOnce(Mapped(LAMBDA a : a.number, named))
        first(n) == SelectSeq(named, LAMBDA a : a.number = n)[1]
    IN  Mapped(first, SubSeq(numbers, 1, Min({limit, Len(numbers)})))

\* _browse_one: a corner of a site, [known, narrows, seed, tree, page], with the
\* category that was asked for by its number (0: by none, -1: no number) or by name.
Category(corner, number, name) ==
    LET matches == MatchCategory(corner.seed.categories, name, corner.tree)
    IN  CASE number # 0 \/ name = << >> -> [status |-> "ok", number |-> number]
          [] number = 0 /\ name # << >> /\ ~corner.narrows -> Error("invalid_category")
          [] number = 0 /\ name # << >> /\ corner.narrows /\ ~corner.seed.answered -> Error("fetch")
          [] OTHER -> CASE matches = << >> -> Error("category_not_found")
                        [] Len(matches) > 1 -> Error("category_ambiguous")
                        [] OTHER -> [status |-> "ok", number |-> matches[1].number]

BrowseOne(corner, number, name) ==
    LET category == Category(corner, number, name)
        page == corner.page[category.number]
    IN  CASE ~corner.known -> Error("invalid_section")
          [] corner.known /\ number = -1 -> Error("invalid_category")
          [] corner.known /\ number # -1 /\ category.status = "error" -> category
          [] OTHER -> CASE category.number # 0 /\ ~corner.narrows -> Error("invalid_category")
                        [] ~page.answered -> Error("fetch")
                        [] page.answered /\ ~page.parses -> Error("parse")
                        [] OTHER -> [status |-> "ok", rows |-> page.rows]

\* yes24_browse: one row for a key, with the place it first has and the corners
\* it is in.  What the first one does not say of it (rank and price 0, the format
\* unknown, no other formats) is taken from the others; price stands for the
\* fields that decide nothing here.
BrowsedRows(outcomes) ==
    LET found == FlattenSeq([k \in DOMAIN outcomes |->
                    IF outcomes[k].status = "error" THEN << >>
                    ELSE [i \in DOMAIN outcomes[k].rows |->
                            [row |-> outcomes[k].rows[i], place |-> i, corner |-> k]]])
        keys == EachOnce(Mapped(LAMBDA f : f.row.key, found))
        of(key) == SelectSeq(found, LAMBDA f : f.row.key = key)
        told(key, F(_), none) == (SelectSeq(Mapped(F, of(key)), LAMBDA v : v # none) \o <<none>>)[1]
    IN  Mapped(LAMBDA key : [key |-> key, goods |-> of(key)[1].row.goods, place |-> of(key)[1].place,
                             rank |-> told(key, LAMBDA f : f.row.rank, 0),
                             price |-> told(key, LAMBDA f : f.row.price, 0),
                             format |-> told(key, LAMBDA f : f.row.format, "unknown"),
                             others |-> told(key, LAMBDA f : f.row.others, {}),
                             corners |-> Mapped(LAMBDA f : f.corner, of(key))], keys)

Browse(outcomes) ==
    IF \A k \in DOMAIN outcomes : outcomes[k].status = "error" THEN outcomes[1]
    ELSE [status |-> "ok", rows |-> DropListedEbooks(BrowsedRows(outcomes))]

-----------------------------------------------------------------------------
(* The links and the entries of a page.  An address is [host, path, query],  *)
(* its path the sequence of its parts; an anchor says whether it lies in the *)
(* widget of other formats, whether it leads to an address and has a title.  *)
(* site tells hosts and paths apart: [internal, noise, disallowed, products]. *)

Listed(anchor, site) ==
    /\ ~anchor.widget /\ anchor.leads /\ anchor.titled
    /\ anchor.url.host \in site.internal \ site.noise
    /\ anchor.url.path \notin site.disallowed

\* _context_first: pages below the page itself come first, and a path that is linked
\* to for the n-th time comes after those linked to less often.
ContextFirst(pages, page) ==
    LET group(url) == IF url.host = page.host /\ IsPrefix(page.path, url.path) THEN 0 ELSE 1
        like(i, j) == pages[i].host = pages[j].host /\ pages[i].path = pages[j].path
        before(i) == Cardinality({j \in 1..i - 1 : like(i, j)})
        rank(i) == <<group(pages[i]), before(i), i>>
        earlier(i, j) == \E n \in 1..3 : /\ rank(i)[n] < rank(j)[n]
                                         /\ \A k \in 1..n - 1 : rank(i)[k] = rank(j)[k]
    IN  Mapped(LAMBDA i : pages[i], SetToSortSeq(DOMAIN pages, earlier))

\* extract_links: every address once, those of products before the others; a page
\* without an address of its own (<< >>) leaves them in their order.
ExtractLinks(anchors, site, page, limit) ==
    LET urls == EachOnce(Mapped(LAMBDA a : a.url, SelectSeq(anchors, LAMBDA a : Listed(a, site))))
        products == SelectSeq(urls, LAMBDA u : u.path \in site.products)
        pages == SelectSeq(urls, LAMBDA u : u.path \notin site.products)
        links == products \o IF page = << >> THEN pages ELSE ContextFirst(pages, page[1])
    IN  SubSeq(links, 1, Min({limit, Len(links)}))

\* parse_event_list: the texts that are not empty, each once.
ParseEventList(texts, limit) ==
    LET events == EachOnce(SelectSeq(texts, LAMBDA x : x # ""))
    IN  SubSeq(events, 1, Min({limit, Len(events)}))

\* extract_faq_entries: of all lists of the page, the entries with both texts.
ExtractFaqEntries(lists) ==
    FlattenSeq(Mapped(LAMBDA list : SelectSeq(list, LAMBDA e : e.question # "" /\ e.answer # ""),
                      lists))

-----------------------------------------------------------------------------
(* observe_cremaclub.  A row has its format, its goods number and that of the *)
(* eBook it links to (0: none), and whether it is in the club.               *)

\* _targets: the eBook of a row that has not been observed.
EbookOf(row) ==
    CASE row.club = "unknown" /\ row.format = "ebook" -> row.goods
      [] row.club = "unknown" /\ row.format = "paper" -> row.ebook
      [] OTHER -> 0

\* _verdict, of an answer in time; _Unobserved of anything else.
Verdict(reply) ==
    CASE ~reply.answered \/ reply.empty -> "unobserved"
      [] reply.answered /\ ~reply.empty /\ reply.page = "product" -> "yes"
      [] reply.answered /\ ~reply.empty /\ reply.page = "scripts" -> "no"
      [] OTHER -> "unobserved"

\* One page is asked for an eBook, however many rows it is the eBook of.
ObserveClub(rows, reply) ==
    LET verdict(row) == IF EbookOf(row) = 0 THEN "unobserved" ELSE Verdict(reply[EbookOf(row)])
    IN  Mapped(LAMBDA row : IF verdict(row) = "unobserved" THEN row
                            ELSE [row EXCEPT !.club = verdict(row)], rows)

=============================================================================
