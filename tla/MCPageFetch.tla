----------------------------- MODULE MCPageFetch -----------------------------
(* Two pages and a cache for one, a fetch past the cache, two callers; and   *)
(* the texts of pages and the rows of lists on all small inputs.                                   *)
EXTENDS PageFetch

T == INSTANCE PageTexts
L == INSTANCE ListResults

Texts(n) == UNION {[1..k -> {1, 2}] : k \in 0..n}
Words == {<< >>, <<2>>, <<2, 1>>}
Leads == 0..1
Lacks(text, part) == part # << >> /\ ~T!Has(text, part)

\* _text.py: a window is as long as it may be at most.
ASSUME WindowFits ==
    \A text \in Texts(7), n \in 0..6, find \in Words, lead \in Leads :
        Len(T!WindowAroundFind(text, n, find, lead).text) <= n

\* _text.py:40: the word that was found is in the window, unless it begins before
\* the limit and is cut off there, by the limit or by the remark that ends the
\* window (the code then says it was found and shows the text without it).
ASSUME FoundIsShown ==
    \A text \in Texts(7), n \in 5..6, find \in Words, lead \in Leads :
        LET w == T!WindowAroundFind(text, n, find, lead)
            first == T!Min(T!PlacesOf(find, text))
        IN  w.found /\ Lacks(w.text, find)
                => first < n /\ first + Len(find) > n - Len(T!Suffix)

\* The exception is met.
ASSUME FoundNotShown ==
    \E text \in Texts(6), find \in Words :
        LET w == T!WindowAroundFind(text, 5, find, 1) IN w.found /\ Lacks(w.text, find)

\* _text.py:45: a window that does not say that its end is missing lacks no more
\* of it than the remark at its beginning takes.
ASSUME EndIsSaid ==
    \A text \in Texts(7), n \in 4..6, find \in Words, lead \in Leads :
        LET w == T!WindowAroundFind(text, n, find, lead).text
            own == T!FoldLeft(LAMBDA s, c : IF c \in {1, 2} THEN Append(s, c) ELSE s, << >>, w)
        IN  T!Last(<<0>> \o w) # T!Suffix[1] =>
              \E lacking \in 0..Len(T!Prefix) :
                 T!IsSuffix(own, SubSeq(text, 1, Len(text) - lacking))

Blocks == {<<[kind |-> "intro", text |-> a], [kind |-> "pub_review", text |-> b],
             [kind |-> "weekly", text |-> c]>> : a \in Texts(4), b \in Texts(3), c \in Texts(2)}
TotalOf(page) == Len(T!FlattenSeq(T!TextsOf(page)))

\* yes24_fetch.py:594: the blocks of a page and the lines between them keep to
\* the limit, and they are whole wherever that is possible; the length without
\* those lines decides what the page says of itself, so that it may be cut
\* without saying so, and for these lines only.
ASSUME BlocksFit ==
    \A page \in Blocks, n \in {4, 6, 8}, find \in {<< >>, <<2>>} :
        LET d == T!TruncateDetailBlocks(page, n, find, 1)
            whole == T!SelectSeq(page, LAMBDA b : b.text # << >>)
            lines == Len(T!Separator) * T!Max({0, Len(whole) - 1})
        IN  /\ Len(T!DetailContent(d.blocks)) <= n
            /\ d.truncated => d.blocks # whole
            /\ TotalOf(page) + lines <= n => d.blocks = whole
            /\ d.blocks # whole /\ ~d.truncated => TotalOf(page) + lines > n

\* yes24_fetch.py:51: an answer of an FAQ page is whole or not there, the first
\* one shown has the word, and there is no answer at all only if the word
\* is found across two of them.
ASSUME FaqIsWhole ==
    \A first, second \in Texts(3) \ {<< >>}, n \in 2..8, find \in Words \cup {<<1>> \o T!Separator} :
        LET faqs == <<first, second>>
            faq == T!SelectFaq(faqs, n, find)
        IN  /\ Len(faq.text) <= n
            /\ faq.text \in {<< >>, first, second, T!Joined(faqs)}
            /\ faq.found /\ faq.text # << >> => T!Has(faq.text, find)
            /\ faq.fails <=> /\ Len(T!Joined(faqs)) > n
                             /\ T!Has(T!Joined(faqs), find)
                             /\ Lacks(first, find) /\ Lacks(second, find)

Page(product, parses, faqs, text) ==
    [answered |-> TRUE, product |-> product, parses |-> parses, entries |-> faqs,
     text |-> text, links |-> {[kind |-> "product"], [kind |-> "list"]},
     blocks |-> <<[kind |-> "intro", text |-> text]>>]
Pages == {Page(product, parses, faqs, text) : product, parses \in BOOLEAN,
            faqs \in {<< >>, <<(<<1, 1, 2>>), (<<2, 2>>)>>}, text \in Texts(6)}
         \cup {[answered |-> FALSE]}

FullText(page) == IF page.product \/ page.entries = << >> THEN page.text ELSE T!Joined(page.entries)

\* yes24_fetch.py:81: whatever a page is, the model gets an error or a text within
\* the limit, which says its length exactly if more than that was there.
ASSUME ResultFits ==
    \A page \in Pages, n \in 3..6 :
        LET r == T!Fetch(page, n, 2, <<2>>, 1)
        IN  r.status = "ok" =>
              /\ Len(r.text) <= n
              /\ (\E total \in 0..20 : <<"total_chars", total>> \in r.notes) <=> Len(FullText(page)) > n

\* Every error has its page.
ASSUME ErrorsAreMet ==
    {T!Fetch(page, 2, 2, << >>, 1).type : page \in Pages}
        = {"fetch", "parse", "empty", "content_too_large", "book_detail", "notice"}

Tables == {<< >>, [size |-> 1], [size |-> 2], [size |-> 1, weight |-> 3]}
Details == {[detail |-> d, snippet |-> s, blocks |-> <<[kind |-> "intro", text |-> b]>>,
             tabled |-> t # << >>, tables |-> t] :
              d \in BOOLEAN, s \in {<< >>, <<1>>, <<2>>}, b \in {<<1>>, <<2>>}, t \in Tables}
WithTables(item, common) ==
    [item EXCEPT !.tables = [c \in DOMAIN @ \cup DOMAIN common |->
                                IF c \in DOMAIN common THEN common[c] ELSE @[c]],
                 !.tabled = TRUE]
WithText(before, item) ==
    IF before.snippet # << >> /\ item.snippet = << >>
    THEN [item EXCEPT !.snippet = T!DetailContent(item.blocks)] ELSE item

\* yes24_fetch.py:314: what a batch does not repeat can be put back from what it
\* says: every detail with its text, from its blocks, and with its tables.
ASSUME NothingIsLost ==
    \A a, b, c \in Details :
        LET items == <<a, b, c>>
            shown == T!ProjectFetchMany(items)
            back(k) == IF items[k].detail /\ shown.common # << >>
                       THEN WithTables(shown.results[k], shown.common) ELSE shown.results[k]
        IN  \A k \in 1..3 : WithText(items[k], back(k)) = items[k]

-----------------------------------------------------------------------------

Seqs(S, n) == UNION {[1..k -> S] : k \in 0..n}
Members(s) == T!ToSet(s)
Urls == {"a", "b", "c"}

\* fetch_many.py:87: every item is opened, told to be left, or counted as a double;
\* no address is opened twice, none is both opened and left.
ASSUME ItemsAccounted ==
    \A items \in Seqs(Urls \cup {L!NoUrl}, 5), n \in 1..3 :
        LET p == L!Plan(items, n)
            opened == T!SelectSeq(p.plan, LAMBDA u : u # L!NoUrl)
        IN  /\ Len(p.plan) + Len(p.dropped) + p.duplicates = Len(items)
            /\ Len(p.plan) <= n
            /\ Cardinality(Members(opened)) = Len(opened)
            /\ Members(items) \subseteq Members(p.plan) \cup Members(p.dropped)
            /\ Members(opened) \cap Members(p.dropped) = {}

\* fetch_many.py:115: the results stand in the places of the plan, also when some
\* of the pages fail.
ASSUME ResultsInPlace ==
    \A items \in Seqs(Urls \cup {L!NoUrl}, 4) \ {<< >>}, bad \in SUBSET Urls :
        LET page == [u \in Urls |-> IF u \in bad THEN L!Error("fetch")
                                    ELSE [status |-> "ok", type |-> u]]
            r == L!FetchMany(items, 3, page)
            plan == L!Plan(items, 3).plan
        IN  /\ \A k \in DOMAIN plan : plan[k] \notin bad \cup {L!NoUrl} => r.results[k].type = plan[k]
            /\ r.status = "error" <=> Members(plan) \subseteq bad \cup {L!NoUrl}

Row(k, f, o) == [key |-> k, goods |-> k, format |-> f, others |-> o, rank |-> 0, price |-> 0]
Rows == {Row(1, "ebook", {}), Row(1, "unknown", {}), Row(2, "paper", {1}), Row(3, "paper", {1}),
         Row(4, "ebook", {2})}
Queries == <<"q1", "q2">>
KeysOf(rows) == {row.key : row \in Members(rows)}

\* parsers.py:1294, urls.py:118: a row that is left out is an eBook whose paper
\* book is in the list and links to it; and no such eBook stays.
ASSUME EditionsOnce ==
    \A rows \in {s \in Seqs(Rows, 4) : Cardinality(KeysOf(s)) = Len(s)} :
        LET kept == L!DropListedEbooks(rows)
        IN  \A row \in Members(rows) :
              (row \notin Members(kept))
                <=> /\ row.format = "ebook"
                    /\ \E paper \in Members(kept) : paper.format = "paper" /\ row.goods \in paper.others

SearchReplies == [{<<s, q>> : s \in {"book", L!Widest}, q \in {"q1", "q2"}} -> 
                    {[status |-> "ok", type |-> "list", rows |-> s] :
                        s \in {<< >>, <<Row(1, "ebook", {})>>, <<Row(2, "paper", {1}), Row(1, "unknown", {})>>}}
                    \cup {[status |-> "error", type |-> "fetch", rows |-> << >>]}]

\* yes24_search.py:337: an angle without rows in its section is searched everywhere
\* once, others are not; its progress begins once and ends once.
ASSUME AnglesEnd ==
    \A reply \in SearchReplies, section \in {"book", L!Widest} :
        LET searched == L!Searched(section, Queries, reply)
            of(q) == T!SelectSeq(searched, LAMBDA o : o.query = q)
        IN  \A q \in {"q1", "q2"} :
              /\ Len(L!Progress(section, q, searched)) = 2
              /\ Len(of(q)) = 2 <=> /\ section # L!Widest
                                    /\ reply[<<section, q>>].status = "ok"
                                    /\ reply[<<section, q>>].rows = << >>

\* yes24_search.py:366: every row found is in the results under its key, or is the
\* eBook of a book that is; the results name the angles that found it; a failed
\* angle never hides what another one found.
ASSUME FoundIsTold ==
    \A reply \in SearchReplies, section \in {"book", "no section"} :
        LET r == L!Search(section, Queries, reply, {"book", L!Widest})
            asked == IF section = "book" THEN "book" ELSE L!Widest
            searched == L!Searched(asked, Queries, reply)
            found == UNION {Members(searched[k].rows) : k \in DOMAIN searched}
        IN  /\ found # {} => r.status = "ok"
            /\ r.status = "ok" =>
                 /\ \A row \in found :
                      \/ row.key \in KeysOf(r.rows)
                      \/ \E paper \in Members(r.rows) : row.key \in paper.others
                 /\ \A row \in Members(r.rows) :
                      Members(row.queries) =
                        {o.query : o \in {o \in Members(searched) : row.key \in KeysOf(o.rows)}}

Names == {<<1>>, <<2, 1>>, <<1, 2>>}
Categories == {[number |-> n, name |-> name, tree |-> t] : n \in 1..2, name \in Names, t \in {1, 2}}
Corners == {[known |-> k, narrows |-> w, tree |-> 1,
             seed |-> [answered |-> a, categories |-> s],
             page |-> [n \in 0..2 |-> [answered |-> b, parses |-> c, rows |-> << >>]]] :
              k, w, a, b, c \in BOOLEAN, s \in {<< >>} \cup {<<x, y>> : x, y \in Categories}}

\* yes24_browse.py:128: a name leads to a page of the section's own tree, to the one
\* that is called so where there is one, and every error has its case.
ASSUME NamesLead ==
    \A s \in Seqs(Categories, 3) :
        LET m == L!MatchCategory(s, <<1>>, 1)
        IN  /\ Members(m) \subseteq {c \in Members(s) : c.tree = 1}
            /\ (\E c \in Members(s) : c.tree = 1 /\ c.name = <<1>>)
                 => \A c \in Members(m) : c.name = <<1>>
            /\ m = << >> <=> \A c \in Members(s) : c.tree # 1

ASSUME CornerErrorsMet ==
    {r.type : r \in {r \in {L!BrowseOne(c, n, name) : c \in Corners, n \in {-1, 0, 1}, name \in {<< >>, <<1>>}} :
                       r.status = "error"}}
      = {"invalid_section", "invalid_category", "fetch", "category_not_found",
         "category_ambiguous", "parse"}

CornerRow(f, o, rank, price) ==
    [key |-> 1, goods |-> 1, format |-> f, others |-> o, rank |-> rank, price |-> price]
CornerRows == {CornerRow(f, o, rank, price) : f \in {"ebook", "paper", "unknown"}, o \in {{}, {2}},
                                              rank, price \in 0..2}

\* yes24_browse.py:356: what one corner does not say of a book and another one says
\* is in the result, and what the first one says stays.
ASSUME CornersComplete ==
    \A x, y \in CornerRows :
        LET row == L!BrowsedRows(<<[status |-> "ok", rows |-> <<x>>], [status |-> "error"],
                                   [status |-> "ok", rows |-> <<y>>]>>)[1]
        IN  /\ row.rank = IF x.rank = 0 THEN y.rank ELSE x.rank
            /\ row.price = 0 <=> x.price = 0 /\ y.price = 0
            /\ row.format = "unknown" <=> x.format = "unknown" /\ y.format = "unknown"
            /\ row.corners = <<1, 3>>

Dates == {[year |-> y, month |-> n, day |-> d] : y \in 1..2, n \in {1, 2, 12}, d \in 0..3}
Later(x, y) ==
    LET months(z) == 12 * z.year + z.month
    IN  months(x) > months(y) \/ (months(x) = months(y) /\ x.day > y.day)

\* parsers.py:1213: a book is said to be out exactly when its date has come; of a
\* date without a day, when its month has (it may say so before the book is out).
ASSUME OutWhenItsDateHasCome ==
    \A date, today \in Dates :
        today.day # 0 => (L!PubStatus(date, today).out <=> ~Later(date, today))

ClubRows == {[club |-> c, format |-> f, goods |-> g, ebook |-> e] :
               c \in {"unknown", "yes", "no"}, f \in {"ebook", "paper", "unknown"}, g, e \in 0..2}
ClubReplies == {[answered |-> a, empty |-> m, page |-> p] :
                  a, m \in BOOLEAN, p \in {"product", "scripts", "other"}}

\* cremaclub.py:193: what was observed before stays, and a page that does not answer,
\* or answers something else, leaves a row unobserved instead of out of the club.
ASSUME ClubIsObserved ==
    \A row \in ClubRows, x, y \in ClubReplies :
        LET now == L!ObserveClub(<<row>>, <<x, y>>)[1]
            asked == L!EbookOf(row)
        IN  /\ row.club # "unknown" => now = row
            /\ now.club = "no" /\ row.club = "unknown" =>
                 asked # 0 /\ (<<x, y>>)[asked].answered /\ (<<x, y>>)[asked].page = "scripts"

\* parsers.py:192: a page with rows that none can be read of is an error, and no
\* list is empty unless the site says that nothing was found.
ASSUME EmptyIsSaid ==
    \A c, n \in BOOLEAN, items \in Seqs({[readable |-> TRUE], [readable |-> FALSE]}, 3), limit \in 1..2 :
        LET r == L!ParseList([container |-> c, noResults |-> n, items |-> items], limit)
        IN  r.status = "ok" /\ r.rows = << >> => ~c /\ n

ASSUME NumbersOnce ==
    \A anchors \in Seqs({[number |-> n, name |-> x] : n \in 1..2, x \in {<< >>, <<1>>, <<2>>}}, 3) :
        LET links == L!CategoryLinks(anchors, 2)
        IN  Cardinality({l.number : l \in Members(links)}) = Len(links)

\* Addresses: one of a product, one elsewhere, two below the page itself that have
\* the same path, another one below it, and one that is not listed.
Home == [host |-> "www", path |-> <<"e">>, query |-> 0]
Places == {[host |-> "www", path |-> <<"p">>, query |-> 0], [host |-> "sub", path |-> <<"e">>, query |-> 0],
           [host |-> "www", path |-> <<"e", "x">>, query |-> 0],
           [host |-> "www", path |-> <<"e", "x">>, query |-> 1],
           [host |-> "www", path |-> <<"e", "y">>, query |-> 0],
           [host |-> "ads", path |-> <<"p">>, query |-> 0]}
Where == [internal |-> {"www", "sub", "ads"}, noise |-> {"ads"}, disallowed |-> {<<"z">>}, products |-> {<<"p">>}]

\* parsers.py:912, 1026: however a page repeats its links, each address is kept once,
\* products first and then what lies below the page; a path is shown a second time
\* only when every path beside it has been shown, so that the limit cuts repeats.
ASSUME LinksKeepVariety ==
    \A urls \in Seqs(Places, 5), n \in {2, 4} :
        LET shown == L!ExtractLinks([j \in DOMAIN urls |-> [widget |-> FALSE, leads |-> TRUE, titled |-> TRUE,
                                                            url |-> urls[j]]], Where, <<Home>>, n)
            open == {u \in Members(urls) : u.host # "ads"}
            product(u) == u.path = <<"p">>
            below(u) == u.host = "www" /\ Len(u.path) = 2
        IN  /\ Len(shown) = T!Min({n, Cardinality(open)})
            /\ Members(shown) \subseteq open /\ Cardinality(Members(shown)) = Len(shown)
            /\ \A j, l \in DOMAIN shown : j < l =>
                 /\ product(shown[l]) => product(shown[j])
                 /\ below(shown[l]) /\ ~product(shown[j]) => below(shown[j])
            /\ (\E j, l \in DOMAIN shown : j # l /\ shown[j].path = <<"e", "x">> /\ shown[l].path = <<"e", "x">>)
                 => \A u \in open : u.path = <<"e", "y">> => u \in Members(shown)

=============================================================================
