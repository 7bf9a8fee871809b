------------------------------ MODULE WebRules ------------------------------
(***************************************************************************)
(* What a web search makes of its input and of the backends' answers        *)
(* (tools/web_search.py, tools/_planning.py): the angles and the domains,   *)
(* the sources and the statements they support, and the result of several   *)
(* angles.  An address is a model value, a host name the sequence of its    *)
(* labels, a statement a model value.                                       *)
(***************************************************************************)
EXTENDS Integers, FiniteSets, SequencesExt

\* The members of a sequence, each where it comes first (dict.fromkeys).
Once(s) == FoldLeft(LAMBDA kept, x : IF x \in ToSet(kept) THEN kept ELSE Append(kept, x),
                    << >>, s)

-----------------------------------------------------------------------------
(* The input. *)

\* plan_queries: the angles that are texts, each once; the first max of them are
\* searched, the others reported.
PlanQueries(queries, blank, max) ==
    LET angles == Once(SelectSeq(queries, LAMBDA q : q \notin blank))
        cut == IF Len(angles) < max THEN Len(angles) ELSE max
    IN  [planned |-> SubSeq(angles, 1, cut), dropped |-> SubSeq(angles, cut + 1, Len(angles))]

\* _normalize_domain_filters: host names, each once, all wanted or all unwanted;
\* anything else is an error.
NormalizeDomains(filters) ==
    IF \/ \E f \in ToSet(filters) : ~f.valid
       \/ Cardinality({f.excluded : f \in ToSet(filters)}) > 1
    THEN [error |-> TRUE, filters |-> << >>]
    ELSE [error |-> FALSE, filters |-> Once(filters)]

\* _url_in_domain_scope: the host of the address is one of the domains or below
\* one (or is not, where the filters exclude); without a filter any host is good.
InScope(host, filters) ==
    \/ filters = << >>
    \/ LET matched == \E f \in ToSet(filters) : IsSuffix(f.host, host)
       IN  IF filters[1].excluded THEN ~matched ELSE matched

-----------------------------------------------------------------------------
(* Sources and what they support. *)

\* _grounding_response_to_results: the chunks that have an address and support a
\* statement, with their statements.  supports is a sequence of statements with
\* the numbers of the chunks that support them.
GroundingResults(chunks, supports) ==
    LET claims(i) == Once([k \in DOMAIN SelectSeq(supports, LAMBDA s : i \in s.chunks) |->
                             SelectSeq(supports, LAMBDA s : i \in s.chunks)[k].text])
        cited == SelectSeq([i \in DOMAIN chunks |-> i],
                           LAMBDA i : chunks[i].url # "" /\ claims(i) # << >>)
    IN  [k \in DOMAIN cited |-> [url |-> chunks[cited[k]].url, claims |-> claims(cited[k])]]

\* Where the addresses lead (_fetch_page_meta): final[url] for those that were
\* read within the budget, the address itself for the others.
Resolve(results, final) ==
    [k \in DOMAIN results |-> IF results[k].url \in DOMAIN final
                              THEN [results[k] EXCEPT !.url = final[@]] ELSE results[k]]

\* One source for an address, with the statements of all of its results.
MergeByUrl(results) ==
    LET urls == Once([k \in DOMAIN results |-> results[k].url])
        ofUrl(url) == SelectSeq(results, LAMBDA r : r.url = url)
    IN  [k \in DOMAIN urls |->
           [url |-> urls[k],
            claims |-> Once(FlattenSeq([i \in DOMAIN ofUrl(urls[k]) |-> ofUrl(urls[k])[i].claims]))]]

\* The evidence of a result: each statement once, with the sources that share it.
Evidence(results) ==
    LET texts == Once(FlattenSeq([k \in DOMAIN results |-> results[k].claims]))
    IN  [i \in DOMAIN texts |->
           [text |-> texts[i],
            sources |-> {k \in DOMAIN results : texts[i] \in ToSet(results[k].claims)}]]

\* _ai_mode_claims: the statements with the references they are given.  A list
\* hands its reference down only when it has exactly one and none of its members
\* has its own.
RECURSIVE AiModeClaims(_, _)
AiModeClaims(blocks, inherited) ==
    UNION {LET refs == IF block.refs # {} THEN block.refs ELSE inherited
               cited == \E item \in block.items : item.refs # {}
               handed == IF ~cited /\ Cardinality(refs) = 1 THEN refs ELSE {}
           IN  {<<ref, block.answer>> : ref \in IF block.answer = "" THEN {} ELSE refs}
                  \cup AiModeClaims(block.items, handed)
           : block \in blocks}

\* _ai_mode_to_raw: the links that were given a statement, one source for each.
AiModeResults(blocks, links) ==
    LET claims == AiModeClaims(blocks, {})
        ofLink(i) == SetToSeq({claim[2] : claim \in {c \in claims : c[1] = i}})
        used == SelectSeq([i \in DOMAIN links |-> i],
                          LAMBDA i : links[i] # "" /\ ofLink(i) # << >>)
    IN  MergeByUrl([k \in DOMAIN used |-> [url |-> links[used[k]], claims |-> ofLink(used[k])]])

\* search_raw: the rows within the domains that have a text.
ScopedRows(rows, filters) ==
    SelectSeq(rows, LAMBDA row : InScope(row.host, filters) /\ row.content)

\* searchapi_raw: only excluding filters are applied; no rows is a failure.
SearchApiRows(rows, filters) ==
    LET kept == IF filters # << >> /\ filters[1].excluded
                THEN SelectSeq(rows, LAMBDA row : InScope(row.host, filters)) ELSE rows
    IN  [error |-> kept = << >>, rows |-> kept,
         ignored |-> filters # << >> /\ ~filters[1].excluded]

-----------------------------------------------------------------------------
(* The result. *)

\* _raw_search: the sources of the angles that succeeded, each address once with
\* the angles that found it; an error only when no angle succeeded.
RawSearch(angles) ==
    LET found == FlattenSeq([a \in DOMAIN angles |->
                    IF angles[a].error THEN << >>
                    ELSE [k \in DOMAIN angles[a].urls |-> <<angles[a].urls[k], a>>]])
        urls == Once([k \in DOMAIN found |-> found[k][1]])
    IN  [error |-> \A a \in DOMAIN angles : angles[a].error,
         results |-> [k \in DOMAIN urls |->
                        [url |-> urls[k],
                         angles |-> {a \in DOMAIN angles : <<urls[k], a>> \in ToSet(found)}]],
         searches |-> [a \in DOMAIN angles |-> ~angles[a].error]]

\* web_search: what failed before the backend that answered is reported with it;
\* of an error only if more than one backend failed.
Searches(failed, ok, searches) ==
    IF ok THEN failed \o searches ELSE IF Len(failed) > 1 THEN failed ELSE << >>

\* web_fetch: what is read of a page, or the reason why nothing is.
FetchOutcome(url, find, configured, reply) ==
    CASE url = "blank" -> "invalid_url"
      [] find = "no text" -> "invalid_find"
      [] url = "other scheme" -> "invalid_url"
      [] ~configured -> "not_configured"
      [] reply = "failed" -> "fetch"
      [] reply = "empty" -> "empty"
      [] OTHER -> "ok"

=============================================================================
