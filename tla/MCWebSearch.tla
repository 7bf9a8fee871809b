---------------------------- MODULE MCWebSearch ----------------------------
EXTENDS WebSearch, WebRules, TLC

CONSTANTS t1, t2, msg

MCTurns == {t1, t2}
\* Two turns with the same message; the first makes two calls.
MCTurnOf == <<t1, t1, t2>>
MCMsgOf == t1 :> msg @@ t2 :> msg
\* Every search asks for the whole chain; that a search of domains skips grounding
\* is ChainIsSliced below.
MCRequests == {<<"searchapi", FALSE>>}
MCConfigured == {"grounding", "searchapi", "perplexity"}

-----------------------------------------------------------------------------
(* What the rules promise, on all small inputs. *)

\* The backends a search comes to are those of _BACKEND_CHAIN from the primary
\* one on, without grounding where there are domains and without those that have
\* no key, but for the first.
Chain == <<"searchapi", "grounding", "perplexity">>
ASSUME ChainIsSliced ==
    \A primary \in Backends, domains \in BOOLEAN :
        LET from == CHOOSE i \in 1 .. 3 : Chain[i] = primary
            asked == SelectSeq(SubSeq(Chain, from, 3), LAMBDA b : ~(b = "grounding" /\ domains))
            first == FirstBackend(primary, domains)
            second == NextBackend(first, domains)
            walk == IF second = "" THEN <<first>>
                    ELSE IF NextBackend(second, domains) = "" THEN <<first, second>>
                    ELSE <<first, second, NextBackend(second, domains)>>
        IN  walk = <<asked[1]>> \o SelectSeq(Tail(asked), LAMBDA b : b \in Configured)

\* Every angle is planned or reported, once.
ASSUME AnglesAreAccountedFor ==
    \A queries \in UNION {[1 .. n -> {"a", "b", "c", " "}] : n \in 0 .. 4}, max \in 1 .. 3 :
        LET plan == PlanQueries(queries, {" "}, max)
            all == plan.planned \o plan.dropped
        IN  /\ Len(plan.planned) <= max
            /\ ToSet(all) = ToSet(queries) \ {" "}
            /\ Cardinality(ToSet(all)) = Len(all)

HostNames == {<<"b", "kr">>, <<"c", "b", "kr">>, <<"kr">>, <<"d", "kr">>}
Filters == {[host |-> host, excluded |-> excluded, valid |-> Len(host) > 1] :
              host \in HostNames, excluded \in BOOLEAN}

\* A filter never lets an address through that its opposite lets through, and an
\* error is the only answer to filters of both kinds.
ASSUME ScopesAreOpposite ==
    \A f, g \in Filters, host \in HostNames :
        LET normal == NormalizeDomains(<<f, g>>)
            flip(h) == [h EXCEPT !.excluded = ~@]
        IN  IF f.excluded # g.excluded \/ ~f.valid \/ ~g.valid THEN normal.error
            ELSE /\ ~normal.error
                 /\ InScope(host, normal.filters)
                      # InScope(host, NormalizeDomains(<<flip(f), flip(g)>>).filters)

\* Each statement is there once, with exactly the sources that were connected to
\* it, also when two addresses turn out to be one.
Supports == [text : {"s", "t"}, chunks : {{}, {1}, {1, 2}, {2, 3}}]
ASSUME EvidenceIsExact ==
    \A one, two, three \in Supports, final \in {<< >>, "u" :> "w", "u" :> "v" @@ "v" :> "v"} :
        LET chunks == <<[url |-> "u"], [url |-> "v"], [url |-> ""]>>
            supports == <<one, two, three>>
            merged == MergeByUrl(Resolve(GroundingResults(chunks, supports), final))
            evidence == Evidence(merged)
            to(url) == IF url \in DOMAIN final THEN final[url] ELSE url
        IN  /\ Cardinality({e.text : e \in ToSet(evidence)}) = Len(evidence)
            /\ Cardinality({r.url : r \in ToSet(merged)}) = Len(merged)
            /\ {<<e.text, merged[k].url>> : <<e, k>> \in
                  {p \in ToSet(evidence) \X DOMAIN merged : p[2] \in p[1].sources}}
                 = {<<s.text, to(chunks[i].url)>> : <<s, i>> \in
                      {p \in ToSet(supports) \X {1, 2} : p[2] \in p[1].chunks}}

\* A statement without references of its own has at most the one reference of the
\* list around it, and none if a sibling has its own.
Leaf == [answer : {"s", "t"}, refs : {{}, {1}, {2}}, items : {{}}]
ASSUME NoReferenceTaken ==
    \A a, b \in Leaf, refs \in SUBSET {1, 2, 3} :
        LET list == [answer |-> "", refs |-> refs, items |-> {a, b}]
            claims == AiModeClaims({list}, {})
            sources == AiModeResults({list}, <<"u", "v", "u">>)
            handed == IF a.refs = {} /\ b.refs = {} /\ Cardinality(refs) = 1 THEN refs ELSE {}
        IN  /\ claims = {<<r, item.answer>> : r \in refs \cup {1, 2}, item \in {a, b}}
                          \cap UNION {(item.refs \cup handed) \X {item.answer} : item \in {a, b}}
            /\ \A source \in ToSet(sources), text \in {"s", "t"} :
                 text \in ToSet(source.claims) =>
                    \E c \in claims : c[2] = text /\ (c[1] = 2 <=> source.url = "v")

\* A search of several angles fails only when all of them do, and an address is a
\* source once, with all the angles that found it.
Angles == [error : BOOLEAN, urls : {<< >>, <<"u">>, <<"u", "v">>, <<"v", "v">>}]
ASSUME AnglesAreMerged ==
    \A a, b \in Angles :
        LET result == RawSearch(<<a, b>>)
        IN  /\ result.error <=> a.error /\ b.error
            /\ \A r \in ToSet(result.results) :
                 r.angles = {i \in {1, 2} : /\ ~<<a, b>>[i].error
                                            /\ r.url \in ToSet(<<a, b>>[i].urls)}
            /\ Cardinality({r.url : r \in ToSet(result.results)}) = Len(result.results)

=============================================================================
