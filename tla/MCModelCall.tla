------------------------------ MODULE MCModelCall -----------------------------
(* Two threads on one manager; three candidates over two providers, of which two  *)
(* share a credential; the last provider holds less than the first.              *)
EXTENDS ModelCall, TLC

CONSTANTS t1, t2, key, other, big, small

MCThreads == {t1, t2}
MCThread  == {t1}
Conf(slug, model, default, chars, tokens, embeds) ==
    [slug |-> slug, model |-> model, default |-> default, chars |-> chars,
     tokens |-> tokens, embeds |-> embeds, own |-> FALSE]
MCConfs == [pa   |-> Conf(key, small, small, 8, None, TRUE),
            pb   |-> Conf(key, None, big, None, 1, FALSE),
            mock |-> [Conf(None, None, big, None, None, TRUE) EXCEPT !.own = TRUE]]
Cand(conf, slug, model) == [conf |-> conf, slug |-> slug, model |-> model, enabled |-> TRUE]
MCCandidates == [chat |-> <<Cand("pa", key, big), Cand("pa", key, None), Cand("pb", other, big)>>,
                 plain |-> <<>>]

Call(goal, route, sizes) ==
    [goal |-> goal, route |-> route, sizes |-> sizes, conf |-> None, slug |-> None,
     model |-> None, fallback |-> TRUE, retry |-> TRUE, truncate |-> FALSE]
MCCalls == {[Call("chat", "chat", <<9>>) EXCEPT !.truncate = TRUE],
            [Call("json", "chat", <<4>>) EXCEPT !.retry = FALSE],
            Call("compress", "plain", <<3, 3, 2>>),
            [Call("stream", "chat", <<4>>) EXCEPT !.conf = "pa"],
            Call("embed", "chat", <<3>>)}
\* Candidates are called as they are looked up (OrdinaryRoutes of ModelCallProofs).
ASSUME MCRoutes == /\ ManagerSlug = None
                   /\ \A r \in Routes : \A c \in Listed(r) : Or(c.model, Confs[c.conf].model) # None
MCOutcomes == {"ok", "auth", "busy", "refused"}
PairCalls == {j \in MCCalls : j.goal \in {"chat", "stream", "embed"}}
MCSymmetry == Permutations(MCThreads)

============================================================================
