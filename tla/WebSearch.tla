------------------------------- MODULE WebSearch -------------------------------
(***************************************************************************)
(* The web_search tool: WebSearchTool.run, WebSearchRouter with its        *)
(* fallback from one provider to the next, the providers' answers, and the *)
(* normalisation that limits, merges and rates what they report            *)
(* (src/tools/web_search).                                                 *)
(*                                                                         *)
(* Of a result the model keeps its address, its evidence level and its     *)
(* length; of an answer, whether it has a summary.  Lengths are counted in *)
(* units of their own; truncate_text has been applied to them.             *)
(***************************************************************************)
EXTENDS Integers, Sequences, SequencesExt, FiniteSets

CONSTANTS
  Nil,
  Configs,       \* configurations of the router
  Calls,         \* calls of the tool
  Addresses,     \* URLs as the providers report them
  Canonical,     \* normalize_url_for_dedup, with the case folded
  Reported,      \* what a provider may report, per provider
  MaxPerRequest  \* most results a request may ask for (20)

Providers == {"search_api", "model_builtin", "fake"}
Levels == {"url_verified", "provider_reported", "model_reported", "no_url_summary"}

Entry == [url : Addresses \cup {Nil}, level : Levels \cup {Nil}, size : Nat]

\* from_mapping: the order lists providers once each, and is never empty; at
\* least one fallback is allowed.  A call that is well formed names a provider,
\* "auto" or "disabled" (WebSearchRequest.__post_init__).  Whatever is no level
\* is reported as Nil; only a model rates single results (_parse_result_item of
\* Tavily and the fake provider fill no level in).
ASSUME WebSearchAssumption ==
  /\ \A c \in Configs :
       /\ c.provider \in Providers \cup {"auto", "disabled"}
       /\ c.order \in Seq(Providers) /\ c.order # <<>> /\ IsInjective(c.order)
       /\ c.maxFallbacks \in Nat \ {0}
  /\ \A c \in Calls : c.wellFormed => c.provider \in Providers \cup {"auto", "disabled"}
  /\ Canonical \in [Addresses -> Addresses]
  /\ MaxPerRequest \in Nat
  /\ \A p \in Providers : \A a \in Reported[p] :
       /\ a.results \in Seq(Entry) /\ a.summary \in BOOLEAN
       /\ p # "model_builtin" => \A i \in DOMAIN a.results : a.results[i].level = Nil
  /\ Nil \notin Levels

VARIABLES
  config,   \* WebSearchRouterConfig and what is_configured of each provider says
  models,   \* is the ModelManager of model_builtin created?
  call,     \* the arguments of the call
  at,       \* "idle", "route", "sent" or "done"
  left,     \* providers still to be tried
  tried,    \* attempted_providers, and the code each ended with
  result    \* the last result

vars == <<config, models, call, at, left, tried, result>>

Init ==
  /\ config \in Configs
  /\ models \in BOOLEAN
  /\ call = Nil
  /\ at = "idle"
  /\ left = <<>>
  /\ tried = <<>>
  /\ result = Nil

-----------------------------------------------------------------------------
(* The call and its route *)

Route(c) == IF c.provider # "auto" THEN c.provider ELSE config.provider

\* _default_max_results: the number of search_api's own section is not bounded.
Wanted(c) ==
  CASE c.max # Nil -> c.max
    [] c.max = Nil /\ Route(c) = "search_api" /\ config.apiMax # Nil -> config.apiMax
    [] OTHER -> config.max

\* WebSearchRequest.__post_init__, and the length of the query.
Malformed(c) == ~c.wellFormed \/ Wanted(c) \notin 1 .. MaxPerRequest

\* A result without data: a failure, or the plan of a dry run.
Outcome(code) == [code |-> code]

Finish(r) == at' = "done" /\ result' = r

\* run and search: arguments, a dry run, a search that is switched off; or the
\* providers that will be tried.
Run(c) ==
  /\ at \in {"idle", "done"}
  /\ call' = c
  /\ tried' = <<>>
  /\ \/ Malformed(c) /\ Finish(Outcome("invalid_args")) /\ left' = <<>>
     \/ ~Malformed(c) /\ c.dryRun /\ Finish(Outcome("ok")) /\ left' = <<>>
     \/ /\ ~Malformed(c) /\ ~c.dryRun
        /\ ~config.enabled \/ Route(c) = "disabled"
        /\ Finish(Outcome("search_not_configured")) /\ left' = <<>>
     \/ /\ ~Malformed(c) /\ ~c.dryRun
        /\ config.enabled /\ Route(c) # "disabled"
        /\ left' = IF Route(c) = "auto" THEN config.order ELSE <<Route(c)>>
        /\ at' = "route"
        /\ UNCHANGED result
  /\ UNCHANGED <<config, models>>

-----------------------------------------------------------------------------
(* From one provider to the next *)

ConfigCodes == {"provider_not_configured", "search_not_configured"}
RetryableCodes == {"provider_timeout", "provider_rate_limited"}
Fallbacks(t) == Cardinality({i \in DOMAIN t : t[i].code \in RetryableCodes})

\* Mutant: the fallbacks are counted by provider, so each has its own.
MayGoOnUncounted(t) ==
  LET code == Last(t).code IN
  \/ code \in ConfigCodes
  \/ code \in RetryableCodes /\ config.timeoutFallback

\* _search_auto: after which failure the next provider may be asked.
MayGoOn(t) ==
  LET code == Last(t).code IN
  \/ code \in ConfigCodes
  \/ /\ code \in RetryableCodes
     /\ config.timeoutFallback
     /\ Fallbacks(t) <= config.maxFallbacks

\* A provider has ended with r.  The last result is what the caller gets.
Conclude(p, r) ==
  LET t == Append(tried, [provider |-> p, code |-> r.code]) IN
  /\ tried' = t
  /\ result' = r
  /\ IF Route(call) = "auto" /\ MayGoOn(t) /\ Len(left) > 1
     THEN at' = "route" /\ left' = Tail(left)
     ELSE at' = "done" /\ left' = <<>>

\* _search_one, up to the call of the provider.  (supports never refuses here:
\* a request that names a provider goes to that provider.)
Refusal(p) ==
  CASE p \in config.off -> "search_not_configured"
    [] p \notin config.off /\ p # "fake" /\ ~call.network -> "network_not_allowed"
    [] OTHER -> IF p \in config.usable THEN Nil ELSE "search_not_configured"

Refuse ==
  /\ at = "route"
  /\ Refusal(Head(left)) # Nil
  /\ Conclude(Head(left), Outcome(Refusal(Head(left))))
  /\ UNCHANGED <<config, models, call>>

\* The provider is called; model_builtin has no model manager until it is first
\* needed, and may fail to get one.
Send ==
  /\ at = "route"
  /\ Refusal(Head(left)) = Nil
  /\ \/ /\ Head(left) = "model_builtin" => models
        /\ at' = "sent"
        /\ UNCHANGED <<models, left, tried, result>>
     \/ /\ Head(left) = "model_builtin" /\ ~models
        /\ models' = TRUE
        /\ at' = "sent"
        /\ UNCHANGED <<left, tried, result>>
     \/ /\ Head(left) = "model_builtin" /\ ~models
        /\ Conclude("model_builtin", Outcome("provider_not_configured"))
        /\ UNCHANGED models
  /\ UNCHANGED <<config, call>>

\* Tavily's statuses, exceptions and payloads; the model's codes; the scenarios
\* of the fake provider.
FailureCodes(p) ==
  CASE p = "search_api" ->
         RetryableCodes \cup {"invalid_args", "provider_auth_failed", "provider_error",
                              "provider_response_invalid"}
    [] p = "model_builtin" ->
         RetryableCodes \cup {"model_search_parse_failed", "model_search_schema_invalid",
                              "model_search_no_sources", "provider_not_configured",
                              "provider_error"}
    [] p = "fake" ->
         {"provider_timeout", "provider_response_invalid", "network_not_allowed"}

ProviderFails ==
  /\ at = "sent"
  /\ \E code \in FailureCodes(Head(left)) : Conclude(Head(left), Outcome(code))
  /\ UNCHANGED <<config, models, call>>

-----------------------------------------------------------------------------
(* What an answer is worth *)

HasUrl(r) == r.url # Nil
AnyUrl(results) == \E i \in DOMAIN results : HasUrl(results[i])
AllUrls(results) == \A i \in DOMAIN results : HasUrl(results[i])

\* WebSearchResult.__post_init__.
Coerced(r) ==
  [r EXCEPT !.level = IF r.level \in Levels THEN r.level
                      ELSE IF HasUrl(r) THEN "url_verified" ELSE "provider_reported"]

\* WebSearchData.__post_init__ and _validated_evidence_level: the level a
\* provider claims or that its results suggest.
FirstLevel(p, a) ==
  CASE a.results = <<>> /\ a.summary -> "no_url_summary"
    [] p = "model_builtin" /\ AnyUrl(a.results) -> "model_reported"
    [] a.level \in Levels /\ ~(a.results = <<>> /\ a.summary)
         /\ ~(p = "model_builtin" /\ AnyUrl(a.results)) -> a.level
    [] OTHER -> IF AnyUrl(a.results) THEN "url_verified" ELSE "provider_reported"

\* _result_evidence, for one result or for all that are merged into it.
ResultLevel(p, url, levels) ==
  CASE url = Nil -> "provider_reported"
    [] url # Nil /\ (p = "model_builtin" \/ "model_reported" \in levels) -> "model_reported"
    [] url # Nil /\ p # "model_builtin" /\ levels = {"url_verified"} -> "url_verified"
    [] OTHER -> "provider_reported"

CanonicalUrl(url) == IF url = Nil THEN Nil ELSE Canonical[url]

\* Results that show one page: the places that _deduplicate_results finds under
\* the position of the first of them.
SamePage(results, i) ==
  LET url(j) == CanonicalUrl(results[j].url)
  IN {j \in DOMAIN results : j = i \/ (url(i) # Nil /\ url(j) = url(i))}

\* _merge_results: what they are worth together, and as long as the longest.
Merged(p, results, i) ==
  LET url == CanonicalUrl(results[i].url)
      same == SamePage(results, i)
  IN [url |-> url,
      level |-> ResultLevel(p, url, {results[j].level : j \in same}),
      size |-> Max({results[j].size : j \in same})]

InOrder(S) ==
  CHOOSE s \in [1 .. Cardinality(S) -> S] : \A i, j \in DOMAIN s : i < j => s[i] < s[j]

\* _deduplicate_results: one result for each page, where it was first seen.
Deduplicated(p, results) ==
  LET firsts == {i \in DOMAIN results : \A j \in SamePage(results, i) : i <= j}
  IN [k \in 1 .. Cardinality(firsts) |-> Merged(p, results, InOrder(firsts)[k])]

\* _normalized_evidence_level and _normalized_source_quality.
AnswerLevel(p, d) ==
  CASE d.results = <<>> /\ d.summary -> "no_url_summary"
    [] d.results = <<>> /\ ~d.summary -> d.level
    [] AnyUrl(d.results) -> IF p = "model_builtin" THEN "model_reported" ELSE d.level
    [] OTHER -> "provider_reported"

Quality(p, d) ==
  CASE d.results = <<>> -> IF d.summary THEN "summary_only" ELSE "empty"
    [] d.results # <<>> /\ (p = "model_builtin" \/ ~AllUrls(d.results)) -> "partial_sources"
    [] OTHER -> "verified_sources"

Rated(p, d) == [d EXCEPT !.level = AnswerLevel(p, d), !.quality = Quality(p, d)]

\* _serialized_chars: the frame of an answer, its summary and its results.
Size(d) ==
  1 + (IF d.summary THEN 1 ELSE 0) + FoldLeft(LAMBDA n, r : n + r.size, 0, d.results)

Shortened(d, limit) ==
  LET fits(n) == Size([d EXCEPT !.results = SubSeq(@, 1, n)]) <= limit
      n == CHOOSE n \in 0 .. Len(d.results) :
             /\ fits(n) \/ n = 0
             /\ \A m \in n + 1 .. Len(d.results) : ~fits(m)
  IN [d EXCEPT !.results = SubSeq(@, 1, n)]

\* Mutant: the answer is rated before it is cut, and not again.
FittedUnrated(p, d, limit) == IF limit = Nil THEN d ELSE Shortened(d, limit)

\* _fit_data_to_output_limit: results go from the end.  With no room at all
\* everything goes and the ratings stay.
Fitted(p, d, limit) ==
  IF limit = Nil \/ (limit > 0 /\ Shortened(d, limit) = d) THEN d
  ELSE IF limit = 0 THEN [d EXCEPT !.results = <<>>, !.summary = FALSE]
  ELSE Rated(p, Shortened(d, limit))

\* normalize_web_search_data and normalize_web_search_evidence.
Normalized(p, a) ==
  LET received == [i \in DOMAIN a.results |-> Coerced(a.results[i])]
      bounded == SubSeq(received, 1, IF Wanted(call) < Len(received) THEN Wanted(call)
                                     ELSE Len(received))
  IN Fitted(p, Rated(p, [results |-> Deduplicated(p, bounded), summary |-> a.summary,
                         level |-> FirstLevel(p, a), quality |-> "empty"]),
            call.limit)

\* A model that reports neither results nor a summary has failed.
Acceptable(p, a) == p = "model_builtin" => a.results # <<>> \/ a.summary

ProviderAnswers ==
  /\ at = "sent"
  /\ LET p == Head(left) IN
     \E a \in Reported[p] :
       /\ Acceptable(p, a)
       /\ Conclude(p, [code |-> "ok", provider |-> p, data |-> Normalized(p, a)])
  /\ UNCHANGED <<config, models, call>>

Next ==
  \/ \E c \in Calls : Run(c)
  \/ Refuse
  \/ Send
  \/ ProviderFails
  \/ ProviderAnswers

Spec == Init /\ [][Next]_vars

-----------------------------------------------------------------------------
(* Properties *)

\* A search goes on to another provider only as planned: never for a caller who
\* named the provider, only after failures that say nothing about the request or
\* the credentials, after timeouts only as often as the configuration allows,
\* and never back to a provider that has failed (WebSearchRouter._search_auto).
FallbackAsPlanned ==
  LET before == Front(tried)
      slow == {i \in DOMAIN before : before[i].code \in RetryableCodes}
  IN tried # <<>> =>
       /\ before # <<>> => call.provider = "auto" /\ config.provider = "auto"
       /\ \A i \in DOMAIN before : before[i].code \in ConfigCodes \cup RetryableCodes
       /\ Cardinality(slow) <= IF config.timeoutFallback THEN config.maxFallbacks ELSE 0
       /\ \A i, j \in DOMAIN tried : tried[i].provider = tried[j].provider => i = j

HasData == at = "done" /\ result # Nil /\ "data" \in DOMAIN result

\* No answer claims more than it shows, whatever the provider claimed and however
\* much was limited, merged or cut away afterwards: what a model reports is never
\* verified, a verified result has an address, an answer that calls itself
\* verified still shows a verified result, one with verified sources shows no
\* result without an address, and no address is shown twice (normalization.py).
EvidenceHeld ==
  HasData =>
    LET d == result.data
        shown == {d.results[i] : i \in DOMAIN d.results}
    IN /\ result.provider = "model_builtin" =>
            "url_verified" \notin {d.level} \cup {r.level : r \in shown}
       /\ \A r \in shown : r.level = "url_verified" => HasUrl(r)
       /\ d.level = "url_verified" /\ shown # {} =>
            \E r \in shown : r.level = "url_verified"
       /\ d.quality = "verified_sources" => \A r \in shown : HasUrl(r)
       /\ \A i, j \in DOMAIN d.results :
            HasUrl(d.results[i]) /\ d.results[i].url = d.results[j].url => i = j
=============================================================================
