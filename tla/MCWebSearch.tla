------------------------------ MODULE MCWebSearch ------------------------------
(***************************************************************************)
(* Web searches over three addresses, two of which are the same page,      *)
(* with the routers a configuration file can give.                         *)
(***************************************************************************)
EXTENDS WebSearch

CONSTANTS home, homePort, other   \* http://a/, http://a:80/, http://b/

MCAddresses == {home, homePort, other}
MCCanonical == [a \in MCAddresses |-> IF a = homePort THEN home ELSE a]

Auto ==
  [enabled |-> TRUE, provider |-> "auto", order |-> <<"search_api", "model_builtin", "fake">>,
   off |-> {}, usable |-> Providers, timeoutFallback |-> TRUE, maxFallbacks |-> 1,
   max |-> 3, apiMax |-> Nil]

MCConfigs ==
  {Auto,
   [Auto EXCEPT !.order = <<"model_builtin", "search_api">>, !.off = {"fake"}],
   [Auto EXCEPT !.timeoutFallback = FALSE, !.usable = Providers \ {"search_api"}],
   [Auto EXCEPT !.maxFallbacks = 2, !.off = {"search_api"}],
   [Auto EXCEPT !.provider = "search_api", !.apiMax = 9],
   [Auto EXCEPT !.provider = "disabled"],
   [Auto EXCEPT !.enabled = FALSE]}

MCCalls ==
  [provider : {"auto", "search_api", "model_builtin", "fake"}, max : {Nil, 2},
   network : {TRUE}, dryRun : {FALSE}, wellFormed : {TRUE}, limit : {Nil, 0, 3}]
  \cup
  [provider : {"auto", "model_builtin", "disabled"}, max : {2}, network : BOOLEAN,
   dryRun : BOOLEAN, wellFormed : BOOLEAN, limit : {Nil}]

Item(url, level, size) == [url |-> url, level |-> level, size |-> size]
Answer(results, summary, level) == [results |-> results, summary |-> summary, level |-> level]
UpTo(S, n) == UNION {[1 .. k -> S] : k \in 0 .. n}

\* Tavily rates nothing itself; a model writes what it likes.
MCReported ==
  [p \in Providers |->
     CASE p = "search_api" ->
            {Answer(rs, s, Nil) :
               rs \in UpTo({Item(home, Nil, 1), Item(homePort, Nil, 2), Item(other, Nil, 1),
                            Item(Nil, Nil, 1)}, 3),
               s \in BOOLEAN}
       [] p = "model_builtin" ->
            {Answer(rs, s, l) :
               rs \in UpTo({Item(home, Nil, 1), Item(homePort, "url_verified", 2),
                            Item(Nil, "url_verified", 1), Item(Nil, "no_url_summary", 1)}, 2),
               s \in BOOLEAN, l \in {"url_verified", "no_url_summary"}}
       [] p = "fake" ->
            {Answer(<<Item(home, Nil, 1)>>, FALSE, Nil), Answer(<<>>, FALSE, Nil),
             Answer(<<>>, TRUE, "no_url_summary")}]
=============================================================================
