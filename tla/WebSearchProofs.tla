--------------------------- MODULE WebSearchProofs ---------------------------
(***************************************************************************)
(* A search goes from provider to provider only as it was planned, and no  *)
(* answer claims more than it shows, for any configuration, any sequence   *)
(* of calls and whatever providers answer.                                 *)
(***************************************************************************)
EXTENDS WebSearch, SequenceTheorems, FiniteSetTheorems, WellFoundedInduction, TLAPS

-----------------------------------------------------------------------------
(* The invariant *)

Going == at \in {"route", "sent"}
Slow(t) == {i \in DOMAIN t : t[i].code \in RetryableCodes}
FallbackLimit == IF config.timeoutFallback THEN config.maxFallbacks ELSE 0

\* What was tried so far allows to ask the next provider.
MayAskNext(t) ==
  /\ \A i \in DOMAIN t : t[i].code \in ConfigCodes \cup RetryableCodes
  /\ Cardinality(Slow(t)) <= FallbackLimit

\* Providers that are still to be tried are distinct and were not tried.
Untried(t, l) ==
  /\ \A i, j \in DOMAIN t : t[i].provider = t[j].provider => i = j
  /\ IsInjective(l)
  /\ \A i \in DOMAIN t, j \in DOMAIN l : t[i].provider # l[j]

SearchInv ==
  /\ config \in Configs
  /\ \E S : tried \in Seq(S)
  /\ left \in Seq(Providers)
  /\ Going => /\ left # <<>> /\ Untried(tried, left) /\ MayAskNext(tried)
              /\ tried # <<>> => Route(call) = "auto"
              /\ Route(call) # "auto" => Len(left) = 1
  /\ FallbackAsPlanned

-----------------------------------------------------------------------------
(* Sequences *)

\* What was appended is the last, and what was there is in front of it.
LEMMA AppendedIsLast ==
  ASSUME NEW S, NEW s \in Seq(S), NEW e
  PROVE  /\ Append(s, e) # <<>> /\ Front(Append(s, e)) = s /\ Last(Append(s, e)) = e
         /\ DOMAIN s = 1 .. Len(s) /\ Len(s) \in Nat /\ DOMAIN Append(s, e) = 1 .. Len(s) + 1
         /\ \A i \in DOMAIN s : Append(s, e)[i] = s[i]
         /\ Append(s, e)[Len(s) + 1] = e
         /\ \E T : Append(s, e) \in Seq(T)
<1> DEFINE T == S \cup {e}
           t == Append(s, e)
<1>1. s \in Seq(T) /\ e \in T
  <2>1. Len(s) \in Nat /\ s \in [1 .. Len(s) -> S]
    BY LenProperties
  <2>2. s \in [1 .. Len(s) -> T]
    BY <2>1
  <2> QED BY <2>1, <2>2
<1> HIDE DEF T
<1>2. /\ t \in Seq(T) /\ t # <<>> /\ Len(t) = Len(s) + 1
      /\ \A i \in 1 .. Len(s) : t[i] = s[i]
      /\ t[Len(s) + 1] = e
  BY <1>1, AppendProperties
<1>3. DOMAIN s = 1 .. Len(s) /\ Len(s) \in Nat /\ DOMAIN t = 1 .. Len(s) + 1
  BY <1>1, <1>2, LenProperties
<1>4. Front(t) = s
  <2>1. Front(t) = SubSeq(t, 1, Len(s))
    BY <1>2, <1>3 DEF Front
  <2>2. /\ SubSeq(t, 1, Len(s)) \in Seq(T) /\ Len(SubSeq(t, 1, Len(s))) = Len(s)
        /\ \A i \in 1 .. Len(s) : SubSeq(t, 1, Len(s))[i] = t[i]
    BY <1>2, <1>3
  <2> QED BY <1>1, <1>2, <1>3, <2>1, <2>2, SeqEqual
<1>5. Last(t) = e
  BY <1>2 DEF Last
<1> QED BY <1>2, <1>3, <1>4, <1>5

\* A queue with more than one provider has a tail of the same providers.
LEMMA TailOfQueue ==
  ASSUME NEW S, NEW q \in Seq(S), q # <<>>
  PROVE  /\ Head(q) = q[1] /\ 1 \in DOMAIN q
         /\ Tail(q) \in Seq(S) /\ Len(Tail(q)) = Len(q) - 1 /\ Len(q) \in Nat
         /\ \A j \in DOMAIN Tail(q) : j + 1 \in DOMAIN q /\ j + 1 # 1 /\ Tail(q)[j] = q[j + 1]
         /\ \A j \in DOMAIN Tail(q) : j \in Nat
<1>1. /\ Tail(q) \in Seq(S) /\ Len(Tail(q)) = Len(q) - 1
      /\ \A i \in 1 .. Len(Tail(q)) : Tail(q)[i] = q[i + 1]
  BY HeadTailProperties
<1>2. Len(q) \in Nat \ {0} /\ DOMAIN q = 1 .. Len(q)
  BY EmptySeq, LenProperties
<1>3. DOMAIN Tail(q) = 1 .. Len(q) - 1
  BY <1>1, LenProperties
<1> QED BY <1>1, <1>2, <1>3

-----------------------------------------------------------------------------
(* Steps *)

\* Nothing tried is nothing to regret.
LEMMA NothingTried ==
  ASSUME config \in Configs
  PROVE  MayAskNext(<<>>)
<1>1. Slow(<<>>) = {}
  BY DEF Slow
<1>2. Cardinality({}) = 0
  BY FS_EmptySet
<1>3. config.maxFallbacks \in Nat
  BY WebSearchAssumption
<1>4. FallbackLimit \in Nat
  BY <1>3 DEF FallbackLimit
<1>5. Cardinality(Slow(<<>>)) <= FallbackLimit
  BY <1>1, <1>2, <1>4
<1>6. DOMAIN <<>> = {}
  OBVIOUS
<1> QED BY <1>5, <1>6 DEF MayAskNext

\* A provider has ended: what was tried before allowed to ask it, and if another
\* one is asked then what was tried by now allows that too.
LEMMA ConcludeKeeps ==
  ASSUME SearchInv, Going, NEW r, Conclude(Head(left), r), UNCHANGED <<config, call>>
  PROVE  SearchInv'
<1> DEFINE e == [provider |-> Head(left), code |-> r.code]
           t == Append(tried, e)
<1>1. /\ left \in Seq(Providers) /\ left # <<>> /\ Untried(tried, left) /\ MayAskNext(tried)
      /\ tried # <<>> => Route(call) = "auto"
      /\ Route(call) # "auto" => Len(left) = 1
      /\ config \in Configs
  BY DEF SearchInv
<1>2. PICK S : tried \in Seq(S)
  BY DEF SearchInv
<1>3. /\ t # <<>> /\ Front(t) = tried /\ Last(t) = e
      /\ DOMAIN tried = 1 .. Len(tried) /\ Len(tried) \in Nat /\ DOMAIN t = 1 .. Len(tried) + 1
      /\ \A i \in DOMAIN tried : t[i] = tried[i]
      /\ t[Len(tried) + 1] = e
      /\ \E T : t \in Seq(T)
  BY <1>2, AppendedIsLast
<1>4. /\ Head(left) = left[1] /\ 1 \in DOMAIN left
      /\ Tail(left) \in Seq(Providers) /\ Len(Tail(left)) = Len(left) - 1 /\ Len(left) \in Nat
      /\ \A j \in DOMAIN Tail(left) : j + 1 \in DOMAIN left /\ j + 1 # 1 /\ Tail(left)[j] = left[j + 1]
      /\ \A j \in DOMAIN Tail(left) : j \in Nat
  BY <1>1, TailOfQueue
<1>5. tried' = t /\ result' = r
  BY DEF Conclude
<1>6. e.provider = left[1] /\ e.code = r.code
  BY <1>4
<1> HIDE DEF e, t
<1>7. \A i, j \in DOMAIN t : t[i].provider = t[j].provider => i = j
  <2>1. ASSUME NEW i \in DOMAIN t, NEW j \in DOMAIN t, t[i].provider = t[j].provider
        PROVE  i = j
    <3>1. /\ i \in DOMAIN tried \/ i = Len(tried) + 1
          /\ j \in DOMAIN tried \/ j = Len(tried) + 1
      BY <1>3
    <3>2. \A k \in DOMAIN tried : tried[k].provider # left[1]
      BY <1>1, <1>4 DEF Untried
    <3> QED BY <1>1, <1>3, <1>6, <2>1, <3>1, <3>2 DEF Untried
  <2> QED BY <2>1
<1>8. FallbackAsPlanned'
  <2>1. /\ \A i \in DOMAIN tried : tried[i].code \in ConfigCodes \cup RetryableCodes
        /\ Cardinality({i \in DOMAIN tried : tried[i].code \in RetryableCodes})
             <= IF config.timeoutFallback THEN config.maxFallbacks ELSE 0
    BY <1>1 DEF MayAskNext, Slow, FallbackLimit
  <2>2. tried # <<>> => call.provider = "auto" /\ config.provider = "auto"
    BY <1>1 DEF Route
  <2> QED BY <1>3, <1>5, <1>7, <2>1, <2>2 DEF FallbackAsPlanned
<1>9. CASE Route(call) = "auto" /\ MayGoOn(t) /\ Len(left) > 1
  <2>1. at' = "route" /\ left' = Tail(left)
    BY <1>9 DEF Conclude, t, e
  <2>2. left' # <<>> /\ left' \in Seq(Providers)
    <3>1. Len(Tail(left)) # 0
      BY <1>4, <1>9
    <3> QED BY <1>4, <2>1, <3>1, EmptySeq
  <2>3. Untried(t, Tail(left))
    <3>1. IsInjective(Tail(left))
      <4>1. ASSUME NEW i \in DOMAIN Tail(left), NEW j \in DOMAIN Tail(left),
                   Tail(left)[i] = Tail(left)[j]
            PROVE  i = j
        <5>1. i + 1 = j + 1
          BY <1>1, <1>4, <4>1 DEF Untried, IsInjective
        <5>2. i \in Nat /\ j \in Nat
          BY <1>4
        <5> QED BY <5>1, <5>2
      <4> QED BY <4>1 DEF IsInjective
    <3>2. ASSUME NEW i \in DOMAIN t, NEW j \in DOMAIN Tail(left)
          PROVE  t[i].provider # Tail(left)[j]
      <4>1. i \in DOMAIN tried \/ i = Len(tried) + 1
        BY <1>3
      <4>2. Tail(left)[j] = left[j + 1] /\ j + 1 \in DOMAIN left /\ j + 1 # 1
        BY <1>4
      <4>3. left[j + 1] # left[1]
        BY <1>1, <1>4, <4>2 DEF Untried, IsInjective
      <4> QED BY <1>1, <1>3, <1>6, <4>1, <4>2, <4>3 DEF Untried
    <3> QED BY <1>7, <3>1, <3>2 DEF Untried
  <2>4. MayAskNext(t)
    <3>1. r.code \in ConfigCodes \cup RetryableCodes
      BY <1>3, <1>6, <1>9 DEF MayGoOn
    <3>2. \A i \in DOMAIN t : t[i].code \in ConfigCodes \cup RetryableCodes
      <4>1. \A i \in DOMAIN t : i \in DOMAIN tried \/ i = Len(tried) + 1
        BY <1>3
      <4> QED BY <1>1, <1>3, <1>6, <3>1, <4>1 DEF MayAskNext
    <3>3. Cardinality(Slow(t)) <= FallbackLimit
      <4>1. CASE r.code \in RetryableCodes
        <5>1. r.code \notin ConfigCodes
          BY <4>1 DEF RetryableCodes, ConfigCodes
        <5> QED BY <1>3, <1>6, <1>9, <5>1 DEF MayGoOn, Fallbacks, Slow, FallbackLimit
      <4>2. CASE r.code \notin RetryableCodes
        <5>1. Slow(t) = Slow(tried)
          <6>1. \A i \in DOMAIN t : i \in DOMAIN tried \/ i = Len(tried) + 1
            BY <1>3
          <6>2. DOMAIN tried \subseteq DOMAIN t
            BY <1>3
          <6> QED BY <1>3, <1>6, <4>2, <6>1, <6>2 DEF Slow
        <5> QED BY <1>1, <5>1 DEF MayAskNext
      <4> QED BY <4>1, <4>2
    <3> QED BY <3>2, <3>3 DEF MayAskNext
  <2>5. Going' /\ Untried(tried, left)' /\ MayAskNext(tried)'
    <3>1. Untried(tried, left)'
      BY <1>5, <2>1, <2>3 DEF Untried
    <3>2. MayAskNext(tried)'
      BY <1>5, <2>4 DEF MayAskNext, Slow, FallbackLimit
    <3> QED BY <2>1, <3>1, <3>2 DEF Going
  <2>6. Route(call)' = "auto"
    BY <1>9 DEF Route
  <2> QED BY <1>1, <1>3, <1>5, <1>8, <2>2, <2>5, <2>6 DEF SearchInv
<1>10. CASE ~(Route(call) = "auto" /\ MayGoOn(t) /\ Len(left) > 1)
  <2>1. at' = "done" /\ left' = <<>>
    BY <1>10 DEF Conclude, t, e
  <2>2. <<>> \in Seq(Providers)
    BY EmptySeq
  <2> QED BY <1>1, <1>3, <1>5, <1>8, <2>1, <2>2 DEF SearchInv, Going
<1> QED BY <1>9, <1>10

\* A call that is refused at once tried nobody; another starts with the order of
\* the configuration or the one provider it names.
LEMMA RunKeeps ==
  ASSUME SearchInv, NEW c \in Calls, Run(c)
  PROVE  SearchInv'
<1>1. config' = config /\ call' = c /\ tried' = <<>> /\ config \in Configs
  BY DEF Run, SearchInv
<1>2. /\ <<>> \in Seq(Providers) /\ \A T : <<>> \in Seq(T)
      /\ DOMAIN <<>> = {}
  BY EmptySeq
<1>3. FallbackAsPlanned'
  BY <1>1 DEF FallbackAsPlanned
<1>4. CASE at' = "done" /\ left' = <<>>
  BY <1>1, <1>2, <1>3, <1>4 DEF SearchInv, Going
<1>5. CASE /\ ~Malformed(c) /\ Route(c) # "disabled" /\ at' = "route"
           /\ left' = IF Route(c) = "auto" THEN config.order ELSE <<Route(c)>>
  <2>1. /\ left' \in Seq(Providers) /\ left' # <<>> /\ IsInjective(left')
        /\ Route(c) # "auto" => Len(left') = 1
    <3>1. CASE Route(c) = "auto"
      BY <1>1, <1>5, <3>1, WebSearchAssumption
    <3>2. CASE Route(c) # "auto"
      <4>1. Route(c) \in Providers
        BY <1>1, <1>5, <3>2, WebSearchAssumption DEF Route, Malformed
      <4>2. left' = <<Route(c)>>
        BY <1>5, <3>2
      <4> HIDE DEF Providers
      <4> QED BY <4>1, <4>2 DEF IsInjective
    <3> QED BY <3>1, <3>2
  <2>2. Untried(tried, left)'
    BY <1>1, <1>2, <2>1 DEF Untried, IsInjective
  <2>3. MayAskNext(tried)'
    <3>1. MayAskNext(<<>>)
      BY <1>1, NothingTried
    <3> QED BY <1>1, <3>1 DEF MayAskNext, Slow, FallbackLimit
  <2>4. Route(call)' = Route(c)
    BY <1>1 DEF Route
  <2> QED BY <1>1, <1>2, <1>3, <2>1, <2>2, <2>3, <2>4 DEF SearchInv
<1> QED BY <1>4, <1>5 DEF Run, Finish

\* Every step keeps the invariant.
LEMMA NextSearch ==
  ASSUME SearchInv, [Next]_vars
  PROVE  SearchInv'
<1>1. ASSUME NEW c \in Calls, Run(c) PROVE SearchInv'
  BY <1>1, RunKeeps
<1>2. CASE Refuse
  BY <1>2, ConcludeKeeps DEF Refuse, Going
<1>3. CASE Send
  <2>1. CASE at' = "sent" /\ UNCHANGED <<left, tried, result>>
    BY <1>3, <2>1 DEF Send, SearchInv, Going, Untried, IsInjective, MayAskNext, Slow,
                      FallbackLimit, Route, FallbackAsPlanned
  <2>2. CASE Conclude(Head(left), Outcome("provider_not_configured"))
    BY <1>3, <2>2, ConcludeKeeps DEF Send, Going
  <2> QED BY <1>3, <2>1, <2>2 DEF Send
<1>4. CASE ProviderFails
  BY <1>4, ConcludeKeeps DEF ProviderFails, Going
<1>5. CASE ProviderAnswers
  BY <1>5, ConcludeKeeps DEF ProviderAnswers, Going
<1>6. CASE UNCHANGED vars
  BY <1>6 DEF vars, SearchInv, Going, Untried, IsInjective, MayAskNext, Slow, FallbackLimit,
              Route, FallbackAsPlanned
<1> QED BY <1>1, <1>2, <1>3, <1>4, <1>5, <1>6 DEF Next

\* Before the first call nothing was tried.
LEMMA InitSearch == Init => SearchInv
<1>1. <<>> \in Seq(Providers)
  BY EmptySeq
<1> QED BY <1>1 DEF Init, SearchInv, Going, FallbackAsPlanned

\* A search goes on to another provider only as planned (_search_auto), for any
\* configuration of the router and any number of calls.
THEOREM SearchFallbackAsPlanned == Spec => []FallbackAsPlanned
<1>1. Init => SearchInv
  BY InitSearch
<1>2. SearchInv /\ [Next]_vars => SearchInv'
  BY NextSearch
<1>3. SearchInv => FallbackAsPlanned
  BY DEF SearchInv
<1> QED BY <1>1, <1>2, <1>3, PTL DEF Spec

-----------------------------------------------------------------------------
(* What an answer is worth *)

\* Results that vouch for no more than they show: what a model reports is never
\* verified, what is verified has an address, what another provider reports with
\* an address is verified, and no address is there twice.
WellRated(p, rs) ==
  /\ \A i \in DOMAIN rs :
       /\ p = "model_builtin" => rs[i].level # "url_verified"
       /\ rs[i].level = "url_verified" => HasUrl(rs[i])
       /\ p # "model_builtin" /\ HasUrl(rs[i]) => rs[i].level = "url_verified"
  /\ \A i, j \in DOMAIN rs : HasUrl(rs[i]) /\ rs[i].url = rs[j].url => i = j

\* What EvidenceHeld asks of the data d of an answer of provider p.
Honest(p, d) ==
  /\ p = "model_builtin" =>
       /\ d.level # "url_verified"
       /\ \A i \in DOMAIN d.results : d.results[i].level # "url_verified"
  /\ \A i \in DOMAIN d.results : d.results[i].level = "url_verified" => HasUrl(d.results[i])
  /\ d.level = "url_verified" /\ d.results # <<>> =>
       \E i \in DOMAIN d.results : d.results[i].level = "url_verified"
  /\ d.quality = "verified_sources" => \A i \in DOMAIN d.results : HasUrl(d.results[i])
  /\ \A i, j \in DOMAIN d.results :
       HasUrl(d.results[i]) /\ d.results[i].url = d.results[j].url => i = j

Data(S) == [results : Seq(S), summary : BOOLEAN, level : Levels,
            quality : {"empty", "summary_only", "partial_sources", "verified_sources"}]

\* A search that is going on asks for as many results as a request may.
Moderate == Going => Wanted(call) \in 1 .. MaxPerRequest

EvidenceInv ==
  /\ SearchInv
  /\ Moderate
  /\ EvidenceHeld

\* Some places can be put in the order of their numbers: a set of which the
\* largest one cannot be put behind the others, in order, has a smaller one of
\* that kind.
LEMMA InOrderExists ==
  ASSUME NEW n \in Nat, NEW S \in SUBSET (1 .. n)
  PROVE  /\ Cardinality(S) \in Nat
         /\ \E s \in [1 .. Cardinality(S) -> S] : \A i, j \in DOMAIN s : i < j => s[i] < s[j]
<1> DEFINE Ordered(T) ==
             \E s \in [1 .. Cardinality(T) -> T] : \A i, j \in DOMAIN s : i < j => s[i] < s[j]
           Bad == {k \in 0 .. n : \E T \in SUBSET (1 .. k) : ~Ordered(T)}
           Below == {k \in Nat \X Nat : k[1] < k[2]}
<1>1. \A k \in Nat : IsFiniteSet(1 .. k)
  BY FS_Interval
<1>2. \A k \in Nat : \A T \in SUBSET (1 .. k) : IsFiniteSet(T) /\ Cardinality(T) \in Nat
  BY <1>1, FS_Subset, FS_CardinalityType
<1>3. ASSUME Bad # {} PROVE FALSE
  <2>1. IsWellFoundedOn(Below, Nat)
    BY NatLessThanWellFounded DEF OpToRel
  <2>2. Bad \in SUBSET Nat
    OBVIOUS
  <2>3. PICK k \in Bad : \A l \in Bad : <<l, k>> \notin Below
    <3> HIDE DEF Bad, Below
    <3> QED BY <1>3, <2>1, <2>2, WFMin
  <2>4. k \in Nat /\ \A l \in Nat : l < k => l \notin Bad
    BY <2>2, <2>3
  <2>5. PICK T \in SUBSET (1 .. k) : ~Ordered(T)
    OBVIOUS
  <2>6. CASE k = 0
    <3>2. 1 .. 0 = {}
      OBVIOUS
    <3>1. T = {} /\ Cardinality(T) = 0
      <4> HIDE DEF Ordered, Bad
      <4>1. T = {}
        BY <2>6, <3>2
      <4> QED BY <4>1, FS_EmptySet
    <3>3. [i \in 1 .. 0 |-> i] \in [1 .. Cardinality(T) -> T]
      BY <3>1, <3>2
    <3>4. Ordered(T)
      BY <3>2, <3>3
    <3> QED BY <2>5, <3>4
  <2>7. CASE k # 0
    <3> DEFINE U == T \ {k}
    <3>1. k - 1 \in Nat /\ k - 1 \in 0 .. n /\ k - 1 < k /\ U \in SUBSET (1 .. k - 1)
      BY <2>4, <2>5, <2>7
    <3>2. Ordered(U)
      BY <2>4, <3>1
    <3>3. T # U
      BY <2>5, <3>2
    <3>4. k \in T
      BY <3>3
    <3>5. Cardinality(U) = Cardinality(T) - 1 /\ Cardinality(U) \in Nat /\ Cardinality(T) \in Nat
      BY <1>2, <2>4, <2>5, <3>1, <3>4, FS_RemoveElement
    <3>6. PICK s \in [1 .. Cardinality(U) -> U] : \A i, j \in DOMAIN s : i < j => s[i] < s[j]
      BY <3>2
    <3> DEFINE m == Cardinality(U)
               t == [i \in 1 .. m + 1 |-> IF i = m + 1 THEN k ELSE s[i]]
    <3> HIDE DEF m, U
    <3> HIDE DEF Ordered, Bad, Below
    <3>7. /\ m \in Nat /\ Cardinality(T) = m + 1 /\ s \in [1 .. m -> U]
          /\ U \in SUBSET (1 .. k - 1) /\ U \in SUBSET T
      <4>1. m \in Nat /\ Cardinality(T) = m + 1
        BY <3>5 DEF m
      <4>2. s \in [1 .. m -> U]
        BY <3>6 DEF m
      <4> QED BY <3>1, <4>1, <4>2 DEF U
    <3>8. t \in [1 .. m + 1 -> T]
      <4>1. ASSUME NEW i \in 1 .. m + 1, i # m + 1 PROVE s[i] \in T
        <5>1. i \in 1 .. m
          BY <3>7, <4>1
        <5> QED BY <3>7, <5>1
      <4> QED BY <3>4, <4>1
    <3> HIDE DEF t
    <3>t. \A i \in 1 .. m + 1 : t[i] = IF i = m + 1 THEN k ELSE s[i]
      BY DEF t
    <3>9. ASSUME NEW i \in 1 .. m + 1, NEW j \in 1 .. m + 1, i < j
          PROVE  t[i] < t[j]
      <4>1. i \in 1 .. m /\ t[i] = s[i] /\ s[i] \in 1 .. k - 1
        <5>1. i \in 1 .. m /\ i # m + 1
          BY <3>7, <3>9
        <5> QED BY <3>7, <3>t, <5>1
      <4>2. CASE j = m + 1
        BY <2>4, <3>t, <4>1, <4>2
      <4>3. CASE j # m + 1
        <5>1. j \in 1 .. m /\ t[j] = s[j]
          BY <3>7, <3>t, <4>3
        <5>2. DOMAIN s = 1 .. m
          BY <3>7
        <5> QED BY <3>6, <3>9, <4>1, <5>1, <5>2
      <4> QED BY <4>2, <4>3
    <3>10. Ordered(T)
      <4>1. t \in [1 .. Cardinality(T) -> T] /\ DOMAIN t = 1 .. m + 1
        BY <3>7, <3>8
      <4> QED BY <3>9, <4>1 DEF Ordered
    <3> QED BY <2>5, <3>10
  <2> QED BY <2>6, <2>7
<1>4. n \notin Bad
  BY <1>3
<1>5. Ordered(S)
  BY <1>4
<1> QED BY <1>2, <1>5

\* What single results are rated by their address and by all that were merged:
\* never verified for a model or without an address, always when every provider
\* that reported the page verified it (_result_evidence).
LEMMA ResultLevelSound ==
  ASSUME NEW p, NEW url, NEW levels
  PROVE  /\ p = "model_builtin" => ResultLevel(p, url, levels) # "url_verified"
         /\ ResultLevel(p, url, levels) = "url_verified" => url # Nil
         /\ p # "model_builtin" /\ url # Nil /\ levels = {"url_verified"}
              => ResultLevel(p, url, levels) = "url_verified"
<1>1. "model_reported" \notin {"url_verified"}
  OBVIOUS
<1> QED BY <1>1 DEF ResultLevel

\* Places in their order are those places, each once.
LEMMA InOrderType ==
  ASSUME NEW n \in Nat, NEW S \in SUBSET (1 .. n)
  PROVE  /\ Cardinality(S) \in Nat
         /\ InOrder(S) \in [1 .. Cardinality(S) -> S]
         /\ \A i, j \in 1 .. Cardinality(S) : InOrder(S)[i] = InOrder(S)[j] => i = j
<1> DEFINE s == InOrder(S)
           k == Cardinality(S)
<1>1. k \in Nat /\ s \in [1 .. k -> S] /\ \A i, j \in DOMAIN s : i < j => s[i] < s[j]
  BY InOrderExists DEF InOrder
<1> HIDE DEF s, k
<1>2. ASSUME NEW i \in 1 .. k, NEW j \in 1 .. k, s[i] = s[j] PROVE i = j
  <2>1. DOMAIN s = 1 .. k /\ s[i] \in Nat /\ i \in Nat /\ j \in Nat
    <3>1. s[i] \in S
      BY <1>1
    <3>2. s[i] \in 1 .. n
      BY <3>1
    <3>3. s[i] \in Nat
      BY <3>2
    <3> QED BY <1>1, <3>3
  <2>2. ~(i < j) /\ ~(j < i)
    BY <1>1, <1>2, <2>1
  <2> QED BY <2>1, <2>2
<1>3. k \in Nat /\ s \in [1 .. k -> S] /\ \A i, j \in 1 .. k : s[i] = s[j] => i = j
  BY <1>1, <1>2
<1> QED BY <1>3 DEF s, k

\* Merging leaves some results if there were any, well rated and each address
\* once (_deduplicate_results).
LEMMA DeduplicatedRated ==
  ASSUME NEW p \in Providers, NEW rs \in Seq(Entry),
         p # "model_builtin" =>
           \A i \in DOMAIN rs : HasUrl(rs[i]) => rs[i].level = "url_verified"
  PROVE  /\ \E S : Deduplicated(p, rs) \in Seq(S)
         /\ WellRated(p, Deduplicated(p, rs))
         /\ rs # <<>> => Deduplicated(p, rs) # <<>>
<1> DEFINE n == Len(rs)
           url(i) == CanonicalUrl(rs[i].url)
           firsts == {i \in DOMAIN rs : \A j \in SamePage(rs, i) : i <= j}
           order == InOrder(firsts)
           m == Cardinality(firsts)
           D == Deduplicated(p, rs)
           levels(i) == {rs[j].level : j \in SamePage(rs, i)}
<1>1. n \in Nat /\ DOMAIN rs = 1 .. n /\ \A i \in 1 .. n : rs[i] \in Entry
  BY LenProperties
<1>2. \A i \in 1 .. n : SamePage(rs, i) = {j \in 1 .. n : j = i \/ (url(i) # Nil /\ url(j) = url(i))}
  BY <1>1 DEF SamePage
<1>3. firsts \in SUBSET (1 .. n)
  BY <1>1
<1>4. /\ m \in Nat /\ order \in [1 .. m -> firsts]
      /\ \A i, j \in 1 .. m : order[i] = order[j] => i = j
  <2> HIDE DEF firsts
  <2> QED BY <1>1, <1>3, InOrderType
<1>5. D = [k \in 1 .. m |-> Merged(p, rs, order[k])]
  BY DEF Deduplicated
<1>f. \A i \in firsts : \A j \in SamePage(rs, i) : i <= j
  OBVIOUS
<1> HIDE DEF firsts, order, m, D
<1>6. ASSUME NEW k \in 1 .. m
      PROVE  /\ order[k] \in firsts /\ order[k] \in 1 .. n
             /\ D[k].url = url(order[k])
             /\ D[k].level = ResultLevel(p, url(order[k]), levels(order[k]))
  BY <1>3, <1>4, <1>5 DEF Merged
<1>7. ASSUME NEW i \in 1 .. n, p # "model_builtin", url(i) # Nil
      PROVE  levels(i) = {"url_verified"}
  <2>1. ASSUME NEW j \in SamePage(rs, i) PROVE rs[j].level = "url_verified"
    <3>1. j \in 1 .. n /\ url(j) # Nil
      BY <1>2, <1>7, <2>1
    <3>2. HasUrl(rs[j])
      BY <3>1 DEF CanonicalUrl, HasUrl
    <3> QED BY <1>1, <1>7, <3>1, <3>2
  <2>2. i \in SamePage(rs, i)
    BY <1>2
  <2> QED BY <2>1, <2>2
<1>8. ASSUME NEW k \in 1 .. m, NEW l \in 1 .. m, HasUrl(D[k]), D[k].url = D[l].url
      PROVE  k = l
  <2>1. url(order[k]) # Nil /\ url(order[k]) = url(order[l])
    BY <1>6, <1>8 DEF HasUrl
  <2>2. order[l] \in SamePage(rs, order[k]) /\ order[k] \in SamePage(rs, order[l])
    BY <1>2, <1>6, <2>1
  <2>3. order[k] <= order[l] /\ order[l] <= order[k]
    BY <1>f, <1>6, <2>2
  <2>4. order[k] = order[l]
    <3>1. order[k] \in 1 .. n /\ order[l] \in 1 .. n
      BY <1>6
    <3>2. order[k] \in Nat /\ order[l] \in Nat
      BY <1>1, <3>1
    <3> QED BY <2>3, <3>2
  <2> QED BY <1>4, <2>4
<1>9. DOMAIN D = 1 .. m
  BY <1>5
<1>10. ASSUME NEW k \in 1 .. m
       PROVE  /\ p = "model_builtin" => D[k].level # "url_verified"
              /\ D[k].level = "url_verified" => HasUrl(D[k])
              /\ p # "model_builtin" /\ HasUrl(D[k]) => D[k].level = "url_verified"
  <2> DEFINE i == order[k]
  <2>1. i \in 1 .. n /\ D[k].url = url(i) /\ D[k].level = ResultLevel(p, url(i), levels(i))
    BY <1>6
  <2>2. p # "model_builtin" /\ url(i) # Nil => levels(i) = {"url_verified"}
    BY <1>7, <2>1
  <2> HIDE DEF url, levels, i
  <2> QED BY <2>1, <2>2, ResultLevelSound DEF HasUrl
<1>11. WellRated(p, D)
  BY <1>8, <1>9, <1>10 DEF WellRated
<1>12. \E S : D \in Seq(S)
  <2> DEFINE S == {Merged(p, rs, order[k]) : k \in 1 .. m}
  <2>1. \A k \in 1 .. m : Merged(p, rs, order[k]) \in S
    OBVIOUS
  <2> HIDE DEF S
  <2>2. D \in [1 .. m -> S]
    BY <1>5, <2>1
  <2>3. D \in Seq(S)
    BY <1>4, <2>2
  <2> QED BY <2>3
<1>13. ASSUME rs # <<>> PROVE D # <<>>
  <2>1. 1 \in 1 .. n /\ n # 0
    BY <1>1, <1>13, EmptySeq
  <2>2. 1 \in firsts
    BY <1>1, <1>2, <2>1 DEF firsts
  <2>3. m # 0
    <3>1. IsFiniteSet(firsts)
      <4>1. n \in Int /\ 1 \in Int
        BY <1>1
      <4>2. IsFiniteSet(1 .. n)
        BY <4>1, FS_Interval
      <4> QED BY <1>3, <4>2, FS_Subset
    <3> QED BY <2>2, <3>1, FS_EmptySet DEF m
  <2>4. 1 \in DOMAIN D
    BY <1>4, <1>9, <2>3
  <2> QED BY <2>4
<1> QED BY <1>11, <1>12, <1>13 DEF D

\* Results from the front are as well rated as all of them (_fit_data_to_output_limit
\* drops results from the end).
LEMMA FrontWellRated ==
  ASSUME NEW p, NEW S, NEW rs \in Seq(S), WellRated(p, rs), NEW n \in 0 .. Len(rs)
  PROVE  SubSeq(rs, 1, n) \in Seq(S) /\ WellRated(p, SubSeq(rs, 1, n))
<1>1. Len(rs) \in Nat /\ DOMAIN rs = 1 .. Len(rs) /\ n \in Nat
  BY LenProperties
<1>2. /\ SubSeq(rs, 1, n) \in Seq(S) /\ Len(SubSeq(rs, 1, n)) = n
      /\ \A i \in 1 .. n : SubSeq(rs, 1, n)[i] = rs[i]
  BY <1>1
<1>3. DOMAIN SubSeq(rs, 1, n) = 1 .. n /\ \A i \in 1 .. n : i \in DOMAIN rs
  BY <1>1, <1>2, LenProperties
<1> QED BY <1>2, <1>3 DEF WellRated

\* Cutting leaves results from the front and nothing else changed: of the numbers of
\* results that fit, or none, there is a largest.
LEMMA ShortenedType ==
  ASSUME NEW S, NEW d \in Data(S), NEW limit
  PROVE  \E n \in 0 .. Len(d.results) :
           Shortened(d, limit) = [d EXCEPT !.results = SubSeq(d.results, 1, n)]
<1> DEFINE Fits(n) == Size([d EXCEPT !.results = SubSeq(@, 1, n)]) <= limit
           l == Len(d.results)
           Cut == {k \in 0 .. l : Fits(l - k) \/ l - k = 0}
           Below == {k \in Nat \X Nat : k[1] < k[2]}
           Is(n) == (Fits(n) \/ n = 0) /\ \A m \in n + 1 .. l : ~Fits(m)
           n == CHOOSE n \in 0 .. l : Is(n)
<1>1. l \in Nat
  BY LenProperties DEF Data
<1>2. Shortened(d, limit) = [d EXCEPT !.results = SubSeq(d.results, 1, n)]
  BY DEF Shortened
<1> HIDE DEF Fits, l
<1>3. \E k \in 0 .. l : Is(k)
  <2>1. l \in Cut /\ Cut \in SUBSET Nat
    BY <1>1
  <2>2. IsWellFoundedOn(Below, Nat)
    BY NatLessThanWellFounded DEF OpToRel
  <2>3. PICK k \in Cut : \A j \in Cut : <<j, k>> \notin Below
    <3> HIDE DEF Cut, Below
    <3> QED BY <2>1, <2>2, WFMin
  <2>4. k \in Nat /\ k <= l /\ l - k \in 0 .. l /\ (Fits(l - k) \/ l - k = 0)
    BY <1>1, <2>1
  <2>5. ASSUME NEW m \in l - k + 1 .. l PROVE ~Fits(m)
    <3>1. m \in Nat /\ l - m \in 0 .. l /\ l - m < k /\ l - (l - m) = m
      BY <1>1, <2>4
    <3>2. <<l - m, k>> \in Below
      BY <2>4, <3>1
    <3>3. l - m \notin Cut
      BY <2>3, <3>2
    <3> QED BY <3>1, <3>3
  <2> QED BY <2>4, <2>5
<1>4. n \in 0 .. l
  <2> HIDE DEF Is
  <2> QED BY <1>3
<1> HIDE DEF n
<1> QED BY <1>2, <1>4 DEF l

\* Rating a cut or a whole answer leaves it honest, unless it was an empty one of a
\* model that claimed more (_normalized_evidence_level, _normalized_source_quality).
LEMMA RatedHonest ==
  ASSUME NEW p \in Providers, NEW S, NEW d \in Data(S), WellRated(p, d.results),
         p = "model_builtin" => d.results # <<>> \/ d.summary \/ d.level # "url_verified"
  PROVE  /\ Rated(p, d) \in Data(S) /\ Rated(p, d).results = d.results
         /\ Honest(p, Rated(p, d))
<1> DEFINE rs == d.results
           e == Rated(p, d)
<1>1. rs \in Seq(S) /\ d.summary \in BOOLEAN /\ d.level \in Levels
  BY DEF Data
<1>2. AnswerLevel(p, d) \in Levels
  BY <1>1 DEF AnswerLevel, Levels
<1>3. Quality(p, d) \in {"empty", "summary_only", "partial_sources", "verified_sources"}
  BY DEF Quality
<1>4. /\ e \in Data(S) /\ e.results = rs
      /\ e.level = AnswerLevel(p, d) /\ e.quality = Quality(p, d)
  BY <1>2, <1>3 DEF Rated, Data
<1>6. p = "model_builtin" => e.level # "url_verified"
  BY <1>4 DEF AnswerLevel
<1>7. ASSUME e.level = "url_verified", rs # <<>>
      PROVE  \E i \in DOMAIN rs : rs[i].level = "url_verified"
  BY <1>4, <1>6, <1>7 DEF AnswerLevel, AnyUrl, WellRated
<1>8. e.quality = "verified_sources" => \A i \in DOMAIN rs : HasUrl(rs[i])
  BY <1>4 DEF Quality, AllUrls
<1> QED BY <1>4, <1>6, <1>7, <1>8 DEF Honest, WellRated

\* An honest answer that is cut to its limit is honest: what was dropped vouches for
\* nothing (_fit_data_to_output_limit).
LEMMA FittedHonest ==
  ASSUME NEW p \in Providers, NEW S, NEW d \in Data(S), WellRated(p, d.results), Honest(p, d),
         NEW limit
  PROVE  Honest(p, Fitted(p, d, limit))
<1>1. d.results \in Seq(S)
  BY DEF Data
<1>2. ASSUME limit = 0
      PROVE  Honest(p, [d EXCEPT !.results = <<>>, !.summary = FALSE])
  <2> DEFINE e == [d EXCEPT !.results = <<>>, !.summary = FALSE]
  <2>1. e.results = <<>> /\ e.level = d.level /\ e.quality = d.quality
    BY DEF Data
  <2>2. DOMAIN e.results = {}
    BY <2>1
  <2> HIDE DEF e
  <2>3. Honest(p, e)
    BY <2>1, <2>2 DEF Honest
  <2> QED BY <2>3 DEF e
<1>3. Honest(p, Rated(p, Shortened(d, limit)))
  <2>1. PICK n \in 0 .. Len(d.results) :
          Shortened(d, limit) = [d EXCEPT !.results = SubSeq(d.results, 1, n)]
    BY ShortenedType
  <2> DEFINE e == Shortened(d, limit)
  <2>2. SubSeq(d.results, 1, n) \in Seq(S) /\ WellRated(p, SubSeq(d.results, 1, n))
    BY <1>1, FrontWellRated
  <2>3. e \in Data(S) /\ e.results = SubSeq(d.results, 1, n) /\ e.level = d.level
    BY <2>1, <2>2 DEF Data
  <2>4. p = "model_builtin" => e.level # "url_verified"
    BY <2>3 DEF Honest
  <2> HIDE DEF e
  <2>5. Honest(p, Rated(p, e))
    BY <2>2, <2>3, <2>4, RatedHonest
  <2> QED BY <2>5 DEF e
<1> QED BY <1>2, <1>3 DEF Fitted

\* Whatever a provider reports, what is made of it is honest
\* (normalize_web_search_data, normalize_web_search_evidence).
LEMMA NormalizedHonest ==
  ASSUME NEW p \in Providers, NEW a \in Reported[p], Acceptable(p, a),
         Wanted(call) \in 1 .. MaxPerRequest
  PROVE  Honest(p, Normalized(p, a))
<1> DEFINE received == [i \in DOMAIN a.results |-> Coerced(a.results[i])]
           n == IF Wanted(call) < Len(received) THEN Wanted(call) ELSE Len(received)
           bounded == SubSeq(received, 1, n)
           merged == Deduplicated(p, bounded)
           d == [results |-> merged, summary |-> a.summary,
                 level |-> FirstLevel(p, a), quality |-> "empty"]
<1>1. /\ a.results \in Seq(Entry) /\ a.summary \in BOOLEAN
      /\ p # "model_builtin" => \A i \in DOMAIN a.results : a.results[i].level = Nil
      /\ MaxPerRequest \in Nat /\ Nil \notin Levels
  BY WebSearchAssumption
<1> DEFINE k == Len(a.results)
<1>2. k \in Nat /\ DOMAIN a.results = 1 .. k /\ \A i \in 1 .. k : a.results[i] \in Entry
  BY <1>1, LenProperties
<1>3. \A i \in 1 .. k :
        /\ Coerced(a.results[i]) \in Entry
        /\ p # "model_builtin" /\ HasUrl(Coerced(a.results[i]))
             => Coerced(a.results[i]).level = "url_verified"
  <2> SUFFICES ASSUME NEW i \in 1 .. k
               PROVE  /\ Coerced(a.results[i]) \in Entry
                      /\ p # "model_builtin" /\ HasUrl(Coerced(a.results[i]))
                           => Coerced(a.results[i]).level = "url_verified"
    OBVIOUS
  <2>1. /\ a.results[i] \in Entry
        /\ p # "model_builtin" => a.results[i].level \notin Levels
    BY <1>1, <1>2
  <2>2. {"url_verified", "provider_reported"} \in SUBSET Levels
    BY DEF Levels
  <2> QED BY <2>1, <2>2 DEF Coerced, Entry, HasUrl
<1>4. received \in Seq(Entry) /\ Len(received) = k
  <2>1. received \in [1 .. k -> Entry]
    <3>1. received = [i \in 1 .. k |-> Coerced(a.results[i])]
      BY <1>2
    <3> HIDE DEF received, k
    <3> QED BY <1>3, <3>1
  <2> HIDE DEF received, k
  <2>2. received \in Seq(Entry) /\ DOMAIN received = 1 .. k
    BY <1>2, <2>1
  <2> QED BY <1>2, <2>2, LenProperties
<1>5. n \in 0 .. k /\ (k # 0 => n # 0)
  <2> HIDE DEF received
  <2> QED BY <1>1, <1>2, <1>4
<1>6. /\ bounded \in Seq(Entry) /\ Len(bounded) = n
      /\ \A i \in 1 .. n : bounded[i] = received[i]
  <2> HIDE DEF received, n, k
  <2> QED BY <1>2, <1>4, <1>5
<1>7. p # "model_builtin" =>
        \A i \in DOMAIN bounded : HasUrl(bounded[i]) => bounded[i].level = "url_verified"
  <2>1. ASSUME NEW i \in DOMAIN bounded PROVE i \in 1 .. k /\ bounded[i] = Coerced(a.results[i])
    <3>1. i \in 1 .. n
      BY <1>6, <2>1, LenProperties
    <3>2. i \in 1 .. k
      BY <1>2, <1>5, <3>1
    <3> QED BY <1>2, <1>6, <3>1, <3>2
  <2> HIDE DEF bounded, k
  <2>2. ASSUME NEW i \in DOMAIN bounded, p # "model_builtin", HasUrl(bounded[i])
        PROVE  bounded[i].level = "url_verified"
    <3>1. i \in 1 .. k /\ bounded[i] = Coerced(a.results[i])
      BY <2>1
    <3>2. HasUrl(Coerced(a.results[i]))
      BY <2>2, <3>1
    <3>3. Coerced(a.results[i]).level = "url_verified"
      BY <1>3, <2>2, <3>1, <3>2
    <3> QED BY <3>1, <3>3
  <2> QED BY <2>2
<1> HIDE DEF bounded, received, n
<1>8. /\ \E S : merged \in Seq(S)
      /\ WellRated(p, merged)
      /\ bounded # <<>> => merged # <<>>
  BY <1>6, <1>7, DeduplicatedRated
<1>9. p = "model_builtin" => merged # <<>> \/ a.summary
  <2>1. a.results # <<>> => bounded # <<>>
    BY <1>1, <1>2, <1>5, <1>6, EmptySeq
  <2> QED BY <1>8, <2>1 DEF Acceptable
<1> HIDE DEF merged
<1>10. FirstLevel(p, a) \in Levels
  BY DEF FirstLevel, Levels
<1>11. PICK S : merged \in Seq(S)
  BY <1>8
<1>12. d \in Data(S) /\ d.results = merged /\ d.summary = a.summary
  BY <1>1, <1>10, <1>11 DEF Data
<1>13. Normalized(p, a) = Fitted(p, Rated(p, d), call.limit)
  BY DEF Normalized, merged, bounded, received, n
<1> HIDE DEF d
<1>14. Rated(p, d) \in Data(S) /\ Rated(p, d).results = merged /\ Honest(p, Rated(p, d))
  BY <1>8, <1>9, <1>12, RatedHonest
<1> QED BY <1>8, <1>13, <1>14, FittedHonest

\* An answer of a provider, or what ends a search without one, is honest.
LEMMA EvidenceOfConclude ==
  ASSUME NEW p, NEW r, Conclude(p, r),
         "data" \in DOMAIN r => Honest(r.provider, r.data)
  PROVE  EvidenceHeld'
<1>1. result' = r
  BY DEF Conclude
<1>2. ASSUME HasData' PROVE Honest(r.provider, r.data)
  BY <1>1, <1>2 DEF HasData
<1> QED BY <1>1, <1>2 DEF EvidenceHeld, Honest

\* Every step keeps the answers honest.
LEMMA EvidenceStep ==
  ASSUME EvidenceInv, [Next]_vars
  PROVE  EvidenceInv'
<1>1. SearchInv'
  BY NextSearch DEF EvidenceInv
<1> SUFFICES Moderate' /\ EvidenceHeld'
  BY <1>1 DEF EvidenceInv
<1>n. \A code : "data" \notin DOMAIN Outcome(code)
  BY DEF Outcome
<1>2. ASSUME NEW c \in Calls, Run(c)
      PROVE  Moderate' /\ EvidenceHeld'
  <2>1. call' = c /\ config' = config
    BY <1>2 DEF Run
  <2>2. Going' => Wanted(c) \in 1 .. MaxPerRequest
    BY <1>2 DEF Run, Finish, Going, Malformed
  <2>3. Wanted(call)' = Wanted(c)
    BY <2>1 DEF Wanted, Route
  <2>4. \/ at' = "route"
        \/ \E code : result' = Outcome(code)
    BY <1>2 DEF Run, Finish
  <2>5. ~HasData'
    BY <2>4, <1>n DEF HasData
  <2> QED BY <2>2, <2>3, <2>5 DEF Moderate, EvidenceHeld
<1>3. ASSUME Going, UNCHANGED <<config, call>>
      PROVE  Moderate'
  BY <1>3 DEF EvidenceInv, Moderate, Wanted, Route
<1>4. ASSUME NEW p, NEW code, Conclude(p, Outcome(code)) PROVE EvidenceHeld'
  BY <1>4, <1>n, EvidenceOfConclude
<1>g. at \in {"route", "sent"} => Going
  BY DEF Going
<1>5. CASE Refuse
  BY <1>3, <1>4, <1>5, <1>g DEF Refuse
<1>6. CASE Send
  <2>1. CASE at' = "sent"
    <3>1. ~HasData'
      BY <2>1 DEF HasData
    <3> QED BY <1>3, <1>6, <1>g, <3>1 DEF Send, EvidenceHeld
  <2>2. CASE Conclude("model_builtin", Outcome("provider_not_configured"))
    BY <1>3, <1>4, <1>6, <1>g, <2>2 DEF Send
  <2> QED BY <1>6, <2>1, <2>2 DEF Send
<1>7. CASE ProviderFails
  BY <1>3, <1>4, <1>7, <1>g DEF ProviderFails
<1>8. CASE ProviderAnswers
  <2>1. Going /\ left \in Seq(Providers) /\ left # <<>> /\ UNCHANGED <<config, call>>
    BY <1>8 DEF ProviderAnswers, EvidenceInv, SearchInv, Going
  <2> DEFINE p == Head(left)
  <2>2. p \in Providers
    BY <2>1, HeadTailProperties
  <2>3. PICK a \in Reported[p] :
          /\ Acceptable(p, a)
          /\ Conclude(p, [code |-> "ok", provider |-> p, data |-> Normalized(p, a)])
    BY <1>8 DEF ProviderAnswers
  <2> HIDE DEF p
  <2>4. Honest(p, Normalized(p, a))
    BY <2>1, <2>2, <2>3, NormalizedHonest DEF EvidenceInv, Moderate
  <2>5. EvidenceHeld'
    BY <2>3, <2>4, EvidenceOfConclude
  <2> QED BY <1>3, <2>1, <2>5
<1>9. CASE UNCHANGED vars
  BY <1>9 DEF vars, EvidenceInv, Moderate, Going, Wanted, Route, EvidenceHeld, HasData
<1> QED
  BY <1>2, <1>5, <1>6, <1>7, <1>8, <1>9 DEF Next

\* No answer claims more than it shows (normalization.py): for any configuration,
\* call and limit, and for whatever the providers report, as long as only a model
\* rates single results.
THEOREM AnswersClaimWhatTheyShow == Spec => []EvidenceHeld
<1>1. Init => EvidenceInv
  BY InitSearch DEF Init, EvidenceInv, Moderate, Going, EvidenceHeld, HasData
<1>2. EvidenceInv /\ [Next]_vars => EvidenceInv'
  BY EvidenceStep
<1>3. EvidenceInv => EvidenceHeld
  BY DEF EvidenceInv
<1> QED BY <1>1, <1>2, <1>3, PTL DEF Spec

==============================================================================
