------------------------------- MODULE ModelCall ------------------------------
(* The calls of ModelManager: generate with its retries and its fallback to the   *)
(* next candidate, generate_json with its repairs, compress_context with a call   *)
(* for each chunk and one for the synthesis, stream_generate and embed_texts.     *)
(* Threads share one manager, so they share the health of the candidates and the  *)
(* provider configurations that enable_ and disable_provider_config change.  The  *)
(* provider is external: it may answer anything at any time, or never.            *)
EXTENDS ModelRouter

CONSTANTS Threads,
          Calls,        \* the calls: goal, options, sizes of the prompts of its parts
          Outcomes,     \* the codes a provider may answer with
          MaxRetries,   \* max_retries of the retry policy
          MaxRepairs,   \* repair attempts of structured output
          RepairExtra,  \* what a repair prompt is longer than the prompt it repairs
          MaxJobs,      \* bound: calls begun
          MaxChunks,    \* bound: chunks of a stream
          MaxSwitches   \* bound: enable_ and disable_provider_config

ASSUME CallAssumption ==
    /\ Outcomes \subseteq Codes /\ None \notin Calls
    /\ \A j \in Calls : /\ {"goal", "route", "sizes", "conf", "slug", "model", "fallback",
                           "retry", "truncate"} \subseteq DOMAIN j
                        /\ j.goal \in {"chat", "json", "compress", "stream", "embed"}
                        /\ j.route \in Routes
                        /\ j.sizes \in Seq(Nat) /\ j.sizes # <<>>
                        /\ {j.fallback, j.retry, j.truncate} \subseteq BOOLEAN
    /\ {MaxRetries, MaxRepairs} \subseteq 0..5
    /\ {RepairExtra, MaxJobs, MaxChunks, MaxSwitches} \subseteq Nat

VARIABLES th,        \* what each thread is doing
          health,    \* CandidateHealthRegistry._states, times as what is left of them
          enabled,   \* the provider configurations that are enabled
          used       \* calls begun and switches so far

vars == <<th, health, enabled, used>>

Idle == [pc |-> "idle", job |-> None, part |-> 0, repairs |-> 0, chars |-> 0,
         excluded |-> {}, tried |-> {}, res |-> None, attempt |-> 0, code |-> "ok",
         out |-> <<>>, held |-> None]

Keys == UNION {UNION {RelatedKeys(Resolved(r, c, j)) \cup RelatedKeys(Lookup(r, c)) :
                        c \in Listed(r), j \in Calls} : r \in Routes}

Init == /\ th = [t \in Threads |-> Idle]
        /\ health = [k \in Keys |-> Fresh]
        /\ enabled = DOMAIN Confs
        /\ used = [jobs |-> 0, switches |-> 0]

Become(t, record) == th' = [th EXCEPT ![t] = record]
Prompted(rec, chars) == [rec EXCEPT !.pc = "route", !.chars = chars, !.excluded = {},
                                    !.tried = {}, !.res = None, !.code = "ok"]

Begin(t, j) ==
    /\ th[t].pc = "idle" /\ used.jobs < MaxJobs
    /\ used' = [used EXCEPT !.jobs = @ + 1]
    /\ Become(t, Prompted([Idle EXCEPT !.job = j, !.part = 1], Head(j.sizes)))
    /\ UNCHANGED <<health, enabled>>

(******************************** one generate *********************************)
\* Where a generate leaves its caller.  The compression of a chunk that failed may
\* still be made by rules, without a model; everything else gives the failure on.
GenerateFailed(t) == Become(t, Idle)
GenerateDone(t) == Become(t, IF th[t].job.goal = "chat" THEN Idle
                             ELSE [th[t] EXCEPT !.pc = "parse"])

\* embed_texts names the configuration of its manager, so it never has a candidate
\* then, and needs a model of its own.
Asked(j) == IF j.goal = "embed" /\ j.conf = None /\ ~Confs[DefaultConf].own
            THEN [j EXCEPT !.conf = DefaultConf] ELSE j
Refused(j, r) ==
    \/ ~r.fits
    \/ /\ j.goal = "embed"
       /\ \/ ~Confs[r.target.conf].embeds
          \/ r.cand = None /\ j.model = None /\ ~Confs[r.target.conf].own

\* _prepare_call and _model_for_resolution: a route that leads nowhere ends the
\* call with its own failure, or with that of the candidate before.
Route(t) ==
    /\ th[t].pc = "route"
    /\ \E cand \in {FirstEnabled(Asked(th[t].job), th[t].excluded, enabled, health)} :
       \E target \in {TargetOf(Asked(th[t].job), cand)} :
       \E r \in {Resolution(Asked(th[t].job), th[t].chars, cand, target)} :
       IF Refused(th[t].job, r) \/ (th[t].excluded # {} /\ r.cand = None)
       THEN GenerateFailed(t)
       ELSE Become(t, [th[t] EXCEPT !.res = r, !.attempt = 1, !.tried = @ \cup {r.target},
                                    !.pc = IF th[t].job.goal \in {"stream", "embed"}
                                           THEN th[t].job.goal ELSE "wait"])
    /\ UNCHANGED <<health, enabled, used>>

\* One attempt of _generate_with_retry is over; the same model is asked again,
\* after the backoff, whatever other threads learned about it meanwhile.
Conclude(t, code) ==
    Become(t, IF Retryable(code) /\ th[t].job.retry /\ th[t].attempt <= MaxRetries
              THEN [th[t] EXCEPT !.attempt = @ + 1]
              ELSE [th[t] EXCEPT !.pc = "settle", !.code = code])

\* The provider answers, or its client fails.
Answer(t) == /\ th[t].pc = "wait"
             /\ \E code \in Outcomes : Conclude(t, code)
             /\ UNCHANGED <<health, enabled, used>>

\* timeout_seconds passes: the worker thread is left alone with the request, and
\* what it still brings is read by nobody.
Expire(t) == /\ th[t].pc = "wait"
             /\ Conclude(t, "busy")
             /\ UNCHANGED <<health, enabled, used>>

\* _should_fallback_to_next_candidate
MayFallBack(t, code) ==
    LET j == th[t].job IN
    /\ j.fallback /\ th[t].res.cand # None /\ FallbackAllowed(code)
    /\ j.conf = None /\ j.slug = None /\ j.model = None

\* Mutant: the other candidates of its provider are excluded with it.
SettleProvider(t) ==
    LET g == th[t].res.target
        code == th[t].code IN
    /\ th[t].pc = "settle"
    /\ health' = CASE th[t].res.cand = None -> health
                   [] code = "ok"           -> RecordSuccess(health, g)
                   [] FallbackAllowed(code) -> RecordFailure(health, g, code)
                   [] OTHER                 -> health
    /\ CASE code = "ok" -> GenerateDone(t)
         [] MayFallBack(t, code) /\ g \notin th[t].excluded ->
                Become(t, [th[t] EXCEPT !.pc = "route",
                                         !.excluded = @ \cup {Resolved(th[t].job.route, c, th[t].job) :
                                            c \in {d \in Listed(th[t].job.route) : d.conf = g.conf}}])
         [] OTHER -> GenerateFailed(t)
    /\ UNCHANGED <<enabled, used>>

\* _record_candidate_result, and the step to the next candidate.
Settle(t) ==
    LET g == th[t].res.target
        code == th[t].code IN
    /\ th[t].pc = "settle"
    /\ health' = CASE th[t].res.cand = None -> health
                   [] code = "ok"           -> RecordSuccess(health, g)
                   [] FallbackAllowed(code) -> RecordFailure(health, g, code)
                   [] OTHER                 -> health
    /\ CASE code = "ok" -> GenerateDone(t)
         [] MayFallBack(t, code) /\ g \notin th[t].excluded ->
                Become(t, [th[t] EXCEPT !.pc = "route", !.excluded = @ \cup {g}])
         [] OTHER -> GenerateFailed(t)
    /\ UNCHANGED <<enabled, used>>

(***************************** structured output *******************************)
Parsing(t) == th[t].pc = "parse" /\ UNCHANGED <<health, enabled, used>>

\* parse_json_output and validate_json_schema accept what came back.  The parts of
\* compress_context are its chunks, then their synthesis if there is more than one;
\* any other call has one part.
Accept(t) ==
    /\ Parsing(t)
    /\ Become(t, IF th[t].part = Len(th[t].job.sizes) THEN Idle
                 ELSE Prompted([th[t] EXCEPT !.part = @ + 1, !.repairs = 0],
                               th[t].job.sizes[th[t].part + 1]))

\* Mutant: the repairs are not counted.
RepairUncounted(t) ==
    /\ Parsing(t) /\ th[t].repairs < MaxRepairs
    /\ Become(t, Prompted(th[t], th[t].job.sizes[th[t].part] + RepairExtra))

\* They do not, and a further generate is asked to repair it.
Repair(t) ==
    /\ Parsing(t) /\ th[t].repairs < MaxRepairs
    /\ Become(t, Prompted([th[t] EXCEPT !.repairs = @ + 1],
                          th[t].job.sizes[th[t].part] + RepairExtra))

\* The repairs are used up, or what was compressed is empty: the part has failed and
\* the call with it, or what is left of a compression is done by rules.
Reject(t) ==
    /\ Parsing(t)
    /\ th[t].repairs = MaxRepairs \/ th[t].job.goal = "compress"
    /\ Become(t, Idle)

(********************************** streams ************************************)
Chunk(kind, final) == [kind |-> kind, final |-> final]

\* What the provider may give after the chunk held back: its failure ends it.
Kinds(held) == IF held = "failure" THEN {} ELSE {"text", "failure"}

\* The next chunk of the provider: the one before it is given on as not the last.
StreamChunk(t) ==
    /\ th[t].pc = "stream" /\ Len(th[t].out) < MaxChunks
    /\ \E kind \in Kinds(th[t].held) :
           Become(t, [th[t] EXCEPT !.held = kind,
                          !.out = IF th[t].held = None THEN @
                                  ELSE Append(@, Chunk(th[t].held, FALSE))])
    /\ UNCHANGED <<health, enabled, used>>

\* The provider's stream ends: the chunk held back is the last, an empty one if
\* there was none.
StreamEnd(t) ==
    /\ th[t].pc = "stream"
    /\ Become(t, [th[t] EXCEPT !.pc = "over", !.held = None,
                    !.out = Append(@, Chunk(IF th[t].held = None THEN "text" ELSE th[t].held,
                                            TRUE))])
    /\ UNCHANGED <<health, enabled, used>>

\* It breaks: the chunk held back is lost, and a failure is the last chunk.
StreamBreak(t) ==
    /\ th[t].pc = "stream"
    /\ Become(t, [th[t] EXCEPT !.pc = "over", !.held = None,
                               !.out = Append(@, Chunk("failure", TRUE))])
    /\ UNCHANGED <<health, enabled, used>>

\* The generator returns, or the one invocation of embed_texts does.
Return(t) == /\ th[t].pc \in {"over", "embed"}
             /\ Become(t, Idle)
             /\ UNCHANGED <<health, enabled, used>>

(****************************** the surroundings *******************************)
\* enable_provider_config, disable_provider_config
Switch(conf) == /\ used.switches < MaxSwitches
                /\ used' = [used EXCEPT !.switches = @ + 1]
                /\ enabled' = IF conf \in enabled THEN enabled \ {conf} ELSE enabled \cup {conf}
                /\ UNCHANGED <<th, health>>

Tick == /\ \E k \in DOMAIN health : Active(health[k])
        /\ health' = Elapse(health)
        /\ UNCHANGED <<th, enabled, used>>

(******************************* specification *********************************)
Work(t) == Route(t) \/ Expire(t) \/ Settle(t) \/ Accept(t) \/ Repair(t) \/ Reject(t)

Next == \/ \E t \in Threads : \/ \E j \in Calls : Begin(t, j)
                              \/ Work(t) \/ Answer(t)
                              \/ StreamChunk(t) \/ StreamEnd(t) \/ StreamBreak(t) \/ Return(t)
        \/ \E conf \in DOMAIN Confs : Switch(conf)
        \/ Tick

Spec == Init /\ [][Next]_vars

\* A thread that has something to do goes on, and a deadline passes in the end; the
\* provider owes nothing.
FairSpec == Spec /\ \A t \in Threads : WF_vars(Work(t))

(******************************** properties ***********************************)
\* Health is kept by what a candidate is called with and read by what it is looked up
\* by.  The two differ when the manager has a credential of its own or no model is
\* configured; the properties are about routes where they agree.
CalledAsLookedUp(j) ==
    \A c \in Listed(j.route) : Lookup(j.route, c) = Resolved(j.route, c, j)

\* A call that leaves the choice to its route.
LeavesChoice(j) == j.conf = None /\ j.slug = None /\ j.model = None

\* No call reaches a target whose credential, model or candidate is cooling down or
\* has its circuit open, by the keys its failures are recorded under, whichever
\* thread saw the failures (_first_enabled_candidate, record_failure).
CoolingIsLeftAlone ==
    [][\A t \in Threads :
          th[t].pc = "route" /\ th'[t].pc \in {"wait", "stream", "embed"}
              /\ th'[t].res.cand # None =>
                  IsAvailable(health, th'[t].res.target)]_vars

\* A call that may fall back gives up only when each candidate of its route was
\* asked, is switched off or is cooling down, or when the next one cannot hold the
\* prompt (generate, _should_fallback_to_next_candidate).
GivesUp(t) == /\ th[t].pc \in {"route", "settle"} /\ th[t].tried # {}
              /\ th[t].code # "ok" /\ MayFallBack(t, th[t].code)
FailoverComplete ==
    [][\A t \in Threads : GivesUp(t) /\ th'[t].pc = "idle" =>
          LET left == {c \in Listed(th[t].job.route) :
                         LET g == Resolved(th[t].job.route, c, th[t].job) IN
                         /\ c.enabled /\ c.conf \in enabled
                         /\ g \notin th[t].tried
                         /\ IsAvailable(health, g)} IN
          left = {} \/ \E c \in left : ~th[t].job.truncate /\ TooLong(c.conf, th[t].chars)]_vars

\* Whatever the providers do, or if they do nothing at all, a call that is no stream
\* and no embedding comes to its end: the loops over attempts, candidates, repairs
\* and chunks are finite together (generate, generate_json, compress_context).
CallsReturn == <>[](\A t \in Threads : th[t].pc \in {"idle", "stream", "embed", "over"})

============================================================================
