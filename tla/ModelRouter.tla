------------------------------ MODULE ModelRouter -----------------------------
(* How the model layer chooses where a call goes: ModelRouter picks one candidate *)
(* of a route, CandidateHealthRegistry remembers which credentials, models and    *)
(* candidates failed, and ModelManager cuts a prompt to what the choice admits.   *)
(* Everything here is a function of the configuration, the options of a call and  *)
(* the health; ModelCall runs the calls.                                          *)
EXTENDS Naturals, Sequences, FiniteSetsExt

CONSTANTS Confs,          \* provider configurations by id: slug (the first enabled
                          \* credential), model, default (of the spec), chars, tokens,
                          \* embeds, and own for a manager without a configuration
          Candidates,     \* each route's candidates in the order of _first_enabled
                          \* sorting; a route without them is not explicit_candidates
          DefaultConf,    \* provider_conf_id of the manager, or its own provider
          ManagerSlug,    \* credential_slug of the manager, or None
          None,
          Threshold,      \* circuit_failure_threshold
          CandidateCool, CredentialCool, CircuitOpen   \* seconds, as ticks

Routes == DOMAIN Candidates
Listed(r) == {Candidates[r][i] : i \in DOMAIN Candidates[r]}

ASSUME RouterAssumption ==
    /\ DefaultConf \in DOMAIN Confs /\ None \notin DOMAIN Confs
    /\ \A r \in Routes : Candidates[r] \in Seq(Listed(r)) /\ None \notin Listed(r)
    /\ \A r \in Routes : \A c \in Listed(r) : c.conf \in DOMAIN Confs /\ c.slug # None
    /\ {Threshold, CandidateCool, CredentialCool, CircuitOpen} \subseteq Nat \ {0}

\* What a provider's answer comes to, as retry, fallback and health tell it apart:
\* "auth" stands for the codes about a credential, "model" for model_not_found,
\* "busy" for the retryable codes, "bad" for the others that allow a fallback and
\* "refused" for those that do not.
Codes == {"ok", "auth", "model", "busy", "bad", "refused"}
Retryable(code)       == code = "busy"
FallbackAllowed(code) == code # "refused"

Or(value, other) == IF value # None THEN value ELSE other

(********************************* candidates **********************************)
Target(r, conf, slug, model) == [route |-> r, conf |-> conf, slug |-> slug, model |-> model]

\* The keys under which the health of a target is kept.
Scoped(scope, r, conf, slug, model) == <<scope, r, conf, slug, model>>
RelatedKeys(g) == {Scoped("candidate", g.route, g.conf, g.slug, g.model),
                   Scoped("credential", g.route, g.conf, g.slug, None),
                   Scoped("model", g.route, g.conf, None, g.model)}

\* Mutant: the model of the provider configuration is not looked at.
LookupNoConfModel(r, c) == Target(r, c.conf, c.slug, c.model)

\* What _first_enabled_candidate looks a candidate up by.
Lookup(r, c) == Target(r, c.conf, c.slug, Or(c.model, Confs[c.conf].model))

\* What a call of the candidate is made with, and recorded and excluded by.
Resolved(r, c, o) ==
    Target(r, c.conf,
           Or(o.slug, Or(ManagerSlug, Or(c.slug, Confs[c.conf].slug))),
           Or(o.model, Or(c.model, Or(Confs[c.conf].model, Confs[c.conf].default))))

(*********************************** health ************************************)
Fresh  == [fails |-> 0, cool |-> 0, open |-> 0]
Active(h) == h.cool > 0 \/ h.open > 0
IsAvailable(health, g) == \A k \in RelatedKeys(g) : ~Active(health[k])

\* The count matters up to the threshold only, so it stops there.
RecordFailure(health, g, code) ==
    LET k == CASE code = "auth"  -> Scoped("credential", g.route, g.conf, g.slug, None)
               [] code = "model" -> Scoped("model", g.route, g.conf, None, g.model)
               [] OTHER          -> Scoped("candidate", g.route, g.conf, g.slug, g.model)
        fails == Min({health[k].fails + 1, Threshold}) IN
    [health EXCEPT ![k] =
        IF code \in {"auth", "model"} THEN [@ EXCEPT !.cool = Max({@, CredentialCool})]
        ELSE [fails |-> fails,
              cool  |-> IF Retryable(code) THEN Max({@.cool, CandidateCool}) ELSE @.cool,
              open  |-> IF fails = Threshold THEN Max({@.open, CircuitOpen}) ELSE @.open]]

RecordSuccess(health, g) ==
    [k \in DOMAIN health |-> IF k \in RelatedKeys(g) THEN Fresh ELSE health[k]]

Sooner(n) == IF n = 0 THEN 0 ELSE n - 1
Elapse(health) == [k \in DOMAIN health |-> [health[k] EXCEPT !.cool = Sooner(@),
                                                            !.open = Sooner(@)]]

(*********************************** resolve ***********************************)
\* The places of the candidates that _first_enabled_candidate may take.
UsableAt(r, excluded, enabled, health) ==
    {i \in DOMAIN Candidates[r] :
        LET c == Candidates[r][i] IN
        /\ c.enabled /\ c.conf \in enabled
        /\ Lookup(r, c) \notin excluded /\ IsAvailable(health, Lookup(r, c))}

Tokens(chars) == (chars + 3) \div 4
TooLong(conf, chars) == \/ Confs[conf].chars # None /\ chars > Confs[conf].chars
                        \/ Confs[conf].tokens # None /\ Tokens(chars) > Confs[conf].tokens

\* _apply_truncation: the last characters stay, by the limit on characters if there
\* is one and else by four for each token.
Kept(conf, chars) ==
    Min({chars, IF Confs[conf].chars # None THEN Confs[conf].chars
                ELSE IF Confs[conf].tokens # None THEN 4 * Confs[conf].tokens ELSE chars})

\* The candidate a call gets: none if it names a configuration, or none is usable.
FirstEnabled(o, excluded, enabled, health) ==
    LET usable == UsableAt(o.route, excluded, enabled, health) IN
    IF o.conf # None \/ usable = {} THEN None ELSE Candidates[o.route][Min(usable)]

\* Without a candidate the configuration of the options or the manager is asked, be
\* it enabled or not.
TargetOf(o, cand) ==
    Resolved(o.route, IF cand # None THEN cand
                      ELSE [conf |-> Or(o.conf, DefaultConf), slug |-> None, model |-> None], o)

\* What resolve makes of it for a prompt of that many characters.
Resolution(o, chars, cand, target) ==
    [cand |-> cand, target |-> target,
     fits |-> o.truncate \/ ~TooLong(target.conf, chars),
     sent |-> IF o.truncate /\ TooLong(target.conf, chars) THEN Kept(target.conf, chars)
              ELSE chars]
============================================================================
