------------------------------ MODULE Planning ------------------------------
(***************************************************************************)
(* From a request to the start of its execution: ReactAgent has the        *)
(* analyzer make a task of it and the planner a plan of the task, and the  *)
(* executor checks the plan before its loop.                               *)
(*                                                                         *)
(* Requests of several sessions run at once.  They share the registry of   *)
(* tools, which may lose and regain tools while they wait for the model,   *)
(* and the file of the pending intents, which each of them reads, empties  *)
(* and writes again without a lock.                                        *)
(***************************************************************************)
EXTENDS Analyzer, Planner, ToolCatalogue

CONSTANTS
  Requests,         \* the requests in flight
  Configs,          \* [model, planner, listed]: a model manager, the planner may
                    \* ask it, the tools the analyzer believes to exist
  Texts,            \* the texts a user may send
  IntentAnswers,    \* what the model may answer when asked for intents
  PlanAnswers,      \* what it may answer when asked for a plan
  Removable,        \* the tools that may leave the registry
  MaxChanges        \* bound: changes of the registry

VARIABLES
  config,
  registry,   \* the names of the specs registered now
  changes,
  file,       \* the pending intents: [state, count]
  pc,
  text,
  found,      \* the intents, their source and the pending names to record
  held,       \* the counts read from the file and not yet written back
  task,
  attempt,
  plan,
  verdict     \* of the precheck: "none", "admitted", "failed", "blocked", "waiting"

vars == <<config, registry, changes, file, pc, text, found, held, task, attempt, plan, verdict>>

Nothing == [is |-> "nothing"]
NovelNames == UNION {ToSet(PendingNames(a)) : a \in IntentAnswers}
NoCounts == [n \in NovelNames |-> 0]

Init ==
  /\ config \in Configs
  /\ registry = {spec.name : spec \in DefaultTools} /\ changes = 0
  /\ file = [state |-> "absent", count |-> NoCounts]
  /\ pc = [r \in Requests |-> "idle"] /\ text = [r \in Requests |-> Nothing]
  /\ found = [r \in Requests |-> [intents |-> <<>>, source |-> "none", pending |-> <<>>]]
  /\ held = [r \in Requests |-> NoCounts]
  /\ task = [r \in Requests |-> Nothing] /\ attempt = [r \in Requests |-> 0]
  /\ plan = [r \in Requests |-> Nothing] /\ verdict = [r \in Requests |-> "none"]

Goto(r, where) == pc' = [pc EXCEPT ![r] = where]

(***************************************************************************)
(* The analysis.  The keywords decide; the classifier is a stub that is    *)
(* never ready; then the model is asked, and without one it is a chat.     *)
(***************************************************************************)
Find(r, intents, source, pending) ==
  /\ found' = [found EXCEPT ![r] = [intents |-> intents, source |-> source, pending |-> pending]]
  /\ Goto(r, IF pending = <<>> THEN "assess" ELSE "record")

Receive(r) ==
  /\ pc[r] = "idle"
  /\ \E t \in Texts :
       /\ text' = [text EXCEPT ![r] = t]
       /\ \/ t.words # <<>> /\ Find(r, OrderIntents(t.words), "rule", <<>>)
          \/ t.words = <<>> /\ config.model /\ Goto(r, "ask intents") /\ UNCHANGED found
          \/ t.words = <<>> /\ ~config.model /\ Find(r, <<"chat">>, "fallback", <<>>)
  /\ UNCHANGED <<config, registry, changes, file, held, task, attempt, plan, verdict>>

LlmIntents(r) ==
  /\ pc[r] = "ask intents"
  /\ \E a \in IntentAnswers : Find(r, LlmFallbackIntents(a), "llm", PendingNames(a))
  /\ UNCHANGED <<config, registry, changes, file, text, held, task, attempt, plan, verdict>>

(***************************************************************************)
(* _record_pending_intent: a file that does not parse counts as empty.     *)
(***************************************************************************)
ReadPending(r) ==
  /\ pc[r] = "record"
  /\ held' = [held EXCEPT ![r] = IF file.state = "whole" THEN file.count ELSE NoCounts]
  /\ Goto(r, "open")
  /\ UNCHANGED <<config, registry, changes, file, text, found, task, attempt, plan, verdict>>

OpenPending(r) ==
  /\ pc[r] = "open"
  /\ file' = [file EXCEPT !.state = "half"]
  /\ Goto(r, "save")
  /\ UNCHANGED <<config, registry, changes, text, found, held, task, attempt, plan, verdict>>

SavePending(r) ==
  LET name == Head(found[r].pending)
      rest == Tail(found[r].pending)
  IN /\ pc[r] = "save"
     /\ file' = [state |-> "whole", count |-> [held[r] EXCEPT ![name] = @ + 1]]
     /\ held' = [held EXCEPT ![r] = NoCounts]
     /\ Find(r, found[r].intents, "llm", rest)
     /\ UNCHANGED <<config, registry, changes, text, task, attempt, plan, verdict>>

Assess(r) ==
  /\ pc[r] = "assess"
  /\ task' = [task EXCEPT ![r] = Analyze(text[r], found[r].intents, found[r].source, config.listed)]
  /\ Goto(r, "plan")
  /\ UNCHANGED <<config, registry, changes, file, text, found, held, attempt, plan, verdict>>

(***************************************************************************)
(* The plan.                                                               *)
(***************************************************************************)
Planned(r, p) == plan' = [plan EXCEPT ![r] = p] /\ Goto(r, "precheck")

CreatePlan(r) ==
  /\ pc[r] = "plan"
  /\ LET settled == PolicyOrRulePlan(task[r])
     IN \/ \E p \in settled : Planned(r, p)
        \/ settled = {} /\ config.model /\ config.planner /\ Goto(r, "ask plan") /\ UNCHANGED plan
        \/ settled = {} /\ ~(config.model /\ config.planner) /\ Planned(r, PlanByStrategy(task[r]))
  /\ UNCHANGED <<config, registry, changes, file, text, found, held, task, attempt, verdict>>

\* Mutant: the count of the repairs starts over at the limit.
AskAgainForEver(r) ==
  /\ attempt' = [attempt EXCEPT ![r] = (@ + 1) % (MaxRepairAttempts + 1)]
  /\ UNCHANGED <<pc, plan>>

AskAgain(r) ==
  /\ attempt[r] < MaxRepairAttempts
  /\ attempt' = [attempt EXCEPT ![r] = @ + 1]
  /\ UNCHANGED <<pc, plan>>

Accepted(r, p) ==
  IF attempt[r] = 0 THEN p ELSE [p EXCEPT !.strategy = "llm_repaired", !.status = "repaired"]

LlmPlanner(r) ==
  /\ pc[r] = "ask plan"
  /\ \E a \in PlanAnswers :
       \/ a.kind = "call failed" /\ Planned(r, FallbackPlan(task[r])) /\ UNCHANGED attempt
       \/ a.kind = "no plan" /\ AskAgain(r)
       \/ /\ a.kind = "no plan" /\ attempt[r] >= MaxRepairAttempts
          /\ Planned(r, FallbackPlan(task[r])) /\ UNCHANGED attempt
       \/ /\ a.kind = "plan"
          /\ \E p \in {LlmPlan(a, task[r])} :
               \/ p.status # "invalid" /\ Planned(r, Accepted(r, p)) /\ UNCHANGED attempt
               \/ p.status = "invalid" /\ AskAgain(r)
               \/ /\ p.status = "invalid" /\ attempt[r] >= MaxRepairAttempts
                  /\ Planned(r, [p EXCEPT !.strategy = "invalid"]) /\ UNCHANGED attempt
  /\ UNCHANGED <<config, registry, changes, file, text, found, held, task, verdict>>

(***************************************************************************)
(* The precheck of the executor, on the registry as it is by then.  Every  *)
(* alias of a tool the plan may use is as good as its name.                *)
(***************************************************************************)
SpecsOf(names) == {spec \in DefaultTools : {spec.name, spec.alias} \cap names # {}}

\* Mutant: what the analyzer found to exist is taken to exist still.
AvailableWhenAnalyzed(p) ==
  IF p.available # {} THEN p.available
  ELSE UNION {{spec.name, spec.alias} : spec \in {s \in DefaultTools : s.name \in registry}}

AvailableToolNames(p) ==
  LET specs == {spec \in DefaultTools : spec.name \in registry}
      usable == IF p.available = {} THEN specs ELSE specs \cap SpecsOf(p.available)
  IN IF p.mode = "chat" THEN {} ELSE UNION {{spec.name, spec.alias} : spec \in usable}

UsesTool(s) == s.type = "tool" /\ s.tool # "none"

PlanReferenceErrors(p) ==
  LET keys == {s.key : s \in ToSet(p.steps)}
  IN \/ Cardinality(IdsOf(p.steps)) # Len(p.steps)
     \/ \E u \in ToSet(p.units) : ~(u.steps \subseteq IdsOf(p.steps))
     \/ \E s \in ToSet(p.steps) :
          \/ \A u \in ToSet(p.units) : u.id # s.unit
          \/ ~(s.dep \subseteq IdsOf(p.steps))
          \/ ~(s.inp \subseteq IdsOf(p.steps) \cup keys)
          \/ UsesTool(s) /\ s.tool \notin AvailableToolNames(p)

MustAsk(spec) == spec.confirm \/ spec.risk = "high" \/ spec.scope \in {"code_execution", "command"}

DefersToModel(s) == s.tool = "command_tool" /\ "command" \notin s.args

Gate(s) ==
  IF ~UsesTool(s) \/ DefersToModel(s) THEN "none"
  ELSE IF \E spec \in Registered(s.tool) : spec.risk = "blocked" THEN "blocked"
  ELSE IF s.confirm \/ \E spec \in Registered(s.tool) : MustAsk(spec) THEN "confirm"
  ELSE "none"

PlanSafety(p) ==
  LET gated == {i \in DOMAIN p.steps : Gate(p.steps[i]) # "none"}
      first == CHOOSE i \in gated : \A j \in gated : i <= j
  IN IF gated = {} THEN "admitted"
     ELSE IF Gate(p.steps[first]) = "blocked" THEN "blocked" ELSE "waiting"

PlanPrecheck(p, t) ==
  IF p.status = "invalid" THEN "failed"
  ELSE IF t.policy = "block" THEN "blocked"
  ELSE IF p.mode = "clarify" THEN "waiting"
  ELSE IF p.mode = "confirm" \/ t.policy = "confirm" THEN "waiting"
  ELSE IF p.mode \in {"missing_tools", "blocked"} \/ ~p.can THEN "blocked"
  ELSE IF PlanReferenceErrors(p) THEN "failed" ELSE PlanSafety(p)

Precheck(r) ==
  /\ pc[r] = "precheck"
  /\ verdict' = [verdict EXCEPT ![r] = PlanPrecheck(plan[r], task[r])]
  /\ Goto(r, "done")
  /\ UNCHANGED <<config, registry, changes, file, text, found, held, task, attempt, plan>>

(***************************************************************************)
(* The registry loses or regains a tool.                                   *)
(***************************************************************************)
ChangeRegistry ==
  /\ changes < MaxChanges /\ changes' = changes + 1
  /\ \E t \in Removable :
       \/ t \in registry /\ registry' = registry \ {t}
       \/ t \notin registry /\ registry' = registry \cup {t}
  /\ UNCHANGED <<config, file, pc, text, found, held, task, attempt, plan, verdict>>

Work(r) ==
  \/ LlmIntents(r) \/ ReadPending(r) \/ OpenPending(r) \/ SavePending(r)
  \/ Assess(r) \/ CreatePlan(r) \/ LlmPlanner(r) \/ Precheck(r)

Finished == (\A r \in Requests : pc[r] = "done") /\ UNCHANGED vars

Next == (\E r \in Requests : Receive(r) \/ Work(r)) \/ ChangeRegistry \/ Finished

Spec == Init /\ [][Next]_vars
FairSpec == Spec /\ \A r \in Requests : WF_vars(Work(r))

(***************************************************************************)
(* Properties.                                                             *)
(***************************************************************************)
ToolSteps(p) == {s \in ToSet(p.steps) : UsesTool(s)}
Admitted(r) == verdict[r] = "admitted"

\* What the user's words forbid is not executed, whatever intents were cut off, whatever
\* the model answered to the analyzer or to the planner and whichever plan was tried: a
\* request that only asks for advice runs with no tool, a dangerous one does not run at
\* all, and one that names an act to be confirmed runs with no tool that must be confirmed.
RiskDecidesFirst ==
  \A r \in Requests : Admitted(r) =>
    LET mode == DetectMode(text[r]) IN
    /\ mode = "chat" => ToolSteps(plan[r]) = {}
    /\ mode = "solo" => ~Dangerous(text[r])
    /\ mode = "solo" /\ ToSet(text[r].words) \cap ConfirmIntents # {} =>
         \A s \in ToolSteps(plan[r]) : DefersToModel(s) \/ \A spec \in Registered(s.tool) : ~MustAsk(spec)

\* A plan that execution starts with uses only tools that are still registered then, though
\* the analyzer looked earlier, and of these only the ones the analyzer offered, if any.
AdmittedToolsExist ==
  [][\A r \in Requests : Admitted(r)' /\ ~Admitted(r) =>
       \A s \in ToolSteps(plan[r]) :
         \E spec \in Registered(s.tool) :
           /\ spec.name \in registry
           /\ plan[r].available = {} \/ {spec.name, spec.alias} \cap plan[r].available # {}]_vars

\* What the analyzer calls complete the templates can plan: the plan of a template is valid
\* and each of its steps reads only from an earlier step of its own unit.  Converting a format
\* beside other intents, and more files than a plan may have units, are the cases where
\* the code refuses the plan of its own template.
CompleteMeansPlannable ==
  \A r \in Requests : plan[r] # Nothing /\ plan[r].strategy = "rule_template" =>
    \/ "convert_format" \in ToSet(task[r].intents) \/ task[r].paths > MaxTaskUnits
    \/ /\ plan[r].status = "valid"
       /\ \A i \in DOMAIN plan[r].steps : \A ref \in plan[r].steps[i].inp :
            \E j \in 1..(i - 1) :
              plan[r].steps[j].id = ref /\ plan[r].steps[j].unit = plan[r].steps[i].unit

\* Every request is admitted, refused or put to the user in the end: the planner gives up
\* asking for repairs, whatever the model answers.
RequestsAreSettled == \A r \in Requests : (pc[r] # "idle") ~> (pc[r] = "done")

\* A request is turned down for missing tools only if one of them is registered under no name.
RefusedToolsAreMissing ==
  \A r \in Requests : plan[r] # Nothing /\ plan[r].mode = "missing_tools" =>
    \E t \in RecommendedTools(task[r].intents) :
      \A spec \in DefaultTools : t \notin {spec.name, spec.alias}
=============================================================================
