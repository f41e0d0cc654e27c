--------------------------- MODULE PlanningProofs ---------------------------
(***************************************************************************)
(* What the user's words forbid is not executed and what is executed       *)
(* exists, for any texts, any answers of the model, any mapping of tools   *)
(* and any number of requests at once over one registry.                   *)
(***************************************************************************)
EXTENDS Planning, TLAPS

-----------------------------------------------------------------------------
(* The invariant *)

Fn(f) == f = [r \in Requests |-> f[r]]

Analyzed == {"plan", "ask plan", "precheck", "done"}

\* The task keeps the mode and the danger of the words it was made of; a chat
\* gets a plan without tools before the model is asked for one; and what was
\* admitted had no step that must be confirmed.
RequestOK(r) ==
  /\ pc[r] \in Analyzed =>
       /\ task[r].mode = DetectMode(text[r])
       /\ task[r].mode = "solo" /\ Dangerous(text[r]) => task[r].policy = "block"
  /\ pc[r] = "ask plan" => task[r].mode # "chat"
  /\ pc[r] \in {"precheck", "done"} /\ task[r].mode = "chat" => ToolSteps(plan[r]) = {}
  /\ Admitted(r) =>
       /\ pc[r] = "done"
       /\ task[r].policy # "block"
       /\ PlanSafety(plan[r]) = "admitted"

PlanningInv ==
  /\ Fn(pc) /\ Fn(text) /\ Fn(task) /\ Fn(plan) /\ Fn(verdict)
  /\ \A r \in Requests : RequestOK(r)

-----------------------------------------------------------------------------
(* The operators *)

\* What the analyzer makes of a text keeps its mode and judges its risk.
LEMMA AnalyzeKeepsRisk ==
  ASSUME NEW t, NEW intents, NEW source, NEW listed
  PROVE  LET k == Analyze(t, intents, source, listed) IN
           /\ k.mode = DetectMode(t)
           /\ k.policy = ActionPolicy(t, DetectMode(t), intents)
BY DEF Analyze

\* A fixed plan uses no tool.
LEMMA FixedHasNoTool ==
  ASSUME NEW k, NEW mode, NEW type, NEW status, NEW can
  PROVE  ToolSteps(FixedPlan(k, mode, type, status, can)) = {}
<1> DEFINE s == [Step(1, 1, type, "none", {}, "none", {}) EXCEPT !.confirm = (type = "confirm")]
<1>1. s.tool = "none"
  BY DEF Step
<1>2. FixedPlan(k, mode, type, status, can).steps = <<s>>
  BY DEF FixedPlan
<1>3. ToSet(<<s>>) = {s}
  <2> HIDE DEF s
  <2> QED BY DEF ToSet
<1> HIDE DEF s
<1> QED BY <1>1, <1>2, <1>3 DEF ToolSteps, UsesTool

\* The policies and the templates have a plan for every chat, one of the fixed.
LEMMA ChatIsSettled ==
  ASSUME NEW k, k.mode = "chat"
  PROVE  /\ PolicyOrRulePlan(k) # {}
         /\ \A p \in PolicyOrRulePlan(k) : ToolSteps(p) = {}
BY FixedHasNoTool
   DEF PolicyOrRulePlan, BlockedPlan, ClarifyPlan, ConfirmPlan, MissingToolsPlan, ChatPlan

\* The check admits only what the policy lets pass, whose tools are there and
\* whose steps need no confirmation.
LEMMA AdmittedByCheck ==
  ASSUME NEW p, NEW k, PlanPrecheck(p, k) = "admitted"
  PROVE  k.policy # "block" /\ ~PlanReferenceErrors(p) /\ PlanSafety(p) = "admitted"
BY DEF PlanPrecheck

\* A plan that is safe has no gated step.
LEMMA SafeIsUngated ==
  ASSUME NEW p, PlanSafety(p) = "admitted", NEW s \in ToolSteps(p), NEW spec \in Registered(s.tool)
  PROVE  DefersToModel(s) \/ ~MustAsk(spec)
<1>1. \A i \in DOMAIN p.steps : Gate(p.steps[i]) = "none"
  BY DEF PlanSafety
<1>2. Gate(s) = "none" /\ UsesTool(s)
  BY <1>1 DEF ToolSteps, ToSet
<1> QED BY <1>2 DEF Gate

\* The tools of a plan whose references are sound are registered, and offered.
LEMMA ReferencedToolsExist ==
  ASSUME NEW p, ~PlanReferenceErrors(p), NEW s \in ToolSteps(p)
  PROVE  \E spec \in Registered(s.tool) :
           /\ spec.name \in registry
           /\ p.available = {} \/ {spec.name, spec.alias} \cap p.available # {}
<1>1. s.tool \in AvailableToolNames(p)
  BY DEF PlanReferenceErrors, ToolSteps
<1>2. PICK spec \in DefaultTools :
        /\ spec.name \in registry
        /\ p.available = {} \/ spec \in SpecsOf(p.available)
        /\ s.tool \in {spec.name, spec.alias}
  BY <1>1 DEF AvailableToolNames
<1>3. spec \in Registered(s.tool)
  BY <1>2 DEF Registered
<1> QED BY <1>2, <1>3 DEF SpecsOf

-----------------------------------------------------------------------------
(* The steps *)

\* A request that a step is not about stays as it is.
LEMMA OtherRequest ==
  ASSUME NEW r \in Requests, RequestOK(r), pc'[r] = pc[r], text'[r] = text[r], task'[r] = task[r],
         plan'[r] = plan[r], verdict'[r] = verdict[r]
  PROVE  RequestOK(r)'
BY DEF RequestOK, Admitted

\* Until it is analyzed there is nothing to keep about a request.
LEMMA EarlyRequest ==
  ASSUME NEW r \in Requests, RequestOK(r), pc[r] # "done", pc'[r] \notin Analyzed,
         verdict'[r] = verdict[r]
  PROVE  RequestOK(r)'
BY DEF RequestOK, Admitted, Analyzed

\* Where a step leads, and what it leaves alone.
LEMMA EarlyStep ==
  ASSUME PlanningInv, NEW r \in Requests,
         \/ Receive(r) \/ LlmIntents(r) \/ ReadPending(r) \/ OpenPending(r) \/ SavePending(r)
  PROVE  PlanningInv'
<1> USE DEF PlanningInv
<1>1. PICK w \in {"ask intents", "assess", "record", "open", "save"} : Goto(r, w)
  BY DEF Receive, LlmIntents, ReadPending, OpenPending, SavePending, Find
<1>2. Fn(pc)' /\ pc'[r] \notin Analyzed /\ \A q \in Requests : q # r => pc'[q] = pc[q]
  <2>1. w \notin Analyzed
    BY DEF Analyzed
  <2> QED BY <1>1, <2>1 DEF Goto, Fn
<1>3. pc[r] # "done" /\ UNCHANGED <<task, plan, verdict>>
  BY DEF Receive, LlmIntents, ReadPending, OpenPending, SavePending
<1>4. Fn(text)' /\ \A q \in Requests : q # r => text'[q] = text[q]
  <2>1. UNCHANGED text \/ \E t : text' = [text EXCEPT ![r] = t]
    BY DEF Receive, LlmIntents, ReadPending, OpenPending, SavePending
  <2> QED BY <2>1 DEF Fn
<1>5. ASSUME NEW q \in Requests
      PROVE  RequestOK(q)'
  <2>1. CASE q = r
    BY <1>2, <1>3, <2>1, EarlyRequest
  <2>2. CASE q # r
    BY <1>2, <1>3, <1>4, <2>2, OtherRequest
  <2> QED BY <2>1, <2>2
<1> QED BY <1>2, <1>3, <1>4, <1>5

\* The analysis of the text is the task.
LEMMA AssessStep ==
  ASSUME PlanningInv, NEW r \in Requests, Assess(r)
  PROVE  PlanningInv'
<1> USE DEF PlanningInv
<1> DEFINE k == Analyze(text[r], found[r].intents, found[r].source, config.listed)
<1>1. /\ pc[r] = "assess" /\ UNCHANGED <<text, plan, verdict>>
      /\ task' = [task EXCEPT ![r] = k] /\ pc' = [pc EXCEPT ![r] = "plan"]
  BY DEF Assess, Goto
<1>2. k.mode = DetectMode(text[r]) /\ k.policy = ActionPolicy(text[r], DetectMode(text[r]), found[r].intents)
  BY AnalyzeKeepsRisk
<1> HIDE DEF k
<1>3. /\ Fn(task)' /\ task'[r] = k /\ Fn(pc)' /\ pc'[r] = "plan"
      /\ \A q \in Requests : q # r => task'[q] = task[q] /\ pc'[q] = pc[q]
  BY <1>1 DEF Fn
<1>4. RequestOK(r)'
  <2>1. ~Admitted(r)'
    BY <1>1 DEF RequestOK, Admitted
  <2> QED BY <1>1, <1>2, <1>3, <2>1 DEF RequestOK, ActionPolicy, Analyzed
<1> QED BY <1>1, <1>3, <1>4, OtherRequest

\* A plan is made, by the policies and templates or by the model: of a chat
\* always by the first.
LEMMA PlanStep ==
  ASSUME PlanningInv, NEW r \in Requests, CreatePlan(r) \/ LlmPlanner(r)
  PROVE  PlanningInv'
<1> USE DEF PlanningInv
<1>1. /\ pc[r] \in {"plan", "ask plan"} /\ UNCHANGED <<text, task, verdict>>
      /\ pc[r] = "ask plan" => task[r].mode # "chat"
  BY DEF CreatePlan, LlmPlanner, RequestOK
<1>2. \/ \E p : Planned(r, p) /\ (task[r].mode = "chat" => ToolSteps(p) = {})
      \/ Goto(r, "ask plan") /\ UNCHANGED plan /\ task[r].mode # "chat"
      \/ UNCHANGED <<pc, plan>>
  <2>1. CASE CreatePlan(r)
    BY <2>1, ChatIsSettled DEF CreatePlan
  <2>2. CASE LlmPlanner(r)
    BY <1>1, <2>2 DEF LlmPlanner, AskAgain
  <2> QED BY <2>1, <2>2
<1>3. ~Admitted(r)'
  BY <1>1 DEF RequestOK, Admitted
<1>4. ASSUME NEW p, Planned(r, p), task[r].mode = "chat" => ToolSteps(p) = {}
      PROVE  PlanningInv'
  <2>1. /\ Fn(plan)' /\ plan'[r] = p /\ Fn(pc)' /\ pc'[r] = "precheck"
        /\ \A q \in Requests : q # r => plan'[q] = plan[q] /\ pc'[q] = pc[q]
    BY <1>4 DEF Planned, Goto, Fn
  <2>2. RequestOK(r)'
    <3>1. ToolSteps(plan[r])' = ToolSteps(p)
      BY <2>1 DEF ToolSteps, UsesTool
    <3> QED BY <1>1, <1>3, <1>4, <2>1, <3>1 DEF RequestOK, Analyzed
  <2> QED BY <1>1, <2>1, <2>2, OtherRequest
<1>5. ASSUME Goto(r, "ask plan"), UNCHANGED plan, task[r].mode # "chat"
      PROVE  PlanningInv'
  <2>1. /\ Fn(pc)' /\ pc'[r] = "ask plan"
        /\ \A q \in Requests : q # r => pc'[q] = pc[q]
    BY <1>5 DEF Goto, Fn
  <2>2. RequestOK(r)'
    BY <1>1, <1>3, <1>5, <2>1 DEF RequestOK, Analyzed
  <2> QED BY <1>1, <1>5, <2>1, <2>2, OtherRequest
<1>6. ASSUME UNCHANGED <<pc, plan>>
      PROVE  PlanningInv'
  BY <1>1, <1>6, OtherRequest
<1> QED BY <1>2, <1>4, <1>5, <1>6

\* The check admits nothing the invariant forbids.
LEMMA PrecheckStep ==
  ASSUME PlanningInv, NEW r \in Requests, Precheck(r)
  PROVE  PlanningInv'
<1> USE DEF PlanningInv
<1> DEFINE v == PlanPrecheck(plan[r], task[r])
<1>1. /\ pc[r] = "precheck" /\ UNCHANGED <<text, task, plan>>
      /\ verdict' = [verdict EXCEPT ![r] = v] /\ pc' = [pc EXCEPT ![r] = "done"]
  BY DEF Precheck, Goto
<1>2. v = "admitted" => task[r].policy # "block" /\ PlanSafety(plan[r]) = "admitted"
  BY AdmittedByCheck
<1> HIDE DEF v
<1>3. /\ Fn(verdict)' /\ verdict'[r] = v /\ Fn(pc)' /\ pc'[r] = "done"
      /\ \A q \in Requests : q # r => verdict'[q] = verdict[q] /\ pc'[q] = pc[q]
  BY <1>1 DEF Fn
<1>4. RequestOK(r)'
  <2>1. PlanSafety(plan[r])' = PlanSafety(plan[r]) /\ ToolSteps(plan[r])' = ToolSteps(plan[r])
    BY <1>1
  <2>2. pc[r] \in Analyzed /\ pc'[r] \in Analyzed
    BY <1>1, <1>3 DEF Analyzed
  <2> QED BY <1>1, <1>2, <1>3, <2>1, <2>2 DEF RequestOK, Admitted
<1> QED BY <1>1, <1>3, <1>4, OtherRequest

\* Every step keeps the invariant.
LEMMA PlanningStep ==
  ASSUME PlanningInv, [Next]_vars
  PROVE  PlanningInv'
<1>1. ASSUME UNCHANGED <<pc, text, task, plan, verdict>>
      PROVE  PlanningInv'
  BY <1>1, OtherRequest DEF PlanningInv
<1>2. CASE ChangeRegistry \/ Finished \/ UNCHANGED vars
  BY <1>1, <1>2 DEF ChangeRegistry, Finished, vars
<1> QED BY <1>2, EarlyStep, AssessStep, PlanStep, PrecheckStep DEF Next, Work

\* It holds of the requests that have not been received.
LEMMA PlanningInit == Init => PlanningInv
BY DEF Init, PlanningInv, RequestOK, Admitted, Analyzed, Fn

-----------------------------------------------------------------------------
(* Theorems *)

\* The task keeps what the words forbid, from the analysis to the check.
THEOREM PlanningInvariant == Spec => []PlanningInv
<1>1. PlanningInv /\ [Next]_vars => PlanningInv'
  BY PlanningStep
<1> QED BY PlanningInit, <1>1, PTL DEF Spec

\* A request that only asks for advice runs with no tool, a dangerous one does
\* not run, and no tool that must be confirmed runs by itself: the analyzer's
\* risk and mode outlive truncated intents, the model's answers and every plan.
THEOREM RiskDecides == Spec => []RiskDecidesFirst
<1>1. PlanningInv => RiskDecidesFirst
  <2> SUFFICES ASSUME PlanningInv, NEW r \in Requests, Admitted(r)
               PROVE  LET mode == DetectMode(text[r]) IN
                      /\ mode = "chat" => ToolSteps(plan[r]) = {}
                      /\ mode = "solo" => ~Dangerous(text[r])
                      /\ mode = "solo" /\ ToSet(text[r].words) \cap ConfirmIntents # {} =>
                           \A s \in ToolSteps(plan[r]) :
                             DefersToModel(s) \/ \A spec \in Registered(s.tool) : ~MustAsk(spec)
    BY DEF RiskDecidesFirst
  <2>1. RequestOK(r) /\ pc[r] = "done" /\ pc[r] \in Analyzed
    BY DEF PlanningInv, RequestOK, Analyzed
  <2>2. \A s \in ToolSteps(plan[r]) : \A spec \in Registered(s.tool) : DefersToModel(s) \/ ~MustAsk(spec)
    BY <2>1, SafeIsUngated DEF RequestOK
  <2> QED BY <2>1, <2>2 DEF RequestOK
<1> QED BY PlanningInvariant, <1>1, PTL

\* A plan that execution starts with uses only tools that are registered then
\* and that the analyzer offered, however the registry changed in between.
THEOREM AdmittedExist == Spec => AdmittedToolsExist
<1>1. ASSUME PlanningInv, [Next]_vars, NEW r \in Requests, Admitted(r)', ~Admitted(r),
             NEW s \in ToolSteps(plan[r])
      PROVE  \E spec \in Registered(s.tool) :
               /\ spec.name \in registry
               /\ plan[r].available = {} \/ {spec.name, spec.alias} \cap plan[r].available # {}
  <2>1. PICK q \in Requests : Precheck(q)
    BY <1>1 DEF Next, Receive, Work, LlmIntents, ReadPending, OpenPending, SavePending, Assess,
                CreatePlan, LlmPlanner, ChangeRegistry, Finished, vars, Admitted
  <2>2. q = r /\ PlanPrecheck(plan[r], task[r]) = "admitted"
    BY <1>1, <2>1 DEF Precheck, Admitted, PlanningInv, Fn
  <2> QED BY <1>1, <2>2, AdmittedByCheck, ReferencedToolsExist
<1>2. PlanningInv /\ [Next]_vars =>
        [\A r \in Requests : Admitted(r)' /\ ~Admitted(r) =>
           \A s \in ToolSteps(plan[r]) :
             \E spec \in Registered(s.tool) :
               /\ spec.name \in registry
               /\ plan[r].available = {}
                    \/ {spec.name, spec.alias} \cap plan[r].available # {}]_vars
  BY <1>1
<1> QED BY PlanningInvariant, <1>2, PTL DEF Spec, AdmittedToolsExist
=============================================================================
