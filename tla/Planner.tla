------------------------------ MODULE Planner ------------------------------
(***************************************************************************)
(* The plans of the planner: the fixed plans of the special policies, the  *)
(* rule templates, the plan the model wrote, and the validation that every *)
(* plan which claims to be valid goes through.                             *)
(*                                                                         *)
(* A step is [id, unit, type, tool, dep, inp, key, args, confirm]: dep and *)
(* inp are what it waits for and reads, args the arguments with a value.   *)
(* A unit is [id, status, steps].  Titles, descriptions, expected outputs, *)
(* retry settings and the log are left out.                                *)
(***************************************************************************)
EXTENDS Naturals, FiniteSets, Sequences, SequencesExt

CONSTANTS
  MaxPlanSteps,         \* config.max_plan_steps
  MaxTaskUnits,         \* config.max_task_units
  MaxRepairAttempts     \* config.max_llm_repair_attempts

ASSUME PlannerAssumption ==
  MaxPlanSteps \in Nat /\ MaxTaskUnits \in Nat /\ MaxRepairAttempts \in Nat

PlanModes == {"micro", "meso", "meso_advanced", "macro", "blocked", "clarify",
              "confirm", "missing_tools", "chat"}
StepTypes == {"tool", "model", "respond", "block", "clarify", "confirm"}
UnitStatuses == {"pending", "running", "completed", "failed", "skipped", "blocked",
                 "waiting_user"}

StepId(k) == <<"step", k>>
UnitId(k) == <<"task", k>>

Step(k, u, type, tool, from, key, args) ==
  [id |-> StepId(k), unit |-> UnitId(u), type |-> type, tool |-> tool, dep |-> from,
   inp |-> from, key |-> <<key, k>>, args |-> args, confirm |-> FALSE]

IdsOf(steps) == {s.id : s \in ToSet(steps)}
OneUnit(steps, status) == <<[id |-> UnitId(1), status |-> status, steps |-> IdsOf(steps)]>>

(***************************************************************************)
(* The validation.  A shell step is never valid; what a tool needs is an   *)
(* argument, or for some the output of an earlier step.                    *)
(***************************************************************************)
ToolArguments(s) ==
  LET given(name) == name \in s.args
      fed == s.inp # {}
  IN CASE s.tool = "math_calculator" -> given("expression")
       [] s.tool = "document_parser" -> given("file_path")
       [] s.tool = "search_tool"     -> given("query")
       [] s.tool = "text_processor"  -> given("text") \/ fed
       [] s.tool = "translator"      -> given("target_language") /\ (given("text") \/ fed)
       [] s.tool = "file_writer"     -> given("file_path") /\ (given("content") \/ fed)
       [] OTHER -> TRUE

StepSound(s, steps, units, available) ==
  /\ s.type \in StepTypes
  /\ \E u \in ToSet(units) : u.id = s.unit
  /\ (s.type = "tool") = (s.tool # "none")
  /\ (s.tool = "none" \/ available = {} \/ s.tool \in available)
  /\ s.dep \subseteq IdsOf(steps)
  /\ s.inp \subseteq IdsOf(steps) \cup {t.key : t \in ToSet(steps)}
  /\ ToolArguments(s)

UnitSound(u, steps) == u.status \in UnitStatuses /\ u.steps \subseteq IdsOf(steps)

SafetyPolicyKept(steps, task) ==
  /\ task.policy = "block" => \A s \in ToSet(steps) : s.type \in {"block", "respond"}
  /\ task.policy = "confirm" => \A s \in ToSet(steps) : s.type = "tool" => s.confirm

PlanValid(steps, units, task) ==
  /\ Cardinality(IdsOf(steps)) = Len(steps)
  /\ Len(units) \in 1..MaxTaskUnits
  /\ Len(steps) <= MaxPlanSteps
  /\ \A u \in ToSet(units) : UnitSound(u, steps)
  /\ \A s \in ToSet(steps) : StepSound(s, steps, units, task.available)
  /\ SafetyPolicyKept(steps, task)

BuildPlan(task, mode, strategy, steps, units, can) ==
  LET valid == PlanValid(steps, units, task)
  IN [mode |-> IF mode \in PlanModes THEN mode ELSE "meso", strategy |-> strategy,
      status |-> IF valid THEN "valid" ELSE "invalid", can |-> can /\ valid,
      steps |-> steps, units |-> units, available |-> task.available]

(***************************************************************************)
(* The fixed plans: one step that acts on nothing, not validated.          *)
(***************************************************************************)
FixedPlan(task, mode, type, status, can) ==
  LET steps == <<[Step(1, 1, type, "none", {}, "none", {})
                    EXCEPT !.confirm = (type = "confirm")]>>
  IN [mode |-> mode, strategy |-> "policy_rule", status |-> "not_required", can |-> can,
      steps |-> steps, units |-> OneUnit(steps, status), available |-> task.available]

BlockedPlan(task)      == FixedPlan(task, "blocked", "block", "blocked", FALSE)
ClarifyPlan(task)      == FixedPlan(task, "clarify", "clarify", "waiting_user", FALSE)
ConfirmPlan(task)      == FixedPlan(task, "confirm", "confirm", "waiting_user", FALSE)
MissingToolsPlan(task) == FixedPlan(task, "missing_tools", "respond", "blocked", FALSE)
ChatPlan(task)         == FixedPlan(task, "chat", "respond", "pending", TRUE)
MacroPlan(task)        == FixedPlan(task, "macro", "clarify", "waiting_user", FALSE)

(***************************************************************************)
(* The steps of the templates.                                             *)
(***************************************************************************)
TargetPath(task) == task.params \cap {"target_path", "file_path"} # {}

SearchStep(k, u, from) == Step(k, u, "tool", "search_tool", {}, "search_results", {"query"})
ReadFileStep(k, u, from) == Step(k, u, "tool", "document_parser", {}, "content", {"file_path"})
SummarizeStep(k, u, from) == Step(k, u, "tool", "text_processor", from, "summary", {"operation"})
ExtractStep(k, u, from) == Step(k, u, "tool", "text_processor", from, "extract", {"operation"})
TranslateStep(k, u, from) ==
  Step(k, u, "tool", "translator", {}, "translated_content", {"text", "target_language"})
WriteFileStep(k, u, from, task) ==
  Step(k, u, "tool", "file_writer", from, "written_file",
       (IF TargetPath(task) THEN {"file_path"} ELSE {}) \cup (task.params \cap {"content"}))

TemplateStep(intent, k, u, from, task) ==
  CASE intent = "search"     -> SearchStep(k, u, from)
    [] intent = "read_file"  -> ReadFileStep(k, u, from)
    [] intent = "summarize"  -> SummarizeStep(k, u, from)
    [] intent = "extract"    -> ExtractStep(k, u, from)
    [] intent = "translate"  -> TranslateStep(k, u, from)
    [] intent = "write_file" -> WriteFileStep(k, u, from, task)

Previous(k) == IF k = 1 THEN {} ELSE {StepId(k - 1)}

RulePlan(task, steps, units) ==
  BuildPlan(task, task.execution, "rule_template", steps, units, TRUE)

PipelinePlan(intents, task) ==
  LET steps == [k \in DOMAIN intents |-> TemplateStep(intents[k], k, 1, Previous(k), task)]
  IN RulePlan(task, steps, OneUnit(steps, "pending"))

(***************************************************************************)
(* _has_intents: the expected intents, in this order, others in between.   *)
(***************************************************************************)
HasIntents(intents, expected) ==
  \E at \in [DOMAIN expected -> DOMAIN intents] :
    /\ \A i, j \in DOMAIN expected : i < j => at[i] < at[j]
    /\ \A i \in DOMAIN expected : intents[at[i]] = expected[i]

Pipelines == <<
  <<"search", "summarize", "write_file">>, <<"search", "summarize">>,
  <<"read_file", "extract", "write_file">>, <<"read_file", "summarize">>,
  <<"translate", "write_file">> >>

MatchingPipelines(intents) == {i \in DOMAIN Pipelines : HasIntents(intents, Pipelines[i])}

(***************************************************************************)
(* One unit per file: read it, and extract from it or summarize it.        *)
(***************************************************************************)
ShouldSplitByFile(intents, task) ==
  task.paths > 1 /\ "read_file" \in ToSet(intents) /\ "write_file" \notin ToSet(intents)

MultiFilePlan(intents, task) ==
  LET then == IF "extract" \in ToSet(intents) THEN <<"extract">>
              ELSE IF "summarize" \in ToSet(intents) THEN <<"summarize">> ELSE <<>>
      each == <<"read_file">> \o then
      n == Len(each)
      steps == [k \in 1..(n * task.paths) |->
                  LET u == ((k - 1) \div n) + 1
                      i == ((k - 1) % n) + 1
                  IN TemplateStep(each[i], k, u, IF i = 1 THEN {} ELSE Previous(k), task)]
      units == [u \in 1..task.paths |->
                  [id |-> UnitId(u), status |-> "pending",
                   steps |-> {StepId(k) : k \in (n * (u - 1) + 1)..(n * u)}]]
  IN RulePlan(task, steps, units)

ConvertFormatPlan(task) ==
  LET read    == IF task.paths > 0 THEN <<ReadFileStep(1, 1, {})>> ELSE <<>>
      k       == Len(read) + 1
      convert == Step(k, 1, "model", "none", Previous(k), "converted_content", {"target_format"})
      write   == IF TargetPath(task) THEN <<WriteFileStep(k + 1, 1, {StepId(k)}, task)>> ELSE <<>>
      steps   == read \o <<convert>> \o write
  IN RulePlan(task, steps, OneUnit(steps, "pending"))

ModelThenRespond ==
  <<Step(1, 1, "model", "none", {}, "analysis", {}),
    Step(2, 1, "respond", "none", {StepId(1)}, "answer", {})>>

SoftwareEngineeringPlan(task) ==
  RulePlan(task, ModelThenRespond, OneUnit(ModelThenRespond, "pending"))
MesoPlan(task) == SoftwareEngineeringPlan(task)

MicroPlan(task) ==
  LET intent == IF task.intents = <<>> THEN "direct" ELSE task.intents[1]
      reads  == intent = "read_file" /\ "file_path" \in task.params
      step   == CASE intent = "calculate" -> Step(1, 1, "tool", "math_calculator", {}, intent,
                                                  {"expression"})
                  [] reads -> ReadFileStep(1, 1, {})
                  [] intent = "translate" -> TranslateStep(1, 1, {})
                  [] OTHER -> Step(1, 1, "model", "none", {}, intent, {})
  IN BuildPlan(task, "micro", "rule_template", <<step>>, OneUnit(<<step>>, "pending"), TRUE)

(***************************************************************************)
(* _rule_template_plan: the set of the plan of the first template that     *)
(* fits, empty when none does.                                             *)
(***************************************************************************)
EngineeringIntents == {"design_project", "debug_code", "run_test", "deploy_project"}

RuleTemplatePlan(task) ==
  LET intents == SelectSeq(task.intents, LAMBDA i : i # "chat")
      fits    == MatchingPipelines(intents)
  IN IF intents = <<>> THEN {}
     ELSE IF ShouldSplitByFile(intents, task) THEN {MultiFilePlan(intents, task)}
     ELSE IF intents = <<"calculate">> THEN {MicroPlan(task)}
     ELSE IF fits # {} THEN {PipelinePlan(Pipelines[CHOOSE i \in fits : \A j \in fits : i <= j], task)}
     ELSE IF intents \in {<<"read_file">>, <<"translate">>} THEN {PipelinePlan(intents, task)}
     ELSE IF "convert_format" \in ToSet(intents) THEN {ConvertFormatPlan(task)}
     ELSE IF ToSet(intents) \cap EngineeringIntents # {} THEN {SoftwareEngineeringPlan(task)}
     ELSE {}

(***************************************************************************)
(* _task_plan_from_llm_payload: steps and units as the model wrote them,   *)
(* one unit for all steps when it wrote none.                              *)
(***************************************************************************)
LlmPlan(payload, task) ==
  BuildPlan(task, payload.mode, "llm_planner", payload.steps,
            IF payload.units = <<>> THEN OneUnit(payload.steps, "pending") ELSE payload.units,
            payload.can)

FallbackPlan(task) == [MesoPlan(task) EXCEPT !.strategy = "fallback_model_only"]

(***************************************************************************)
(* The end of _create_plan, when neither a template nor the model planned. *)
(***************************************************************************)
PlanByStrategy(task) ==
  IF task.execution = "micro" THEN MicroPlan(task)
  ELSE IF task.execution = "macro" THEN MacroPlan(task) ELSE MesoPlan(task)

(***************************************************************************)
(* _create_plan up to the model: the policies in their order, then the     *)
(* templates.                                                              *)
(***************************************************************************)
\* Mutant: the templates are tried before the mode is looked at.
RulePlanBeforeChat(task) ==
  IF task.policy = "block" THEN {BlockedPlan(task)}
  ELSE IF task.clarify THEN {ClarifyPlan(task)}
  ELSE IF task.policy = "confirm" THEN {ConfirmPlan(task)}
  ELSE IF task.tools = "blocked_missing_tools" THEN {MissingToolsPlan(task)}
  ELSE IF RuleTemplatePlan(task) # {} THEN RuleTemplatePlan(task)
  ELSE IF task.mode = "chat" THEN {ChatPlan(task)} ELSE {}

PolicyOrRulePlan(task) ==
  IF task.policy = "block" THEN {BlockedPlan(task)}
  ELSE IF task.clarify THEN {ClarifyPlan(task)}
  ELSE IF task.policy = "confirm" THEN {ConfirmPlan(task)}
  ELSE IF task.tools = "blocked_missing_tools" THEN {MissingToolsPlan(task)}
  ELSE IF task.mode = "chat" THEN {ChatPlan(task)}
  ELSE RuleTemplatePlan(task)
=============================================================================
