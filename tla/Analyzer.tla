------------------------------ MODULE Analyzer ------------------------------
(***************************************************************************)
(* What ComplexityAnalyzer makes of one request: its mode, its intents,    *)
(* what is missing, the risk policy, the tools and the strategy.           *)
(*                                                                         *)
(* A text is a record of the facts the rules read out of it: the last mode *)
(* marker, the intents its keywords hit in the order of the sort, how many *)
(* paths it holds, the other parameters it names, and the flags of the     *)
(* keyword lists.  The regular expressions that find them are left out.    *)
(* Scores are in tenths of the configured weights.                         *)
(***************************************************************************)
EXTENDS Naturals, FiniteSets, Sequences, SequencesExt

CONSTANTS
  KnownIntents,    \* config.intents
  ConfirmIntents,  \* risk_rules.confirm_intents
  MaxIntents,      \* config.max_intents
  ToolMapping      \* config.tool_mapping, a function from some intents to tools

ASSUME AnalyzerAssumption ==
  /\ MaxIntents \in Nat \ {0}
  /\ ConfirmIntents \subseteq KnownIntents

DetectMode(text) == IF text.marker = "none" THEN "solo" ELSE text.marker

KnownFirst(names) ==
  SelectSeq(names, LAMBDA n : n \in KnownIntents)
    \o SelectSeq(names, LAMBDA n : n \notin KnownIntents)

FirstOf(s, n) == SubSeq(s, 1, IF Len(s) < n THEN Len(s) ELSE n)

OrderIntents(names) == FirstOf(KnownFirst(names), MaxIntents)

(***************************************************************************)
(* The model asked for the intents of a text no rule matched: it answers a *)
(* sequence of [name, sure], sure being "none" (not positive), "low"       *)
(* (under the threshold of the score), "mid", or "high" (above the         *)
(* threshold of the pending list); an empty one when the call failed or    *)
(* its answer did not parse.                                               *)
(***************************************************************************)
Candidates(answer) ==
  LET named == SelectSeq(answer, LAMBDA c : c.name # "none" /\ c.sure # "none")
      Ranked(known, sure) ==
        SelectSeq(named, LAMBDA c : (c.name \in KnownIntents) = known /\ c.sure = sure)
  IN FirstOf(FlattenSeq([i \in 1..6 |->
               Ranked(i <= 3, <<"high", "mid", "low">>[((i - 1) % 3) + 1])]), MaxIntents)

Novel(c) == c.name \notin KnownIntents /\ c.name # "unknown"

PendingNames(answer) ==
  LET novel == SelectSeq(Candidates(answer), LAMBDA c : Novel(c) /\ c.sure = "high")
  IN [i \in DOMAIN novel |-> novel[i].name]

LlmFallbackIntents(answer) ==
  LET asked == SelectSeq(Candidates(answer), LAMBDA c : ~Novel(c) \/ c.sure = "high")
      loud  == SelectSeq(asked, LAMBDA c : c.name = "unknown" \/ c.sure # "low")
  IN IF asked = <<>> THEN <<"unknown">>
     ELSE OrderIntents([i \in DOMAIN loud |-> loud[i].name])

Has(intents, some) == ToSet(intents) \cap some # {}

Operation(intents) ==
  IF Has(intents, {"delete_file"}) THEN "delete"
  ELSE IF Has(intents, {"move_file", "copy_file", "rename_file"}) THEN "move"
  ELSE IF Has(intents, {"write_file"}) THEN "write"
  ELSE "other"

ExtractParameters(text, intents) ==
  LET target == text.paths > 1 \/ ("named_target" \in text.says
                                     /\ Operation(intents) \in {"move", "write"})
  IN (text.says \ {"named_target"})
       \cup (IF text.paths > 0 THEN {"file_path", "source_path"} ELSE {})
       \cup (IF target THEN {"target_path"} ELSE {})

DetectEditMode(text, intents) ==
  IF ~Has(intents, {"write_file", "write", "debug_code"}) THEN "none"
  ELSE IF text.edit # "none" THEN text.edit
  ELSE IF Has(intents, {"debug_code"}) THEN "partial_edit" ELSE "full_overwrite"

\* Mutant: a file to write needs no path.
MissingWithoutTarget(intents, params) ==
  LET lacks(need) == params \cap need = {}
      ask(some, need, name) == IF Has(intents, some) /\ lacks(need) THEN {name} ELSE {}
  IN ask({"calculate"}, {"expression"}, "expression")
       \cup ask({"read_file", "delete_file"}, {"file_path"}, "file_path")
       \cup ask({"write_file"}, {"content", "topic"}, "content")
       \cup ask({"translate"}, {"target_language"}, "target_language")

DetectMissingParameters(intents, params) ==
  LET lacks(need) == params \cap need = {}
      ask(some, need, name) == IF Has(intents, some) /\ lacks(need) THEN {name} ELSE {}
  IN ask({"calculate"}, {"expression"}, "expression")
       \cup ask({"read_file", "delete_file", "write_file"}, {"file_path"}, "file_path")
       \cup ask({"write_file"}, {"content", "topic"}, "content")
       \cup ask({"move_file", "copy_file", "rename_file"}, {"source_path"}, "source_path")
       \cup ask({"move_file", "copy_file", "rename_file"}, {"target_path"}, "target_path")
       \cup ask({"translate"}, {"target_language"}, "target_language")
       \cup ask({"search"}, {"topic"}, "topic")
       \cup ask({"summarize", "extract", "analyze", "compare"},
                {"topic", "content", "file_path"}, "content_or_file")
       \cup ask({"write", "generate_report"}, {"topic", "content"}, "topic")

NeedsClarification(intents, missing) ==
  missing # {} \/ Has(intents, {"unknown"}) \/ intents \in {<<>>, <<"chat">>}

(***************************************************************************)
(* The risk policy, of the intents that are left after the truncation.     *)
(***************************************************************************)
Dangerous(text) == text.danger \/ (text.sensitive /\ text.paths > 0)

ActionPolicy(text, mode, intents) ==
  IF mode # "solo" THEN "allow"
  ELSE IF Dangerous(text) THEN "block"
  ELSE IF Has(intents, ConfirmIntents) THEN "confirm" ELSE "allow"

RecommendedTools(intents) ==
  UNION {ToolMapping[i] : i \in ToSet(intents) \cap DOMAIN ToolMapping}

ToolStrategy(recommended, listed) ==
  IF recommended = {} THEN "model_only"
  ELSE IF recommended \subseteq listed THEN "tool" ELSE "blocked_missing_tools"

(***************************************************************************)
(* The seven dimensions of the complexity, weighted.                       *)
(***************************************************************************)
ScoreComplexity(text, intents, source, unclear, policy, recommended, risky) ==
  LET uncertainty == IF unclear THEN 4 ELSE IF source = "fallback" THEN 3 ELSE 1
      steps       == IF Len(intents) >= 4 THEN 4 ELSE IF Len(intents) >= 2 THEN 3 ELSE 1
      domain      == IF policy = "block" THEN 5 ELSE IF risky THEN 3 ELSE 0
      tools       == IF Cardinality(recommended) >= 5 THEN 5
                     ELSE IF Cardinality(recommended) >= 3 THEN 4
                     ELSE IF recommended # {} THEN 2 ELSE 0
      information == IF Has(intents, {"search"}) THEN 3 ELSE IF text.paths > 0 THEN 1 ELSE 0
      data        == IF text.tabular THEN 3
                     ELSE IF Has(intents, {"extract", "summarize", "compare"}) THEN 2 ELSE 0
      creativity  == IF Has(intents, {"write", "generate_report", "design_project",
                                      "recommend"}) THEN 3 ELSE 0
  IN 30 * uncertainty + 20 * steps + 18 * domain + 15 * tools + 15 * information
       + 12 * data + 10 * creativity + (IF Dangerous(text) THEN 100 ELSE 0)

IsSimpleTask(intents) ==
  Len(intents) = 1 /\ intents[1] \in {"calculate", "read_file", "translate", "chat"}

ExecutionStrategy(score, intents, unclear, policy) ==
  IF unclear THEN "macro"
  ELSE IF policy = "block" THEN "meso_advanced"
  ELSE IF score <= 100 /\ IsSimpleTask(intents) THEN "micro"
  ELSE IF score <= 300 THEN "meso" ELSE "meso_advanced"

(***************************************************************************)
(* analyze: the task the planner is given.                                 *)
(***************************************************************************)
Analyze(text, intents, source, listed) ==
  LET mode        == DetectMode(text)
      params      == ExtractParameters(text, intents)
      missing     == DetectMissingParameters(intents, params)
      clarify     == NeedsClarification(intents, missing)
      policy      == ActionPolicy(text, mode, intents)
      recommended == RecommendedTools(intents)
      unclear     == clarify \/ text.vague
      risky       == text.domain \/ Dangerous(text)
      score       == ScoreComplexity(text, intents, source, unclear, policy, recommended, risky)
  IN [mode      |-> mode,
      intents   |-> intents,
      params    |-> params,
      paths     |-> text.paths,
      edit      |-> DetectEditMode(text, intents),
      clarify   |-> clarify,
      policy    |-> policy,
      available |-> recommended \cap listed,
      tools     |-> ToolStrategy(recommended, listed),
      execution |-> ExecutionStrategy(score, intents, unclear, policy)]
=============================================================================
