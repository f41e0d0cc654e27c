----------------------------- MODULE MCPlanning -----------------------------
(* A few requests of every kind the planner tells apart, and plans of a      *)
(* model that keep the rules and break them, one way each.                   *)
EXTENDS Planning

MCKnownIntents ==
  {"calculate", "search", "summarize", "translate", "read_file", "write_file", "execute_code",
   "extract", "recommend", "chat", "convert_format", "delete_file", "debug_code"}
MCConfirmIntents == {"delete_file", "execute_code"}

MCToolMapping ==
  [calculate    |-> {"math_calculator"},
   search       |-> {"search_tool"},
   summarize    |-> {"text_processor"},
   translate    |-> {"translator"},
   read_file    |-> {"document_parser"},
   write_file   |-> {"file_writer"},
   execute_code |-> {"code_executor"},
   extract      |-> {"text_processor"}]

\* ToolManager.list_tools knows the tools by their names, the analyzer's own list
\* by the names they had before.
ManagerList == {spec.name : spec \in DefaultTools}
OwnList ==
  {"document_parser", "text_processor", "math_calculator", "translator", "time_query",
   "search_tool", "code_executor", "file_writer"}

MCConfigs ==
  {[model |-> TRUE, planner |-> TRUE, listed |-> OwnList],
   [model |-> TRUE, planner |-> TRUE, listed |-> ManagerList],
   [model |-> FALSE, planner |-> TRUE, listed |-> OwnList]}

Text(words, paths, says) ==
  [marker |-> "none", words |-> words, paths |-> paths, says |-> says, edit |-> "none",
   danger |-> FALSE, sensitive |-> FALSE, domain |-> FALSE, vague |-> FALSE, tabular |-> FALSE]

Research  == Text(<<"search", "summarize", "write_file">>, 1, {"topic"})
Extract   == Text(<<"read_file", "extract", "write_file">>, 1, {"topic"})
TwoFiles  == Text(<<"read_file", "summarize">>, 2, {})
ManyFiles == Text(<<"read_file", "summarize">>, 3, {})
WhichFile == Text(<<"read_file", "write_file">>, 0, {"content"})
Saved     == Text(<<"translate", "write_file">>, 0, {"target_language", "content"})
Compute   == Text(<<"calculate">>, 0, {"expression"})
Erase     == Text(<<"delete_file">>, 1, {})
CutOff    == Text(<<"calculate", "translate", "extract", "recommend", "delete_file">>, 1,
                  {"expression", "target_language"})
Harmful   == [Text(<<"read_file">>, 1, {}) EXCEPT !.danger = TRUE]
Secret    == [Text(<<"read_file">>, 1, {}) EXCEPT !.sensitive = TRUE]
Explain   == [Text(<<"read_file", "extract", "write_file">>, 1, {"topic"}) EXCEPT !.marker = "chat"]
HowHarmful == [Harmful EXCEPT !.marker = "chat"]
Unclear   == Text(<<>>, 1, {"topic"})
Advice    == [Text(<<"recommend">>, 0, {"topic"}) EXCEPT !.vague = TRUE]
Convert   == Text(<<"convert_format", "summarize">>, 1, {})
Debug     == Text(<<"debug_code">>, 0, {})

MCTexts ==
  {Research, Extract, TwoFiles, ManyFiles, WhichFile, Saved, Compute, Erase, CutOff, Harmful,
   Secret, Explain, HowHarmful, Unclear, Advice, Convert, Debug}

Named(name, sure) == [name |-> name, sure |-> sure]
MCIntentAnswers ==
  {<<>>, <<Named("archive", "high")>>, <<Named("archive", "mid"), Named("recommend", "high")>>,
   <<Named("delete_file", "mid"), Named("archive", "high")>>, <<Named("recommend", "low")>>,
   <<Named("unknown", "low")>>}

LlmStep(k, type, tool, from, args) == Step(k, 1, type, tool, from, "out", args)
Answer(mode, steps) ==
  [kind |-> "plan", mode |-> mode, can |-> TRUE, units |-> <<>>, steps |-> steps]

Summary == LlmStep(1, "tool", "text_processor", {}, {"text"})
MCPlanAnswers ==
  {[kind |-> "call failed"], [kind |-> "no plan"],
   Answer("meso", <<Summary, LlmStep(2, "respond", "none", {StepId(1)}, {})>>),
   Answer("meso", <<Summary, LlmStep(2, "respond", "none", {StepId(3)}, {})>>),
   Answer("chat", <<LlmStep(1, "tool", "time_query", {}, {})>>),
   Answer("meso", <<LlmStep(1, "tool", "delete_file", {}, {"path"})>>),
   Answer("meso", <<LlmStep(1, "tool", "command_tool", {}, {})>>),
   Answer("meso", <<LlmStep(1, "tool", "search_tool", {}, {"query"})>>),
   Answer("meso", <<LlmStep(1, "shell", "none", {}, {})>>),
   Answer("clarify", <<LlmStep(1, "clarify", "none", {}, {})>>)}

MCRemovable == {"web_search", "text_processor"}
=============================================================================
