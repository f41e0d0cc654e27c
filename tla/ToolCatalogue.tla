----------------------------- MODULE ToolCatalogue -----------------------------
(* The tools that build_default_tool_registry registers, with what the policy   *)
(* and the runtime read of a ToolSpec.                                          *)
EXTENDS FiniteSets

Risks == <<"low", "medium", "high", "blocked">>

\* A spec with the defaults of ToolSpec: required holds sets of parameters of each
\* of which one must be given, highIf what makes this call of the tool a high risk.
ToolSpec(name, risk, scope, required) ==
    [name |-> name, risk |-> risk, scope |-> scope, required |-> required,
     enabled |-> TRUE, confirm |-> FALSE, dry |-> FALSE, preview |-> "none",
     highIf |-> {}, sensitiveRead |-> FALSE, sensitiveMeta |-> FALSE, alias |-> "none"]

TextTools ==
    { ToolSpec("math_calculator", "low", "none", {{"expression", "data"}}),
      ToolSpec("text_processor", "low", "none", {{"text"}}),
      ToolSpec("translator", "low", "none", {{"text"}, {"target_language"}}),
      ToolSpec("time_query", "low", "none", {}) }

DocumentParser ==
    [ToolSpec("document_parser", "medium", "read_workspace", {{"path"}})
       EXCEPT !.sensitiveRead = TRUE]

SearchTool ==
    [ToolSpec("web_search", "medium", "network", {{"query"}})
       EXCEPT !.dry = TRUE, !.preview = "web_search", !.alias = "search_tool"]

ListingTools ==
    { ToolSpec("list_files", "low", "read_workspace", {}),
      [ToolSpec("file_info", "low", "read_workspace", {{"path"}}) EXCEPT !.sensitiveMeta = TRUE],
      ToolSpec("find_files", "low", "read_workspace", {{"name_pattern", "text_pattern"}}) }

Reader(name, required) ==
    [ToolSpec(name, "low", "read_workspace", required) EXCEPT !.sensitiveRead = TRUE]

ReadTools ==
    { Reader("read_file", {{"path"}}),
      Reader("read_file_chunk", {{"path"}, {"start_line"}, {"line_count"}}),
      Reader("read_file_head", {{"path"}, {"line_count"}}),
      Reader("read_file_tail", {{"path"}, {"line_count"}}) }

CodeExecutor ==
    [ToolSpec("code_executor", "high", "code_execution", {{"code"}})
       EXCEPT !.enabled = FALSE, !.confirm = TRUE]

Writer(name, risk, preview, required) ==
    [ToolSpec(name, risk, "write_workspace", required)
       EXCEPT !.dry = TRUE, !.preview = preview, !.confirm = risk = "high"]

WriteTool ==
    [Writer("write_file", "medium", "file_write", {{"content"}, {"path"}})
       EXCEPT !.highIf = {"overwrite", "create_or_overwrite"}, !.alias = "file_writer"]

PatchTool == Writer("patch_file", "high", "file_patch", {{"path"}, {"patches"}})

MutationTools ==
    { [Writer("copy_file", "medium", "file_mutation", {{"source_path"}, {"target_path"}})
         EXCEPT !.highIf = {"overwrite"}],
      Writer("move_file", "high", "file_mutation", {{"source_path"}, {"target_path"}}),
      Writer("rename_file", "high", "file_mutation", {{"source_path"}, {"new_name"}}) }

DeleteTool == Writer("delete_file", "high", "file_delete", {{"path", "file_paths"}})

CommandTool ==
    [ToolSpec("command_tool", "high", "command",
              {{"cwd"}, {"purpose"}, {"timeout_seconds"}, {"program", "command"}})
       EXCEPT !.confirm = TRUE]

ShellTool ==
    [ToolSpec("shell_command_tool", "high", "shell_command",
              {{"command"}, {"cwd"}, {"purpose"}, {"timeout_seconds"}})
       EXCEPT !.confirm = TRUE, !.dry = TRUE, !.preview = "shell_command",
              !.alias = "shell_tool"]

DefaultTools == TextTools \cup ListingTools \cup ReadTools \cup MutationTools
                \cup {DocumentParser, SearchTool, CodeExecutor, WriteTool, PatchTool,
                      DeleteTool, CommandTool, ShellTool}

\* resolve_name and get: a tool answers to its name and to its alias.
Registered(name) == {spec \in DefaultTools : name \in {spec.name, spec.alias}}
SpecOf(name)     == CHOOSE spec \in Registered(name) : TRUE

\* validate_args: given are the parameters of the call that have a value.
MissingParam(spec, given) == \E group \in spec.required : group \cap given = {}
================================================================================
