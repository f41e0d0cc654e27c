------------------------------ MODULE ToolPolicy ------------------------------
(* Who decides that a tool may run: the safety policy of the executor, which may *)
(* stop for the user, and ToolPolicy, which ToolRuntime asks before the handler. *)
(* The preview of a call stands for its hash: two previews have one hash exactly *)
(* when they are equal.                                                          *)
EXTENDS ToolCatalogue, FileTools

CONSTANTS Granted,        \* scopes the session may use without asking
          BlockedTools,   \* blocked_tools and blocked_scopes of the configuration
          BlockedScopes,
          TaskAsks,       \* the task or its policy asks for every action
          None

Rank(risk) == CHOOSE i \in DOMAIN Risks : Risks[i] = risk
Higher(r, s) == IF Rank(r) >= Rank(s) THEN r ELSE s

\* extract_path_values: source_path, file_paths and new_name are none of its keys.
Resources(call) ==
    CASE call.tool = "rename_file" -> {}
      [] call.tool \in {"copy_file", "move_file"} -> {call.target}
      [] call.tool = "delete_file" -> IF "path" \in call.given THEN {call.path} ELSE {}
      [] OTHER -> IF call.path \in Paths THEN {call.path} ELSE {}

\* PathPolicy.check: the first reason to refuse one of the resources.
Refusable(spec, p) ==
    /\ Area[p] # "plain"
    /\ ~(Area[p] = "sensitive" /\ (spec.sensitiveMeta \/ spec.sensitiveRead))

RiskOf(spec, call) ==
    LET asked == IF call.mode \in spec.highIf THEN Higher(spec.risk, "high") ELSE spec.risk
        opens == \E p \in Resources(call) :
                    Area[p] = "sensitive" /\ spec.sensitiveRead /\ ~spec.sensitiveMeta
    IN IF opens THEN Higher(asked, "high") ELSE asked

(************************ the safety policy of the executor ********************)
\* Every path of the call is looked at here, the source of a move as well.
CallPaths(call) == {call.path, call.target} \cap Paths

\* Blocking outweighs asking; a tool whose risk is high only for some arguments is
\* not asked for.
Safety(spec, call, marked) ==
    LET blocked == \/ spec.risk = "blocked"
                   \/ /\ spec.scope \in {"write_workspace", "command", "code_execution"}
                      /\ \E p \in CallPaths(call) : Area[p] = "outside"
        asks    == \/ spec.risk = "high" \/ spec.confirm
                   \/ spec.scope \in {"code_execution", "command"}
                   \/ marked \/ TaskAsks
    IN IF blocked THEN "block" ELSE IF asks THEN "confirm" ELSE "allow"

\* _action_requires_confirmation: the action or its step, and the spec; what the
\* task asks for is not among them.
RequireOption(spec, marked) == marked \/ spec.confirm

(******************************* ToolPolicy.decide *****************************)
PermissionCode(scope) ==
    CASE scope = "network" -> "network_not_allowed"
      [] scope \in {"command", "shell_command", "code_execution"} -> "command_blocked"
      [] OTHER -> "permission_denied"

Previewable(spec) == spec.dry \/ spec.risk \in {"high", "blocked"} \/ spec.scope # "none"

Capable(spec) == spec.scope \in Granted \cup {"none"}

\* A confirmation is needed for a risk that is high once arguments and paths are
\* seen, and whenever the spec or the request says so.
Needed(spec, req) == \/ RiskOf(spec, req.call) = "high"
                     \/ spec.confirm \/ req.require

\* Mutant: the hash of a ticket is not compared with the preview of now.
DecideAnyTicket(spec, req, expected) ==
    LET held == req.ticket # None
        code == First(<< <<\E p \in Resources(req.call) : Refusable(spec, p), "refused_path">>,
                         <<~Capable(spec) /\ ~req.dry /\ ~held, PermissionCode(spec.scope)>>,
                         <<Needed(spec, req) /\ ~held /\ ~req.dry, "confirmation_required">> >>)
    IN [code |-> code, confirm |-> code = "ok" /\ Needed(spec, req) /\ ~held]

\* The decision on a request; expected holds the preview made for it by now, if any.
\* A missing capability is no refusal of a preview, nor of a call with a ticket.
Decide(spec, req, expected) ==
    LET held  == req.ticket # None
        hard  == First(<< <<~spec.enabled, "tool_disabled">>,
                          <<spec.name \in BlockedTools, "blocked_by_policy">>,
                          <<spec.scope \in BlockedScopes, "blocked_by_policy">>,
                          <<RiskOf(spec, req.call) = "blocked", "blocked_by_policy">>,
                          <<\E p \in Resources(req.call) : Refusable(spec, p),
                            "refused_path">> >>)
        shows == ~Capable(spec) /\ req.dry /\ Previewable(spec)
        soft  == First(<< <<~Capable(spec) /\ ~held, PermissionCode(spec.scope)>>,
                          <<held /\ \E preview \in expected : req.ticket # preview,
                            "preview_conflict">>,
                          <<Needed(spec, req) /\ ~held /\ ~req.dry,
                            "confirmation_required">> >>)
        code  == IF hard # "ok" THEN hard ELSE IF shows THEN "ok" ELSE soft
    IN [code |-> code,
        confirm |-> code = "ok" /\ (shows \/ (Needed(spec, req) /\ ~held))]

(********************************* previews ************************************)
\* What the preview shows of the disk: the resources, and what the tool's own
\* preview adds (the source of a move, every target of a deletion).
Shown(spec, call) ==
    Resources(call)
      \cup (CASE spec.preview = "file_mutation" -> {call.path, call.target}
              [] spec.preview = "file_delete"   -> Range(call.paths)
              [] spec.preview = "file_patch"    -> {call.path}
              [] OTHER                          -> {})

\* The plan a preview carries; a write is not planned before it is made.
Planned(spec, call, disk) ==
    IF spec.preview \in {"file_patch", "file_mutation", "file_delete"}
    THEN HandlerPlan(disk, call) ELSE Plan("ok", <<>>, <<>>)

BuildPreview(spec, req, decision, disk) ==
    [tool |-> spec.name, call |-> req.call, risk |-> RiskOf(spec, req.call),
     confirm |-> spec.confirm \/ RiskOf(spec, req.call) = "high" \/ decision.confirm
                 \/ req.require,
     files |-> [p \in Shown(spec, req.call) |-> disk[p]],
     plan |-> Planned(spec, req.call, disk)]

\* A dry run of a tool that only computes is refused.
DryRunCode(spec) ==
    IF ~spec.dry /\ spec.risk \notin {"high", "blocked"} /\ spec.scope = "none"
    THEN "dry_run_not_supported" ELSE "dry_run_preview"
================================================================================
