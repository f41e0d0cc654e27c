------------------------------ MODULE ToolRuntime ------------------------------
(* Tool calls of several executions over one workspace: the safety policy of the *)
(* executor, the preview a user approves, ToolRuntime.execute with its policy,   *)
(* and the handlers of the file tools, which look at the disk once to plan and   *)
(* touch it later.  Other executions and the user's editor change files between. *)
EXTENDS ToolPolicy

CONSTANTS Threads,    \* executions that call tools
          Calls,      \* the calls they make
          Disk0,      \* the disk to begin with
          Edits,      \* nodes the editor may leave at a plain path
          Chars,      \* the characters of texts
          Secret,     \* one that only files outside "plain" hold
          MaxCalls,   \* bound: calls
          MaxEdits    \* bound: changes by the editor

ASSUME RuntimeAssumption ==
    /\ \A call \in Calls : {"tool", "given", "path", "target", "paths", "text",
                            "patches", "mode", "from", "count"} \subseteq DOMAIN call
    /\ \A call \in Calls : "write_file" \in {spec.name : spec \in Registered(call.tool)} =>
          call.mode \in {"create", "append", "overwrite", "create_or_overwrite"}
    /\ \A call \in Calls : "delete_file" \in {spec.name : spec \in Registered(call.tool)} =>
          call.paths \in Seq(Paths) /\ call.paths # <<>>
    /\ DOMAIN Disk0 = Paths
    /\ MaxCalls \in Nat /\ MaxEdits \in Nat

Writes == {"write_file", "patch_file", "copy_file", "move_file", "rename_file", "delete_file"}
Reads  == {"read_file", "read_file_chunk", "read_file_head", "read_file_tail",
           "document_parser", "list_files", "find_files", "file_info"}

\* The secret is in no call, no file of the workspace and no edit to begin with; a
\* tool for one file is called with a path.
Public     == Chars \ {Secret}
PatchSet   == [op : {"replace", "delete_block", "insert_before", "insert_after"},
              old : Seq(Chars), new : Seq(Public), before : Seq(Chars), after : Seq(Chars),
              lines : {<<>>} \cup ((Nat \ {0}) \X (Nat \ {0})), nth : Nat]
ForOneFile == (Reads \cup Writes) \ {"list_files", "find_files", "delete_file"}

ASSUME TextAssumption ==
    /\ \A call \in Calls : /\ call.text \in Seq(Public) /\ call.patches \in Seq(PatchSet)
                           /\ call.from \in Nat \ {0} /\ call.count \in Nat \ {0}
                           /\ {spec.name : spec \in Registered(call.tool)} \cap ForOneFile # {} =>
                                call.path \in Paths
    /\ \A p \in Paths : Area[p] = "plain" => Disk0[p].text \in Seq(Public)
    /\ \A node \in Edits : node.text \in Seq(Public)

VARIABLES disk,     \* Paths -> node
          th,       \* what each execution is doing
          moved,    \* paths that others changed since its last look at the ticket
          lost,     \* texts that a call took from the disk
          used      \* calls and edits so far

vars == <<disk, th, moved, lost, used>>

NoResult == [code |-> "none", answer |-> Answer("ok", <<>>, {}, FALSE)]
NoCall   == [pc |-> "idle", req |-> None, preview |-> None, plan |-> Plan("ok", <<>>, <<>>),
             result |-> NoResult]

Init == /\ disk = Disk0
        /\ th = [t \in Threads |-> NoCall]
        /\ moved = [t \in Threads |-> {}]
        /\ lost = {}
        /\ used = [calls |-> 0, edits |-> 0]

ToolOf(t) == SpecOf(th[t].req.call.tool)
Call(t)  == th[t].req.call

Goto(t, pc)      == [th[t] EXCEPT !.pc = pc]
Ended(t, code)   == [th[t] EXCEPT !.pc = "idle", !.preview = None,
                                  !.plan = Plan("ok", <<>>, th[t].plan.todo),
                                  !.result = [NoResult EXCEPT !.code = code]]
Finish(t, code)  == th' = [th EXCEPT ![t] = Ended(t, code)]

Blocked == [NoCall EXCEPT !.result.code = "safety_blocked"]

\* What the safety policy of the executor lets through; the runtime and its handlers
\* know a tool by its own name.
Submitted(spec, call, marked) ==
    LET safety == Safety(spec, call, marked) IN
    IF safety = "block" THEN Blocked
    ELSE [NoCall EXCEPT !.pc = "gate",
                        !.req = [call |-> [call EXCEPT !.tool = spec.name], ticket |-> None,
                                 dry |-> safety = "confirm",
                                 require |-> RequireOption(spec, marked)]]

\* The executor has an action packet.  What it must ask for is previewed first,
\* by the same runtime in a dry run.
Begin(t, call, marked) ==
    /\ th[t].pc = "idle" /\ used.calls < MaxCalls
    /\ used' = [used EXCEPT !.calls = @ + 1]
    /\ th' = [th EXCEPT ![t] =
                IF Registered(call.tool) = {} THEN Blocked
                ELSE Submitted(SpecOf(call.tool), call, marked)]
    /\ UNCHANGED <<disk, moved, lost>>

\* The checks of the gate in their order; the last end a dry run.
GateCode(spec, req, first, second, preview) ==
    FirstRefusal(<<IF MissingParam(spec, req.call.given) THEN "missing_required_param" ELSE "ok",
                   first.code, second.code, preview.plan.code,
                   IF req.dry THEN DryRunCode(spec) ELSE "ok">>)

AfterGate(t, code, preview) ==
    CASE code = "ok"              -> Goto(t, "run")
      [] code = "dry_run_preview" -> [Goto(t, "asked") EXCEPT !.preview = preview]
      [] OTHER                    -> Ended(t, code)

\* ToolRuntime.execute up to the handler: validation, the decision, the preview,
\* the decision with the preview when there is a ticket, and the end of a dry run.
Execute(t) ==
    LET req     == th[t].req
        spec    == ToolOf(t)
        first   == Decide(spec, req, {})
        preview == BuildPreview(spec, req, first, disk)
        second  == IF req.ticket = None THEN first ELSE Decide(spec, req, {preview}) IN
    /\ th[t].pc = "gate"
    /\ th' = [th EXCEPT ![t] = AfterGate(t, GateCode(spec, req, first, second, preview), preview)]
    /\ moved' = [moved EXCEPT ![t] = {}]
    /\ UNCHANGED <<disk, lost, used>>

\* The user answers, at any time; the ticket is the preview that was shown.
Approve(t) ==
    /\ th[t].pc = "asked"
    /\ th' = [th EXCEPT ![t] = [Goto(t, "gate") EXCEPT !.req.ticket = th[t].preview,
                                                       !.req.dry = FALSE]]
    /\ UNCHANGED <<disk, moved, lost, used>>

Decline(t) ==
    /\ th[t].pc = "asked"
    /\ Finish(t, "cancelled")
    /\ UNCHANGED <<disk, moved, lost, used>>

(********************************* the handlers ********************************)
\* Text that was in a file and is nowhere on the disk afterwards, neither in front of
\* what a call added nor in another file that changed.
Taken(new) == {p \in Paths : /\ IsFile(disk, p) /\ new[p] # disk[p]
                             /\ \A c \in Calls : new[p].text # disk[p].text \o c.text
                             /\ ~\E q \in Paths : /\ new[q] # disk[q]
                                                  /\ new[q].text = disk[p].text}
Changed(new) == {p \in Paths : new[p] # disk[p]}

Approved(t, p) == /\ th[t].req.ticket # None
                  /\ p \in DOMAIN th[t].req.ticket.files
                  /\ th[t].req.ticket.files[p] = disk[p]

\* The disk becomes new by what execution t did.
Touch(t, new) ==
    /\ disk' = new
    /\ moved' = [u \in Threads |-> IF u = t \/ th[u].pc \notin {"run", "act"} THEN moved[u]
                                   ELSE moved[u] \cup Changed(new)]
    /\ lost' = lost \cup {[call |-> Call(t), shown |-> Approved(t, p),
                           raced |-> p \in moved[t]] : p \in Taken(new)}

\* A handler that reads answers with what it finds.
Read(t) ==
    LET code   == ReadCode(disk, Call(t), th[t].req.ticket # None)
        answer == ReadAnswer(disk, Call(t), code) IN
    /\ th[t].pc = "run" /\ Call(t).tool \in Reads
    /\ th' = [th EXCEPT ![t] = [Ended(t, answer.code) EXCEPT !.result.answer = answer]]
    /\ UNCHANGED <<disk, moved, lost, used>>

AfterPlan(t, plan) == IF plan.code = "ok" THEN [Goto(t, "act") EXCEPT !.plan = plan]
                                          ELSE Ended(t, plan.code)

\* A handler that writes plans on the disk as it is now; the plan of the preview
\* is not used again.
MakePlan(t) ==
    /\ th[t].pc = "run" /\ Call(t).tool \in Writes
    /\ th' = [th EXCEPT ![t] = AfterPlan(t, HandlerPlan(disk, Call(t)))]
    /\ UNCHANGED <<disk, moved, lost, used>>

\* A handler of another kind leaves the workspace alone.
Compute(t) ==
    /\ th[t].pc = "run" /\ Call(t).tool \notin Reads \cup Writes
    /\ Finish(t, "ok")
    /\ UNCHANGED <<disk, moved, lost, used>>

Act(t) ==
    LET made == HandlerAct(disk, Call(t), th[t].plan.text) IN
    /\ th[t].pc = "act" /\ Call(t).tool # "delete_file"
    /\ Touch(t, made.disk)
    /\ th' = [th EXCEPT ![t] =
                IF made.code = "ok" /\ Rereads(Call(t)) THEN Goto(t, "reread")
                ELSE Ended(t, made.code)]
    /\ UNCHANGED used

\* The target is read again; that it is gone by then is an internal error.
Reread(t) ==
    /\ th[t].pc = "reread"
    /\ Finish(t, IF IsFile(disk, Written(Call(t))) THEN "ok" ELSE "internal_error")
    /\ UNCHANGED <<disk, moved, lost, used>>

\* delete_file removes its targets one by one and stops at the first that stays:
\* todo is what it reports as pending.
UnlinkNext(t) ==
    LET todo == th[t].plan.todo
        made == Unlink(disk, Head(todo)) IN
    /\ th[t].pc = "act" /\ Call(t).tool = "delete_file"
    /\ Touch(t, made.disk)
    /\ th' = [th EXCEPT ![t] =
                IF made.code # "ok" THEN Ended(t, made.code)
                ELSE [(IF Len(todo) > 1 THEN th[t] ELSE Ended(t, "ok"))
                      EXCEPT !.plan.todo = Tail(todo)]]
    /\ UNCHANGED used

(********************************* surroundings ********************************)
\* The user's editor, or a command, changes a file of the workspace.
Edit(p, node) ==
    /\ used.edits < MaxEdits /\ Area[p] = "plain" /\ disk[p].kind # "directory"
    /\ disk[p] # node
    /\ disk' = Change(disk, p, node)
    /\ moved' = [u \in Threads |-> IF th[u].pc \in {"run", "act"} THEN moved[u] \cup {p}
                                                                  ELSE moved[u]]
    /\ used' = [used EXCEPT !.edits = @ + 1]
    /\ UNCHANGED <<th, lost>>

(******************************** specification ********************************)
Handle(t) == Read(t) \/ MakePlan(t) \/ Compute(t) \/ Act(t) \/ Reread(t) \/ UnlinkNext(t)

Next == \/ \E t \in Threads : \/ \E call \in Calls, marked \in BOOLEAN : Begin(t, call, marked)
                              \/ Execute(t) \/ Approve(t) \/ Decline(t) \/ Handle(t)
        \/ \E p \in Paths, node \in Edits : Edit(p, node)

Spec == Init /\ [][Next]_vars

(********************************** properties *********************************)
\* Text that a tool takes off the disk was in the preview the user approved for
\* that very call, except that it came to be there after the ticket was compared;
\* a write in mode "create" takes nothing even then (build_preview, decide, "xb").
LossWasShown ==
    \A l \in lost : \/ l.shown
                    \/ l.raced /\ ~(l.call.tool = "write_file" /\ l.call.mode = "create")

\* Files that are sensitive or outside of the workspace stay as they are.
ProtectedStay == \A p \in Paths : Area[p] # "plain" => disk[p] = Disk0[p]

\* And their text gets into no other file, and is answered only to a call with a
\* ticket (PathPolicy over the arguments it knows, PathResolver in each handler).
SecretsStay ==
    /\ ProtectedStay
    /\ \A p \in Paths : Area[p] = "plain" => Secret \notin Range(disk[p].text)
    /\ \A t \in Threads :
          Secret \in Range(th[t].result.answer.text) =>
              th[t].req.ticket # None /\ Area[Call(t).path] = "sensitive"

\* Accepted patches make of the text what they say, each at the place where it was
\* found in the original (_apply_located_patches), when none inserts into what
\* another rewrites.
PatchedAsLocated ==
    \A t \in Threads : th[t].pc = "asked" /\ Call(t).tool = "patch_file" =>
        LET text    == th[t].preview.files[Call(t).path].text
            located == Located(text, Call(t).patches) IN
        Entangled(located) \/ th[t].preview.plan.text = Rewritten(text, located)

================================================================================
