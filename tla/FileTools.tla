------------------------------- MODULE FileTools -------------------------------
(* What the file tools make of one state of the disk: which targets they accept, *)
(* what they plan to do, and what the operating system makes of the plan when it *)
(* is carried out later, on a disk that may have changed.                        *)
EXTENDS Sequences, FiniteSets, SequencesExt, PatchText

CONSTANTS Paths,    \* paths that calls name
          Area,     \* Paths -> "plain", "sensitive" or "outside" the workspace
          Parent,   \* Paths -> the directory of the path, Root if it is the workspace
          Root,
          Linked,   \* paths with a symbolic link on their way
          Locked,   \* paths the operating system will neither write nor remove
          MaxLines  \* range_max_lines of ReadFileLimits

ASSUME FileAssumption == /\ Area \in [Paths -> {"plain", "sensitive", "outside"}]
                         /\ Parent \in [Paths -> Paths \cup {Root}]
                         /\ Root \notin Paths
                         /\ Linked \subseteq Paths /\ Locked \subseteq Paths
                         /\ MaxLines \in Nat \ {0}

\* A node of the disk; the text of what is no file is empty.
File(text) == [kind |-> "file", text |-> text]
Missing    == [kind |-> "missing", text |-> <<>>]
Directory  == [kind |-> "directory", text |-> <<>>]

Exists(disk, p) == disk[p].kind # "missing"
IsFile(disk, p) == disk[p].kind = "file"

\* PathResolver.resolve, with the default patterns.
AreaCode(p) == CASE Area[p] = "outside"   -> "workspace_out_of_scope"
                 [] Area[p] = "sensitive" -> "sensitive_path_blocked"
                 [] OTHER                 -> "ok"

\* The refusals of a target come in a fixed order: the first that holds is given.
First(rules) == LET hit == {i \in DOMAIN rules : rules[i][1]} IN
                IF hit = {} THEN "ok" ELSE rules[Min(hit)][2]
FirstRefusal(codes) == First([i \in DOMAIN codes |-> <<codes[i] # "ok", codes[i]>>])

ParentRules(disk, p) ==
    IF Parent[p] = Root THEN <<>>
    ELSE << <<~Exists(disk, Parent[p]), "parent_directory_not_found">>,
            <<IsFile(disk, Parent[p]), "not_a_directory">> >>

(******************************* validation ************************************)
WriteTarget(disk, p, mode) ==
    First(<< <<Area[p] # "plain", AreaCode(p)>> >>
          \o ParentRules(disk, p)
          \o << <<p \in Linked, "sensitive_path_blocked">>,
                <<disk[p].kind = "directory", "not_a_file">>,
                <<mode = "create" /\ Exists(disk, p), "file_already_exists">>,
                <<mode \in {"overwrite", "append"} /\ ~Exists(disk, p), "file_not_found">> >>)

\* patch_file, move, rename and copy sources: a file that is there and no link.
ExistingFile(disk, p) ==
    First(<< <<Area[p] # "plain", AreaCode(p)>>,
             <<~Exists(disk, p), "file_not_found">>,
             <<~IsFile(disk, p), "not_a_file">>,
             <<p \in Linked, "sensitive_path_blocked">> >>)

DeleteTarget(disk, p) ==
    First(<< <<Area[p] # "plain", AreaCode(p)>>,
             <<~Exists(disk, p), "file_not_found">>,
             <<disk[p].kind = "directory", "delete_directory_not_allowed">>,
             <<p \in Linked, "sensitive_path_blocked">> >>)

MutationTarget(disk, p, overwrite) ==
    First(<< <<Area[p] # "plain", AreaCode(p)>> >>
          \o ParentRules(disk, p)
          \o << <<p \in Linked, "sensitive_path_blocked">>,
                <<disk[p].kind = "directory", "not_a_file">>,
                <<Exists(disk, p) /\ ~overwrite, "file_already_exists">> >>)

\* A ticket opens a sensitive file of the workspace to the tools that read text.
ReadTarget(disk, p, ticketed) ==
    First(<< <<Area[p] = "outside", AreaCode(p)>>,
             <<Area[p] = "sensitive" /\ ~ticketed, AreaCode(p)>>,
             <<~Exists(disk, p), "file_not_found">>,
             <<~IsFile(disk, p), "not_a_file">>,
             <<p \in Linked, "sensitive_path_blocked">> >>)

Folder(disk, p) ==
    IF p = Root THEN "ok"
    ELSE First(<< <<Area[p] # "plain", AreaCode(p)>>,
                  <<~Exists(disk, p), "file_not_found">>,
                  <<IsFile(disk, p), "not_a_directory">> >>)

(*********************************** reading ***********************************)
\* read_file_chunk, _head and _tail: the lines and whether more follow them.
ReadRange(text, call) ==
    LET starts == LineStarts(text)
        count  == IF call.count < MaxLines THEN call.count ELSE MaxLines
        from   == IF call.tool # "read_file_tail" THEN call.from
                  ELSE IF Len(starts) > count THEN Len(starts) - count + 1 ELSE 1
        last   == IF from + count - 1 < Len(starts) THEN from + count - 1 ELSE Len(starts) IN
    [text |-> IF from > last THEN <<>>
              ELSE Slice(text, starts[from], LineEnd(text, starts, last)),
     more |-> last < Len(starts)]

\* The files below a directory, as find_files walks it.
Below(disk, p) ==
    LET walked(from) == {c \in Paths : Parent[c] \in from /\ Area[c] = "plain" /\ c \notin Linked}
        folders[k \in 0..Cardinality(Paths)] ==
            IF k = 0 THEN {p}
            ELSE LET from == folders[k - 1]
                 IN from \cup {c \in walked(from) : disk[c].kind = "directory"}
    IN {c \in walked(folders[Cardinality(Paths)]) : IsFile(disk, c)}

Matches(disk, call) ==
    {p \in Below(disk, call.path) :
        Places(disk[p].text, call.text, 0, Len(disk[p].text)) # {}}

\* list_files shows what a directory holds, of sensitive entries the name only.
Entries(disk, p) == {c \in Paths : Parent[c] = p /\ Area[c] # "outside" /\ Exists(disk, c)}

\* What a reading handler returns: a code, text of files, paths, and if more follow.
Answer(code, text, paths, more) == [code |-> code, text |-> text, paths |-> paths, more |-> more]

ReadCode(disk, call, ticketed) ==
    LET p == call.path IN
    IF call.tool \in {"list_files", "find_files"} THEN Folder(disk, p)
    ELSE IF call.tool = "file_info"
    THEN First(<< <<Area[p] = "outside", AreaCode(p)>>,
                  <<~Exists(disk, p), "file_not_found">> >>)
    ELSE ReadTarget(disk, p, ticketed)

\* code is what ReadCode makes of the target.
ReadAnswer(disk, call, code) ==
    LET p == call.path IN
    IF code # "ok" THEN Answer(code, <<>>, {}, FALSE)
    ELSE CASE call.tool = "list_files" -> Answer("ok", <<>>, Entries(disk, p), FALSE)
           [] call.tool = "find_files" -> Answer("ok", <<>>, Matches(disk, call), FALSE)
           [] call.tool = "file_info"  -> Answer("ok", <<>>, {p}, FALSE)
           [] call.tool \in {"read_file", "document_parser"} ->
                Answer("ok", disk[p].text, {p}, FALSE)
           [] OTHER -> LET range == ReadRange(disk[p].text, call) IN
                       Answer("ok", range.text, {p}, range.more)

(************************************ plans ************************************)
\* What a handler will do: text is what it will write, todo what it will remove.
Plan(code, text, todo) == [code |-> code, text |-> text, todo |-> todo]

WritePlan(disk, call) ==
    Plan(WriteTarget(disk, call.path, call.mode), call.text, <<>>)

PatchFilePlan(disk, call) ==
    LET code == ExistingFile(disk, call.path) IN
    IF code # "ok" THEN Plan(code, <<>>, <<>>)
    ELSE LET patched == PatchPlan(disk[call.path].text, call.patches)
         IN Plan(patched.code, patched.text, <<>>)

\* Mutant: the source of a copy or move is not looked at.
MutationPlanTargetOnly(disk, call) ==
    Plan(FirstRefusal(<<IF call.path = call.target THEN "file_conflict" ELSE "ok",
                        MutationTarget(disk, call.target, call.mode = "overwrite")>>),
         disk[call.path].text, <<>>)

\* copy_file, move_file and rename_file; a rename names its target by its file name.
MutationPlan(disk, call) ==
    Plan(FirstRefusal(<<ExistingFile(disk, call.path),
                        IF call.path = call.target THEN "file_conflict" ELSE "ok",
                        MutationTarget(disk, call.target, call.mode = "overwrite")>>),
         disk[call.path].text, <<>>)

\* Every target is looked at before the first is removed; they must differ.
DeletePlan(disk, call) ==
    LET ps       == call.paths
        again(i) == IF \E j \in 1..(i - 1) : ps[j] = ps[i] THEN "file_conflict" ELSE "ok"
        codes    == [i \in DOMAIN ps |-> FirstRefusal(<<DeleteTarget(disk, ps[i]), again(i)>>)]
    IN Plan(FirstRefusal(codes), <<>>, ps)

HandlerPlan(disk, call) ==
    CASE call.tool = "write_file"  -> WritePlan(disk, call)
      [] call.tool = "patch_file"  -> PatchFilePlan(disk, call)
      [] call.tool = "delete_file" -> DeletePlan(disk, call)
      [] OTHER                     -> MutationPlan(disk, call)

(******************************* carrying it out *******************************)
Change(disk, p, node) == [disk EXCEPT ![p] = node]
Done(code, disk)      == [code |-> code, disk |-> disk]

\* The directories of the model do not change between a plan and its act.
Unwritable(disk, p) == p \in Locked \/ disk[p].kind = "directory"

\* _atomic_replace: the new text takes the place of whatever is there.
Replace(disk, p, text) == IF Unwritable(disk, p) THEN Done("file_write_failed", disk)
                                                 ELSE Done("ok", Change(disk, p, File(text)))

\* "xb" fails on a file that is there, "ab" makes one that is not.
Create(disk, p, text) == IF Exists(disk, p) THEN Done("file_already_exists", disk)
                                            ELSE Replace(disk, p, text)
AppendTo(disk, p, text) == Replace(disk, p, disk[p].text \o text)

WriteAct(disk, call) ==
    CASE call.mode = "create"    -> Create(disk, call.path, call.text)
      [] call.mode = "append"    -> AppendTo(disk, call.path, call.text)
      [] call.mode = "overwrite" -> Replace(disk, call.path, call.text)
      [] OTHER -> IF Exists(disk, call.path) THEN Replace(disk, call.path, call.text)
                                             ELSE Create(disk, call.path, call.text)

\* shutil.copy2 or a replacement, and os.replace: each takes the source as it is
\* by then, and the target whether it is there or not.
MutationAct(disk, call) ==
    LET made == Replace(disk, call.target, disk[call.path].text) IN
    IF ~IsFile(disk, call.path) \/ (call.tool # "copy_file" /\ call.path \in Locked)
       \/ made.code # "ok"
    THEN Done("file_write_failed", disk)
    ELSE IF call.tool = "copy_file" THEN made
    ELSE Done("ok", Change(made.disk, call.path, Missing))

Unlink(disk, p) == IF IsFile(disk, p) /\ p \notin Locked
                   THEN Done("ok", Change(disk, p, Missing))
                   ELSE Done("file_delete_failed", disk)

\* One write of a handler; patch_file writes what it planned.
HandlerAct(disk, call, text) ==
    CASE call.tool = "write_file" -> WriteAct(disk, call)
      [] call.tool = "patch_file" -> Replace(disk, call.path, text)
      [] OTHER                    -> MutationAct(disk, call)

\* write_file, copy_file, move_file and rename_file read their target once more,
\* outside of the code that turns an error into a result.
Rereads(call) == call.tool \notin {"patch_file", "delete_file"}
Written(call) == IF call.tool \in {"write_file", "patch_file"} THEN call.path ELSE call.target
================================================================================
