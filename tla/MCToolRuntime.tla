----------------------------- MODULE MCToolRuntime -----------------------------
(* Two executions and an editor over a workspace with a file, one that cannot be *)
(* removed, a directory with room for a third, a sensitive file and one outside. *)
EXTENDS ToolRuntime

CONSTANTS t1, t2, a, b, fix, dir, key, out, root, nil

MCPaths  == {a, b, fix, dir, key, out}
MCLocked == {fix}
MCArea   == [p \in MCPaths |-> CASE p = key -> "sensitive" [] p = out -> "outside"
                                 [] OTHER -> "plain"]
MCParent == [p \in MCPaths |-> IF p = b THEN dir ELSE root]
MCDisk   == [p \in MCPaths |-> CASE p = dir -> Directory [] p = b -> Missing
                                 [] p = a -> File(<<"x", "nl", "y">>)
                                 [] p = fix -> File(<<"y">>)
                                 [] OTHER -> File(<<"s">>)]
MCEdits  == {File(<<"z">>), Missing}

Base == [tool |-> "none", given |-> {}, path |-> nil, target |-> nil, paths |-> <<>>,
         text |-> <<>>, patches |-> <<>>, mode |-> "none", from |-> 1, count |-> 1]

Read1(tool, p) == [Base EXCEPT !.tool = tool, !.path = p,
                               !.given = {"path", "start_line", "line_count", "text_pattern"},
                               !.text = <<"y">>]
Write1(p, mode) == [Base EXCEPT !.tool = "write_file", !.given = {"path", "content"},
                                !.path = p, !.mode = mode, !.text = <<"w">>]
Patch1(patches) == [Base EXCEPT !.tool = "patch_file", !.given = {"path", "patches"},
                                !.path = a, !.patches = patches]
Two(tool, p, q, mode) == [Base EXCEPT !.tool = tool, !.path = p, !.target = q, !.mode = mode,
                          !.given = {"source_path", "target_path", "new_name"}]
Delete1(ps) == [Base EXCEPT !.tool = "delete_file", !.given = {"file_paths"}, !.paths = ps]

MCPatches == { <<Patch("replace", <<"y">>, <<"v", "v">>), Patch("insert_before", <<"nl">>, <<"u">>)>>,
               <<Patch("delete_block", <<"x">>, <<>>), Patch("insert_after", <<"x">>, <<"u">>)>>,
               <<Patch("replace", <<"x", "nl">>, <<"v">>), Patch("replace", <<"nl">>, <<"u">>)>>,
               <<Patch("insert_before", <<"nl">>, <<"u">>), Patch("replace", <<"nl">>, <<"v">>)>> }

MCReads == {Read1(tool, p) : tool \in {"read_file", "find_files", "file_info"}, p \in {a, key, out}}
           \cup {Read1(tool, a) : tool \in {"read_file_chunk", "read_file_tail"}}
           \cup {Read1("list_files", root), Read1("find_files", dir)}
MCWrites == {Write1(p, mode) : p \in {a, b}, mode \in {"create", "append", "overwrite"}}
            \cup {[Write1(a, "overwrite") EXCEPT !.tool = "file_writer"]}
            \cup {Write1(a, "create_or_overwrite"), Write1(fix, "overwrite"), Write1(key, "create_or_overwrite")}
MCMoves == {Two(tool, a, b, mode) : tool \in {"copy_file", "move_file"}, mode \in {"overwrite", "keep"}}
           \cup {Two("rename_file", a, b, "keep"), Two("copy_file", key, b, "keep"),
                 Two("copy_file", out, b, "keep"), Two("move_file", key, b, "keep"),
                 Two("copy_file", a, key, "overwrite")}
MCDeletes == {Delete1(<<a, b>>), Delete1(<<a, fix>>), Delete1(<<a, a>>), Delete1(<<key>>)}
MCOthers  == {[Base EXCEPT !.tool = "math_calculator", !.given = {"expression"}],
              [Base EXCEPT !.tool = "code_executor", !.given = {"code"}],
              [Base EXCEPT !.tool = "unknown"]}
MCCalls == MCReads \cup MCWrites \cup MCMoves \cup MCDeletes \cup MCOthers
           \cup {Patch1(patches) : patches \in MCPatches}

MCSymmetry == Permutations({t1, t2})
================================================================================
