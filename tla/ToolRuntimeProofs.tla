---------------------------- MODULE ToolRuntimeProofs ----------------------------
(* Proofs about tool calls of any number of executions, with any calls, edits and *)
(* disks.  A call that passed the gate without a ticket needed none; one with a    *)
(* ticket finds what the ticket shows, as far as others left it alone since.  What *)
(* it is going to write was in the workspace when it planned, and still is.  Text  *)
(* of sensitive files goes nowhere else, and patches that are applied one after    *)
(* the other from the end make what each of them says.                             *)
EXTENDS ToolRuntime, FiniteSetTheorems, WellFoundedInduction, SequenceTheorems, TLAPS

Fields    == {"pc", "req", "preview", "plan", "result"}
ReqFields == {"call", "ticket", "dry", "require"}

ToolTyped ==
    /\ DOMAIN disk = Paths
    /\ DOMAIN th = Threads /\ \A t \in Threads : DOMAIN th[t] = Fields
    /\ moved \in [Threads -> SUBSET Paths]

\* The call of a thread is one of Calls, under the tool's own name.
IsCall(x) == \E c \in Calls : \E spec \in Registered(c.tool) : x = [c EXCEPT !.tool = spec.name]

\* What a file showed when the gate was passed it shows still, or others changed it.
AsShown(t) ==
    /\ Shown(ToolOf(t), Call(t)) \subseteq DOMAIN th[t].req.ticket.files
    /\ \A p \in Shown(ToolOf(t), Call(t)) \cap Paths :
          IsFile(disk, p) => th[t].req.ticket.files[p] = disk[p] \/ p \in moved[t]

GatePassed(t) == IF th[t].req.ticket = None THEN ~Needed(ToolOf(t), th[t].req) ELSE AsShown(t)

\* What a call that has its plan is going to change.
Targets(t) ==
    CASE Call(t).tool \in {"write_file", "patch_file"} -> {Call(t).path}
      [] Call(t).tool = "copy_file"                    -> {Call(t).target}
      [] Call(t).tool \in {"move_file", "rename_file"} -> {Call(t).path, Call(t).target}
      [] OTHER                                         -> Range(th[t].plan.todo)

\* A copy that must not overwrite found no target.
PlanMade(t) ==
    /\ Call(t).tool \in Writes
    /\ \A p \in Targets(t) \cap Paths : Area[p] = "plain"
    /\ Call(t).tool = "delete_file" =>
          /\ "todo" \in DOMAIN th[t].plan
          /\ th[t].plan.todo \in Seq(Range(Call(t).paths)) /\ th[t].plan.todo # <<>>
    /\ Call(t).tool = "copy_file" /\ Call(t).mode # "overwrite" /\ Call(t).target \in Paths =>
          ~Exists(disk, Call(t).target) \/ Call(t).target \in moved[t]

ThreadOK(t) ==
    /\ th[t].pc \in {"idle", "gate", "asked", "run", "act", "reread"}
    /\ th[t].pc # "idle" => IsCall(Call(t)) /\ DOMAIN th[t].req = ReqFields
    /\ th[t].pc \in {"run", "act"} => GatePassed(t)
    /\ th[t].pc = "act" => PlanMade(t)

ToolInv == /\ ToolTyped
           /\ \A t \in Threads : ThreadOK(t)
           /\ LossWasShown
           /\ ProtectedStay

--------------------------------------------------------------------------------
(********************************* the first rule ******************************)

\* Some of the numbers 1..n have a smallest: of the parts below an element, one
\* is empty.
LEMMA SmallestOfSome ==
    ASSUME NEW n \in Nat, NEW S \in SUBSET (1..n), S # {}
    PROVE  Min(S) \in S /\ \A y \in S : Min(S) <= y
<1> DEFINE Below0(x) == {y \in S : y < x}
           R == StrictSubsetOrdering(S)
           B == {Below0(x) : x \in S}
<1>1. IsFiniteSet(S)
  <2>1. IsFiniteSet(1..n) /\ S \subseteq 1..n
    BY FS_Interval
  <2> QED BY ONLY <2>1, FS_Subset
<1>2. IsWellFoundedOn(R, FiniteSubsetsOf(S))
  BY <1>1, FS_StrictSubsetOrderingWellFounded
<1>3. ASSUME NEW x \in S PROVE Below0(x) \in FiniteSubsetsOf(S)
  <2>1. Below0(x) \in SUBSET S
    OBVIOUS
  <2>2. IsFiniteSet(Below0(x))
    BY <1>1, <2>1, FS_Subset
  <2> QED BY <2>1, <2>2 DEF FiniteSubsetsOf
<1>4. B \subseteq FiniteSubsetsOf(S) /\ B # {}
  BY <1>3
<1>5. \E U \in B : \A V \in B : <<V, U>> \notin R
  <2> HIDE DEF B, R
  <2> QED BY <1>2, <1>4, WFMin
<1>6. PICK x \in S : \A y \in S : <<Below0(y), Below0(x)>> \notin R
  BY <1>5
<1>7. ASSUME NEW y \in S, y < x PROVE FALSE
  <2>1. x \in Nat /\ y \in Nat /\ \A z \in S : z \in Nat
    OBVIOUS
  <2>2. Below0(y) \subseteq Below0(x) /\ y \in Below0(x) /\ y \notin Below0(y)
    <3>1. ASSUME NEW z \in Below0(y) PROVE z \in Below0(x)
      <4>1. z \in S /\ z < y /\ z \in Nat
        BY <2>1, <3>1
      <4> QED BY <1>7, <2>1, <4>1
    <3>2. y \in Below0(x)
      BY <1>7
    <3>3. y \notin Below0(y)
      BY <2>1
    <3> QED BY <3>1, <3>2, <3>3
  <2>3. Below0(y) \in SUBSET S /\ Below0(x) \in SUBSET S
    OBVIOUS
  <2>4. <<Below0(y), Below0(x)>> \in R
    BY <2>2, <2>3 DEF R, StrictSubsetOrdering
  <2> QED BY <2>4, <1>6
<1>8. \A y \in S : x <= y
  <2>1. x \in Nat /\ \A z \in S : z \in Nat
    OBVIOUS
  <2> QED BY <1>7, <2>1
<1> QED BY <1>8 DEF Min

\* When the rules let a target through, none of them holds.
LEMMA FirstOk ==
    ASSUME NEW n \in Nat, NEW rules, DOMAIN rules = 1..n, First(rules) = "ok",
           \A i \in 1..n : rules[i][1] => rules[i][2] # "ok"
    PROVE  \A i \in 1..n : ~rules[i][1]
<1> DEFINE hit == {i \in DOMAIN rules : rules[i][1]}
<1>1. CASE hit = {}
  BY <1>1
<1>2. CASE hit # {}
  <2>1. hit \in SUBSET (1..n)
    OBVIOUS
  <2>2. Min(hit) \in hit
    <3> HIDE DEF hit
    <3> QED BY <1>2, <2>1, SmallestOfSome
  <2>3. rules[Min(hit)][2] = "ok"
    BY <1>2 DEF First
  <2> QED BY <2>2, <2>3
<1> QED BY <1>1, <1>2

\* The same of a sequence of codes.
LEMMA NoRefusal ==
    ASSUME NEW n \in Nat, NEW codes, DOMAIN codes = 1..n, FirstRefusal(codes) = "ok"
    PROVE  \A i \in 1..n : codes[i] = "ok"
<1> DEFINE rules == [i \in DOMAIN codes |-> <<codes[i] # "ok", codes[i]>>]
<1>1. First(rules) = "ok" /\ DOMAIN rules = 1..n
  BY DEF FirstRefusal
<1>2. \A i \in 1..n : rules[i][1] = (codes[i] # "ok") /\ rules[i][2] = codes[i]
  OBVIOUS
<1> HIDE DEF rules
<1>3. \A i \in 1..n : ~rules[i][1]
  BY <1>1, <1>2, FirstOk
<1> QED BY <1>2, <1>3

(********************************* the catalogue *******************************)

\* What the registry says of the tools that write, by name or alias.
Declared(name, spec) ==
    /\ name \in {"patch_file", "move_file", "rename_file", "delete_file"} => spec.confirm
    /\ name = "patch_file" => spec.preview = "file_patch"
    /\ name \in {"copy_file", "move_file", "rename_file"} => spec.preview = "file_mutation"
    /\ name = "delete_file" => spec.preview = "file_delete"
    /\ name \in {"write_file", "copy_file"} => spec.risk = "medium" /\ "overwrite" \in spec.highIf
    /\ name = "write_file" => "create_or_overwrite" \in spec.highIf

\* The registry says so of every tool in it.
LEMMA Catalogue ==
    ASSUME NEW spec \in DefaultTools, NEW name \in {spec.name, spec.alias}, name \in Writes
    PROVE  Declared(name, spec)
<1>1. CASE spec \in TextTools
  <2>1. spec.name \notin Writes /\ spec.alias \notin Writes
    BY <1>1 DEF TextTools, ToolSpec, Writes
  <2> QED BY <2>1
<1>2. CASE spec \in ListingTools
  <2>1. spec.name \notin Writes /\ spec.alias \notin Writes
    BY <1>2 DEF ListingTools, ToolSpec, Writes
  <2> QED BY <2>1
<1>3. CASE spec \in ReadTools
  <2>1. spec.name \notin Writes /\ spec.alias \notin Writes
    BY <1>3 DEF ReadTools, Reader, ToolSpec, Writes
  <2> QED BY <2>1
<1>4. CASE spec \in MutationTools
  <2>1. CASE spec.name = "copy_file"
    <3>1. spec.alias = "none" /\ spec.preview = "file_mutation" /\ spec.risk = "medium"
      BY <1>4, <2>1 DEF MutationTools, Writer, ToolSpec
    <3>2. spec.highIf = {"overwrite"}
      BY <1>4, <2>1 DEF MutationTools, Writer, ToolSpec
    <3> QED BY <2>1, <3>1, <3>2 DEF Declared, Writes
  <2>2. CASE spec.name # "copy_file"
    <3>1. spec \in {Writer("move_file", "high", "file_mutation", {{"source_path"}, {"target_path"}}),
                    Writer("rename_file", "high", "file_mutation", {{"source_path"}, {"new_name"}})}
      BY <1>4, <2>2 DEF MutationTools, Writer, ToolSpec
    <3>2. spec.name \in {"move_file", "rename_file"} /\ spec.alias = "none"
      BY <3>1 DEF Writer, ToolSpec
    <3>3. spec.preview = "file_mutation"
      BY <3>1 DEF Writer, ToolSpec
    <3>4. spec.confirm
      BY <3>1 DEF Writer, ToolSpec
    <3> QED BY <3>2, <3>3, <3>4 DEF Declared, Writes
  <2> QED BY <2>1, <2>2
<1>5. CASE spec \in {DocumentParser, SearchTool, CodeExecutor, CommandTool, ShellTool}
  <2>1. spec.name \in {"document_parser", "web_search", "code_executor", "command_tool",
                      "shell_command_tool"}
    BY <1>5 DEF DocumentParser, SearchTool, CodeExecutor, CommandTool, ShellTool, ToolSpec
  <2>2. spec.alias \in {"none", "search_tool", "shell_tool"}
    BY <1>5 DEF DocumentParser, SearchTool, CodeExecutor, CommandTool, ShellTool, ToolSpec
  <2> QED BY <2>1, <2>2 DEF Writes
<1>6. CASE spec = WriteTool
  <2>1. /\ spec.name = "write_file" /\ spec.alias = "file_writer" /\ spec.risk = "medium"
        /\ spec.highIf = {"overwrite", "create_or_overwrite"}
    BY <1>6 DEF WriteTool, Writer, ToolSpec
  <2> QED BY <2>1 DEF Declared, Writes
<1>7. CASE spec = PatchTool
  <2>1. spec.name = "patch_file" /\ spec.alias = "none" /\ spec.confirm /\ spec.preview = "file_patch"
    BY <1>7 DEF PatchTool, Writer, ToolSpec
  <2> QED BY <2>1 DEF Declared, Writes
<1>8. CASE spec = DeleteTool
  <2>1. spec.name = "delete_file" /\ spec.alias = "none" /\ spec.confirm /\ spec.preview = "file_delete"
    BY <1>8 DEF DeleteTool, Writer, ToolSpec
  <2> QED BY <2>1 DEF Declared, Writes
<1> QED BY <1>1, <1>2, <1>3, <1>4, <1>5, <1>6, <1>7, <1>8 DEF DefaultTools

\* So it does of the tool of a call that is under way.
LEMMA ToolDeclared ==
    ASSUME NEW t, IsCall(Call(t)), Call(t).tool \in Writes, RuntimeAssumption
    PROVE  Declared(Call(t).tool, ToolOf(t))
<1>0. PICK c \in Calls : \E spec \in Registered(c.tool) : Call(t) = [c EXCEPT !.tool = spec.name]
  BY DEF IsCall
<1>1. PICK spec \in Registered(c.tool) : Call(t) = [c EXCEPT !.tool = spec.name]
  BY <1>0
<1>2. Call(t).tool = spec.name /\ spec \in DefaultTools
  BY <1>1, RuntimeAssumption DEF Registered
<1>3. ToolOf(t) \in Registered(spec.name)
  <2>1. spec \in Registered(spec.name)
    BY <1>2 DEF Registered
  <2> QED BY <1>2, <2>1 DEF ToolOf, SpecOf, Call
<1>4. ToolOf(t) \in DefaultTools /\ spec.name \in {ToolOf(t).name, ToolOf(t).alias}
  BY <1>3 DEF Registered
<1> QED BY <1>2, <1>4, Catalogue

\* What the caller gave stays what it was.
LEMMA CallKept ==
    ASSUME NEW x, IsCall(x)
    PROVE  \E c \in Calls : /\ x.text = c.text /\ x.path = c.path /\ x.target = c.target
                            /\ x.paths = c.paths /\ x.mode = c.mode
                            /\ x.tool \in {spec.name : spec \in Registered(c.tool)}
<1>0. PICK c \in Calls : \E spec \in Registered(c.tool) : x = [c EXCEPT !.tool = spec.name]
  BY DEF IsCall
<1>1. PICK spec \in Registered(c.tool) : x = [c EXCEPT !.tool = spec.name]
  BY <1>0
<1>2. {"tool", "path", "target", "paths", "text", "mode"} \subseteq DOMAIN c
  BY RuntimeAssumption
<1> QED BY <1>1, <1>2

(********************************* the gate ************************************)

\* A tool of medium risk has a high risk in a mode it declares as such.
LEMMA ModeRaisesRisk ==
    ASSUME NEW spec, NEW call, spec.risk = "medium", call.mode \in spec.highIf
    PROVE  RiskOf(spec, call) = "high"
<1>1. Rank("medium") = 2 /\ Rank("high") = 3
  <2>1. DOMAIN Risks = {1, 2, 3, 4}
    BY DEF Risks
  <2>2. Risks[1] = "low" /\ Risks[2] = "medium" /\ Risks[3] = "high" /\ Risks[4] = "blocked"
    BY DEF Risks
  <2>3. \A i \in {1, 2, 3, 4} : Risks[i] = "medium" <=> i = 2
    BY <2>2
  <2>4. \A i \in {1, 2, 3, 4} : Risks[i] = "high" <=> i = 3
    BY <2>2
  <2> QED BY <2>1, <2>3, <2>4 DEF Rank
<1>2. Higher("medium", "high") = "high" /\ Higher("high", "high") = "high"
  BY <1>1 DEF Higher
<1> QED BY <1>2 DEF RiskOf

\* A call that goes on without a dry run was allowed by the last decision: it needs
\* no ticket or has one, and its ticket is the preview made on the way.
LEMMA GateSound ==
    ASSUME NEW spec, NEW req, NEW second, NEW preview, NEW expected,
           second = Decide(spec, req, expected), second.code = "ok", ~req.dry
    PROVE  /\ Needed(spec, req) => req.ticket # None
           /\ req.ticket # None => \A p \in expected : req.ticket = p
<1> DEFINE held == req.ticket # None
           soft == << <<~Capable(spec) /\ ~held, PermissionCode(spec.scope)>>,
                      <<held /\ \E p \in expected : req.ticket # p, "preview_conflict">>,
                      <<Needed(spec, req) /\ ~held /\ ~req.dry, "confirmation_required">> >>
<1>1. First(soft) = "ok"
  BY DEF Decide
<1>2. DOMAIN soft = 1..3
  OBVIOUS
<1>3. \A i \in 1..3 : soft[i][1] => soft[i][2] # "ok"
  <2>1. PermissionCode(spec.scope) # "ok"
    BY DEF PermissionCode
  <2>2. soft[1][2] # "ok" /\ soft[2][2] # "ok" /\ soft[3][2] # "ok"
    BY <2>1
  <2> QED BY <2>2
<1>4. \A i \in 1..3 : ~soft[i][1]
  <2> HIDE DEF soft
  <2> QED BY <1>1, <1>2, <1>3, FirstOk
<1>5. ~(held /\ \E p \in expected : req.ticket # p) /\ ~(Needed(spec, req) /\ ~held /\ ~req.dry)
  <2>1. ~soft[2][1] /\ ~soft[3][1]
    BY <1>4
  <2> QED BY <2>1
<1> QED BY <1>5

\* After the gate the thread has what GatePassed says.
LEMMA PassingTheGate ==
    ASSUME ToolTyped, NEW t \in Threads, ThreadOK(t), Execute(t), th'[t].pc = "run"
    PROVE  GatePassed(t)' /\ th'[t].req = th[t].req
<1> DEFINE req     == th[t].req
           spec    == ToolOf(t)
           first   == Decide(spec, req, {})
           preview == BuildPreview(spec, req, first, disk)
           second  == IF req.ticket = None THEN first ELSE Decide(spec, req, {preview})
           codes   == <<IF MissingParam(spec, req.call.given) THEN "missing_required_param" ELSE "ok",
                        first.code, second.code, preview.plan.code,
                        IF req.dry THEN DryRunCode(spec) ELSE "ok">>
           code    == FirstRefusal(codes)
<1>1. /\ th' = [th EXCEPT ![t] = AfterGate(t, code, preview)]
      /\ moved' = [moved EXCEPT ![t] = {}] /\ disk' = disk
  BY DEF Execute, GateCode
<1>2. th'[t] = AfterGate(t, code, preview) /\ moved'[t] = {}
  BY <1>1 DEF ToolTyped
<1>3. code = "ok" /\ th'[t] = Goto(t, "run")
  <2>1. DOMAIN th[t] = Fields
    BY DEF ToolTyped
  <2>2. Goto(t, "asked").pc = "asked" /\ DOMAIN Goto(t, "asked") = Fields
    BY <2>1 DEF Goto, Fields
  <2>3. [Goto(t, "asked") EXCEPT !.preview = preview].pc = "asked"
    BY <2>2 DEF Fields
  <2>4. Ended(t, code).pc = "idle"
    BY <2>1 DEF Ended, Fields
  <2> HIDE DEF code, preview
  <2> QED BY <1>2, <2>3, <2>4 DEF AfterGate
<1>4. th'[t].req = th[t].req
  BY <1>3 DEF Goto, ToolTyped, Fields
<1>5. first.code = "ok" /\ second.code = "ok" /\ ~req.dry
  <2>1. DOMAIN codes = 1..5
    OBVIOUS
  <2>2. \A i \in 1..5 : codes[i] = "ok"
    <3> HIDE DEF codes
    <3> QED BY <1>3, <2>1, NoRefusal
  <2>3. codes[2] = "ok" /\ codes[3] = "ok" /\ codes[5] = "ok"
    BY <2>2
  <2>4. DryRunCode(spec) # "ok"
    BY DEF DryRunCode
  <2> QED BY <2>3, <2>4
<1>6. CASE req.ticket = None
  <2>1. ~Needed(spec, req)
    BY <1>5, <1>6, GateSound
  <2> QED BY <2>1, <1>4, <1>6 DEF GatePassed, ToolOf
<1>7. CASE req.ticket # None
  <2>1. req.ticket = preview
    <3>1. Decide(spec, req, {preview}).code = "ok"
      BY <1>5, <1>7
    <3>2. preview \in {preview}
      OBVIOUS
    <3> HIDE DEF preview
    <3> QED BY <1>5, <1>7, <3>1, <3>2, GateSound
  <2>2. req.ticket.files = [p \in Shown(spec, req.call) |-> disk[p]]
    BY <2>1 DEF BuildPreview
  <2>3. AsShown(t)'
    BY <1>1, <1>4, <2>2 DEF AsShown, ToolOf, Call
  <2> QED BY <1>4, <1>7, <2>3 DEF GatePassed
<1> QED BY <1>4, <1>6, <1>7

(********************************* the disk ************************************)

\* A replacement leaves the disk or puts a file at its path.
LEMMA Replaced ==
    ASSUME NEW d, NEW p, NEW text
    PROVE  Replace(d, p, text).disk \in {d, [d EXCEPT ![p] = File(text)]}
  BY DEF Replace, Done, Change

\* What one write of a handler can make of the disk.
Outcomes(call, text) ==
    {disk} \cup
    CASE call.tool = "write_file" ->
           {[disk EXCEPT ![call.path] = File(call.text)],
            [disk EXCEPT ![call.path] = File(disk[call.path].text \o call.text)]}
      [] call.tool = "patch_file" -> {[disk EXCEPT ![call.path] = File(text)]}
      [] OTHER ->
           LET made == [disk EXCEPT ![call.target] = File(disk[call.path].text)]
           IN {made} \cup IF call.tool = "copy_file" THEN {}
                          ELSE {[made EXCEPT ![call.path] = Missing]}

\* One write of a handler makes one of those of it; in mode "create" it changes no
\* file that is there, and in mode "append" it adds the text of the call.
LEMMA HandlerMakes ==
    ASSUME NEW call, NEW text
    PROVE  /\ HandlerAct(disk, call, text).disk \in Outcomes(call, text)
           /\ call.tool = "write_file" /\ call.mode = "create" /\ Exists(disk, call.path) =>
                HandlerAct(disk, call, text).disk = disk
           /\ call.tool = "write_file" /\ call.mode = "append" =>
                HandlerAct(disk, call, text).disk \in
                  {disk, [disk EXCEPT ![call.path] = File(disk[call.path].text \o call.text)]}
<1>1. CASE call.tool = "write_file"
  <2>1. HandlerAct(disk, call, text) = WriteAct(disk, call)
    BY <1>1 DEF HandlerAct
  <2>2. /\ Replace(disk, call.path, call.text).disk
             \in {disk, [disk EXCEPT ![call.path] = File(call.text)]}
        /\ AppendTo(disk, call.path, call.text).disk
             \in {disk, [disk EXCEPT ![call.path] = File(disk[call.path].text \o call.text)]}
    BY Replaced DEF AppendTo
  <2>3. /\ Create(disk, call.path, call.text).disk
             \in {disk, Replace(disk, call.path, call.text).disk}
        /\ Exists(disk, call.path) => Create(disk, call.path, call.text).disk = disk
    BY DEF Create, Done
  <2>4. WriteAct(disk, call) \in {Create(disk, call.path, call.text),
                                  Replace(disk, call.path, call.text),
                                  AppendTo(disk, call.path, call.text)}
    BY DEF WriteAct
  <2>5. /\ call.mode = "create" => WriteAct(disk, call) = Create(disk, call.path, call.text)
        /\ call.mode = "append" => WriteAct(disk, call) = AppendTo(disk, call.path, call.text)
    BY DEF WriteAct
  <2>6. WriteAct(disk, call).disk \in
          {disk, [disk EXCEPT ![call.path] = File(call.text)],
           [disk EXCEPT ![call.path] = File(disk[call.path].text \o call.text)]}
    BY <2>2, <2>3, <2>4
  <2>7. WriteAct(disk, call).disk \in Outcomes(call, text)
    BY <1>1, <2>6 DEF Outcomes
  <2> QED BY <2>1, <2>2, <2>3, <2>5, <2>7
<1>2. CASE call.tool = "patch_file"
  <2>1. HandlerAct(disk, call, text).disk \in {disk, [disk EXCEPT ![call.path] = File(text)]}
    BY <1>2, Replaced DEF HandlerAct
  <2> QED BY <1>2, <2>1 DEF Outcomes
<1>3. CASE call.tool \notin {"write_file", "patch_file"}
  <2> DEFINE made == Replace(disk, call.target, disk[call.path].text)
             new  == [disk EXCEPT ![call.target] = File(disk[call.path].text)]
  <2>1. HandlerAct(disk, call, text) = MutationAct(disk, call)
    BY <1>3 DEF HandlerAct
  <2>2. made.disk \in {disk, new} /\ (made.code = "ok" => made.disk = new)
    BY Replaced DEF Replace, Done, Change
  <2>3. \/ MutationAct(disk, call).disk = disk
        \/ made.code = "ok" /\ call.tool = "copy_file" /\ MutationAct(disk, call).disk = made.disk
        \/ /\ made.code = "ok" /\ call.tool # "copy_file"
           /\ MutationAct(disk, call).disk = [made.disk EXCEPT ![call.path] = Missing]
    BY DEF MutationAct, Done, Change
  <2>4. \/ MutationAct(disk, call).disk = disk
        \/ call.tool = "copy_file" /\ MutationAct(disk, call).disk = new
        \/ call.tool # "copy_file" /\ MutationAct(disk, call).disk = [new EXCEPT ![call.path] = Missing]
    <3> HIDE DEF made, new
    <3> QED BY <2>2, <2>3
  <2>5. MutationAct(disk, call).disk \in Outcomes(call, text)
    <3>1. Outcomes(call, text) = {disk} \cup {new} \cup IF call.tool = "copy_file" THEN {}
                                                       ELSE {[new EXCEPT ![call.path] = Missing]}
      BY <1>3 DEF Outcomes
    <3> HIDE DEF new
    <3> QED BY <2>4, <3>1
  <2> QED BY <1>3, <2>1, <2>5
<1> QED BY <1>1, <1>2, <1>3

\* A write keeps every path, and changes only what the call is about.
LEMMA HandlerChanges ==
    ASSUME DOMAIN disk = Paths, NEW call, NEW text, NEW new \in Outcomes(call, text)
    PROVE  /\ DOMAIN new = Paths
           /\ \A p \in Paths : new[p] # disk[p] =>
                IF call.tool \in {"write_file", "patch_file"} THEN p = call.path
                ELSE p = call.target \/ (p = call.path /\ call.tool # "copy_file")
<1>1. CASE new = disk
  BY <1>1
<1>2. CASE call.tool = "write_file" /\ new # disk
  <2>1. \E x : new = [disk EXCEPT ![call.path] = x]
    BY <1>2 DEF Outcomes
  <2> QED BY <1>2, <2>1
<1>3. CASE call.tool = "patch_file" /\ new # disk
  <2>1. \E x : new = [disk EXCEPT ![call.path] = x]
    BY <1>3 DEF Outcomes
  <2> QED BY <1>3, <2>1
<1>4. CASE call.tool \notin {"write_file", "patch_file"} /\ new # disk
  <2>1. \E x : \/ new = [disk EXCEPT ![call.target] = x]
               \/ /\ call.tool # "copy_file"
                  /\ new = [[disk EXCEPT ![call.target] = x] EXCEPT ![call.path] = Missing]
    BY <1>4 DEF Outcomes
  <2> QED BY <1>4, <2>1
<1> QED BY <1>1, <1>2, <1>3, <1>4

\* A removal takes the file away or leaves the disk.
LEMMA UnlinkMakes ==
    ASSUME NEW p
    PROVE  Unlink(disk, p).disk \in {disk, [disk EXCEPT ![p] = Missing]}
  BY DEF Unlink, Done, Change

(********************************* losses **************************************)

\* A loss of text from p is as LossWasShown has it.
Excused(t, p) ==
    \/ Approved(t, p)
    \/ p \in moved[t] /\ ~(Call(t).tool = "write_file" /\ Call(t).mode = "create")

\* What the ticket shows is approved or was changed by others.
LEMMA ShownIsExcused ==
    ASSUME NEW t, AsShown(t), th[t].req.ticket # None,
           NEW p \in Paths, p \in Shown(ToolOf(t), Call(t)), IsFile(disk, p),
           ~(Call(t).tool = "write_file" /\ Call(t).mode = "create")
    PROVE  Excused(t, p)
  BY DEF AsShown, Excused, Approved

\* Who passed the gate without a ticket runs a tool that asks for none, in a mode
\* that asks for none.
LEMMA WithoutTicket ==
    ASSUME NEW t, ThreadOK(t), th[t].pc \in {"run", "act"}, Call(t).tool \in Writes,
           th[t].req.ticket = None
    PROVE  \/ Call(t).tool = "write_file" /\ Call(t).mode \in {"create", "append"}
           \/ Call(t).tool = "copy_file" /\ Call(t).mode # "overwrite"
<1>1. ~Needed(ToolOf(t), th[t].req)
  BY DEF ThreadOK, GatePassed
<1>2. IsCall(Call(t))
  BY DEF ThreadOK
<1>3. Declared(Call(t).tool, ToolOf(t))
  BY <1>2, RuntimeAssumption, ToolDeclared
<1>4. Call(t).tool \in {"write_file", "copy_file"}
  BY <1>1, <1>3 DEF Needed, Declared, Writes
<1>5. ToolOf(t).risk = "medium" /\ RiskOf(ToolOf(t), Call(t)) # "high"
  BY <1>1, <1>3, <1>4 DEF Needed, Declared, Call
<1>6. Call(t).mode \notin ToolOf(t).highIf
  BY <1>5, ModeRaisesRisk
<1>7. CASE Call(t).tool = "copy_file"
  BY <1>3, <1>6, <1>7 DEF Declared
<1>8. CASE Call(t).tool = "write_file"
  <2>1. Call(t).mode \notin {"overwrite", "create_or_overwrite"}
    BY <1>3, <1>6, <1>8 DEF Declared
  <2>2. PICK c \in Calls : /\ Call(t).mode = c.mode
                           /\ Call(t).tool \in {spec.name : spec \in Registered(c.tool)}
    BY <1>2, CallKept
  <2>3. c.mode \in {"create", "append", "overwrite", "create_or_overwrite"}
    BY <1>8, <2>2, RuntimeAssumption
  <2> QED BY <1>8, <2>1, <2>2, <2>3
<1> QED BY <1>4, <1>7, <1>8

\* What a tool that writes may take is among what its preview shows.
LEMMA TargetsShown ==
    ASSUME NEW t, ThreadOK(t), Call(t).tool \in Writes, th[t].pc \in {"run", "act"}, NEW p \in Paths,
           IF Call(t).tool \in {"write_file", "patch_file"} THEN p = Call(t).path
           ELSE IF Call(t).tool = "delete_file" THEN p \in Range(Call(t).paths)
           ELSE p \in {Call(t).path, Call(t).target}
    PROVE  p \in Shown(ToolOf(t), Call(t))
<1>1. Declared(Call(t).tool, ToolOf(t))
  BY RuntimeAssumption, ToolDeclared DEF ThreadOK
<1>2. CASE Call(t).tool = "write_file"
  <2>1. p \in Resources(Call(t))
    BY <1>2 DEF Resources
  <2> QED BY <2>1 DEF Shown
<1>3. CASE Call(t).tool = "patch_file"
  BY <1>1, <1>3 DEF Shown, Declared
<1>4. CASE Call(t).tool = "delete_file"
  BY <1>1, <1>4 DEF Shown, Declared
<1>5. CASE Call(t).tool \in {"copy_file", "move_file", "rename_file"}
  BY <1>1, <1>5 DEF Shown, Declared
<1> QED BY <1>2, <1>3, <1>4, <1>5 DEF Writes

\* The text of a file is the text it was made of.
LEMMA FileText == ASSUME NEW text PROVE File(text).text = text
  BY DEF File

\* Each text that a write takes was shown, or came while the call ran.
LEMMA WriteLoss ==
    ASSUME ToolTyped, NEW t \in Threads, ThreadOK(t), th[t].pc = "act", Call(t).tool # "delete_file",
           NEW new, new = HandlerAct(disk, Call(t), th[t].plan.text).disk, NEW p \in Taken(new)
    PROVE  Excused(t, p)
<1>1. /\ p \in Paths /\ IsFile(disk, p) /\ new[p] # disk[p]
      /\ \A c \in Calls : new[p].text # disk[p].text \o c.text
  BY DEF Taken
<1>2. Call(t).tool \in Writes /\ DOMAIN disk = Paths /\ Exists(disk, p)
  BY <1>1 DEF ThreadOK, PlanMade, ToolTyped, IsFile, Exists
<1>3. new \in Outcomes(Call(t), th[t].plan.text)
  BY HandlerMakes
<1>4. IF Call(t).tool \in {"write_file", "patch_file"} THEN p = Call(t).path
      ELSE p = Call(t).target \/ (p = Call(t).path /\ Call(t).tool # "copy_file")
  BY <1>1, <1>2, <1>3, HandlerChanges
<1>5. p \in Shown(ToolOf(t), Call(t))
  BY <1>1, <1>2, <1>4, TargetsShown
<1>6. ~(Call(t).tool = "write_file" /\ Call(t).mode = "create")
  BY <1>1, <1>2, <1>4, HandlerMakes
<1>7. CASE th[t].req.ticket # None
  BY <1>1, <1>5, <1>6, <1>7, ShownIsExcused DEF ThreadOK, GatePassed
<1>8. CASE th[t].req.ticket = None
  <2>1. CASE Call(t).tool = "write_file" /\ Call(t).mode = "append"
    <3>1. new = [disk EXCEPT ![p] = File(disk[p].text \o Call(t).text)]
      <4>1. new \in {disk, [disk EXCEPT ![p] = File(disk[p].text \o Call(t).text)]}
        BY <1>4, <2>1, HandlerMakes
      <4> QED BY <4>1, <1>1
    <3>2. new[p].text = disk[p].text \o Call(t).text
      <4>1. new[p] = File(disk[p].text \o Call(t).text)
        BY <1>1, <1>2, <3>1
      <4> QED BY <4>1, FileText
    <3>3. \E c \in Calls : Call(t).text = c.text
      BY CallKept DEF ThreadOK
    <3> QED BY <1>1, <3>2, <3>3
  <2>2. CASE Call(t).tool = "copy_file" /\ Call(t).mode # "overwrite"
    <3>1. p = Call(t).target
      BY <1>4, <2>2
    <3>2. p \in moved[t]
      BY <1>1, <1>2, <2>2, <3>1 DEF ThreadOK, PlanMade
    <3> QED BY <1>6, <3>2 DEF Excused
  <2>3. \/ Call(t).tool = "write_file" /\ Call(t).mode \in {"create", "append"}
        \/ Call(t).tool = "copy_file" /\ Call(t).mode # "overwrite"
    BY <1>2, <1>8, WithoutTicket
  <2> QED BY <1>6, <2>1, <2>2, <2>3
<1> QED BY <1>7, <1>8

\* So was each that a removal takes.
LEMMA UnlinkLoss ==
    ASSUME ToolTyped, NEW t \in Threads, ThreadOK(t), th[t].pc = "act", Call(t).tool = "delete_file",
           NEW new, new = Unlink(disk, Head(th[t].plan.todo)).disk, NEW p \in Taken(new)
    PROVE  Excused(t, p)
<1> DEFINE h == Head(th[t].plan.todo)
<1>1. p \in Paths /\ IsFile(disk, p) /\ new[p] # disk[p]
  BY DEF Taken
<1>2. new \in {disk, [disk EXCEPT ![h] = Missing]}
  BY UnlinkMakes
<1>3. p = h
  <2> HIDE DEF h
  <2> QED BY <1>1, <1>2 DEF ToolTyped
<1>4. Call(t).tool \in Writes /\ h \in Range(Call(t).paths)
  <2>1. th[t].plan.todo \in Seq(Range(Call(t).paths)) /\ th[t].plan.todo # <<>>
        /\ Call(t).tool \in Writes
    BY DEF ThreadOK, PlanMade
  <2> QED BY <2>1, HeadTailProperties
<1>5. p \in Shown(ToolOf(t), Call(t))
  <2> HIDE DEF h
  <2> QED BY <1>1, <1>3, <1>4, TargetsShown
<1>6. th[t].req.ticket # None
  BY <1>4, WithoutTicket
<1> QED BY <1>1, <1>5, <1>6, ShownIsExcused DEF ThreadOK, GatePassed

(********************************* steps ***************************************)

\* A thread that others leave alone is as sound as it was, when they note what they
\* change of the disk.
LEMMA Undisturbed ==
    ASSUME NEW u \in Threads, ThreadOK(u), th'[u] = th[u], moved[u] \subseteq moved'[u],
           th[u].pc \in {"run", "act"} => \A p \in Paths : disk'[p] # disk[p] => p \in moved'[u]
    PROVE  ThreadOK(u)'
<1>1. Call(u)' = Call(u) /\ ToolOf(u)' = ToolOf(u)
  BY DEF Call, ToolOf
<1>2. CASE th[u].pc \notin {"run", "act"}
  BY <1>1, <1>2 DEF ThreadOK
<1>3. CASE th[u].pc \in {"run", "act"}
  <2>1. \A p \in Paths : disk'[p] # disk[p] => p \in moved'[u]
    BY <1>3
  <2>2. ASSUME th[u].req.ticket # None PROVE AsShown(u)'
    <3>1. AsShown(u)
      BY <1>3, <2>2 DEF ThreadOK, GatePassed
    <3>2. ASSUME NEW p \in Shown(ToolOf(u), Call(u)) \cap Paths, IsFile(disk', p)
          PROVE  th[u].req.ticket.files[p] = disk'[p] \/ p \in moved'[u]
      <4>1. CASE disk'[p] = disk[p]
        <5>1. IsFile(disk, p)
          BY <3>2, <4>1 DEF IsFile
        <5>2. th[u].req.ticket.files[p] = disk[p] \/ p \in moved[u]
          BY <3>1, <5>1 DEF AsShown
        <5> QED BY <4>1, <5>2
      <4> QED BY <2>1, <4>1
    <3> QED BY <1>1, <3>1, <3>2 DEF AsShown
  <2>3. GatePassed(u)'
    BY <1>1, <1>3, <2>2 DEF ThreadOK, GatePassed
  <2>4. ASSUME th[u].pc = "act" PROVE PlanMade(u)'
    <3>1. PlanMade(u)
      BY <2>4 DEF ThreadOK
    <3>2. Targets(u)' = Targets(u)
      BY <1>1 DEF Targets
    <3>3. ASSUME Call(u).tool = "copy_file", Call(u).mode # "overwrite", Call(u).target \in Paths
          PROVE  ~Exists(disk', Call(u).target) \/ Call(u).target \in moved'[u]
      <4>1. ~Exists(disk, Call(u).target) \/ Call(u).target \in moved[u]
        BY <3>1, <3>3 DEF PlanMade
      <4> QED BY <2>1, <3>3, <4>1 DEF Exists
    <3> QED BY <1>1, <3>1, <3>2, <3>3 DEF PlanMade
  <2> QED BY <1>1, <1>3, <2>3, <2>4 DEF ThreadOK
<1> QED BY <1>2, <1>3

\* A step of one thread that leaves the disk.
LEMMA OwnStep ==
    ASSUME ToolInv, NEW t \in Threads, NEW x, th' = [th EXCEPT ![t] = x], DOMAIN x = Fields,
           disk' = disk, lost' = lost, NEW m \in SUBSET Paths, moved' = [moved EXCEPT ![t] = m],
           ThreadOK(t)'
    PROVE  ToolInv'
<1>1. ToolTyped /\ ToolTyped'
  BY DEF ToolInv, ToolTyped
<1>2. ASSUME NEW u \in Threads, u # t PROVE ThreadOK(u)'
  <2>1. th'[u] = th[u] /\ moved'[u] = moved[u]
    BY <1>1, <1>2 DEF ToolTyped
  <2> QED BY <2>1, Undisturbed DEF ToolInv
<1>3. LossWasShown' /\ ProtectedStay'
  BY DEF ToolInv, LossWasShown, ProtectedStay
<1> QED BY <1>1, <1>2, <1>3 DEF ToolInv

\* A step of one thread that changes files of the workspace and takes no text
\* without an excuse.
LEMMA TouchStep ==
    ASSUME ToolInv, NEW t \in Threads, NEW x, th' = [th EXCEPT ![t] = x], DOMAIN x = Fields,
           NEW new, Touch(t, new), DOMAIN new = Paths, \A p \in Taken(new) : Excused(t, p),
           \A p \in Paths : new[p] # disk[p] => Area[p] = "plain",
           ThreadOK(t)'
    PROVE  ToolInv'
<1>1. /\ disk' = new
      /\ moved' = [u \in Threads |-> IF u = t \/ th[u].pc \notin {"run", "act"} THEN moved[u]
                                     ELSE moved[u] \cup Changed(new)]
      /\ lost' = lost \cup {[call |-> Call(t), shown |-> Approved(t, p),
                             raced |-> p \in moved[t]] : p \in Taken(new)}
  BY DEF Touch
<1>2. ToolTyped /\ ToolTyped'
  <2>1. ToolTyped /\ Changed(new) \in SUBSET Paths
    BY DEF ToolInv, Changed
  <2> QED BY <1>1, <2>1 DEF ToolTyped
<1>3. ASSUME NEW u \in Threads, u # t PROVE ThreadOK(u)'
  <2>1. th'[u] = th[u] /\ moved[u] \subseteq moved'[u]
    BY <1>1, <1>2, <1>3 DEF ToolTyped
  <2>2. ASSUME th[u].pc \in {"run", "act"}, NEW p \in Paths, disk'[p] # disk[p] PROVE p \in moved'[u]
    BY <1>1, <1>3, <2>2 DEF Changed
  <2> QED BY <2>1, <2>2, Undisturbed DEF ToolInv
<1>4. LossWasShown'
  <2>1. ASSUME NEW p \in Taken(new),
               NEW l, l = [call |-> Call(t), shown |-> Approved(t, p), raced |-> p \in moved[t]]
        PROVE  \/ l.shown
               \/ l.raced /\ ~(l.call.tool = "write_file" /\ l.call.mode = "create")
    <3>1. Excused(t, p)
      OBVIOUS
    <3>2. l.call = Call(t) /\ l.shown = Approved(t, p) /\ l.raced = (p \in moved[t])
      BY <2>1
    <3> QED BY <3>1, <3>2 DEF Excused
  <2> QED BY <1>1, <2>1 DEF ToolInv, LossWasShown
<1>5. ProtectedStay'
  BY <1>1 DEF ToolInv, ProtectedStay
<1> QED BY <1>2, <1>3, <1>4, <1>5 DEF ToolInv

(********************************* plans ***************************************)

\* A protected path has a code to refuse it with.
LEMMA ProtectedRefused ==
    ASSUME NEW p \in Paths, Area[p] # "plain" PROVE AreaCode(p) # "ok"
  BY FileAssumption DEF AreaCode

\* A rule is a condition and a refusal.
Refuses(rule) == rule[1] => rule[2] # "ok"
AllRefuse(a, x, y, b, c, f, e) == \A rule \in {a, x, y, b, c, f, e} : Refuses(rule)

\* The last three or four rules of a target.
LastRules(b, c, f, e) == {<<b, c, e>>, <<b, c, f, e>>}

\* None of the rules of a target holds, its first and its last among them.
LEMMA NoneOf ==
    ASSUME NEW a, NEW x, NEW y, NEW b, NEW c, NEW f, NEW e,
           AllRefuse(a, x, y, b, c, f, e),
           NEW mid \in {<<>>, <<x, y>>}, NEW rest \in LastRules(b, c, f, e),
           First(<<a>> \o mid \o rest) = "ok"
    PROVE  ~a[1] /\ ~e[1]
<1> DEFINE rules == <<a>> \o mid \o rest
<1>1. \E n \in Nat : /\ n > 0 /\ DOMAIN rules = 1..n /\ rules[1] = a /\ rules[n] = e
                     /\ \A i \in 1..n : rules[i] \in {a, x, y, b, c, f, e}
  <2>1. CASE mid = <<>> /\ rest = <<b, c, e>>
    <3>1. rules[1] = a /\ rules[2] = b /\ rules[3] = c /\ rules[4] = e /\ DOMAIN rules = 1..4
      BY <2>1
    <3> QED BY <3>1
  <2>2. CASE mid = <<>> /\ rest = <<b, c, f, e>>
    <3>1. /\ rules[1] = a /\ rules[2] = b /\ rules[3] = c /\ rules[4] = f /\ rules[5] = e
          /\ DOMAIN rules = 1..5
      BY <2>2
    <3> QED BY <3>1
  <2>3. CASE mid = <<x, y>> /\ rest = <<b, c, e>>
    <3>1. /\ rules[1] = a /\ rules[2] = x /\ rules[3] = y /\ rules[4] = b /\ rules[5] = c
          /\ rules[6] = e /\ DOMAIN rules = 1..6
      BY <2>3
    <3> HIDE DEF rules
    <3>2. \A i \in 1..6 : rules[i] \in {a, x, y, b, c, f, e}
      BY <3>1
    <3> QED BY <3>1, <3>2
  <2>4. CASE mid = <<x, y>> /\ rest = <<b, c, f, e>>
    <3>1. /\ rules[1] = a /\ rules[2] = x /\ rules[3] = y /\ rules[4] = b /\ rules[5] = c
          /\ rules[6] = f /\ rules[7] = e /\ DOMAIN rules = 1..7
      BY <2>4
    <3> HIDE DEF rules
    <3>2. \A i \in 1..7 : rules[i] \in {a, x, y, b, c, f, e}
      BY <3>1
    <3> QED BY <3>1, <3>2
  <2> QED BY <2>1, <2>2, <2>3, <2>4 DEF LastRules
<1>2. PICK n \in Nat : /\ n > 0 /\ DOMAIN rules = 1..n /\ rules[1] = a /\ rules[n] = e
                      /\ \A i \in 1..n : rules[i] \in {a, x, y, b, c, f, e}
  BY <1>1
<1>3. \A i \in 1..n : ~rules[i][1]
  <2>1. \A i \in 1..n : rules[i][1] => rules[i][2] # "ok"
    <3> HIDE DEF rules
    <3> QED BY <1>2 DEF Refuses, AllRefuse
  <2>2. First(rules) = "ok" /\ DOMAIN rules = 1..n
    BY <1>2
  <2> HIDE DEF rules
  <2> QED BY <2>1, <2>2, FirstOk
<1> HIDE DEF rules
<1> QED BY <1>2, <1>3

\* A target to write is in the workspace.
LEMMA WriteTargetPlain ==
    ASSUME NEW d, NEW p \in Paths, NEW mode, WriteTarget(d, p, mode) = "ok"
    PROVE  Area[p] = "plain"
<1> DEFINE a == <<Area[p] # "plain", AreaCode(p)>>
           x == <<~Exists(d, Parent[p]), "parent_directory_not_found">>
           y == <<IsFile(d, Parent[p]), "not_a_directory">>
           b == <<p \in Linked, "sensitive_path_blocked">>
           c == <<d[p].kind = "directory", "not_a_file">>
           f == <<mode = "create" /\ Exists(d, p), "file_already_exists">>
           e == <<mode \in {"overwrite", "append"} /\ ~Exists(d, p), "file_not_found">>
<1>1. First(<<a>> \o ParentRules(d, p) \o <<b, c, f, e>>) = "ok"
  BY DEF WriteTarget
<1>2. ParentRules(d, p) \in {<<>>, <<x, y>>}
  BY DEF ParentRules
<1>3. /\ Refuses(a) /\ Refuses(x) /\ Refuses(y) /\ Refuses(b) /\ Refuses(c) /\ Refuses(f)
      /\ Refuses(e)
  BY ProtectedRefused DEF Refuses
<1>4. ~a[1]
  <2>1. AllRefuse(a, x, y, b, c, f, e)
    BY ONLY <1>3 DEF AllRefuse
  <2> HIDE DEF a, x, y, b, c, f, e
  <2> DEFINE mid  == ParentRules(d, p)
             rest == <<b, c, f, e>>
  <2>2. /\ mid \in {<<>>, <<x, y>>} /\ rest \in LastRules(b, c, f, e)
        /\ First(<<a>> \o mid \o rest) = "ok"
    BY <1>1, <1>2 DEF LastRules
  <2> HIDE DEF mid, rest
  <2> QED BY <2>1, <2>2, NoneOf
<1> QED BY <1>4

\* So is the target of a copy or a move, and without leave to overwrite there is none.
LEMMA MutationTargetFree ==
    ASSUME NEW d, NEW p \in Paths, NEW mode, MutationTarget(d, p, mode = "overwrite") = "ok"
    PROVE  Area[p] = "plain" /\ (Exists(d, p) => mode = "overwrite")
<1> DEFINE a == <<Area[p] # "plain", AreaCode(p)>>
           x == <<~Exists(d, Parent[p]), "parent_directory_not_found">>
           y == <<IsFile(d, Parent[p]), "not_a_directory">>
           b == <<p \in Linked, "sensitive_path_blocked">>
           c == <<d[p].kind = "directory", "not_a_file">>
           f == c
           e == <<Exists(d, p) /\ mode # "overwrite", "file_already_exists">>
<1>1. First(<<a>> \o ParentRules(d, p) \o <<b, c, e>>) = "ok"
  BY DEF MutationTarget
<1>2. ParentRules(d, p) \in {<<>>, <<x, y>>}
  BY DEF ParentRules
<1>3. /\ Refuses(a) /\ Refuses(x) /\ Refuses(y) /\ Refuses(b) /\ Refuses(c) /\ Refuses(f)
      /\ Refuses(e)
  BY ProtectedRefused DEF Refuses
<1>4. ~a[1] /\ ~e[1]
  <2>1. AllRefuse(a, x, y, b, c, f, e)
    BY ONLY <1>3 DEF AllRefuse
  <2> HIDE DEF a, x, y, b, c, f, e
  <2> DEFINE mid  == ParentRules(d, p)
             rest == <<b, c, e>>
  <2>2. /\ mid \in {<<>>, <<x, y>>} /\ rest \in LastRules(b, c, f, e)
        /\ First(<<a>> \o mid \o rest) = "ok"
    BY <1>1, <1>2 DEF LastRules
  <2> HIDE DEF mid, rest
  <2> QED BY <2>1, <2>2, NoneOf
<1> QED BY <1>4

\* And the file to patch, to copy or to move.
LEMMA ExistingFilePlain ==
    ASSUME NEW d, NEW p \in Paths, ExistingFile(d, p) = "ok"
    PROVE  Area[p] = "plain"
<1> DEFINE rules == << <<Area[p] # "plain", AreaCode(p)>>,
                       <<~Exists(d, p), "file_not_found">>,
                       <<~IsFile(d, p), "not_a_file">>,
                       <<p \in Linked, "sensitive_path_blocked">> >>
<1>1. First(rules) = "ok" /\ DOMAIN rules = 1..4
  BY DEF ExistingFile
<1>2. \A i \in 1..4 : rules[i][1] => rules[i][2] # "ok"
  <2>1. /\ rules[1][1] => rules[1][2] # "ok"
        /\ rules[2][2] # "ok" /\ rules[3][2] # "ok" /\ rules[4][2] # "ok"
    BY ProtectedRefused
  <2> HIDE DEF rules
  <2> QED BY <2>1
<1>3. \A i \in 1..4 : ~rules[i][1]
  <2> HIDE DEF rules
  <2> QED BY <1>1, <1>2, FirstOk
<1>4. ~rules[1][1]
  <2> HIDE DEF rules
  <2> QED BY <1>3
<1> QED BY <1>4

\* And each file to delete.
LEMMA DeleteTargetPlain ==
    ASSUME NEW d, NEW p \in Paths, DeleteTarget(d, p) = "ok"
    PROVE  Area[p] = "plain"
<1> DEFINE rules == << <<Area[p] # "plain", AreaCode(p)>>,
                       <<~Exists(d, p), "file_not_found">>,
                       <<d[p].kind = "directory", "delete_directory_not_allowed">>,
                       <<p \in Linked, "sensitive_path_blocked">> >>
<1>1. First(rules) = "ok" /\ DOMAIN rules = 1..4
  BY DEF DeleteTarget
<1>2. \A i \in 1..4 : rules[i][1] => rules[i][2] # "ok"
  <2>1. /\ rules[1][1] => rules[1][2] # "ok"
        /\ rules[2][2] # "ok" /\ rules[3][2] # "ok" /\ rules[4][2] # "ok"
    BY ProtectedRefused
  <2> HIDE DEF rules
  <2> QED BY <2>1
<1>3. \A i \in 1..4 : ~rules[i][1]
  <2> HIDE DEF rules
  <2> QED BY <1>1, <1>2, FirstOk
<1>4. ~rules[1][1]
  <2> HIDE DEF rules
  <2> QED BY <1>3
<1> QED BY <1>4

\* What a handler plans, when it has nothing to refuse, is as PlanMade says.
LEMMA MadePlan ==
    ASSUME NEW t \in Threads, ThreadOK(t), th[t].pc = "run", Call(t).tool \in Writes,
           HandlerPlan(disk, Call(t)).code = "ok",
           disk' = disk, th'[t].req = th[t].req, th'[t].plan = HandlerPlan(disk, Call(t))
    PROVE  PlanMade(t)'
<1> DEFINE call == Call(t)
           plan == HandlerPlan(disk, call)
<1>1. Call(t)' = call /\ IsCall(call)
  BY DEF Call, ThreadOK
<1>2. CASE call.tool = "write_file"
  <2>1. WriteTarget(disk, call.path, call.mode) = "ok"
    BY <1>2 DEF HandlerPlan, WritePlan, Plan
  <2>2. call.path \in Paths => Area[call.path] = "plain"
    BY <2>1, WriteTargetPlain
  <2>3. Targets(t)' = {call.path}
    BY <1>1, <1>2 DEF Targets
  <2> QED BY <1>1, <1>2, <2>2, <2>3 DEF PlanMade
<1>3. CASE call.tool = "patch_file"
  <2>1. ExistingFile(disk, call.path) = "ok"
    BY <1>3 DEF HandlerPlan, PatchFilePlan, Plan
  <2>2. call.path \in Paths => Area[call.path] = "plain"
    BY <2>1, ExistingFilePlain
  <2>3. Targets(t)' = {call.path}
    BY <1>1, <1>3 DEF Targets
  <2> QED BY <1>1, <1>3, <2>2, <2>3 DEF PlanMade
<1>4. CASE call.tool \in {"copy_file", "move_file", "rename_file"}
  <2> DEFINE codes == <<ExistingFile(disk, call.path),
                        IF call.path = call.target THEN "file_conflict" ELSE "ok",
                        MutationTarget(disk, call.target, call.mode = "overwrite")>>
  <2>1. FirstRefusal(codes) = "ok" /\ DOMAIN codes = 1..3
    BY <1>4 DEF HandlerPlan, MutationPlan, Plan
  <2>2. \A i \in 1..3 : codes[i] = "ok"
    <3> HIDE DEF codes
    <3> QED BY <2>1, NoRefusal
  <2>3. codes[1] = "ok" /\ codes[3] = "ok"
    <3> HIDE DEF codes
    <3> QED BY <2>2
  <2>4. call.path \in Paths => Area[call.path] = "plain"
    BY <2>3, ExistingFilePlain
  <2>5. call.target \in Paths => /\ Area[call.target] = "plain"
                                 /\ Exists(disk, call.target) => call.mode = "overwrite"
    BY <2>3, MutationTargetFree
  <2>6. Targets(t)' \subseteq {call.path, call.target} /\ call.tool \in Writes
    BY <1>1, <1>4 DEF Targets, Writes
  <2>7. Exists(disk, call.target)' = Exists(disk, call.target)
    BY <1>1 DEF Exists
  <2> QED BY <1>1, <1>4, <2>4, <2>5, <2>6, <2>7 DEF PlanMade
<1>5. CASE call.tool = "delete_file"
  <2> DEFINE ps       == call.paths
             again(i) == IF \E j \in 1..(i - 1) : ps[j] = ps[i] THEN "file_conflict" ELSE "ok"
             codes    == [i \in DOMAIN ps |-> FirstRefusal(<<DeleteTarget(disk, ps[i]), again(i)>>)]
  <2>1. FirstRefusal(codes) = "ok" /\ plan.todo = ps /\ "todo" \in DOMAIN plan
    BY <1>5 DEF HandlerPlan, DeletePlan, Plan
  <2>2. ps \in Seq(Paths) /\ ps # <<>>
    <3>1. PICK c \in Calls : /\ call.paths = c.paths
                            /\ call.tool \in {spec.name : spec \in Registered(c.tool)}
      BY <1>1, CallKept
    <3> QED BY <1>5, <3>1, RuntimeAssumption
  <2>3. \A i \in 1..Len(ps) : codes[i] = "ok"
    <3>1. Len(ps) \in Nat /\ DOMAIN codes = 1..Len(ps)
      BY <2>2
    <3> HIDE DEF codes
    <3> QED BY <2>1, <3>1, NoRefusal
  <2>4. ASSUME NEW i \in 1..Len(ps) PROVE Area[ps[i]] = "plain" /\ ps[i] \in Range(ps)
    <3> DEFINE two == <<DeleteTarget(disk, ps[i]), again(i)>>
    <3>1. i \in DOMAIN ps /\ ps[i] \in Paths
      BY <2>2
    <3>2. FirstRefusal(two) = "ok" /\ DOMAIN two = 1..2
      <4>1. codes[i] = FirstRefusal(two) /\ DOMAIN two = 1..2
        BY <3>1
      <4> QED BY ONLY <2>3, <4>1
    <3>3. \A k \in 1..2 : two[k] = "ok"
      <4> HIDE DEF two
      <4> QED BY <3>2, NoRefusal
    <3>4. two[1] = "ok"
      <4> HIDE DEF two
      <4> QED BY <3>3
    <3>5. ps[i] \in Range(ps)
      BY <3>1 DEF Range
    <3> QED BY <3>1, <3>4, <3>5, DeleteTargetPlain
  <2>5. Range(ps) = {ps[i] : i \in 1..Len(ps)}
    BY <2>2 DEF Range
  <2>6. ps \in Seq(Range(ps))
    BY <2>2, <2>5
  <2>7. Targets(t)' = Range(ps)
    BY <1>1, <1>5, <2>1 DEF Targets
  <2>8. \A p \in Targets(t)' \cap Paths : Area[p] = "plain"
    BY <2>4, <2>5, <2>7
  <2> QED BY <1>1, <1>5, <2>1, <2>2, <2>6, <2>8 DEF PlanMade
<1> QED BY <1>2, <1>3, <1>4, <1>5 DEF Writes

(********************************* actions *************************************)

\* What the actions make of the record of a thread.
LEMMA Shapes ==
    ASSUME NEW t, DOMAIN th[t] = Fields
    PROVE  /\ \A pc : /\ Goto(t, pc).pc = pc /\ DOMAIN Goto(t, pc) = Fields
                      /\ Goto(t, pc).req = th[t].req /\ Goto(t, pc).plan = th[t].plan
           /\ \A code : Ended(t, code).pc = "idle" /\ DOMAIN Ended(t, code) = Fields
  BY DEF Goto, Ended, Fields

\* A thread whose call is over, or that has not passed the gate, is sound.
LEMMA OutsideOfHandlers ==
    ASSUME ToolTyped, NEW t \in Threads, NEW x, th' = [th EXCEPT ![t] = x],
           \/ x.pc = "idle"
           \/ /\ x.pc \in {"gate", "asked", "reread"}
              /\ IsCall(x.req.call) /\ DOMAIN x.req = ReqFields
    PROVE  ThreadOK(t)'
<1>1. th'[t] = x
  BY DEF ToolTyped
<1> QED BY <1>1 DEF ThreadOK, Call

\* To begin with, no execution calls a tool.
LEMMA InitSound == ASSUME Init PROVE ToolInv
<1>1. DOMAIN NoCall = Fields /\ NoCall.pc = "idle"
  BY DEF NoCall, Fields
<1>2. ToolTyped
  BY <1>1, RuntimeAssumption DEF Init, ToolTyped
<1>3. \A t \in Threads : ThreadOK(t)
  BY <1>1 DEF Init, ThreadOK
<1> QED BY <1>2, <1>3 DEF Init, ToolInv, LossWasShown, ProtectedStay

\* A step that leaves the disk and ends outside of the handlers.
LEMMA QuietStep ==
    ASSUME ToolInv, NEW t \in Threads, NEW x, th' = [th EXCEPT ![t] = x], DOMAIN x = Fields,
           \/ x.pc = "idle"
           \/ /\ x.pc \in {"gate", "asked", "reread"}
              /\ IsCall(x.req.call) /\ DOMAIN x.req = ReqFields,
           UNCHANGED <<disk, lost, moved>>
    PROVE  ToolInv'
<1>1. ThreadOK(t)'
  BY OutsideOfHandlers DEF ToolInv
<1>2. ToolTyped
  BY DEF ToolInv
<1>3. moved[t] \in SUBSET Paths /\ moved' = [moved EXCEPT ![t] = moved[t]]
  BY <1>2 DEF ToolTyped
<1>4. disk' = disk /\ lost' = lost
  OBVIOUS
<1> QED BY <1>1, <1>3, <1>4, OwnStep

\* A call is begun.
LEMMA BeginSound ==
    ASSUME ToolInv, NEW t \in Threads, NEW call \in Calls, NEW marked \in BOOLEAN, Begin(t, call, marked)
    PROVE  ToolInv'
<1> DEFINE x == IF Registered(call.tool) = {} THEN Blocked
                ELSE Submitted(SpecOf(call.tool), call, marked)
<1>1. th' = [th EXCEPT ![t] = x] /\ UNCHANGED <<disk, lost, moved>>
  BY DEF Begin
<1>2. DOMAIN NoCall = Fields /\ NoCall.pc = "idle"
  BY DEF NoCall, Fields
<1>3. DOMAIN Blocked = Fields /\ Blocked.pc = "idle"
  BY <1>2 DEF Blocked, Fields
<1>4. CASE x = Blocked
  <2> HIDE DEF x
  <2> QED BY <1>1, <1>3, <1>4, QuietStep
<1>5. CASE x # Blocked
  <2> DEFINE spec == SpecOf(call.tool)
             own  == [call EXCEPT !.tool = spec.name]
             req  == [call |-> own, ticket |-> None, dry |-> Safety(spec, call, marked) = "confirm",
                      require |-> RequireOption(spec, marked)]
  <2>1. Registered(call.tool) # {} /\ spec \in Registered(call.tool)
    BY <1>5 DEF SpecOf
  <2>2. x = [NoCall EXCEPT !.pc = "gate", !.req = req]
    BY <1>5, <2>1 DEF Submitted
  <2>3. x.pc = "gate" /\ x.req = req /\ DOMAIN x = Fields
    <3> HIDE DEF req, x
    <3> QED BY <1>2, <2>2 DEF Fields
  <2>4. req.call = own /\ DOMAIN req = ReqFields
    <3> HIDE DEF own
    <3> QED BY DEF ReqFields
  <2>5. IsCall(own)
    BY <2>1 DEF IsCall
  <2> HIDE DEF x, req, own
  <2> QED BY <1>1, <2>3, <2>4, <2>5, QuietStep
<1> QED BY <1>4, <1>5

\* A call comes to the gate.
LEMMA ExecuteSound ==
    ASSUME ToolInv, NEW t \in Threads, Execute(t) PROVE ToolInv'
<1>0. ToolTyped /\ ThreadOK(t) /\ th[t].pc = "gate"
  BY DEF ToolInv, Execute
<1>1. PICK code, preview : th' = [th EXCEPT ![t] = AfterGate(t, code, preview)]
  BY DEF Execute
<1>2. disk' = disk /\ lost' = lost /\ moved' = [moved EXCEPT ![t] = {}]
  BY DEF Execute
<1>3. DOMAIN th[t] = Fields /\ IsCall(th[t].req.call) /\ DOMAIN th[t].req = ReqFields
  BY <1>0 DEF ToolTyped, ThreadOK, Call
<1> DEFINE x == AfterGate(t, code, preview)
<1>4. /\ DOMAIN x = Fields
      /\ \/ x.pc = "idle"
         \/ x.pc \in {"asked", "run"} /\ x.req = th[t].req
  <2>1. CASE code = "ok"
    BY <1>3, <2>1, Shapes DEF AfterGate
  <2>2. CASE code = "dry_run_preview"
    <3>1. x = [Goto(t, "asked") EXCEPT !.preview = preview]
      BY <2>2 DEF AfterGate
    <3>2. DOMAIN Goto(t, "asked") = Fields /\ Goto(t, "asked").pc = "asked"
          /\ Goto(t, "asked").req = th[t].req
      BY <1>3, Shapes
    <3> HIDE DEF x
    <3> QED BY <3>1, <3>2 DEF Fields
  <2>3. CASE code \notin {"ok", "dry_run_preview"}
    BY <1>3, <2>3, Shapes DEF AfterGate
  <2> QED BY <2>1, <2>2, <2>3
<1> HIDE DEF x
<1>5. th' = [th EXCEPT ![t] = x] /\ th'[t] = x
  BY <1>0, <1>1 DEF x, ToolTyped
<1>6. ThreadOK(t)'
  <2>1. CASE x.pc = "run"
    <3>1. GatePassed(t)' /\ th'[t].req = th[t].req
      BY <1>0, <1>5, <2>1, PassingTheGate
    <3> QED BY <1>3, <1>5, <2>1, <3>1 DEF ThreadOK, Call
  <2>2. CASE x.pc # "run"
    BY <1>0, <1>3, <1>4, <1>5, <2>2, OutsideOfHandlers
  <2> QED BY <2>1, <2>2
<1> DEFINE m == {}
<1>7. m \in SUBSET Paths /\ moved' = [moved EXCEPT ![t] = m]
  BY <1>2
<1> HIDE DEF m
<1>8. DOMAIN x = Fields /\ th' = [th EXCEPT ![t] = x] /\ disk' = disk /\ lost' = lost
  BY <1>2, <1>4, <1>5
<1> QED BY <1>6, <1>7, <1>8, OwnStep

\* The user answers.
LEMMA AnswerSound ==
    ASSUME ToolInv, NEW t \in Threads, Approve(t) \/ Decline(t) PROVE ToolInv'
<1>0. ToolTyped /\ ThreadOK(t) /\ th[t].pc = "asked" /\ UNCHANGED <<disk, lost, moved>>
  BY DEF ToolInv, Approve, Decline
<1>1. DOMAIN th[t] = Fields /\ IsCall(th[t].req.call) /\ DOMAIN th[t].req = ReqFields
  BY <1>0 DEF ToolTyped, ThreadOK, Call
<1>2. CASE Approve(t)
  <2> DEFINE g == Goto(t, "gate")
             x == [g EXCEPT !.req.ticket = th[t].preview, !.req.dry = FALSE]
  <2>1. th' = [th EXCEPT ![t] = x]
    BY <1>2 DEF Approve
  <2>2. g.pc = "gate" /\ DOMAIN g = Fields /\ g.req = th[t].req
    BY <1>1, Shapes
  <2>3. x.pc = "gate" /\ DOMAIN x = Fields
        /\ x.req = [th[t].req EXCEPT !.ticket = th[t].preview, !.dry = FALSE]
    <3> HIDE DEF g
    <3> QED BY <2>2 DEF Fields
  <2>4. x.req.call = th[t].req.call /\ DOMAIN x.req = ReqFields
    <3> HIDE DEF x
    <3> QED BY <1>1, <2>3 DEF ReqFields
  <2> HIDE DEF x
  <2> QED BY <1>0, <1>1, <2>1, <2>3, <2>4, QuietStep
<1>3. CASE Decline(t)
  BY <1>0, <1>1, <1>3, Shapes, QuietStep DEF Decline, Finish
<1> QED BY <1>2, <1>3

\* A handler that leaves the disk comes to its end.
LEMMA EndSound ==
    ASSUME ToolInv, NEW t \in Threads, Read(t) \/ Compute(t) \/ Reread(t) PROVE ToolInv'
<1>0. ToolTyped /\ DOMAIN th[t] = Fields /\ UNCHANGED <<disk, lost, moved>>
  BY DEF ToolInv, ToolTyped, Read, Compute, Reread
<1>1. CASE Read(t)
  <2>1. PICK code, answer : th' = [th EXCEPT ![t] = [Ended(t, code) EXCEPT !.result.answer = answer]]
    BY <1>1 DEF Read
  <2>2. Ended(t, code).pc = "idle" /\ DOMAIN Ended(t, code) = Fields
    BY <1>0, Shapes
  <2> DEFINE x == [Ended(t, code) EXCEPT !.result.answer = answer]
  <2>3. x.pc = "idle" /\ DOMAIN x = Fields
    BY <2>2 DEF Fields
  <2> HIDE DEF x
  <2>4. th' = [th EXCEPT ![t] = x]
    BY <2>1 DEF x
  <2> QED BY <1>0, <2>3, <2>4, QuietStep
<1>2. CASE Compute(t) \/ Reread(t)
  <2>1. PICK code : th' = [th EXCEPT ![t] = Ended(t, code)]
    BY <1>2 DEF Compute, Reread, Finish
  <2> QED BY <1>0, <2>1, Shapes, QuietStep
<1> QED BY <1>1, <1>2

\* A handler that writes makes its plan.
LEMMA MakePlanSound ==
    ASSUME ToolInv, NEW t \in Threads, MakePlan(t) PROVE ToolInv'
<1> DEFINE plan == HandlerPlan(disk, Call(t))
           x    == AfterPlan(t, plan)
<1>0. ToolTyped /\ ThreadOK(t) /\ th[t].pc = "run" /\ Call(t).tool \in Writes
  BY DEF ToolInv, MakePlan
<1>1. DOMAIN th[t] = Fields /\ IsCall(Call(t)) /\ DOMAIN th[t].req = ReqFields /\ GatePassed(t)
  BY <1>0 DEF ToolTyped, ThreadOK
<1>2. th' = [th EXCEPT ![t] = x] /\ UNCHANGED <<disk, lost, moved>>
  BY DEF MakePlan
<1>3. th'[t] = x
  BY <1>0, <1>2 DEF ToolTyped
<1>4. CASE plan.code # "ok"
  <2>1. x = Ended(t, plan.code)
    BY <1>4 DEF AfterPlan
  <2>2. x.pc = "idle" /\ DOMAIN x = Fields
    BY <1>1, <2>1, Shapes
  <2> HIDE DEF x
  <2> QED BY <1>2, <2>2, QuietStep
<1>5. CASE plan.code = "ok"
  <2> DEFINE g == Goto(t, "act")
  <2>1. g.pc = "act" /\ DOMAIN g = Fields /\ g.req = th[t].req
    BY <1>1, Shapes
  <2>2. x = [g EXCEPT !.plan = plan]
    BY <1>5 DEF AfterPlan
  <2>3. x.pc = "act" /\ DOMAIN x = Fields /\ x.req = th[t].req /\ x.plan = plan
    <3> HIDE DEF g, x, plan
    <3> QED BY <2>1, <2>2 DEF Fields
  <2>4. PlanMade(t)'
    <3>1. th'[t].req = th[t].req /\ th'[t].plan = HandlerPlan(disk, Call(t)) /\ disk' = disk
      BY <1>2, <1>3, <2>3
    <3>2. HandlerPlan(disk, Call(t)).code = "ok"
      BY <1>5
    <3> QED BY <1>0, <3>1, <3>2, MadePlan
  <2>5. ThreadOK(t)'
    <3>1. th'[t].pc = "act" /\ th'[t].req = th[t].req
      BY <1>3, <2>3
    <3>2. GatePassed(t)'
      BY <1>1, <1>2, <3>1 DEF GatePassed, AsShown, ToolOf, Call
    <3> QED BY <1>1, <2>4, <3>1, <3>2 DEF ThreadOK, Call
  <2>6. moved[t] \in SUBSET Paths /\ moved' = [moved EXCEPT ![t] = moved[t]]
    BY <1>0, <1>2 DEF ToolTyped
  <2>7. DOMAIN x = Fields /\ th' = [th EXCEPT ![t] = x] /\ disk' = disk /\ lost' = lost
    BY <1>2, <2>3
  <2> HIDE DEF x
  <2> QED BY <2>5, <2>6, <2>7, OwnStep
<1> QED BY <1>4, <1>5

\* A handler writes.
LEMMA ActSound ==
    ASSUME ToolInv, NEW t \in Threads, Act(t) PROVE ToolInv'
<1> DEFINE made == HandlerAct(disk, Call(t), th[t].plan.text)
           new  == made.disk
           x    == IF made.code = "ok" /\ Rereads(Call(t)) THEN Goto(t, "reread")
                   ELSE Ended(t, made.code)
<1>0. /\ ToolTyped /\ ThreadOK(t) /\ th[t].pc = "act" /\ Call(t).tool # "delete_file"
      /\ Touch(t, new) /\ th' = [th EXCEPT ![t] = x]
  BY DEF ToolInv, Act
<1>1. DOMAIN th[t] = Fields /\ IsCall(Call(t)) /\ DOMAIN th[t].req = ReqFields /\ PlanMade(t)
  BY <1>0 DEF ToolTyped, ThreadOK
<1>2. new \in Outcomes(Call(t), th[t].plan.text) /\ DOMAIN disk = Paths
  BY <1>0, HandlerMakes DEF ToolTyped
<1>3. DOMAIN new = Paths
  <2> HIDE DEF new
  <2> QED BY <1>2, HandlerChanges
<1>4. ASSUME NEW p \in Paths, new[p] # disk[p] PROVE Area[p] = "plain"
  <2>1. IF Call(t).tool \in {"write_file", "patch_file"} THEN p = Call(t).path
        ELSE p = Call(t).target \/ (p = Call(t).path /\ Call(t).tool # "copy_file")
    <3> HIDE DEF new
    <3> QED BY <1>2, <1>4, HandlerChanges
  <2>2. p \in Targets(t)
    BY <1>0, <1>1, <2>1 DEF Targets, PlanMade, Writes
  <2> QED BY <1>1, <2>2 DEF PlanMade
<1>5. \A p \in Taken(new) : Excused(t, p)
  BY <1>0, WriteLoss
<1>6. /\ DOMAIN x = Fields
      /\ \/ x.pc = "idle"
         \/ x.pc = "reread" /\ x.req = th[t].req
  BY <1>1, Shapes
<1>7. ThreadOK(t)'
  <2> HIDE DEF x
  <2> QED BY <1>0, <1>1, <1>6, OutsideOfHandlers DEF Call
<1> HIDE DEF x, new
<1> QED BY <1>0, <1>3, <1>4, <1>5, <1>6, <1>7, TouchStep

\* A handler removes one file; those still to go are some of its targets.
LEMMA UnlinkSound ==
    ASSUME ToolInv, NEW t \in Threads, UnlinkNext(t) PROVE ToolInv'
<1> DEFINE todo == th[t].plan.todo
           h    == Head(todo)
           made == Unlink(disk, h)
           new  == made.disk
           x    == IF made.code # "ok" THEN Ended(t, made.code)
                   ELSE [(IF Len(todo) > 1 THEN th[t] ELSE Ended(t, "ok"))
                         EXCEPT !.plan.todo = Tail(todo)]
<1>0. /\ ToolTyped /\ ThreadOK(t) /\ th[t].pc = "act" /\ Call(t).tool = "delete_file"
      /\ Touch(t, new) /\ th' = [th EXCEPT ![t] = x]
  BY DEF ToolInv, UnlinkNext
<1>1. /\ DOMAIN th[t] = Fields /\ IsCall(Call(t)) /\ DOMAIN th[t].req = ReqFields
      /\ PlanMade(t) /\ GatePassed(t)
  BY <1>0 DEF ToolTyped, ThreadOK
<1>2. new \in {disk, [disk EXCEPT ![h] = Missing]} /\ DOMAIN disk = Paths
  BY <1>0, UnlinkMakes DEF ToolTyped
<1>3. DOMAIN new = Paths
  <2> HIDE DEF new, h
  <2> QED BY <1>2
<1>4. todo \in Seq(Range(Call(t).paths)) /\ todo # <<>> /\ Targets(t) = Range(todo)
  BY <1>0, <1>1 DEF PlanMade, Targets
<1>5. ASSUME NEW p \in Paths, new[p] # disk[p] PROVE p = h /\ Area[p] = "plain" /\ ~IsFile(new, p)
  <2>1. p = h /\ new[p] = Missing
    <3> HIDE DEF new, h
    <3> QED BY <1>2, <1>5
  <2>2. h \in Range(todo)
    <3> HIDE DEF todo
    <3>1. 1 \in DOMAIN todo /\ h = todo[1]
      BY <1>4
    <3> QED BY <3>1 DEF Range
  <2>3. ~IsFile(new, p)
    <3> HIDE DEF new, h
    <3> QED BY <2>1 DEF IsFile, Missing
  <2>4. Area[p] = "plain"
    <3> HIDE DEF new, h, todo
    <3> QED BY <1>1, <1>4, <2>1, <2>2 DEF PlanMade
  <2> QED BY <2>1, <2>3, <2>4
<1>6. \A p \in Taken(new) : Excused(t, p)
  BY <1>0, UnlinkLoss
<1>7. CASE made.code = "ok" /\ Len(todo) > 1
  <2>1. x = [th[t] EXCEPT !.plan.todo = Tail(todo)]
    BY <1>7
  <2>2. /\ DOMAIN x = Fields /\ x.pc = "act" /\ x.req = th[t].req
        /\ x.plan = [th[t].plan EXCEPT !.todo = Tail(todo)]
    <3> HIDE DEF x, todo
    <3> QED BY <1>0, <1>1, <2>1 DEF Fields
  <2>3. /\ th'[t] = x /\ disk' = new /\ moved'[t] = moved[t]
        /\ Call(t)' = Call(t) /\ ToolOf(t)' = ToolOf(t)
    <3>1. th'[t] = x
      <4> HIDE DEF x
      <4> QED BY <1>0 DEF ToolTyped
    <3>2. disk' = new /\ moved'[t] = moved[t]
      BY <1>0 DEF Touch
    <3> HIDE DEF x, new
    <3> QED BY <2>2, <3>1, <3>2 DEF Call, ToolOf
  <2>4. ThreadOK(t)'
    <3>1. ASSUME th[t].req.ticket # None PROVE AsShown(t)'
      <4>1. AsShown(t)
        BY <1>1, <3>1 DEF GatePassed
      <4>2. ASSUME NEW p \in Shown(ToolOf(t), Call(t)) \cap Paths, IsFile(new, p)
            PROVE  th[t].req.ticket.files[p] = new[p] \/ p \in moved[t]
        <5>1. new[p] = disk[p]
          BY <1>5, <4>2
        <5> HIDE DEF new
        <5>2. IsFile(disk, p)
          BY <4>2, <5>1 DEF IsFile
        <5> QED BY <4>1, <4>2, <5>1, <5>2 DEF AsShown
      <4> HIDE DEF x, new
      <4> QED BY <2>2, <2>3, <4>1, <4>2 DEF AsShown
    <3>2. GatePassed(t)'
      <4> HIDE DEF x, new
      <4> QED BY <1>1, <2>2, <2>3, <3>1 DEF GatePassed
    <3>3. PlanMade(t)'
      <4>1. th'[t].plan = [th[t].plan EXCEPT !.todo = Tail(todo)]
        BY <2>2, <2>3
      <4>2. th[t].plan.todo = todo
        OBVIOUS
      <4> HIDE DEF todo, x, new
      <4>3. /\ Tail(todo) \in Seq(Range(Call(t).paths)) /\ Tail(todo) # <<>>
            /\ Range(Tail(todo)) \subseteq Range(todo)
        <5>1. Len(Tail(todo)) = Len(todo) - 1 /\ \A i \in 1..Len(Tail(todo)) : Tail(todo)[i] = todo[i + 1]
          BY <1>4, HeadTailProperties
        <5>2. Len(todo) \in Nat /\ Len(todo) > 1 /\ Tail(todo) \in Seq(Range(Call(t).paths))
          BY <1>4, <1>7, HeadTailProperties
        <5>3. Tail(todo) # <<>>
          <6>1. Len(Tail(todo)) = Len(todo) - 1 /\ Len(todo) \in Nat /\ Len(todo) > 1
            BY <5>1, <5>2
          <6> DEFINE rest == Tail(todo)
                     n    == Len(todo)
          <6>2. Len(rest) = n - 1 /\ n \in Nat /\ n > 1
            BY ONLY <6>1
          <6> HIDE DEF n
          <6> HIDE DEF rest
          <6>3. rest # <<>>
            BY ONLY <6>2
          <6> QED BY <6>3 DEF rest
        <5>4. ASSUME NEW i \in DOMAIN Tail(todo) PROVE Tail(todo)[i] \in Range(todo)
          <6>1. i \in 1..(Len(todo) - 1) /\ i + 1 \in DOMAIN todo /\ Tail(todo)[i] = todo[i + 1]
            BY <1>4, <5>1, <5>2
          <6> QED BY <6>1 DEF Range
        <5> QED BY <5>2, <5>3, <5>4 DEF Range
      <4>4. "todo" \in DOMAIN th[t].plan
        BY <1>0, <1>1 DEF PlanMade
      <4>5. th'[t].plan.todo = Tail(todo)
        BY <4>1, <4>4
      <4>6. Targets(t)' = Range(Tail(todo))
        BY <1>0, <2>3, <4>5 DEF Targets
      <4>7. "todo" \in DOMAIN th'[t].plan
        BY <4>1, <4>4
      <4>8. \A p \in Targets(t)' \cap Paths : Area[p] = "plain"
        BY <1>1, <1>4, <4>3, <4>6 DEF PlanMade
      <4>9. Call(t)'.tool = "delete_file" /\ Call(t)'.tool \in Writes
        BY <1>0, <2>3 DEF Writes
      <4>10. /\ th'[t].plan.todo \in Seq(Range(Call(t)'.paths))
             /\ th'[t].plan.todo # <<>>
        BY <2>3, <4>3, <4>5
      <4> QED BY <4>7, <4>8, <4>9, <4>10 DEF PlanMade
    <3> HIDE DEF x, new
    <3> QED BY <1>1, <2>2, <2>3, <3>2, <3>3 DEF ThreadOK
  <2> HIDE DEF x, new
  <2> QED BY <1>0, <1>3, <1>5, <1>6, <2>2, <2>4, TouchStep
<1>8. CASE ~(made.code = "ok" /\ Len(todo) > 1)
  <2>1. DOMAIN x = Fields /\ x.pc = "idle"
    <3>1. \A code : Ended(t, code).pc = "idle" /\ DOMAIN Ended(t, code) = Fields
      BY <1>1, Shapes
    <3>2. x = Ended(t, made.code) \/ x = [Ended(t, "ok") EXCEPT !.plan.todo = Tail(todo)]
      BY <1>8
    <3> HIDE DEF x, todo, made
    <3> QED BY <3>1, <3>2 DEF Fields
  <2> HIDE DEF x, new
  <2>2. ThreadOK(t)'
    BY <1>0, <2>1, OutsideOfHandlers
  <2> QED BY <1>0, <1>3, <1>5, <1>6, <2>1, <2>2, TouchStep
<1> QED BY <1>7, <1>8

\* The editor leaves protected files alone, and what it changes is noted.
LEMMA EditSound ==
    ASSUME ToolInv, NEW p \in Paths, NEW node \in Edits, Edit(p, node) PROVE ToolInv'
<1>1. /\ disk' = [disk EXCEPT ![p] = node] /\ th' = th /\ lost' = lost /\ Area[p] = "plain"
      /\ moved' = [u \in Threads |-> IF th[u].pc \in {"run", "act"} THEN moved[u] \cup {p}
                                     ELSE moved[u]]
  BY DEF Edit, Change
<1>2. ToolTyped /\ ToolTyped'
  BY <1>1 DEF ToolInv, ToolTyped
<1>3. \A q \in Paths : disk'[q] # disk[q] => q = p
  BY <1>1, <1>2 DEF ToolTyped
<1>4. ASSUME NEW u \in Threads PROVE ThreadOK(u)'
  <2>1. th'[u] = th[u] /\ moved[u] \subseteq moved'[u]
    BY <1>1, <1>2 DEF ToolTyped
  <2>2. th[u].pc \in {"run", "act"} => \A q \in Paths : disk'[q] # disk[q] => q \in moved'[u]
    BY <1>1, <1>3
  <2> QED BY <2>1, <2>2, Undisturbed DEF ToolInv
<1>5. LossWasShown' /\ ProtectedStay'
  BY <1>1, <1>3 DEF ToolInv, LossWasShown, ProtectedStay
<1> QED BY <1>2, <1>4, <1>5 DEF ToolInv

(********************************* theorems ************************************)

\* Every step keeps the invariant.
LEMMA ToolInvStep == ASSUME ToolInv, [Next]_vars PROVE ToolInv'
<1>1. CASE UNCHANGED vars
  <2>1. UNCHANGED <<disk, th, moved, lost>>
    BY <1>1 DEF vars
  <2>2. \A u \in Threads : ThreadOK(u)'
    BY <2>1, Undisturbed DEF ToolInv
  <2> QED BY <2>1, <2>2 DEF ToolInv, ToolTyped, LossWasShown, ProtectedStay
<1>2. ASSUME NEW t \in Threads, NEW call \in Calls, NEW marked \in BOOLEAN, Begin(t, call, marked)
      PROVE  ToolInv'
  BY <1>2, BeginSound
<1>3. ASSUME NEW t \in Threads, Execute(t) PROVE ToolInv'
  BY <1>3, ExecuteSound
<1>4. ASSUME NEW t \in Threads, Approve(t) \/ Decline(t) PROVE ToolInv'
  BY <1>4, AnswerSound
<1>5. ASSUME NEW t \in Threads, Handle(t) PROVE ToolInv'
  BY <1>5, EndSound, MakePlanSound, ActSound, UnlinkSound DEF Handle
<1>6. ASSUME NEW p \in Paths, NEW node \in Edits, Edit(p, node) PROVE ToolInv'
  BY <1>6, EditSound
<1> QED BY <1>1, <1>2, <1>3, <1>4, <1>5, <1>6 DEF Next

\* Every step of the executions, and of those who share their workspace, is sound:
\* a call in its handler passed the gate with what it needed, and its plan is made
\* for files of the workspace (ToolRuntime.execute, the handlers of the file tools).
THEOREM ToolInvariant == Spec => []ToolInv
<1>1. Init => ToolInv
  BY InitSound
<1>2. ToolInv /\ [Next]_vars => ToolInv'
  BY ToolInvStep
<1> QED BY <1>1, <1>2, PTL DEF Spec

\* Text that a tool takes off the disk was in the preview the user approved for that
\* very call, or came to be there after the ticket was compared (build_preview,
\* ToolPolicy.decide); a write in mode "create" takes nothing even then.
THEOREM LossWasShownAlways == Spec => []LossWasShown
<1>1. ToolInv => LossWasShown
  BY DEF ToolInv
<1> QED BY <1>1, ToolInvariant, PTL

\* No tool changes a file that is sensitive or outside of the workspace, whatever
\* paths its call names (PathResolver.resolve in each handler).
THEOREM ProtectedStayAlways == Spec => []ProtectedStay
<1>1. ToolInv => ProtectedStay
  BY DEF ToolInv
<1> QED BY <1>1, ToolInvariant, PTL

(********************************* texts ***************************************)

\* Some natural numbers have a smallest.
LEMMA SmallestOfNats ==
    ASSUME NEW S \in SUBSET Nat, S # {}
    PROVE  Min(S) \in S /\ \A y \in S : Min(S) <= y
<1> DEFINE Below0 == {k \in Nat \X Nat : k[1] < k[2]}
<1>1. IsWellFoundedOn(Below0, Nat)
  BY NatLessThanWellFounded DEF OpToRel
<1>2. PICK x \in S : \A y \in S : <<y, x>> \notin Below0
  <2> HIDE DEF Below0
  <2> QED BY <1>1, WFMin
<1>3. \A y \in S : x <= y
  <2>1. x \in Nat /\ \A y \in S : y \in Nat
    OBVIOUS
  <2>2. ASSUME NEW y \in S PROVE ~(y < x)
    BY <1>2, <2>1
  <2> QED BY <2>1, <2>2
<1> QED BY <1>3 DEF Min

\* Offsets can be put in order.
LEMMA InOrderExists ==
    ASSUME NEW n \in Nat, NEW S \in SUBSET (0..(n - 1))
    PROVE  /\ Cardinality(S) \in Nat
           /\ \E s \in [1..Cardinality(S) -> S] : \A i, j \in DOMAIN s : i < j => s[i] < s[j]
<1> DEFINE Ordered(T) ==
             \E s \in [1..Cardinality(T) -> T] : \A i, j \in DOMAIN s : i < j => s[i] < s[j]
           Bad == {k \in 0..n : \E T \in SUBSET (0..(k - 1)) : ~Ordered(T)}
<1>2. ASSUME NEW k \in Nat, NEW T \in SUBSET (0..(k - 1))
      PROVE  IsFiniteSet(T) /\ Cardinality(T) \in Nat
  <2>1. IsFiniteSet(0..(k - 1))
    BY FS_Interval
  <2> QED BY <2>1, FS_Subset, FS_CardinalityType
<1>3. ASSUME Bad # {} PROVE FALSE
  <2>2. Bad \in SUBSET Nat
    OBVIOUS
  <2>3. PICK k \in Bad : \A l \in Bad : k <= l
    <3> HIDE DEF Bad
    <3> QED BY <1>3, <2>2, SmallestOfNats
  <2>4. k \in Nat /\ \A l \in Nat : l < k => l \notin Bad
    <3>1. k \in Nat
      BY <2>2
    <3> HIDE DEF Bad
    <3> QED BY <2>3, <3>1
  <2>5. PICK T \in SUBSET (0..(k - 1)) : ~Ordered(T)
    OBVIOUS
  <2>6. CASE k = 0
    <3>2. 0..(0 - 1) = {} /\ 1..0 = {}
      OBVIOUS
    <3>1. T = {} /\ Cardinality(T) = 0
      <4> HIDE DEF Ordered, Bad
      <4>1. T = {}
        BY <2>6, <3>2
      <4> QED BY <4>1, FS_EmptySet
    <3>3. [i \in 1..0 |-> i] \in [1..Cardinality(T) -> T]
      BY <3>1, <3>2
    <3>4. Ordered(T)
      BY <3>2, <3>3
    <3> QED BY <2>5, <3>4
  <2>7. CASE k # 0
    <3> DEFINE U == T \ {k - 1}
    <3>1. k - 1 \in Nat /\ k - 1 \in 0..n /\ k - 1 < k /\ U \in SUBSET (0..((k - 1) - 1))
      BY <2>4, <2>5, <2>7
    <3>2. Ordered(U)
      BY <2>4, <3>1
    <3>3. T # U
      BY <2>5, <3>2
    <3>4. k - 1 \in T
      BY <3>3
    <3>5. Cardinality(U) = Cardinality(T) - 1 /\ Cardinality(U) \in Nat /\ Cardinality(T) \in Nat
      BY <1>2, <2>4, <2>5, <3>1, <3>4, FS_RemoveElement
    <3>6. PICK s \in [1..Cardinality(U) -> U] : \A i, j \in DOMAIN s : i < j => s[i] < s[j]
      BY <3>2
    <3> DEFINE m == Cardinality(U)
               t == [i \in 1..(m + 1) |-> IF i = m + 1 THEN k - 1 ELSE s[i]]
    <3> HIDE DEF m, U
    <3> HIDE DEF Ordered, Bad
    <3>7. /\ m \in Nat /\ Cardinality(T) = m + 1 /\ s \in [1..m -> U]
          /\ U \in SUBSET (0..((k - 1) - 1)) /\ U \in SUBSET T
      <4>1. m \in Nat /\ Cardinality(T) = m + 1
        BY <3>5 DEF m
      <4>2. s \in [1..m -> U]
        BY <3>6 DEF m
      <4> QED BY <3>1, <4>1, <4>2 DEF U
    <3>8. t \in [1..(m + 1) -> T]
      <4>1. ASSUME NEW i \in 1..(m + 1), i # m + 1 PROVE s[i] \in T
        <5>1. i \in 1..m
          BY <3>7, <4>1
        <5> QED BY <3>7, <5>1
      <4> QED BY <3>4, <4>1
    <3> HIDE DEF t
    <3>t. \A i \in 1..(m + 1) : t[i] = IF i = m + 1 THEN k - 1 ELSE s[i]
      BY DEF t
    <3>9. ASSUME NEW i \in 1..(m + 1), NEW j \in 1..(m + 1), i < j
          PROVE  t[i] < t[j]
      <4>1. i \in 1..m /\ t[i] = s[i] /\ s[i] \in 0..((k - 1) - 1)
        <5>1. i \in 1..m /\ i # m + 1
          BY <3>7, <3>9
        <5>2. s[i] \in U
          BY <3>7, <5>1
        <5> QED BY <3>7, <3>t, <5>1, <5>2
      <4>2. CASE j = m + 1
        BY <2>4, <3>1, <3>t, <4>1, <4>2
      <4>3. CASE j # m + 1
        <5>1. j \in 1..m /\ t[j] = s[j]
          BY <3>7, <3>t, <4>3
        <5>2. DOMAIN s = 1..m
          BY <3>7
        <5> QED BY <3>6, <3>9, <4>1, <5>1, <5>2
      <4> QED BY <4>2, <4>3
    <3>10. Ordered(T)
      <4>1. t \in [1..Cardinality(T) -> T] /\ DOMAIN t = 1..(m + 1)
        BY <3>7, <3>8
      <4> QED BY <3>9, <4>1 DEF Ordered
    <3> QED BY <2>5, <3>10
  <2> QED BY <2>6, <2>7
<1>4. n \notin Bad
  BY <1>3
<1>5. Ordered(S)
  <2>1. n \in 0..n
    OBVIOUS
  <2> HIDE DEF Ordered
  <2> QED BY <1>4, <2>1
<1> QED BY <1>2, <1>5

\* Offsets in their order are those offsets.
LEMMA InOrderType ==
    ASSUME NEW n \in Nat, NEW S \in SUBSET (0..(n - 1))
    PROVE  Cardinality(S) \in Nat /\ InOrder(S) \in [1..Cardinality(S) -> S]
  BY InOrderExists DEF InOrder

\* Where a needle lies.
LEMMA PlacesType ==
    ASSUME NEW C, NEW text, NEW needle \in Seq(C), NEW from \in Nat, NEW to \in Nat
    PROVE  \A i \in Places(text, needle, from, to) :
              i \in Nat /\ from <= i /\ i + Len(needle) <= to /\ i \in 0..to
<1>1. Len(needle) \in Nat
  OBVIOUS
<1> SUFFICES ASSUME NEW i \in Places(text, needle, from, to)
             PROVE  i \in Nat /\ from <= i /\ i + Len(needle) <= to /\ i \in 0..to
  OBVIOUS
<1>2. i \in from..(to - Len(needle))
  BY DEF Places
<1> QED BY <1>1, <1>2

\* Each occurrence that is counted is one.
LEMMA OccurrencesType ==
    ASSUME NEW C, NEW text, NEW needle \in Seq(C), NEW from \in Nat, NEW to \in Nat
    PROVE  LET found == Occurrences(text, needle, from, to) IN
           /\ Len(found) \in Nat
           /\ \A k \in 1..Len(found) : found[k] \in Places(text, needle, from, to)
<1> DEFINE places == Places(text, needle, from, to)
           taken[i \in places] ==
             ~\E j \in places : j < i /\ i < j + Len(needle) /\ taken[j]
           S == {i \in places : taken[i]}
           found == InOrder(S)
<1>1. Occurrences(text, needle, from, to) = found
  BY DEF Occurrences
<1> HIDE DEF taken
<1>2. S \in SUBSET (0..((to + 1) - 1)) /\ to + 1 \in Nat
  BY PlacesType
<1>3. S \subseteq places
  OBVIOUS
<1> HIDE DEF S
<1>4. Cardinality(S) \in Nat /\ found \in [1..Cardinality(S) -> S]
  BY <1>2, InOrderType
<1> HIDE DEF found, places
<1>5. Len(found) = Cardinality(S) /\ \A k \in 1..Cardinality(S) : found[k] \in S
  BY <1>4
<1> QED BY <1>1, <1>3, <1>4, <1>5 DEF places

\* The lines of a text start inside of it.
LEMMA LineStartsType ==
    ASSUME NEW C, NEW text \in Seq(C)
    PROVE  LET starts == LineStarts(text) IN
           Len(starts) \in Nat /\ \A k \in 1..Len(starts) : starts[k] \in Nat /\ starts[k] <= Len(text)
<1> DEFINE S == {i \in 0..(Len(text) - 1) : i = 0 \/ text[i] = Newline}
           starts == InOrder(S)
<1>1. LineStarts(text) = starts
  BY DEF LineStarts
<1>2. Len(text) \in Nat /\ S \in SUBSET (0..(Len(text) - 1))
  OBVIOUS
<1>3. ASSUME NEW i \in S PROVE i \in Nat /\ i <= Len(text)
  <2>1. i \in 0..(Len(text) - 1)
    OBVIOUS
  <2> QED BY <1>2, <2>1
<1> HIDE DEF S
<1>4. Cardinality(S) \in Nat /\ starts \in [1..Cardinality(S) -> S]
  BY <1>2, InOrderType
<1> HIDE DEF starts
<1>5. Len(starts) = Cardinality(S) /\ \A k \in 1..Cardinality(S) : starts[k] \in S
  BY <1>4
<1> QED BY <1>1, <1>3, <1>4, <1>5

LEMMA LineEndType ==
    ASSUME NEW C, NEW text \in Seq(C), NEW k \in 1..Len(LineStarts(text))
    PROVE  LineEnd(text, LineStarts(text), k) \in Nat /\ LineEnd(text, LineStarts(text), k) <= Len(text)
<1> DEFINE starts == LineStarts(text)
<1>1. /\ Len(starts) \in Nat
      /\ \A l \in 1..Len(starts) : starts[l] \in Nat /\ starts[l] <= Len(text)
  BY LineStartsType
<1> HIDE DEF starts
<1>2. k \in 1..Len(starts) /\ Len(text) \in Nat
  BY DEF starts
<1>3. k # Len(starts) => k + 1 \in 1..Len(starts)
  BY <1>1, <1>2
<1>4. LineEnd(text, starts, k) \in Nat /\ LineEnd(text, starts, k) <= Len(text)
  BY <1>1, <1>2, <1>3 DEF LineEnd
<1> QED BY <1>4 DEF starts

\* What a search for a patch may answer: a place inside the text, or a refusal.
Inside(text, span) ==
    span.code = "ok" => /\ span.start \in Nat /\ span.start <= Len(text)
                        /\ span.end \in Nat /\ span.end <= Len(text)

\* The anchors enclose a part of the text.
LEMMA AnchorsInside ==
    ASSUME NEW C, NEW text \in Seq(C), NEW p, p.before \in Seq(C), p.after \in Seq(C),
           AnchorBounds(text, p).code = "ok"
    PROVE  /\ AnchorBounds(text, p).start \in Nat
           /\ AnchorBounds(text, p).end \in Nat /\ AnchorBounds(text, p).end <= Len(text)
<1> DEFINE heads == Places(text, p.before, 0, Len(text))
           from  == IF p.before = <<>> THEN 0 ELSE Min(heads) + Len(p.before)
           tails == Places(text, p.after, from, Len(text))
           to    == IF p.after = <<>> THEN Len(text) ELSE Min(tails)
<1>1. /\ p.before = <<>> \/ heads # {}
      /\ p.after = <<>> \/ tails # {}
      /\ AnchorBounds(text, p) = Found(from, to)
  BY DEF AnchorBounds, Refused
<1>2. Len(text) \in Nat /\ Len(p.before) \in Nat /\ Len(p.after) \in Nat
  OBVIOUS
<1>3. from \in Nat
  <2>1. CASE p.before = <<>>
    BY <2>1
  <2>2. CASE p.before # <<>>
    <3>1. heads \in SUBSET Nat
      BY <1>2, PlacesType
    <3>2. Min(heads) \in heads
      <4> HIDE DEF heads
      <4> QED BY <1>1, <2>2, <3>1, SmallestOfNats
    <3>3. Min(heads) \in Nat
      <4> HIDE DEF heads
      <4> QED BY <3>1, <3>2
    <3>4. from = Min(heads) + Len(p.before)
      BY <2>2
    <3> HIDE DEF from, heads
    <3> QED BY <1>2, <3>3, <3>4
  <2> QED BY <2>1, <2>2
<1> HIDE DEF from
<1>4. to \in Nat /\ to <= Len(text)
  <2>1. CASE p.after = <<>>
    BY <1>2, <2>1
  <2>2. CASE p.after # <<>>
    <3>1. tails \in SUBSET (0..Len(text))
      BY <1>2, <1>3, PlacesType
    <3>2. tails \in SUBSET Nat
      <4> HIDE DEF tails
      <4> QED BY <1>2, <3>1
    <3>3. Min(tails) \in tails
      <4> HIDE DEF tails
      <4> QED BY <1>1, <2>2, <3>2, SmallestOfNats
    <3>4. Min(tails) \in 0..Len(text)
      <4> HIDE DEF tails
      <4> QED BY <3>1, <3>3
    <3>5. to = Min(tails)
      BY <2>2
    <3> HIDE DEF to, tails
    <3> QED BY <1>2, <3>4, <3>5
  <2> QED BY <2>1, <2>2
<1> HIDE DEF to
<1> QED BY <1>1, <1>3, <1>4 DEF Found

\* A patch is found inside of the text.
LEMMA LocatedInside ==
    ASSUME NEW text \in Seq(Chars), NEW p \in PatchSet
    PROVE  Inside(text, Locate(text, p))
<1> DEFINE bounds == AnchorBounds(text, p)
           starts == LineStarts(text)
           found  == Occurrences(text, p.old, bounds.start, bounds.end)
<1>1. /\ p.old \in Seq(Chars) /\ p.before \in Seq(Chars) /\ p.after \in Seq(Chars)
      /\ p.nth \in Nat /\ p.lines \in {<<>>} \cup ((Nat \ {0}) \X (Nat \ {0}))
  BY DEF PatchSet
<1>2. Len(text) \in Nat /\ Len(p.old) \in Nat
  BY <1>1
<1>3. \A code : code # "ok" => Inside(text, Refused(code))
  BY DEF Inside, Refused
<1>4. CASE bounds.code # "ok" \/ p.old = <<>>
  <2>1. Inside(text, bounds) \/ p.old = <<>>
    BY <1>4 DEF Inside
  <2>2. Locate(text, p) = bounds \/ Locate(text, p) = Refused("invalid_args")
    BY <1>4 DEF Locate, LocateWithin
  <2>3. p.old = <<>> => Locate(text, p) = Refused("invalid_args")
    BY DEF Locate, LocateWithin
  <2> HIDE DEF bounds
  <2> QED BY <1>3, <2>1, <2>2, <2>3
<1>5. CASE p.lines # <<>> /\ Locate(text, p) = LineRangeMatch(text, p, starts)
  <2> DEFINE from == p.lines[1]
             to   == p.lines[2]
  <2>1. from \in Nat \ {0} /\ to \in Nat \ {0}
    BY <1>1, <1>5
  <2>2. CASE to < from \/ to > Len(starts)
    <3>1. Locate(text, p) = Refused("patch_line_mismatch")
      BY <1>5, <2>2 DEF LineRangeMatch
    <3> QED BY <1>3, <3>1
  <2>3. CASE ~(to < from \/ to > Len(starts))
    <3>1. /\ Len(starts) \in Nat
          /\ \A k \in 1..Len(starts) : starts[k] \in Nat /\ starts[k] <= Len(text)
      BY LineStartsType
    <3>2. from \in 1..Len(starts) /\ to \in 1..Len(starts)
      <4> HIDE DEF starts, from, to
      <4> QED BY <2>1, <2>3, <3>1
    <3>3. starts[from] \in Nat /\ starts[from] <= Len(text)
      <4> HIDE DEF starts, from, to
      <4> QED BY <3>1, <3>2
    <3>4. LineEnd(text, starts, to) \in Nat /\ LineEnd(text, starts, to) <= Len(text)
      <4> HIDE DEF to
      <4> QED BY <3>2, LineEndType
    <3>5. \/ Locate(text, p) = Refused("patch_line_mismatch")
          \/ Locate(text, p) = Found(starts[from], LineEnd(text, starts, to))
      BY <1>5 DEF LineRangeMatch
    <3> HIDE DEF starts, from, to
    <3>6. Inside(text, Found(starts[from], LineEnd(text, starts, to)))
      BY <3>3, <3>4 DEF Found, Inside
    <3> QED BY <1>3, <3>5, <3>6
  <2> QED BY <2>2, <2>3
<1>6. CASE bounds.code = "ok" /\ Locate(text, p) = OldTextMatch(p, found)
  <2> DEFINE nth == IF p.nth = 0 THEN 1 ELSE p.nth
  <2>1. bounds.start \in Nat /\ bounds.end \in Nat /\ bounds.end <= Len(text)
    BY <1>1, <1>6, AnchorsInside
  <2> HIDE DEF bounds
  <2>2. /\ Len(found) \in Nat
        /\ \A k \in 1..Len(found) : found[k] \in Places(text, p.old, bounds.start, bounds.end)
    BY <1>1, <2>1, OccurrencesType
  <2> HIDE DEF found
  <2>3. nth \in Nat \ {0}
    BY <1>1
  <2>4. \/ \E code \in {"patch_old_text_not_found", "patch_ambiguous_match"} :
              Locate(text, p) = Refused(code)
        \/ ~(Len(found) < nth) /\ Locate(text, p) = Found(found[nth], found[nth] + Len(p.old))
    BY <1>6 DEF OldTextMatch
  <2> HIDE DEF nth
  <2>5. ASSUME ~(Len(found) < nth)
        PROVE  Inside(text, Found(found[nth], found[nth] + Len(p.old)))
    <3>1. nth \in 1..Len(found)
      BY <2>2, <2>3, <2>5
    <3>2. found[nth] \in Places(text, p.old, bounds.start, bounds.end)
      BY <2>2, <3>1
    <3>3. found[nth] \in Nat /\ found[nth] + Len(p.old) <= bounds.end
      BY <1>1, <2>1, <3>2, PlacesType
    <3>4. found[nth] <= Len(text) /\ found[nth] + Len(p.old) <= Len(text)
          /\ found[nth] + Len(p.old) \in Nat
      BY <1>2, <2>1, <3>3
    <3> QED BY <3>3, <3>4 DEF Found, Inside
  <2> QED BY <1>3, <2>4, <2>5
<1>7. \/ bounds.code # "ok" \/ p.old = <<>>
      \/ p.lines # <<>> /\ Locate(text, p) = LineRangeMatch(text, p, starts)
      \/ bounds.code = "ok" /\ Locate(text, p) = OldTextMatch(p, found)
  BY DEF Locate, LocateWithin
<1> QED BY <1>4, <1>5, <1>6, <1>7

\* A patch with its place, when its place was found: what it adds holds no secret
\* and comes inside of the text.
GoodPatch(m, x) == /\ x.at \in 0..m /\ x.start \in 0..m /\ x.end \in Nat
                   /\ x.inserts \in BOOLEAN /\ x.new \in Seq(Public)

LEMMA LocatedGood ==
    ASSUME NEW text \in Seq(Chars), NEW patches \in Seq(PatchSet), NEW i \in DOMAIN patches,
           Located(text, patches)[i].code = "ok"
    PROVE  GoodPatch(Len(text), Located(text, patches)[i])
<1> DEFINE p    == patches[i]
           span == Locate(text, p)
           x    == Located(text, patches)[i]
<1>1. p \in PatchSet
  OBVIOUS
<1> HIDE DEF p
<1>2. Inside(text, span)
  BY <1>1, LocatedInside
<1>3. x = LocatedPatch(p, span)
  BY DEF Located, p
<1> HIDE DEF span, x
<1>4. /\ x.code = span.code /\ x.start = span.start /\ x.end = span.end
      /\ x.at \in {span.start, span.end} /\ x.inserts = Inserts(p) /\ x.new \in {<<>>, p.new}
  BY <1>3 DEF LocatedPatch
<1>5. x.code = "ok"
  BY DEF x
<1>6. span.start \in 0..Len(text) /\ span.end \in 0..Len(text)
  BY <1>2, <1>4, <1>5 DEF Inside
<1>7. p.new \in Seq(Public) /\ <<>> \in Seq(Public)
  BY <1>1 DEF PatchSet
<1>8. x.inserts \in BOOLEAN
  BY <1>4 DEF Inserts
<1>9. x.end \in Nat /\ x.start \in 0..Len(text) /\ x.at \in 0..Len(text)
  BY <1>4, <1>6
<1>10. x.new \in Seq(Public)
  BY <1>4, <1>7
<1>11. GoodPatch(Len(text), x)
  BY <1>8, <1>9, <1>10 DEF GoodPatch
<1> QED BY <1>11 DEF x

\* Patches with their places, as they are applied.
GoodPatches(m, located) == \A i \in DOMAIN located : GoodPatch(m, located[i])

\* Of numbers up to m some element of a set has the largest.
LEMMA LargestOf ==
    ASSUME NEW m \in Nat, NEW S, S # {}, NEW f, \A i \in S : f[i] \in 0..m
    PROVE  \E i \in S : \A j \in S : f[j] <= f[i]
<1> DEFINE V == {m - f[i] : i \in S}
<1>1. V \in SUBSET Nat /\ V # {}
  OBVIOUS
<1>2. Min(V) \in V /\ \A y \in V : Min(V) <= y
  <2> HIDE DEF V
  <2> QED BY <1>1, SmallestOfNats
<1>3. PICK i \in S : Min(V) = m - f[i]
  BY <1>2
<1>4. ASSUME NEW j \in S PROVE f[j] <= f[i]
  <2>1. m - f[i] <= m - f[j]
    BY <1>2, <1>3
  <2>2. f[i] \in Nat /\ f[j] \in Nat
    <3>1. f[i] \in 0..m /\ f[j] \in 0..m
      OBVIOUS
    <3> QED BY <3>1
  <2> QED BY <2>1, <2>2
<1> QED BY <1>4

\* Of the patches that are left one comes first, and none of the others comes behind
\* it in the text.
LEMMA FirstOfLeft ==
    ASSUME NEW m \in Nat, NEW located, NEW n \in Nat, DOMAIN located = 1..n,
           GoodPatches(m, located), NEW left \in SUBSET (1..n), left # {}
    PROVE  /\ FirstOf(located, left) \in left
           /\ \A j \in left : located[j].at <= located[FirstOf(located, left)].at
<1>1. \A i \in left : /\ i \in Nat /\ located[i].at \in 0..m /\ located[i].start \in 0..m
                      /\ located[i].at \in Nat /\ located[i].start \in Nat
  <2> SUFFICES ASSUME NEW i \in left
               PROVE  /\ i \in Nat /\ located[i].at \in 0..m /\ located[i].start \in 0..m
                      /\ located[i].at \in Nat /\ located[i].start \in Nat
    OBVIOUS
  <2>1. i \in 1..n
    OBVIOUS
  <2>2. located[i].at \in 0..m /\ located[i].start \in 0..m
    BY <2>1 DEF GoodPatches, GoodPatch
  <2> QED BY <2>1, <2>2
<1>2. PICK a \in left : \A j \in left : located[j].at <= located[a].at
  <2> DEFINE f == [i \in left |-> located[i].at]
  <2>1. \A i \in left : f[i] \in 0..m
    BY <1>1
  <2>2. \E i \in left : \A j \in left : f[j] <= f[i]
    <3> HIDE DEF f
    <3> QED BY <2>1, LargestOf
  <2> QED BY <2>2
<1> DEFINE A == {i \in left : located[i].at = located[a].at}
<1>3. A # {} /\ A \subseteq left
  OBVIOUS
<1>4. PICK b \in A : \A j \in A : located[j].start <= located[b].start
  <2> DEFINE f == [i \in A |-> located[i].start]
  <2>1. \A i \in A : f[i] \in 0..m
    BY <1>1
  <2>2. \E i \in A : \A j \in A : f[j] <= f[i]
    <3> HIDE DEF f, A
    <3> QED BY <2>1, <1>3, LargestOf
  <2> QED BY <2>2
<1> DEFINE B == {i \in A : located[i].start = located[b].start}
<1>5. B # {} /\ B \in SUBSET Nat /\ B \subseteq A
  BY <1>1
<1>6. PICK c \in B : \A j \in B : c <= j
  <2> HIDE DEF B
  <2> QED BY <1>5, SmallestOfNats
<1>7. /\ c \in left /\ located[c].at = located[a].at /\ located[c].start = located[b].start
  OBVIOUS
<1>8. ASSUME NEW j \in left \ {c} PROVE Before(located, c, j)
  <2>1. /\ j \in Nat /\ c \in Nat /\ located[c].at \in Nat /\ located[j].at \in Nat
        /\ located[c].start \in Nat /\ located[j].start \in Nat
    BY <1>1, <1>7
  <2>2. CASE located[j].at # located[a].at
    <3>1. located[j].at <= located[a].at
      BY <1>2
    <3> QED BY <1>7, <2>1, <2>2, <3>1 DEF Before
  <2>3. CASE j \in A /\ located[j].start # located[b].start
    <3>1. located[j].start <= located[b].start /\ located[j].at = located[a].at
      BY <1>4, <2>3
    <3> QED BY <1>7, <2>1, <2>3, <3>1 DEF Before
  <2>4. CASE j \in B
    <3>1. c <= j /\ located[j].at = located[a].at /\ located[j].start = located[b].start
      BY <1>6, <2>4
    <3> QED BY <1>7, <2>1, <3>1 DEF Before
  <2> QED BY <2>2, <2>3, <2>4
<1>9. /\ FirstOf(located, left) \in left
      /\ \A j \in left \ {FirstOf(located, left)} : Before(located, FirstOf(located, left), j)
  BY <1>7, <1>8 DEF FirstOf
<1> DEFINE i == FirstOf(located, left)
<1> HIDE DEF i
<1>10. i \in left /\ \A j \in left \ {i} : Before(located, i, j)
  BY <1>9 DEF i
<1>11. ASSUME NEW j \in left PROVE located[j].at <= located[i].at
  <2>1. located[i].at \in Nat /\ located[j].at \in Nat
    BY <1>1, <1>10
  <2>2. j = i \/ Before(located, i, j)
    BY <1>10
  <2> QED BY <2>1, <2>2 DEF Before
<1> QED BY <1>10, <1>11 DEF i

\* Sequences put together.
LEMMA Joined ==
    ASSUME NEW S, NEW a \in Seq(S), NEW b \in Seq(S)
    PROVE  a \o b \in Seq(S) /\ Len(a \o b) = Len(a) + Len(b)
  OBVIOUS

\* One patch is applied: what is before it stays.
LEMMA OneApplied ==
    ASSUME NEW m \in Nat, NEW x, GoodPatch(m, x), NEW text \in Seq(Public), x.at <= Len(text)
    PROVE  ApplyOne(text, x) \in Seq(Public) /\ x.at <= Len(ApplyOne(text, x))
<1> DEFINE head == SubSeq(text, 0 + 1, x.at)
           from == IF x.inserts THEN x.at ELSE x.end
           tail == SubSeq(text, from + 1, Len(text))
<1>1. x.at \in Nat /\ x.end \in Nat /\ x.new \in Seq(Public) /\ from \in Nat /\ Len(text) \in Nat
  <2>1. x.at \in 0..m /\ x.end \in Nat /\ x.new \in Seq(Public)
    BY DEF GoodPatch
  <2> QED BY <2>1
<1>2. head \in Seq(Public) /\ Len(head) = x.at
  <2>1. \A i \in (0 + 1)..x.at : text[i] \in Public
    BY <1>1
  <2>2. 0 + 1 \in Int /\ x.at \in Int
    BY <1>1
  <2>3. head \in Seq(Public) /\ Len(head) = IF 0 + 1 <= x.at THEN x.at - (0 + 1) + 1 ELSE 0
    BY <2>1, <2>2, SubSeqProperties
  <2> HIDE DEF head
  <2> QED BY <1>1, <2>3
<1> HIDE DEF from
<1>3. tail \in Seq(Public)
  <2>1. \A i \in (from + 1)..Len(text) : text[i] \in Public
    BY <1>1
  <2>2. from + 1 \in Int /\ Len(text) \in Int
    BY <1>1
  <2> QED BY <2>1, <2>2, SubSeqProperties
<1>4. ApplyOne(text, x) = head \o x.new \o tail
  BY DEF ApplyOne, Slice, from
<1> HIDE DEF head, tail
<1>5. head \o x.new \in Seq(Public) /\ Len(head \o x.new) = x.at + Len(x.new)
  <2> DEFINE new == x.new
  <2>1. new \in Seq(Public)
    BY <1>1
  <2> HIDE DEF new
  <2>2. head \o new \in Seq(Public) /\ Len(head \o new) = x.at + Len(new)
    BY <1>2, <2>1, Joined
  <2> QED BY <2>2 DEF new
<1>6. Len(x.new) \in Nat /\ Len(tail) \in Nat
  BY <1>1, <1>3
<1> DEFINE y == head \o x.new
<1>7. y \in Seq(Public) /\ Len(y) = x.at + Len(x.new)
  BY <1>5
<1> HIDE DEF y
<1>8. y \o tail \in Seq(Public) /\ Len(y \o tail) = Len(y) + Len(tail)
  BY <1>3, <1>7
<1>9. x.at <= Len(y \o tail)
  BY <1>1, <1>6, <1>7, <1>8
<1> QED BY <1>4, <1>8, <1>9 DEF y

\* The recursion of Apply has a value at each step.
StepsOf(f, m, start, located) ==
    f = [k \in 0..m |-> IF k = 0 THEN start ELSE Applied(located, f[k - 1])]

LEMMA AppliedSteps ==
    ASSUME NEW n \in Nat, NEW start, NEW located
    PROVE  \E f : StepsOf(f, n, start, located)
<1> USE DEF StepsOf
<1> DEFINE IsStep(m, f) == StepsOf(f, m, start, located)
           Bad == {m \in 0..n : ~\E f : IsStep(m, f)}
<1>1. ASSUME Bad # {} PROVE FALSE
  <2>1. PICK m \in Bad : \A l \in Bad : m <= l
    <3>1. Bad \in SUBSET Nat
      OBVIOUS
    <3> HIDE DEF Bad
    <3> QED BY <1>1, <3>1, SmallestOfNats
  <2>2. m \in 0..n /\ ~\E f : IsStep(m, f)
    <3> HIDE DEF IsStep
    <3> QED OBVIOUS
  <2>3. CASE m = 0
    <3> DEFINE g == [k \in 0..0 |-> start]
    <3>1. IsStep(0, g)
      <4>1. \A k \in 0..0 : k = 0
        OBVIOUS
      <4> QED BY <4>1
    <3> QED BY <2>2, <2>3, <3>1
  <2>4. CASE m # 0
    <3>1. m \in Nat /\ m - 1 \in Nat /\ m - 1 \in 0..n
      BY <2>2, <2>4
    <3>2. m - 1 \notin Bad
      <4> HIDE DEF Bad
      <4> QED BY <2>1, <3>1
    <3>3. PICK f : IsStep(m - 1, f)
      BY <3>1, <3>2
    <3>4. /\ DOMAIN f = 0..(m - 1)
          /\ \A k \in 0..(m - 1) : f[k] = IF k = 0 THEN start ELSE Applied(located, f[k - 1])
      BY <3>3
    <3> DEFINE last == Applied(located, f[m - 1])
               g    == [k \in 0..m |-> IF k = m THEN last ELSE f[k]]
    <3>5. ASSUME NEW k \in 0..m
          PROVE  g[k] = IF k = 0 THEN start ELSE Applied(located, g[k - 1])
      <4>1. CASE k = m
        <5>1. k # 0 /\ k - 1 = m - 1 /\ m - 1 \in 0..m /\ m - 1 # m
          BY <2>4, <3>1, <4>1
        <5>2. g[k] = last /\ g[k - 1] = f[m - 1]
          <6> HIDE DEF last
          <6> QED BY <4>1, <5>1
        <5> QED BY <5>1, <5>2
      <4>2. CASE k # m
        <5>1. k \in 0..(m - 1)
          BY <3>1, <4>2
        <5>2. g[k] = f[k]
          BY <4>2
        <5>3. k # 0 => k - 1 \in 0..m /\ k - 1 # m
          BY <3>1, <5>1
        <5>4. k # 0 => g[k - 1] = f[k - 1]
          BY <5>3
        <5> HIDE DEF g
        <5> QED BY <3>4, <5>1, <5>2, <5>4
      <4> QED BY <4>1, <4>2
    <3>6. IsStep(m, g)
      <4>1. g = [k \in 0..m |-> g[k]]
        OBVIOUS
      <4> HIDE DEF g
      <4> QED BY <3>5, <4>1
    <3> HIDE DEF IsStep, StepsOf
    <3> QED BY <2>2, <3>6
  <2> QED BY <2>3, <2>4
<1>2. n \in 0..n
  OBVIOUS
<1>3. \E f : IsStep(n, f)
  BY <1>1, <1>2
<1> QED BY <1>3

\* Applying is a sequence of steps, one for each patch.
LEMMA ApplyUnfolds ==
    ASSUME NEW n \in Nat, NEW located, Len(located) = n, NEW text
    PROVE  \E step : /\ step[0] = [left |-> DOMAIN located, text |-> text]
                     /\ \A k \in 1..n : step[k] = Applied(located, step[k - 1])
                     /\ Apply(text, located) = step[n].text
<1> DEFINE start == [left |-> DOMAIN located, text |-> text]
           step[k \in 0..Len(located)] ==
             IF k = 0 THEN [left |-> DOMAIN located, text |-> text]
             ELSE Applied(located, step[k - 1])
<1>0. PICK f : StepsOf(f, n, start, located)
  BY ONLY AppliedSteps, n \in Nat
<1>1. step = [k \in 0..n |-> IF k = 0 THEN start ELSE Applied(located, step[k - 1])]
  <2>1. f = [k \in 0..Len(located) |-> IF k = 0 THEN [left |-> DOMAIN located, text |-> text]
                                      ELSE Applied(located, f[k - 1])]
    BY ONLY <1>0, Len(located) = n DEF StepsOf
  <2> QED BY ONLY <2>1, Len(located) = n
<1>2. Apply(text, located) = step[n].text
  BY DEF Apply
<1> HIDE DEF step
<1>3. step[0] = start /\ \A k \in 1..n : step[k] = Applied(located, step[k - 1])
  <2>1. 0 \in 0..n /\ \A k \in 1..n : k \in 0..n /\ k # 0
    OBVIOUS
  <2>2. \A k \in 0..n : step[k] = IF k = 0 THEN start ELSE Applied(located, step[k - 1])
    BY ONLY <1>1
  <2> HIDE DEF start
  <2> QED BY ONLY <2>1, <2>2
<1> QED BY <1>2, <1>3

\* What is applied to a text without secrets leaves one.
LEMMA AppliedPublic ==
    ASSUME NEW m \in Nat, NEW text \in Seq(Public), Len(text) = m,
           NEW n \in Nat, NEW located, DOMAIN located = 1..n, Len(located) = n,
           GoodPatches(m, located)
    PROVE  Apply(text, located) \in Seq(Public)
<1> DEFINE start == [left |-> DOMAIN located, text |-> text]
<1>1. PICK step : /\ step[0] = start
                  /\ \A k \in 1..n : step[k] = Applied(located, step[k - 1])
                  /\ Apply(text, located) = step[n].text
  BY ApplyUnfolds
<1>2. Apply(text, located) = step[n].text
  BY <1>1
<1>3. step[0] = start /\ \A k \in 1..n : step[k] = Applied(located, step[k - 1])
  BY <1>1
<1> DEFINE Good(k) == /\ step[k].left \in SUBSET (1..n)
                      /\ Cardinality(step[k].left) = n - k
                      /\ step[k].text \in Seq(Public)
                      /\ \A j \in step[k].left : located[j].at <= Len(step[k].text)
           Bad == {k \in 0..n : ~Good(k)}
<1>4. Good(0)
  <2>1. step[0].left = 1..n /\ step[0].text = text
    BY <1>3
  <2>2. Cardinality(1..n) = n - 0
    <3>1. Cardinality(1..n) = IF 1 > n THEN 0 ELSE n - 1 + 1
      BY FS_Interval
    <3> QED BY <3>1
  <2>3. \A j \in 1..n : located[j].at <= m
    <3> SUFFICES ASSUME NEW j \in 1..n PROVE located[j].at <= m
      OBVIOUS
    <3>1. located[j].at \in 0..m
      BY DEF GoodPatches, GoodPatch
    <3> QED BY <3>1
  <2> QED BY <2>1, <2>2, <2>3
<1>5. ASSUME NEW k \in 1..n, Good(k - 1) PROVE Good(k)
  <2> DEFINE done == step[k - 1]
             i    == FirstOf(located, done.left)
  <2>1. /\ done.left \in SUBSET (1..n) /\ Cardinality(done.left) = n - (k - 1)
        /\ done.text \in Seq(Public)
        /\ \A j \in done.left : located[j].at <= Len(done.text)
    BY <1>5
  <2>2. step[k] = [left |-> done.left \ {i}, text |-> ApplyOne(done.text, located[i])]
    BY <1>3 DEF Applied
  <2> HIDE DEF done, Good
  <2>3. IsFiniteSet(done.left) /\ done.left # {}
    <3>1. IsFiniteSet(1..n)
      BY FS_Interval
    <3>2. IsFiniteSet(done.left)
      BY <2>1, <3>1, FS_Subset
    <3>3. Cardinality(done.left) # 0
      BY <2>1
    <3> QED BY <3>2, <3>3, FS_EmptySet
  <2>4. i \in done.left /\ \A j \in done.left : located[j].at <= located[i].at
    BY <2>1, <2>3, FirstOfLeft
  <2> HIDE DEF i
  <2>5. GoodPatch(m, located[i]) /\ \A j \in done.left : located[j].at \in Nat
    <3>1. i \in 1..n
      BY <2>1, <2>4
    <3>2. \A j \in done.left : located[j].at \in 0..m
      BY <2>1 DEF GoodPatches, GoodPatch
    <3>3. \A j \in done.left : located[j].at \in Nat
      BY <3>2
    <3> QED BY <3>1, <3>3 DEF GoodPatches
  <2>6. /\ ApplyOne(done.text, located[i]) \in Seq(Public)
        /\ located[i].at <= Len(ApplyOne(done.text, located[i]))
    <3> DEFINE before == done.text
               x      == located[i]
    <3>1. before \in Seq(Public) /\ x.at <= Len(before) /\ GoodPatch(m, x)
      BY <2>1, <2>4, <2>5
    <3> HIDE DEF before, x
    <3>2. ApplyOne(before, x) \in Seq(Public) /\ x.at <= Len(ApplyOne(before, x))
      BY <3>1, OneApplied
    <3> QED BY <3>2 DEF before, x
  <2>7. Cardinality(done.left \ {i}) = n - k
    <3>1. Cardinality(done.left \ {i}) = Cardinality(done.left) - 1
      BY <2>3, <2>4, FS_RemoveElement
    <3> QED BY <2>1, <3>1
  <2> DEFINE after == ApplyOne(done.text, located[i])
  <2>8. after \in Seq(Public) /\ located[i].at <= Len(after)
    BY <2>6
  <2>9. step[k].left = done.left \ {i} /\ step[k].text = after
    BY <2>2
  <2> HIDE DEF after
  <2>10. ASSUME NEW j \in done.left \ {i} PROVE located[j].at <= Len(after)
    <3>1. /\ located[j].at <= located[i].at /\ located[i].at <= Len(after) /\ Len(after) \in Nat
          /\ located[j].at \in Nat /\ located[i].at \in Nat
      BY <2>4, <2>5, <2>8
    <3> QED BY <3>1
  <2> QED BY <2>1, <2>7, <2>8, <2>9, <2>10 DEF Good
<1>6. ASSUME Bad # {} PROVE FALSE
  <2>1. PICK k \in Bad : \A l \in Bad : k <= l
    <3>1. Bad \in SUBSET Nat
      OBVIOUS
    <3> HIDE DEF Bad
    <3> QED BY <1>6, <3>1, SmallestOfNats
  <2>2. k \in 0..n /\ ~Good(k)
    OBVIOUS
  <2> HIDE DEF Good
  <2>3. k # 0
    BY <1>4, <2>2
  <2>4. k \in 1..n /\ k - 1 \in 0..n /\ ~(k <= k - 1)
    BY <2>2, <2>3
  <2>5. k - 1 \notin Bad
    <3> HIDE DEF Bad
    <3> QED BY <2>1, <2>4
  <2>6. Good(k - 1)
    BY <2>4, <2>5
  <2> QED BY <1>5, <2>2, <2>4, <2>6
<1>7. Good(n)
  <2>1. n \in 0..n
    OBVIOUS
  <2> HIDE DEF Good
  <2> QED BY <1>6, <2>1
<1> QED BY <1>2, <1>7

\* Patches make no secret of a text that holds none (build_patch_plan).
LEMMA PatchPlanPublic ==
    ASSUME NEW text \in Seq(Public), NEW patches \in Seq(PatchSet)
    PROVE  PatchPlan(text, patches).text \in Seq(Public)
<1> DEFINE located == Located(text, patches)
           refused == {i \in DOMAIN located : located[i].code # "ok"}
<1>1. \/ PatchPlan(text, patches).text = text
      \/ refused = {} /\ PatchPlan(text, patches).text = Apply(text, located)
  BY DEF PatchPlan, PlanLocated
<1>2. text \in Seq(Chars) /\ Len(text) \in Nat
  <2>1. Public \subseteq Chars
    BY DEF Public
  <2> QED BY <2>1
<1>3. /\ Len(patches) \in Nat /\ DOMAIN patches = 1..Len(patches)
      /\ DOMAIN located = 1..Len(patches)
  BY DEF Located
<1>4. Len(located) = Len(patches)
  <2> HIDE DEF located
  <2> QED BY <1>3
<1>5. ASSUME refused = {} PROVE GoodPatches(Len(text), located)
  <2> SUFFICES ASSUME NEW i \in DOMAIN located PROVE GoodPatch(Len(text), located[i])
    BY DEF GoodPatches
  <2>1. i \in DOMAIN patches
    <3> HIDE DEF located
    <3> QED BY <1>3
  <2>2. located[i].code = "ok"
    <3> HIDE DEF located
    <3> QED BY <1>5
  <2> QED BY <1>2, <2>1, <2>2, LocatedGood
<1> HIDE DEF located, refused
<1>6. refused = {} => Apply(text, located) \in Seq(Public)
  BY <1>2, <1>3, <1>4, <1>5, AppliedPublic
<1> QED BY <1>1, <1>6

(********************************* secrets *************************************)

\* What the caller gave holds no secret, and a tool for one file has its path.
LEMMA CallPublic ==
    ASSUME NEW x, IsCall(x)
    PROVE  /\ x.text \in Seq(Public) /\ x.patches \in Seq(PatchSet)
           /\ x.from \in Nat \ {0} /\ x.count \in Nat \ {0}
           /\ x.tool \in ForOneFile => x.path \in Paths
<1>0. PICK c \in Calls : \E spec \in Registered(c.tool) : x = [c EXCEPT !.tool = spec.name]
  BY DEF IsCall
<1>1. PICK spec \in Registered(c.tool) : x = [c EXCEPT !.tool = spec.name]
  BY <1>0
<1>2. {"tool", "path", "text", "patches", "from", "count"} \subseteq DOMAIN c
  BY RuntimeAssumption
<1>3. /\ x.text = c.text /\ x.patches = c.patches /\ x.from = c.from /\ x.count = c.count
      /\ x.path = c.path /\ x.tool = spec.name
  BY <1>1, <1>2
<1>4. x.tool \in {s.name : s \in Registered(c.tool)}
  BY <1>1, <1>3
<1>5. /\ c.text \in Seq(Public) /\ c.patches \in Seq(PatchSet)
      /\ c.from \in Nat \ {0} /\ c.count \in Nat \ {0}
      /\ {s.name : s \in Registered(c.tool)} \cap ForOneFile # {} => c.path \in Paths
  BY TextAssumption
<1> QED BY <1>3, <1>4, <1>5

\* A part of a text without secrets is one.
LEMMA SlicePublic ==
    ASSUME NEW text \in Seq(Public), NEW from \in Nat, NEW to \in Nat, to <= Len(text)
    PROVE  Slice(text, from, to) \in Seq(Public)
<1>1. \A i \in (from + 1)..to : text[i] \in Public
  OBVIOUS
<1>2. from + 1 \in Int /\ to \in Int
  OBVIOUS
<1> QED BY <1>1, <1>2, SubSeqProperties DEF Slice

\* So are the lines that a reader of a range is given.
LEMMA RangePublic ==
    ASSUME NEW text \in Seq(Public), NEW call, call.from \in Nat \ {0}, call.count \in Nat \ {0}
    PROVE  ReadRange(text, call).text \in Seq(Public)
<1> DEFINE starts == LineStarts(text)
           count  == IF call.count < MaxLines THEN call.count ELSE MaxLines
           from   == IF call.tool # "read_file_tail" THEN call.from
                     ELSE IF Len(starts) > count THEN Len(starts) - count + 1 ELSE 1
           last   == IF from + count - 1 < Len(starts) THEN from + count - 1 ELSE Len(starts)
<1>1. ReadRange(text, call).text = IF from > last THEN <<>>
                                   ELSE Slice(text, starts[from], LineEnd(text, starts, last))
  BY DEF ReadRange
<1>2. /\ Len(starts) \in Nat
      /\ \A k \in 1..Len(starts) : starts[k] \in Nat /\ starts[k] <= Len(text)
  BY LineStartsType
<1>3. \A k \in 1..Len(starts) : /\ LineEnd(text, starts, k) \in Nat
                                /\ LineEnd(text, starts, k) <= Len(text)
  BY LineEndType
<1> HIDE DEF starts
<1>4. count \in Nat \ {0}
  BY FileAssumption
<1> HIDE DEF count
<1>5. from \in Nat \ {0}
  BY <1>2, <1>4
<1> HIDE DEF from
<1>6. last \in Nat /\ last <= Len(starts)
  BY <1>2, <1>4, <1>5
<1> HIDE DEF last
<1>7. CASE from > last
  BY <1>1, <1>7
<1>8. CASE ~(from > last)
  <2>1. from \in 1..Len(starts) /\ last \in 1..Len(starts)
    BY <1>2, <1>5, <1>6, <1>8
  <2> DEFINE a == starts[from]
             b == LineEnd(text, starts, last)
  <2>2. a \in Nat /\ b \in Nat /\ b <= Len(text)
    BY <1>2, <1>3, <2>1
  <2>3. ReadRange(text, call).text = Slice(text, a, b)
    BY <1>1, <1>8
  <2> HIDE DEF a, b
  <2> QED BY <2>2, <2>3, SlicePublic
<1> QED BY <1>7, <1>8

\* What is read without a ticket is in the workspace and not sensitive.
LEMMA ReadableArea ==
    ASSUME NEW d, NEW p \in Paths, NEW ticketed \in BOOLEAN, ReadTarget(d, p, ticketed) = "ok"
    PROVE  Area[p] = "plain" \/ (Area[p] = "sensitive" /\ ticketed)
<1> DEFINE rules == << <<Area[p] = "outside", AreaCode(p)>>,
                       <<Area[p] = "sensitive" /\ ~ticketed, AreaCode(p)>>,
                       <<~Exists(d, p), "file_not_found">>,
                       <<~IsFile(d, p), "not_a_file">>,
                       <<p \in Linked, "sensitive_path_blocked">> >>
<1>1. First(rules) = "ok" /\ DOMAIN rules = 1..5
  BY DEF ReadTarget
<1>2. \A i \in 1..5 : rules[i][1] => rules[i][2] # "ok"
  <2>1. /\ rules[1][1] => rules[1][2] # "ok"
        /\ rules[2][1] => rules[2][2] # "ok"
        /\ rules[3][2] # "ok" /\ rules[4][2] # "ok" /\ rules[5][2] # "ok"
    BY ProtectedRefused
  <2> HIDE DEF rules
  <2> QED BY <2>1
<1>3. \A i \in 1..5 : ~rules[i][1]
  <2> HIDE DEF rules
  <2> QED BY <1>1, <1>2, FirstOk
<1>4. ~rules[1][1] /\ ~rules[2][1]
  <2> HIDE DEF rules
  <2> QED BY <1>3
<1>5. Area[p] \in {"plain", "sensitive", "outside"}
  BY FileAssumption
<1> QED BY <1>4, <1>5

\* The files of the workspace that are not sensitive hold no secret.
PlainPublic == \A p \in Paths : Area[p] = "plain" => disk[p].text \in Seq(Public)

\* What an execution holds: an answer only when its call is over, with a secret only
\* from a sensitive file that a ticket opened; what it is going to write holds none.
Discreet(t) ==
    /\ th[t].pc # "idle" => th[t].result = NoResult
    /\ \/ th[t].result.answer.text \in Seq(Public)
       \/ th[t].req.ticket # None /\ Area[Call(t).path] = "sensitive"
    /\ th[t].pc = "act" /\ Call(t).tool = "patch_file" => th[t].plan.text \in Seq(Public)
    /\ th[t].pc = "act" /\ Call(t).tool \in {"copy_file", "move_file", "rename_file"} =>
          Area[Call(t).path] = "plain"

SecretInv == ToolInv /\ PlainPublic /\ \A t \in Threads : Discreet(t)

\* Without an answer there is nothing to keep.
LEMMA NothingAnswered ==
    /\ NoResult.answer.text = <<>> /\ NoResult.answer.text \in Seq(Public)
    /\ \A code : [NoResult EXCEPT !.code = code].answer.text = <<>>
    /\ <<>> \in Seq(Public)
<1>1. /\ DOMAIN NoResult = {"code", "answer"} /\ NoResult.answer = Answer("ok", <<>>, {}, FALSE)
      /\ \A code : [NoResult EXCEPT !.code = code].answer = NoResult.answer
  BY DEF NoResult
<1>2. NoResult.answer.text = <<>>
  BY <1>1 DEF Answer
<1>3. <<>> \in Seq(Public)
  OBVIOUS
<1>4. ASSUME NEW code PROVE [NoResult EXCEPT !.code = code].answer.text = <<>>
  <2>1. [NoResult EXCEPT !.code = code].answer = NoResult.answer
    BY <1>1
  <2> QED BY <1>2, <2>1
<1> QED BY <1>2, <1>3, <1>4

\* The secret is not among the characters of a text without secrets.
LEMMA NotInPublic ==
    ASSUME NEW text \in Seq(Public) PROVE Secret \notin Range(text)
<1>1. \A i \in DOMAIN text : text[i] \in Public
  OBVIOUS
<1> QED BY <1>1 DEF Range, Public

LEMMA SecretInvKeeps == ASSUME SecretInv PROVE SecretsStay
<1>1. ProtectedStay
  BY DEF SecretInv, ToolInv
<1>2. ASSUME NEW p \in Paths, Area[p] = "plain" PROVE Secret \notin Range(disk[p].text)
  BY <1>2, NotInPublic DEF SecretInv, PlainPublic
<1>3. ASSUME NEW t \in Threads, Secret \in Range(th[t].result.answer.text)
      PROVE  th[t].req.ticket # None /\ Area[Call(t).path] = "sensitive"
  <2>1. Discreet(t)
    BY DEF SecretInv
  <2> QED BY <1>3, <2>1, NotInPublic DEF Discreet
<1> QED BY <1>1, <1>2, <1>3 DEF SecretsStay

\* What the actions make of the record of a thread that has no answer yet.
LEMMA Answers ==
    ASSUME NEW t, DOMAIN th[t] = Fields
    PROVE  /\ \A pc : Goto(t, pc).result = th[t].result
           /\ \A code : Ended(t, code).result = [NoResult EXCEPT !.code = code]
  BY DEF Goto, Ended, Fields

\* A record that has not passed the gate, or whose call is over without an answer.
LEMMA QuietIsDiscreet ==
    ASSUME ToolTyped, NEW t \in Threads, NEW x, th' = [th EXCEPT ![t] = x], x.pc # "act",
           \/ x.result = NoResult
           \/ x.pc = "idle" /\ \E code : x.result = [NoResult EXCEPT !.code = code]
    PROVE  Discreet(t)'
<1>1. th'[t] = x
  BY DEF ToolTyped
<1>2. x.result.answer.text \in Seq(Public)
  <2>1. CASE x.result = NoResult
    BY <2>1, NothingAnswered
  <2>2. CASE \E code : x.result = [NoResult EXCEPT !.code = code]
    <3>1. PICK code : x.result = [NoResult EXCEPT !.code = code]
      BY <2>2
    <3>2. x.result.answer.text = <<>>
      BY <3>1, NothingAnswered
    <3> QED BY <3>2, NothingAnswered
  <2> QED BY <2>1, <2>2
<1> QED BY <1>1, <1>2 DEF Discreet

\* Those a step does not touch stay as they are.
LEMMA OthersDiscreet ==
    ASSUME SecretInv, NEW t \in Threads, NEW x, th' = [th EXCEPT ![t] = x], Discreet(t)',
           ToolInv', PlainPublic'
    PROVE  SecretInv'
<1>1. ASSUME NEW u \in Threads, u # t PROVE Discreet(u)'
  <2>1. th'[u] = th[u]
    BY <1>1 DEF SecretInv, ToolInv, ToolTyped
  <2>2. Discreet(u)
    BY DEF SecretInv
  <2> QED BY <2>1, <2>2 DEF Discreet, Call
<1> QED BY <1>1 DEF SecretInv

LEMMA SecretInit == ASSUME Init PROVE SecretInv
<1>1. PlainPublic
  BY TextAssumption DEF Init, PlainPublic
<1>2. NoCall.pc = "idle" /\ NoCall.result = NoResult
  BY DEF NoCall
<1>3. ASSUME NEW t \in Threads PROVE Discreet(t)
  <2>1. th[t] = NoCall
    BY DEF Init
  <2> QED BY <2>1, <1>2, NothingAnswered DEF Discreet
<1> QED BY <1>1, <1>3, InitSound DEF SecretInv

\* A step of one thread that leaves the disk.
LEMMA DiscreetStep ==
    ASSUME SecretInv, NEW t \in Threads, NEW x, th' = [th EXCEPT ![t] = x], Discreet(t)',
           ToolInv', disk' = disk
    PROVE  SecretInv'
<1>1. PlainPublic'
  BY DEF SecretInv, PlainPublic
<1> QED BY <1>1, OthersDiscreet

LEMMA SecretBegin ==
    ASSUME SecretInv, ToolInv', NEW t \in Threads, NEW call \in Calls, NEW marked \in BOOLEAN,
           Begin(t, call, marked)
    PROVE  SecretInv'
<1> DEFINE x == IF Registered(call.tool) = {} THEN Blocked
                ELSE Submitted(SpecOf(call.tool), call, marked)
<1>1. th' = [th EXCEPT ![t] = x] /\ disk' = disk /\ ToolTyped
  BY DEF Begin, SecretInv, ToolInv
<1>2. /\ DOMAIN NoCall = Fields /\ NoCall.pc = "idle" /\ NoCall.result = NoResult
  BY DEF NoCall, Fields
<1>3. Blocked.pc = "idle" /\ Blocked.result = [NoResult EXCEPT !.code = "safety_blocked"]
  BY <1>2 DEF Blocked, Fields
<1>4. CASE x = Blocked
  <2> HIDE DEF x
  <2>1. Discreet(t)'
    BY <1>1, <1>3, <1>4, QuietIsDiscreet
  <2> QED BY <1>1, <2>1, DiscreetStep
<1>5. CASE x # Blocked
  <2>1. PICK req : x = [NoCall EXCEPT !.pc = "gate", !.req = req]
    BY <1>5 DEF Submitted
  <2>2. x.pc = "gate" /\ x.result = NoResult
    <3> HIDE DEF x
    <3> QED BY <1>2, <2>1 DEF Fields
  <2> HIDE DEF x
  <2>3. Discreet(t)'
    BY <1>1, <2>2, QuietIsDiscreet
  <2> QED BY <1>1, <2>3, DiscreetStep
<1> QED BY <1>4, <1>5

LEMMA SecretExecute ==
    ASSUME SecretInv, ToolInv', NEW t \in Threads, Execute(t) PROVE SecretInv'
<1>0. ToolTyped /\ th[t].pc = "gate" /\ Discreet(t) /\ disk' = disk
  BY DEF SecretInv, ToolInv, Execute
<1>1. PICK code, preview : th' = [th EXCEPT ![t] = AfterGate(t, code, preview)]
  BY DEF Execute
<1>2. DOMAIN th[t] = Fields /\ th[t].result = NoResult
  BY <1>0 DEF ToolTyped, Discreet
<1> DEFINE x == AfterGate(t, code, preview)
<1>3. /\ x.pc # "act"
      /\ \/ x.result = NoResult
         \/ x.pc = "idle" /\ \E c : x.result = [NoResult EXCEPT !.code = c]
  <2>1. CASE code = "ok"
    <3>1. x = Goto(t, "run")
      BY <2>1 DEF AfterGate
    <3> HIDE DEF x
    <3> QED BY <1>2, <3>1, Shapes, Answers
  <2>2. CASE code = "dry_run_preview"
    <3>1. x = [Goto(t, "asked") EXCEPT !.preview = preview]
      BY <2>2 DEF AfterGate
    <3>2. /\ DOMAIN Goto(t, "asked") = Fields /\ Goto(t, "asked").pc = "asked"
          /\ Goto(t, "asked").result = NoResult
      BY <1>2, Shapes, Answers
    <3> HIDE DEF x
    <3> QED BY <3>1, <3>2 DEF Fields
  <2>3. CASE code \notin {"ok", "dry_run_preview"}
    <3>1. x = Ended(t, code)
      BY <2>3 DEF AfterGate
    <3>2. x.pc = "idle" /\ x.result = [NoResult EXCEPT !.code = code]
      <4> HIDE DEF x
      <4> QED BY <1>2, <3>1, Shapes, Answers
    <3> HIDE DEF x
    <3> QED BY <3>2
  <2> QED BY <2>1, <2>2, <2>3
<1> HIDE DEF x
<1>4. th' = [th EXCEPT ![t] = x]
  BY <1>1 DEF x
<1>5. Discreet(t)'
  BY <1>0, <1>3, <1>4, QuietIsDiscreet
<1> QED BY <1>0, <1>4, <1>5, DiscreetStep

LEMMA SecretAnswer ==
    ASSUME SecretInv, ToolInv', NEW t \in Threads, Approve(t) \/ Decline(t) PROVE SecretInv'
<1>0. ToolTyped /\ th[t].pc = "asked" /\ Discreet(t) /\ disk' = disk
  BY DEF SecretInv, ToolInv, Approve, Decline
<1>2. DOMAIN th[t] = Fields /\ th[t].result = NoResult
  BY <1>0 DEF ToolTyped, Discreet
<1>3. CASE Approve(t)
  <2> DEFINE g == Goto(t, "gate")
             x == [g EXCEPT !.req.ticket = th[t].preview, !.req.dry = FALSE]
  <2>1. th' = [th EXCEPT ![t] = x]
    BY <1>3 DEF Approve
  <2>2. g.pc = "gate" /\ DOMAIN g = Fields /\ g.result = NoResult
    BY <1>2, Shapes, Answers
  <2>3. x.pc = "gate" /\ x.result = NoResult
    <3> HIDE DEF g
    <3> QED BY <2>2 DEF Fields
  <2> HIDE DEF x
  <2>4. Discreet(t)'
    BY <1>0, <2>1, <2>3, QuietIsDiscreet
  <2> QED BY <1>0, <2>1, <2>4, DiscreetStep
<1>4. CASE Decline(t)
  <2> DEFINE x == Ended(t, "cancelled")
  <2>1. th' = [th EXCEPT ![t] = x]
    BY <1>4 DEF Decline, Finish
  <2>2. x.pc = "idle" /\ x.result = [NoResult EXCEPT !.code = "cancelled"]
    BY <1>2, Shapes, Answers
  <2> HIDE DEF x
  <2>3. Discreet(t)'
    BY <1>0, <2>1, <2>2, QuietIsDiscreet
  <2> QED BY <1>0, <2>1, <2>3, DiscreetStep
<1> QED BY <1>3, <1>4

\* What a reading tool answers holds no secret, unless a ticket opened the file.
LEMMA AnswerPublic ==
    ASSUME PlainPublic, NEW call, IsCall(call), call.tool \in Reads, NEW ticketed \in BOOLEAN
    PROVE  LET answer == ReadAnswer(disk, call, ReadCode(disk, call, ticketed)) IN
           \/ answer.text \in Seq(Public)
           \/ ticketed /\ Area[call.path] = "sensitive"
<1> DEFINE code   == ReadCode(disk, call, ticketed)
           answer == ReadAnswer(disk, call, code)
           texts  == {"read_file", "read_file_chunk", "read_file_head", "read_file_tail",
                      "document_parser"}
<1>0. \A c, paths, more : Answer(c, <<>>, paths, more).text \in Seq(Public)
  BY NothingAnswered DEF Answer
<1>1. CASE code # "ok"
  <2>1. answer = Answer(code, <<>>, {}, FALSE)
    BY <1>1 DEF ReadAnswer
  <2> HIDE DEF answer, code
  <2>2. answer.text \in Seq(Public)
    BY <1>0, <2>1
  <2> QED BY <2>2 DEF answer, code
<1>2. CASE code = "ok" /\ call.tool \in {"list_files", "find_files", "file_info"}
  <2>1. \E paths : answer = Answer("ok", <<>>, paths, FALSE)
    <3> HIDE DEF code
    <3>1. CASE call.tool = "list_files"
      <4>1. answer = Answer("ok", <<>>, Entries(disk, call.path), FALSE)
        BY <1>2, <3>1 DEF ReadAnswer
      <4> HIDE DEF answer
      <4> QED BY <4>1
    <3>2. CASE call.tool = "find_files"
      <4>1. answer = Answer("ok", <<>>, Matches(disk, call), FALSE)
        BY <1>2, <3>2 DEF ReadAnswer
      <4> HIDE DEF answer
      <4> QED BY <4>1
    <3>3. CASE call.tool = "file_info"
      <4>1. answer = Answer("ok", <<>>, {call.path}, FALSE)
        BY <1>2, <3>3 DEF ReadAnswer
      <4> HIDE DEF answer
      <4> QED BY <4>1
    <3> HIDE DEF answer
    <3> QED BY <1>2, <3>1, <3>2, <3>3
  <2> HIDE DEF answer, code
  <2>2. answer.text \in Seq(Public)
    BY <1>0, <2>1
  <2> QED BY <2>2 DEF answer, code
<1>3. CASE code = "ok" /\ call.tool \in texts
  <2>1. call.path \in Paths
    <3>1. call.tool \in ForOneFile
      BY <1>3 DEF ForOneFile, Reads
    <3> QED BY <3>1, CallPublic
  <2>2. ReadTarget(disk, call.path, ticketed) = "ok"
    BY <1>3 DEF ReadCode
  <2>3. Area[call.path] = "plain" \/ (Area[call.path] = "sensitive" /\ ticketed)
    BY <2>1, <2>2, ReadableArea
  <2> DEFINE text == disk[call.path].text
  <2>4. \/ \E paths : answer = Answer("ok", text, paths, FALSE)
        \/ \E paths, more : answer = Answer("ok", ReadRange(text, call).text, paths, more)
    <3> HIDE DEF code
    <3>1. CASE call.tool \in {"read_file", "document_parser"}
      <4>1. answer = Answer("ok", text, {call.path}, FALSE)
        BY <1>3, <3>1 DEF ReadAnswer
      <4> HIDE DEF answer, text
      <4> QED BY <4>1
    <3>2. CASE call.tool \notin {"read_file", "document_parser"}
      <4> DEFINE range == ReadRange(text, call)
      <4>1. answer = Answer("ok", range.text, {call.path}, range.more)
        BY <1>3, <3>2 DEF ReadAnswer
      <4> HIDE DEF answer, text
      <4> QED BY <4>1
    <3> HIDE DEF answer, text
    <3> QED BY <3>1, <3>2
  <2> HIDE DEF answer, text
  <2>5. answer.text \in {text, ReadRange(text, call).text}
    BY <2>4 DEF Answer
  <2>6. ASSUME Area[call.path] = "plain" PROVE answer.text \in Seq(Public)
    <3>1. text \in Seq(Public)
      BY <2>1, <2>6 DEF PlainPublic, text
    <3>2. ReadRange(text, call).text \in Seq(Public)
      BY <3>1, RangePublic, CallPublic
    <3> QED BY <2>5, <3>1, <3>2
  <2> QED BY <2>3, <2>6 DEF answer
<1> QED BY <1>1, <1>2, <1>3 DEF Reads

LEMMA SecretEnd ==
    ASSUME SecretInv, ToolInv', NEW t \in Threads, Read(t) \/ Compute(t) \/ Reread(t)
    PROVE  SecretInv'
<1>0. ToolTyped /\ Discreet(t) /\ ThreadOK(t) /\ PlainPublic /\ disk' = disk /\ th[t].pc # "idle"
  BY DEF SecretInv, ToolInv, Read, Compute, Reread
<1>2. DOMAIN th[t] = Fields /\ th[t].result = NoResult
  BY <1>0 DEF ToolTyped, Discreet
<1>3. CASE Read(t)
  <2> DEFINE held   == th[t].req.ticket # None
             code   == ReadCode(disk, Call(t), held)
             answer == ReadAnswer(disk, Call(t), code)
             e      == Ended(t, answer.code)
             x      == [e EXCEPT !.result.answer = answer]
  <2>1. th' = [th EXCEPT ![t] = x] /\ Call(t).tool \in Reads
    BY <1>3 DEF Read
  <2>2. answer.text \in Seq(Public) \/ (held /\ Area[Call(t).path] = "sensitive")
    <3>1. IsCall(Call(t))
      BY <1>0 DEF ThreadOK
    <3>2. held \in BOOLEAN
      OBVIOUS
    <3> HIDE DEF held
    <3> QED BY <1>0, <2>1, <3>1, <3>2, AnswerPublic
  <2> HIDE DEF answer
  <2>3. /\ e.pc = "idle" /\ DOMAIN e = Fields /\ e.req = th[t].req
        /\ e.result = [NoResult EXCEPT !.code = answer.code]
    <3>1. e.req = th[t].req
      BY <1>2 DEF Ended, Fields
    <3> HIDE DEF e
    <3> QED BY <1>2, <3>1, Shapes, Answers DEF e
  <2> HIDE DEF e
  <2>4. "answer" \in DOMAIN e.result
    BY <2>3 DEF NoResult
  <2>5. x.pc = "idle" /\ x.req = th[t].req /\ x.result = [e.result EXCEPT !.answer = answer]
    BY <2>3 DEF Fields
  <2>6. x.result.answer = answer
    BY <2>4, <2>5
  <2> HIDE DEF x
  <2>7. th'[t] = x
    BY <1>0, <2>1 DEF ToolTyped
  <2>8. Call(t)' = Call(t)
    BY <2>5, <2>7 DEF Call
  <2>9. Discreet(t)'
    BY <2>2, <2>5, <2>6, <2>7, <2>8 DEF Discreet
  <2> QED BY <1>0, <2>1, <2>9, DiscreetStep
<1>4. CASE Compute(t) \/ Reread(t)
  <2>1. PICK code : th' = [th EXCEPT ![t] = Ended(t, code)]
    BY <1>4 DEF Compute, Reread, Finish
  <2> DEFINE x == Ended(t, code)
  <2>2. x.pc = "idle" /\ x.result = [NoResult EXCEPT !.code = code]
    BY <1>2, Shapes, Answers
  <2>3. th' = [th EXCEPT ![t] = x]
    BY <2>1
  <2> HIDE DEF x
  <2>4. Discreet(t)'
    BY <1>0, <2>2, <2>3, QuietIsDiscreet
  <2> QED BY <1>0, <2>3, <2>4, DiscreetStep
<1> QED BY <1>3, <1>4

\* What is planned for a patch holds no secret; what is copied is in the workspace.
LEMMA SecretPlan ==
    ASSUME SecretInv, ToolInv', NEW t \in Threads, MakePlan(t) PROVE SecretInv'
<1> DEFINE call == Call(t)
           plan == HandlerPlan(disk, call)
           x    == AfterPlan(t, plan)
<1>0. /\ ToolTyped /\ Discreet(t) /\ ThreadOK(t) /\ PlainPublic /\ disk' = disk
      /\ th[t].pc = "run" /\ call.tool \in Writes /\ th' = [th EXCEPT ![t] = x]
  BY DEF SecretInv, ToolInv, MakePlan
<1>1. IsCall(call)
  BY <1>0 DEF ThreadOK
<1>2. DOMAIN th[t] = Fields /\ th[t].result = NoResult
  BY <1>0 DEF ToolTyped, Discreet
<1>3. CASE plan.code # "ok"
  <2>1. x = Ended(t, plan.code)
    BY <1>3 DEF AfterPlan
  <2> HIDE DEF x, plan
  <2>2. x.pc = "idle" /\ x.result = [NoResult EXCEPT !.code = plan.code]
    BY <1>2, <2>1, Shapes, Answers
  <2>3. Discreet(t)'
    BY <1>0, <2>2, QuietIsDiscreet
  <2> QED BY <1>0, <2>3, DiscreetStep
<1>4. CASE plan.code = "ok"
  <2> DEFINE g == Goto(t, "act")
  <2>1. g.pc = "act" /\ DOMAIN g = Fields /\ g.req = th[t].req /\ g.result = NoResult
    BY <1>2, Shapes, Answers
  <2>2. x = [g EXCEPT !.plan = plan]
    BY <1>4 DEF AfterPlan
  <2>3. x.pc = "act" /\ x.req = th[t].req /\ x.plan = plan /\ x.result = NoResult
    <3> HIDE DEF g, x, plan
    <3> QED BY <2>1, <2>2 DEF Fields
  <2>4. ASSUME call.tool = "patch_file" PROVE plan.text \in Seq(Public)
    <3>1. ExistingFile(disk, call.path) = "ok"
      BY <1>4, <2>4 DEF HandlerPlan, PatchFilePlan, Plan
    <3>2. call.path \in Paths
      <4>1. call.tool \in ForOneFile
        BY <2>4 DEF ForOneFile, Writes
      <4> HIDE DEF call
      <4> QED BY <1>1, <4>1, CallPublic
    <3>3. Area[call.path] = "plain"
      BY <3>1, <3>2, ExistingFilePlain
    <3> DEFINE text == disk[call.path].text
    <3>4. text \in Seq(Public)
      BY <1>0, <3>2, <3>3 DEF PlainPublic
    <3>5. call.patches \in Seq(PatchSet)
      BY <1>1, CallPublic
    <3>6. plan.text = PatchPlan(text, call.patches).text
      BY <2>4, <3>1 DEF HandlerPlan, PatchFilePlan, Plan
    <3> HIDE DEF text, plan, call
    <3> QED BY <3>4, <3>5, <3>6, PatchPlanPublic
  <2>5. ASSUME call.tool \in {"copy_file", "move_file", "rename_file"}
        PROVE  Area[call.path] = "plain"
    <3> DEFINE codes == <<ExistingFile(disk, call.path),
                          IF call.path = call.target THEN "file_conflict" ELSE "ok",
                          MutationTarget(disk, call.target, call.mode = "overwrite")>>
    <3>1. FirstRefusal(codes) = "ok" /\ DOMAIN codes = 1..3
      BY <1>4, <2>5 DEF HandlerPlan, MutationPlan, Plan
    <3>2. \A i \in 1..3 : codes[i] = "ok"
      <4> HIDE DEF codes
      <4> QED BY <3>1, NoRefusal
    <3>3. codes[1] = "ok"
      <4> HIDE DEF codes
      <4> QED BY <3>2
    <3>4. call.path \in Paths
      <4>1. call.tool \in ForOneFile
        BY <2>5 DEF ForOneFile, Writes
      <4> HIDE DEF call
      <4> QED BY <1>1, <4>1, CallPublic
    <3> QED BY <3>3, <3>4, ExistingFilePlain
  <2> HIDE DEF x, plan
  <2>6. th'[t] = x
    BY <1>0 DEF ToolTyped
  <2>7. Call(t)' = call
    BY <2>3, <2>6 DEF Call
  <2> HIDE DEF call
  <2>8. Discreet(t)'
    BY <2>3, <2>4, <2>5, <2>6, <2>7, NothingAnswered DEF Discreet
  <2> QED BY <1>0, <2>8, DiscreetStep
<1> QED BY <1>3, <1>4

\* What a handler writes to the workspace holds no secret.
LEMMA SecretAct ==
    ASSUME SecretInv, ToolInv', NEW t \in Threads, Act(t) PROVE SecretInv'
<1> DEFINE call == Call(t)
           made == HandlerAct(disk, call, th[t].plan.text)
           new  == made.disk
           x    == IF made.code = "ok" /\ Rereads(call) THEN Goto(t, "reread")
                   ELSE Ended(t, made.code)
<1>0. /\ ToolTyped /\ ThreadOK(t) /\ Discreet(t) /\ PlainPublic
      /\ th[t].pc = "act" /\ disk' = new /\ th' = [th EXCEPT ![t] = x]
  BY DEF SecretInv, ToolInv, Act, Touch
<1>1. IsCall(call) /\ PlanMade(t) /\ DOMAIN disk = Paths /\ call.tool \in Writes
  BY <1>0 DEF ThreadOK, PlanMade, ToolTyped
<1>2. DOMAIN th[t] = Fields /\ th[t].result = NoResult
  BY <1>0 DEF ToolTyped, Discreet
<1>3. Discreet(t)'
  <2>1. \/ x.pc = "reread" /\ x.result = NoResult
        \/ x.pc = "idle" /\ x.result = [NoResult EXCEPT !.code = made.code]
    <3> HIDE DEF made
    <3> QED BY <1>2, Shapes, Answers
  <2> HIDE DEF x, made
  <2> QED BY <1>0, <2>1, QuietIsDiscreet
<1> HIDE DEF x
<1>4. new \in Outcomes(call, th[t].plan.text)
  BY HandlerMakes
<1> HIDE DEF new
<1>5. ASSUME NEW p \in Paths, Area[p] = "plain" PROVE new[p].text \in Seq(Public)
  <2>1. disk[p].text \in Seq(Public)
    BY <1>0, <1>5 DEF PlainPublic
  <2>2. CASE new = disk
    BY <2>1, <2>2
  <2>3. CASE call.tool = "write_file" /\ new # disk
    <3>1. PICK text \in {call.text, disk[call.path].text \o call.text} :
             new = [disk EXCEPT ![call.path] = File(text)]
      BY <1>4, <2>3 DEF Outcomes
    <3>2. CASE p # call.path
      BY <2>1, <3>1, <3>2
    <3>3. CASE p = call.path
      <4> DEFINE old == disk[p].text
                 add == call.text
      <4>1. old \in Seq(Public) /\ add \in Seq(Public)
        BY <1>1, <2>1, CallPublic
      <4>2. text \in {add, old \o add}
        BY <3>1, <3>3
      <4>3. new[p] = File(text)
        BY <1>1, <3>1, <3>3
      <4> HIDE DEF old, add
      <4>4. old \o add \in Seq(Public)
        BY <4>1, Joined
      <4> QED BY <4>1, <4>2, <4>3, <4>4, FileText
    <3> QED BY <3>2, <3>3
  <2>4. CASE call.tool = "patch_file" /\ new # disk
    <3>1. new = [disk EXCEPT ![call.path] = File(th[t].plan.text)]
      BY <1>4, <2>4 DEF Outcomes
    <3>2. th[t].plan.text \in Seq(Public)
      BY <1>0, <2>4 DEF Discreet
    <3>3. CASE p # call.path
      BY <2>1, <3>1, <3>3
    <3>4. CASE p = call.path
      <4>1. new[p] = File(th[t].plan.text)
        BY <1>1, <3>1, <3>4
      <4> QED BY <3>2, <4>1, FileText
    <3> QED BY <3>3, <3>4
  <2>5. CASE call.tool \notin {"write_file", "patch_file", "delete_file"} /\ new # disk
    <3> DEFINE text == disk[call.path].text
    <3>1. call.tool \in {"copy_file", "move_file", "rename_file"}
      BY <1>1, <2>5 DEF Writes
    <3>2. text \in Seq(Public)
      <4>1. Area[call.path] = "plain"
        BY <1>0, <3>1 DEF Discreet
      <4>2. call.path \in Paths
        <5>1. call.tool \in ForOneFile
          BY <3>1 DEF ForOneFile, Writes
        <5> HIDE DEF call
        <5> QED BY <1>1, <5>1, CallPublic
      <4> QED BY <1>0, <4>1, <4>2 DEF PlainPublic
    <3>3. \/ new = [disk EXCEPT ![call.target] = File(text)]
          \/ new = [[disk EXCEPT ![call.target] = File(text)] EXCEPT ![call.path] = Missing]
      BY <1>4, <2>5 DEF Outcomes
    <3> HIDE DEF text
    <3>4. new[p] \in {disk[p], File(text), Missing}
      BY <1>1, <3>3
    <3>5. Missing.text = <<>> /\ File(text).text = text
      BY DEF Missing, File
    <3> QED BY <2>1, <3>2, <3>4, <3>5, NothingAnswered
  <2>6. call.tool # "delete_file"
    BY DEF Act
  <2> QED BY <2>2, <2>3, <2>4, <2>5, <2>6
<1>6. PlainPublic'
  BY <1>0, <1>5 DEF PlainPublic
<1> QED BY <1>0, <1>3, <1>6, OthersDiscreet

\* A removal adds no text.
LEMMA SecretUnlink ==
    ASSUME SecretInv, ToolInv', NEW t \in Threads, UnlinkNext(t) PROVE SecretInv'
<1> DEFINE todo == th[t].plan.todo
           h    == Head(todo)
           made == Unlink(disk, h)
           new  == made.disk
           x    == IF made.code # "ok" THEN Ended(t, made.code)
                   ELSE [(IF Len(todo) > 1 THEN th[t] ELSE Ended(t, "ok"))
                         EXCEPT !.plan.todo = Tail(todo)]
<1>0. /\ ToolTyped /\ Discreet(t) /\ PlainPublic
      /\ th[t].pc = "act" /\ Call(t).tool = "delete_file"
      /\ disk' = new /\ th' = [th EXCEPT ![t] = x]
  BY DEF SecretInv, ToolInv, UnlinkNext, Touch
<1>1. DOMAIN th[t] = Fields /\ th[t].result = NoResult /\ DOMAIN disk = Paths
  BY <1>0 DEF ToolTyped, Discreet
<1>2. th'[t] = x
  <2> HIDE DEF x
  <2> QED BY <1>0 DEF ToolTyped
<1>3. Discreet(t)'
  <2>1. CASE made.code = "ok" /\ Len(todo) > 1
    <3>1. x = [th[t] EXCEPT !.plan.todo = Tail(todo)]
      BY <2>1
    <3>2. x.pc = "act" /\ x.req = th[t].req /\ x.result = NoResult
      <4> HIDE DEF x, todo
      <4> QED BY <1>0, <1>1, <3>1 DEF Fields
    <3> HIDE DEF x
    <3>3. Call(t)' = Call(t)
      BY <1>2, <3>2 DEF Call
    <3> QED BY <1>0, <1>2, <3>2, <3>3, NothingAnswered DEF Discreet
  <2>2. CASE ~(made.code = "ok" /\ Len(todo) > 1)
    <3>1. \A code : /\ Ended(t, code).pc = "idle" /\ DOMAIN Ended(t, code) = Fields
                    /\ Ended(t, code).result = [NoResult EXCEPT !.code = code]
      BY <1>1, Shapes, Answers
    <3>2. x = Ended(t, made.code) \/ x = [Ended(t, "ok") EXCEPT !.plan.todo = Tail(todo)]
      BY <2>2
    <3> HIDE DEF x, todo, made
    <3>3. x.pc = "idle" /\ \E code : x.result = [NoResult EXCEPT !.code = code]
      <4> DEFINE e == Ended(t, "ok")
      <4>1. e.pc = "idle" /\ DOMAIN e = Fields /\ e.result = [NoResult EXCEPT !.code = "ok"]
        BY <3>1
      <4> HIDE DEF e
      <4>2. CASE x = [e EXCEPT !.plan.todo = Tail(todo)]
        <5>1. x.pc = "idle" /\ x.result = [NoResult EXCEPT !.code = "ok"]
          BY <4>1, <4>2 DEF Fields
        <5> QED BY <5>1
      <4>3. CASE x = Ended(t, made.code)
        <5>1. x.pc = "idle" /\ x.result = [NoResult EXCEPT !.code = made.code]
          BY <3>1, <4>3
        <5> QED BY <5>1
      <4> QED BY <3>2, <4>2, <4>3 DEF e
    <3> QED BY <1>0, <3>3, QuietIsDiscreet
  <2> QED BY <2>1, <2>2
<1> HIDE DEF x
<1>4. new \in {disk, [disk EXCEPT ![h] = Missing]}
  BY UnlinkMakes
<1> HIDE DEF new, h
<1>5. \A p \in Paths : new[p] \in {disk[p], Missing}
  BY <1>1, <1>4
<1>6. PlainPublic'
  <2>1. Missing.text \in Seq(Public)
    BY NothingAnswered DEF Missing
  <2> QED BY <1>0, <1>5, <2>1 DEF PlainPublic
<1> QED BY <1>0, <1>3, <1>6, OthersDiscreet

\* The user's editor adds no secret.
LEMMA SecretEdit ==
    ASSUME SecretInv, ToolInv', NEW p \in Paths, NEW node \in Edits, Edit(p, node)
    PROVE  SecretInv'
<1>1. disk' = [disk EXCEPT ![p] = node] /\ th' = th
  BY DEF Edit, Change
<1>2. DOMAIN disk = Paths /\ PlainPublic
  BY DEF SecretInv, ToolInv, ToolTyped
<1>3. \A q \in Paths : disk'[q] \in {disk[q], node}
  BY <1>1, <1>2
<1>4. node.text \in Seq(Public)
  BY TextAssumption
<1>5. PlainPublic'
  BY <1>2, <1>3, <1>4 DEF PlainPublic
<1>6. \A u \in Threads : Discreet(u)'
  BY <1>1 DEF SecretInv, Discreet, Call
<1> QED BY <1>5, <1>6 DEF SecretInv

\* Nobody's step gives a secret away.
LEMMA SecretStep == ASSUME SecretInv, [Next]_vars PROVE SecretInv'
<1>0. ToolInv'
  BY ToolInvStep DEF SecretInv
<1>1. CASE UNCHANGED vars
  <2>1. disk' = disk /\ th' = th
    BY <1>1 DEF vars
  <2>2. PlainPublic' /\ \A u \in Threads : Discreet(u)'
    BY <2>1 DEF SecretInv, PlainPublic, Discreet, Call
  <2> QED BY <1>0, <2>2 DEF SecretInv
<1>2. ASSUME NEW t \in Threads, NEW call \in Calls, NEW marked \in BOOLEAN, Begin(t, call, marked)
      PROVE  SecretInv'
  BY <1>0, <1>2, SecretBegin
<1>3. ASSUME NEW t \in Threads, Execute(t) PROVE SecretInv'
  BY <1>0, <1>3, SecretExecute
<1>4. ASSUME NEW t \in Threads, Approve(t) \/ Decline(t) PROVE SecretInv'
  BY <1>0, <1>4, SecretAnswer
<1>5. ASSUME NEW t \in Threads, Handle(t) PROVE SecretInv'
  BY <1>0, <1>5, SecretEnd, SecretPlan, SecretAct, SecretUnlink DEF Handle
<1>6. ASSUME NEW p \in Paths, NEW node \in Edits, Edit(p, node) PROVE SecretInv'
  BY <1>0, <1>6, SecretEdit
<1> QED BY <1>1, <1>2, <1>3, <1>4, <1>5, <1>6 DEF Next

\* The text of a file that is sensitive or outside of the workspace gets into no other
\* file, by whatever tools and patches, and is answered only to a call with a ticket
\* (PathPolicy, PathResolver in each handler), as long as no call brings it along.
THEOREM SecretsStayAlways == Spec => []SecretsStay
<1>1. Init => SecretInv
  BY SecretInit
<1>2. SecretInv /\ [Next]_vars => SecretInv'
  BY SecretStep
<1>3. SecretInv => SecretsStay
  BY SecretInvKeeps
<1> QED BY <1>1, <1>2, <1>3, PTL DEF Spec

(**************************** patches side by side ******************************)

\* Patches that do not get into each other's way, in a text of m characters: no two come
\* at one place, and what one rewrites ends before the next comes.
Spread(m, located) ==
    /\ \A i \in DOMAIN located :
          ~located[i].inserts => /\ located[i].at = located[i].start
                                 /\ located[i].start < located[i].end /\ located[i].end <= m
    /\ \A i, j \in DOMAIN located : i # j =>
          /\ located[i].at # located[j].at
          /\ ~located[i].inserts /\ located[i].at < located[j].at => located[i].end <= located[j].at

\* Located patches without overlap and without entanglement are that far apart.
LEMMA SpreadOut ==
    ASSUME NEW m \in Nat, NEW located, GoodPatches(m, located),
           \A i \in DOMAIN located : ~located[i].inserts =>
               /\ located[i].at = located[i].start
               /\ located[i].start < located[i].end /\ located[i].end <= m,
           ~OverlapConflict(located), ~Entangled(located)
    PROVE  Spread(m, located)
<1> SUFFICES ASSUME NEW i \in DOMAIN located, NEW j \in DOMAIN located, i # j
             PROVE  /\ located[i].at # located[j].at
                    /\ ~located[i].inserts /\ located[i].at < located[j].at =>
                           located[i].end <= located[j].at
  BY DEF Spread
<1> DEFINE x == located[i]
           y == located[j]
<1>1. /\ ~(x.inserts /\ y.inserts /\ x.at = y.at)
      /\ ~(~x.inserts /\ ~y.inserts /\ x.start < y.end /\ x.end > y.start)
  BY DEF OverlapConflict
<1>2. /\ ~(x.inserts /\ ~y.inserts /\ y.start <= x.at /\ x.at < y.end)
      /\ ~(y.inserts /\ ~x.inserts /\ x.start <= y.at /\ y.at < x.end)
  BY DEF Entangled
<1>3. /\ x.at \in Nat /\ x.start \in Nat /\ x.end \in Nat /\ x.inserts \in BOOLEAN
      /\ y.at \in Nat /\ y.start \in Nat /\ y.end \in Nat /\ y.inserts \in BOOLEAN
  <2>1. GoodPatch(m, x) /\ GoodPatch(m, y)
    BY DEF GoodPatches
  <2> HIDE DEF x, y
  <2> QED BY <2>1 DEF GoodPatch
<1>4. /\ ~x.inserts => x.at = x.start /\ x.start < x.end
      /\ ~y.inserts => y.at = y.start /\ y.start < y.end
  OBVIOUS
<1> HIDE DEF x, y
<1>5. x.at # y.at /\ (~x.inserts /\ x.at < y.at => x.end <= y.at)
  BY <1>1, <1>2, <1>3, <1>4
<1> QED BY <1>5 DEF x, y

\* The character at a place, none behind the last.
Original(text, i) == IF i = Len(text) THEN <<>> ELSE <<text[i + 1]>>

\* What comes at a place: nothing new where no patch comes and nothing is taken away, ...
LEMMA PlaceFree ==
    ASSUME NEW text \in Seq(Public), NEW located, Spread(Len(text), located), NEW i \in 0..Len(text),
           \A k \in DOMAIN located : located[k].at # i,
           \A k \in DOMAIN located : ~(~located[k].inserts /\ located[k].at < i /\ i < located[k].end),
           GoodPatches(Len(text), located)
    PROVE  AtPlace(text, located, i) = Original(text, i)
<1> DEFINE added == {k \in DOMAIN located : located[k].inserts /\ located[k].at = i}
           begun == {k \in DOMAIN located : ~located[k].inserts /\ located[k].start = i}
           gone  == \E k \in DOMAIN located : /\ ~located[k].inserts
                                              /\ located[k].start <= i /\ i < located[k].end
<1>1. added = {} /\ begun = {}
  BY DEF Spread
<1>2. ~gone
  <2> SUFFICES ASSUME NEW k \in DOMAIN located, ~located[k].inserts,
                      located[k].start <= i, i < located[k].end
               PROVE  FALSE
    OBVIOUS
  <2>1. located[k].at = located[k].start /\ located[k].at # i
    BY DEF Spread
  <2>2. located[k].start \in Nat
    BY DEF GoodPatches, GoodPatch
  <2>3. located[k].at < i
    BY <2>1, <2>2
  <2> QED BY <2>3
<1>3. AtPlace(text, located, i) = Coming(located, added) \o Coming(located, begun)
         \o (IF gone \/ i = Len(text) THEN <<>> ELSE <<text[i + 1]>>)
  BY DEF AtPlace
<1> HIDE DEF added, begun, gone
<1>4. Coming(located, added) = <<>> /\ Coming(located, begun) = <<>>
  BY <1>1 DEF Coming
<1>5. AtPlace(text, located, i) = <<>> \o <<>> \o Original(text, i)
  BY <1>2, <1>3, <1>4 DEF Original
<1>6. Original(text, i) \in Seq(Public)
  BY DEF Original
<1> QED BY <1>5, <1>6

\* ... what a patch inserts, ...
LEMMA PlaceInsert ==
    ASSUME NEW text \in Seq(Public), NEW located, Spread(Len(text), located),
           GoodPatches(Len(text), located), NEW p \in DOMAIN located, located[p].inserts
    PROVE  AtPlace(text, located, located[p].at) = located[p].new \o Original(text, located[p].at)
<1> DEFINE i == located[p].at
           added == {k \in DOMAIN located : located[k].inserts /\ located[k].at = i}
           begun == {k \in DOMAIN located : ~located[k].inserts /\ located[k].start = i}
           gone  == \E k \in DOMAIN located : /\ ~located[k].inserts
                                              /\ located[k].start <= i /\ i < located[k].end
<1>1. added = {p} /\ begun = {}
  BY DEF Spread
<1>2. ~gone
  <2> SUFFICES ASSUME NEW k \in DOMAIN located, ~located[k].inserts,
                      located[k].start <= i, i < located[k].end
               PROVE  FALSE
    OBVIOUS
  <2>1. located[k].at = located[k].start /\ k # p
    BY DEF Spread
  <2>2. located[k].start \in Nat /\ i \in Nat /\ located[k].end \in Nat
    BY DEF GoodPatches, GoodPatch
  <2>3. located[k].at # i
    BY <2>1 DEF Spread
  <2>4. located[k].at < i => located[k].end <= i
    BY <2>1 DEF Spread
  <2> HIDE DEF i
  <2> QED BY <2>1, <2>2, <2>3, <2>4
<1>3. AtPlace(text, located, i) = Coming(located, added) \o Coming(located, begun)
         \o (IF gone \/ i = Len(text) THEN <<>> ELSE <<text[i + 1]>>)
  BY DEF AtPlace
<1>7. located[p].new \in Seq(Public) /\ i \in 0..Len(text)
  BY DEF GoodPatches, GoodPatch
<1> HIDE DEF added, begun, gone, i
<1>4. Coming(located, added) = located[p].new /\ Coming(located, begun) = <<>>
  BY <1>1 DEF Coming
<1>5. AtPlace(text, located, i) = located[p].new \o <<>> \o Original(text, i)
  BY <1>2, <1>3, <1>4 DEF Original
<1>6. Original(text, i) \in Seq(Public)
  BY <1>7 DEF Original
<1>8. located[p].new \o <<>> = located[p].new
  BY <1>7, ConcatEmptySeq
<1> QED BY <1>5, <1>8 DEF i

\* ... what a patch rewrites, where the rewritten range begins, ...
LEMMA PlaceRewritten ==
    ASSUME NEW text \in Seq(Public), NEW located, Spread(Len(text), located),
           GoodPatches(Len(text), located), NEW p \in DOMAIN located, ~located[p].inserts
    PROVE  AtPlace(text, located, located[p].at) = located[p].new
<1> DEFINE i == located[p].at
           added == {k \in DOMAIN located : located[k].inserts /\ located[k].at = i}
           begun == {k \in DOMAIN located : ~located[k].inserts /\ located[k].start = i}
           gone  == \E k \in DOMAIN located : /\ ~located[k].inserts
                                              /\ located[k].start <= i /\ i < located[k].end
<1>1. added = {} /\ begun = {p}
  BY DEF Spread
<1>2. gone
  <2>1. located[p].start = i /\ i < located[p].end
    BY DEF Spread
  <2>2. i \in Nat
    BY DEF GoodPatches, GoodPatch
  <2>3. located[p].start <= i
    BY <2>1, <2>2
  <2> QED BY <2>1, <2>3
<1>3. AtPlace(text, located, i) = Coming(located, added) \o Coming(located, begun)
         \o (IF gone \/ i = Len(text) THEN <<>> ELSE <<text[i + 1]>>)
  BY DEF AtPlace
<1>7. located[p].new \in Seq(Public)
  BY DEF GoodPatches, GoodPatch
<1> HIDE DEF added, begun, gone, i
<1>4. Coming(located, added) = <<>> /\ Coming(located, begun) = located[p].new
  BY <1>1 DEF Coming
<1>5. AtPlace(text, located, i) = <<>> \o located[p].new \o <<>>
  BY <1>2, <1>3, <1>4
<1>6. <<>> \o located[p].new = located[p].new /\ located[p].new \o <<>> = located[p].new
  BY <1>7, ConcatEmptySeq
<1> QED BY <1>5, <1>6 DEF i

\* ... and nothing in the rest of it.
LEMMA PlaceGone ==
    ASSUME NEW text \in Seq(Public), NEW located, Spread(Len(text), located),
           GoodPatches(Len(text), located), NEW p \in DOMAIN located, ~located[p].inserts,
           NEW i \in Nat, located[p].at < i, i < located[p].end
    PROVE  AtPlace(text, located, i) = <<>>
<1> DEFINE added == {k \in DOMAIN located : located[k].inserts /\ located[k].at = i}
           begun == {k \in DOMAIN located : ~located[k].inserts /\ located[k].start = i}
           gone  == \E k \in DOMAIN located : /\ ~located[k].inserts
                                              /\ located[k].start <= i /\ i < located[k].end
<1>0. located[p].end \in Nat /\ located[p].at \in Nat
  BY DEF GoodPatches, GoodPatch
<1>1. ASSUME NEW k \in DOMAIN located, located[k].at = i PROVE FALSE
  <2>1. k # p
    BY <1>0, <1>1
  <2>2. located[p].end <= i
    BY <1>1, <2>1 DEF Spread
  <2> QED BY <1>0, <2>2
<1>2. added = {} /\ begun = {}
  BY <1>1 DEF Spread
<1>3. gone
  <2>1. located[p].start = located[p].at
    BY DEF Spread
  <2>2. located[p].start <= i
    BY <1>0, <2>1
  <2> QED BY <2>2
<1>4. AtPlace(text, located, i) = Coming(located, added) \o Coming(located, begun)
         \o (IF gone \/ i = Len(text) THEN <<>> ELSE <<text[i + 1]>>)
  BY DEF AtPlace
<1> HIDE DEF added, begun, gone
<1>5. Coming(located, added) = <<>> /\ Coming(located, begun) = <<>>
  BY <1>2 DEF Coming
<1>6. AtPlace(text, located, i) = <<>> \o <<>> \o <<>>
  BY <1>3, <1>4, <1>5
<1> QED BY <1>6

\* Pieces of what the places from i on become.
Pieces(r, text, located) ==
    /\ r[Len(text) + 1] = <<>>
    /\ \A i \in 0..Len(text) : r[i] = AtPlace(text, located, i) \o r[i + 1]

\* The recursion of Rewritten has a value at each step.
Behind(f, n, text, located) ==
    f = [k \in 0..n |-> IF k = 0 THEN <<>>
                        ELSE AtPlace(text, located, Len(text) + 1 - k) \o f[k - 1]]

\* What stands behind a place is built from the end, one place at a time.
LEMMA BehindExists ==
    ASSUME NEW n \in Nat, NEW text, NEW located
    PROVE  \E f : Behind(f, n, text, located)
<1> USE DEF Behind
<1> DEFINE Is(m, f) == Behind(f, m, text, located)
           Bad == {m \in 0..n : ~\E f : Is(m, f)}
           here(k) == AtPlace(text, located, Len(text) + 1 - k)
<1>1. ASSUME Bad # {} PROVE FALSE
  <2>1. PICK m \in Bad : \A l \in Bad : m <= l
    <3>1. Bad \in SUBSET Nat
      <4> HIDE DEF Is
      <4> QED OBVIOUS
    <3> HIDE DEF Bad
    <3> QED BY <1>1, <3>1, SmallestOfNats
  <2>2. m \in 0..n /\ ~\E f : Is(m, f)
    <3> HIDE DEF Is
    <3> QED OBVIOUS
  <2>3. CASE m = 0
    <3> DEFINE g == [k \in 0..0 |-> <<>>]
    <3>1. Is(0, g)
      <4>1. \A k \in 0..0 : k = 0
        OBVIOUS
      <4> QED BY <4>1
    <3> QED BY <2>2, <2>3, <3>1
  <2>4. CASE m # 0
    <3>1. m \in Nat /\ m - 1 \in Nat /\ m - 1 \in 0..n
      BY <2>2, <2>4
    <3>2. m - 1 \notin Bad
      <4> HIDE DEF Bad
      <4> QED BY <2>1, <3>1
    <3>3. PICK f : Is(m - 1, f)
      BY <3>1, <3>2
    <3> HIDE DEF here
    <3>4. /\ DOMAIN f = 0..(m - 1)
          /\ \A k \in 0..(m - 1) : f[k] = IF k = 0 THEN <<>> ELSE here(k) \o f[k - 1]
      BY <3>3 DEF here
    <3> DEFINE last == here(m) \o f[m - 1]
               g    == [k \in 0..m |-> IF k = m THEN last ELSE f[k]]
    <3>5. ASSUME NEW k \in 0..m
          PROVE  g[k] = IF k = 0 THEN <<>> ELSE here(k) \o g[k - 1]
      <4>1. CASE k = m
        <5>1. k # 0 /\ k - 1 = m - 1 /\ m - 1 \in 0..m /\ m - 1 # m
          BY <2>4, <3>1, <4>1
        <5>2. g[k] = last /\ g[k - 1] = f[m - 1]
          BY <4>1, <5>1
        <5> QED BY <4>1, <5>1, <5>2
      <4>2. CASE k # m
        <5>1. k \in 0..(m - 1)
          BY <3>1, <4>2
        <5>2. k # 0 => k - 1 \in 0..m /\ k - 1 # m
          BY <3>1, <5>1
        <5>3. g[k] = f[k] /\ (k # 0 => g[k - 1] = f[k - 1])
          BY <4>2, <5>2
        <5> QED BY <3>4, <5>1, <5>3
      <4> QED BY <4>1, <4>2
    <3>6. g = [k \in 0..m |-> IF k = 0 THEN <<>> ELSE here(k) \o g[k - 1]]
      <4> DEFINE h == [k \in 0..m |-> IF k = 0 THEN <<>> ELSE here(k) \o g[k - 1]]
      <4>1. \A k \in 0..m : g[k] = h[k]
        <5> HIDE DEF g
        <5> QED BY <3>5
      <4>2. DOMAIN g = 0..m /\ DOMAIN h = 0..m
        OBVIOUS
      <4>3. g = [k \in 0..m |-> g[k]] /\ h = [k \in 0..m |-> h[k]]
        BY <4>2
      <4> HIDE DEF g, h
      <4>4. g = h
        BY <4>1, <4>3
      <4> QED BY <4>4 DEF h
    <3>7. Is(m, g)
      <4> HIDE DEF g
      <4> QED BY <3>6 DEF here
    <3> QED BY <2>2, <3>7
  <2> QED BY <2>3, <2>4
<1> HIDE DEF Is
<1>2. n \notin Bad /\ n \in 0..n
  <2>1. Bad = {}
    BY <1>1
  <2> HIDE DEF Bad
  <2> QED BY <2>1
<1>3. \E f : Is(n, f)
  BY <1>2
<1> QED BY <1>3 DEF Is

\* The reference is put together from what stands at and behind each place.
LEMMA RewrittenPieces ==
    ASSUME NEW text, Len(text) \in Nat, NEW located
    PROVE  \E r : Pieces(r, text, located) /\ Rewritten(text, located) = r[0]
<1> DEFINE n == Len(text) + 1
           behind[k \in 0..(Len(text) + 1)] ==
             IF k = 0 THEN <<>> ELSE AtPlace(text, located, Len(text) + 1 - k) \o behind[k - 1]
           r == [i \in 0..n |-> behind[n - i]]
<1>0. n \in Nat
  OBVIOUS
<1>1. PICK f : Behind(f, Len(text) + 1, text, located)
  BY <1>0, BehindExists
<1>2. behind = [k \in 0..n |-> IF k = 0 THEN <<>> ELSE AtPlace(text, located, n - k) \o behind[k - 1]]
  <2>1. f = [k \in 0..(Len(text) + 1) |-> IF k = 0 THEN <<>>
                  ELSE AtPlace(text, located, Len(text) + 1 - k) \o f[k - 1]]
    BY ONLY <1>1 DEF Behind
  <2>2. behind = [k \in 0..(Len(text) + 1) |-> IF k = 0 THEN <<>>
                  ELSE AtPlace(text, located, Len(text) + 1 - k) \o behind[k - 1]]
    BY ONLY <2>1
  <2> HIDE DEF behind
  <2> QED BY ONLY <2>2 DEF n
<1>3. Rewritten(text, located) = behind[n]
  BY DEF Rewritten
<1> HIDE DEF behind
<1>4. \A k \in 0..n : behind[k] = IF k = 0 THEN <<>>
                  ELSE AtPlace(text, located, n - k) \o behind[k - 1]
  <2> HIDE DEF n
  <2> QED BY ONLY <1>2
<1> HIDE DEF n
<1>5. r[n] = <<>>
  <2>1. 0 \in 0..n /\ n \in 0..n /\ n - n = 0
    BY <1>0
  <2> QED BY <1>4, <2>1
<1>6. ASSUME NEW i \in 0..Len(text) PROVE r[i] = AtPlace(text, located, i) \o r[i + 1]
  <2>1. /\ i \in 0..n /\ i + 1 \in 0..n /\ n - i \in 0..n /\ n - i # 0
        /\ n - (n - i) = i /\ (n - i) - 1 = n - (i + 1)
    BY <1>0 DEF n
  <2>2. behind[n - i] = AtPlace(text, located, n - (n - i)) \o behind[(n - i) - 1]
    BY <1>4, <2>1
  <2>3. r[i] = behind[n - i] /\ r[i + 1] = behind[n - (i + 1)]
    BY <2>1
  <2> QED BY <2>1, <2>2, <2>3
<1>7. r[0] = behind[n]
  <2>1. 0 \in 0..n /\ n - 0 = n
    BY <1>0
  <2> QED BY <2>1
<1>8. Pieces(r, text, located)
  <2> HIDE DEF r
  <2> QED BY <1>5, <1>6 DEF Pieces, n
<1> QED BY <1>3, <1>7, <1>8

\* Each piece is a text.
LEMMA PlaceType ==
    ASSUME NEW text \in Seq(Public), NEW located, GoodPatches(Len(text), located), NEW i \in 0..Len(text)
    PROVE  AtPlace(text, located, i) \in Seq(Public)
<1> DEFINE added == {k \in DOMAIN located : located[k].inserts /\ located[k].at = i}
           begun == {k \in DOMAIN located : ~located[k].inserts /\ located[k].start = i}
           gone  == \E k \in DOMAIN located : /\ ~located[k].inserts
                                              /\ located[k].start <= i /\ i < located[k].end
           own == IF gone \/ i = Len(text) THEN <<>> ELSE <<text[i + 1]>>
<1>1. ASSUME NEW ks \in SUBSET DOMAIN located PROVE Coming(located, ks) \in Seq(Public)
  <2>1. CASE ks = {}
    BY <2>1 DEF Coming
  <2>2. CASE ks # {}
    <3>1. PICK k \in ks : Coming(located, ks) = located[k].new
      BY <2>2 DEF Coming
    <3> QED BY <3>1 DEF GoodPatches, GoodPatch
  <2> QED BY <2>1, <2>2
<1>2. own \in Seq(Public)
  <2>1. i # Len(text) => text[i + 1] \in Public
    BY SMT
  <2> HIDE DEF gone
  <2> QED BY <2>1
<1>3. AtPlace(text, located, i) = Coming(located, added) \o Coming(located, begun) \o own
  BY DEF AtPlace
<1>4. added \in SUBSET DOMAIN located /\ begun \in SUBSET DOMAIN located
  OBVIOUS
<1> HIDE DEF added, begun, own
<1>5. Coming(located, added) \in Seq(Public) /\ Coming(located, begun) \in Seq(Public)
  BY <1>1, <1>4
<1> QED BY <1>2, <1>3, <1>5

\* None of it holds a secret.
LEMMA PiecesType ==
    ASSUME NEW text \in Seq(Public), NEW located, GoodPatches(Len(text), located),
           NEW r, Pieces(r, text, located)
    PROVE  \A i \in 0..(Len(text) + 1) : r[i] \in Seq(Public)
<1> DEFINE n == Len(text) + 1
           Bad == {k \in 0..n : r[n - k] \notin Seq(Public)}
<1>0. n \in Nat /\ Len(text) \in Nat
  OBVIOUS
<1>1. ASSUME Bad # {} PROVE FALSE
  <2>1. Bad \in SUBSET Nat
    OBVIOUS
  <2>2. PICK k \in Bad : \A l \in Bad : k <= l
    <3> HIDE DEF Bad
    <3> QED BY <1>1, <2>1, SmallestOfNats
  <2>3. k \in 0..n /\ r[n - k] \notin Seq(Public)
    OBVIOUS
  <2>4. k # 0
    <3>1. n - 0 = n /\ r[n] = <<>>
      BY <1>0 DEF Pieces
    <3>2. r[n - 0] \in Seq(Public)
      <4> HIDE DEF n
      <4>1. <<>> \in Seq(Public)
        BY EmptySeq
      <4> QED BY <3>1, <4>1
    <3> QED BY <2>3, <3>2
  <2>5. /\ k - 1 \in 0..n /\ ~(k <= k - 1) /\ n - k \in 0..Len(text)
        /\ n - (k - 1) = (n - k) + 1
    BY <1>0, <2>3, <2>4
  <2>6. k - 1 \notin Bad
    <3> HIDE DEF Bad
    <3> QED BY <2>2, <2>5
  <2>7. r[(n - k) + 1] \in Seq(Public)
    BY <2>5, <2>6
  <2>8. r[n - k] = AtPlace(text, located, n - k) \o r[(n - k) + 1]
    BY <2>5 DEF Pieces
  <2>9. AtPlace(text, located, n - k) \in Seq(Public)
    BY <2>5, PlaceType
  <2> HIDE DEF n
  <2> QED BY <2>3, <2>7, <2>8, <2>9
<1>2. ASSUME NEW i \in 0..n PROVE r[i] \in Seq(Public)
  <2>1. n - i \in 0..n /\ n - (n - i) = i
    BY <1>0
  <2>2. n - i \notin Bad
    BY <1>1
  <2> QED BY <2>1, <2>2
<1> QED BY <1>2

\* The text before a place, all of it at its end.
Pre(text, i) == SubSeq(text, 1, IF i > Len(text) THEN Len(text) ELSE i)

\* The part of a text in front of a place.
LEMMA PreType ==
    ASSUME NEW text \in Seq(Public), NEW i \in 0..(Len(text) + 1)
    PROVE  /\ Pre(text, i) \in Seq(Public)
           /\ i <= Len(text) => Len(Pre(text, i)) = i
<1> DEFINE e == IF i > Len(text) THEN Len(text) ELSE i
<1>1. e \in 0..Len(text) /\ e \in Int /\ 1 \in Int /\ (i <= Len(text) => e = i)
  OBVIOUS
<1>2. \A j \in 1..e : text[j] \in Public
  BY <1>1
<1> HIDE DEF e
<1>3. SubSeq(text, 1, e) \in Seq(Public) /\ Len(SubSeq(text, 1, e)) = IF 1 <= e THEN e - 1 + 1 ELSE 0
  BY <1>1, <1>2, SubSeqProperties
<1>4. Len(SubSeq(text, 1, e)) = e
  BY <1>1, <1>3
<1> QED BY <1>1, <1>3, <1>4 DEF Pre, e

\* The part in front of the next place has one character more.
LEMMA PreNext ==
    ASSUME NEW text \in Seq(Public), NEW i \in 0..Len(text)
    PROVE  Pre(text, i) \o Original(text, i) = Pre(text, i + 1)
<1>1. CASE i = Len(text)
  <2>1. Pre(text, i) = SubSeq(text, 1, Len(text)) /\ Pre(text, i + 1) = SubSeq(text, 1, Len(text))
    BY <1>1 DEF Pre
  <2>2. Pre(text, i) \in Seq(Public)
    BY PreType
  <2> QED BY <1>1, <2>1, <2>2 DEF Original
<1>2. CASE i # Len(text)
  <2>1. Pre(text, i) = SubSeq(text, 1, i) /\ Pre(text, i + 1) = SubSeq(text, 1, i + 1)
    BY <1>2 DEF Pre
  <2>2. 1 \in 1..Len(text) /\ i + 1 \in 1..Len(text) /\ i + 1 \in 1..Len(text) /\ i + 1 - 1 = i
    BY <1>2
  <2>3. SubSeq(text, 1, i + 1) = SubSeq(text, 1, i + 1 - 1) \o <<text[i + 1]>>
    BY <2>2, SubSeqRecursiveSecond
  <2> QED BY <1>2, <2>1, <2>2, <2>3 DEF Original
<1> QED BY <1>1, <1>2

\* Texts are joined in any order.
Texts(x, y, z) == x \in Seq(Public) /\ y \in Seq(Public) /\ z \in Seq(Public)

LEMMA Associates ==
    ASSUME NEW x, NEW y, NEW z, Texts(x, y, z)
    PROVE  (x \o y) \o z = x \o (y \o z)
  BY ONLY Texts(x, y, z), ConcatAssociative, SMTT(30) DEF Texts

\* Between two places nothing comes and nothing is taken away.
Still(text, located, a, b) == \A i \in a..(b - 1) : AtPlace(text, located, i) = Original(text, i)

\* Where nothing comes and nothing is taken away, text and pieces may be parted anywhere.
LEMMA Untouched ==
    ASSUME NEW text \in Seq(Public), NEW located, GoodPatches(Len(text), located),
           NEW r, Pieces(r, text, located), NEW b \in 0..(Len(text) + 1), NEW a \in 0..b,
           Still(text, located, a, b)
    PROVE  Pre(text, a) \o r[a] = Pre(text, b) \o r[b]
<1> DEFINE W(i) == Pre(text, i) \o r[i]
           Bad == {k \in 0..(b - a) : W(b - k) # W(b)}
<1>0. Len(text) \in Nat /\ a \in Nat /\ b \in Nat /\ b - a \in Nat
  OBVIOUS
<1>1. ASSUME NEW i \in a..(b - 1) PROVE W(i) = W(i + 1)
  <2>1. i \in 0..Len(text) /\ i + 1 \in 0..(Len(text) + 1) /\ i \in 0..(Len(text) + 1)
    BY <1>0
  <2>2. r[i] = Original(text, i) \o r[i + 1]
    BY <2>1 DEF Pieces, Still
  <2>3. r[i + 1] \in Seq(Public)
    BY <2>1, PiecesType
  <2>4. Pre(text, i) \in Seq(Public) /\ Original(text, i) \in Seq(Public)
    <3>1. i # Len(text) => text[i + 1] \in Public
      BY <1>0, <2>1
    <3> QED BY <2>1, <3>1, PreType DEF Original
  <2> DEFINE x == Pre(text, i)
             o == Original(text, i)
             rest == r[i + 1]
  <2>5. (x \o o) \o rest = x \o (o \o rest)
    <3>1. Texts(x, o, rest)
      BY <2>3, <2>4 DEF Texts
    <3> HIDE DEF x, o, rest
    <3> QED BY ONLY <3>1, Associates, SMTT(30)
  <2> QED BY <2>1, <2>2, <2>5, PreNext
<1> HIDE DEF W
<1>2. ASSUME Bad # {} PROVE FALSE
  <2>1. Bad \in SUBSET Nat
    OBVIOUS
  <2>2. PICK k \in Bad : \A l \in Bad : k <= l
    <3> HIDE DEF Bad
    <3> QED BY <1>2, <2>1, SmallestOfNats
  <2>3. k \in 0..(b - a) /\ W(b - k) # W(b)
    OBVIOUS
  <2>4. k # 0
    <3>1. b - 0 = b
      BY <1>0
    <3> QED BY <2>3, <3>1
  <2>5. /\ k - 1 \in 0..(b - a) /\ ~(k <= k - 1) /\ b - k \in a..(b - 1)
        /\ b - (k - 1) = (b - k) + 1
    BY <1>0, <2>3, <2>4
  <2>6. k - 1 \notin Bad
    <3> HIDE DEF Bad
    <3> QED BY <2>2, <2>5
  <2>7. W((b - k) + 1) = W(b)
    BY <2>5, <2>6
  <2>8. W(b - k) = W((b - k) + 1)
    BY <1>1, <2>5
  <2> QED BY <2>3, <2>7, <2>8
<1>3. b - a \in 0..(b - a) /\ b - (b - a) = a
  BY <1>0
<1>4. W(a) = W(b)
  <2>1. Bad = {}
    BY <1>2
  <2>2. \A k \in 0..(b - a) : W(b - k) = W(b)
    BY <2>1
  <2>3. W(b - (b - a)) = W(b)
    BY <1>3, <2>2
  <2> QED BY <1>3, <2>3
<1> QED BY <1>4 DEF W

\* What is rewritten leaves nothing behind itself.
LEMMA RestIsGone ==
    ASSUME NEW text \in Seq(Public), NEW located, GoodPatches(Len(text), located),
           Spread(Len(text), located), NEW r, Pieces(r, text, located),
           NEW p \in DOMAIN located, ~located[p].inserts
    PROVE  r[located[p].at] = located[p].new \o r[located[p].end]
<1> DEFINE s == located[p].at
           e == located[p].end
           Bad == {k \in 0..(e - (s + 1)) : r[e - k] # r[e]}
<1>0. s \in Nat /\ e \in Nat /\ s < e /\ e <= Len(text) /\ Len(text) \in Nat
  <2>1. s \in Nat /\ e \in Nat
    BY DEF GoodPatches, GoodPatch
  <2>2. located[p].start = s /\ located[p].start < e /\ e <= Len(text)
    BY DEF Spread
  <2> HIDE DEF s, e
  <2> QED BY <2>1, <2>2
<1>1. ASSUME NEW i \in (s + 1)..(e - 1) PROVE r[i] = r[i + 1]
  <2>1. i \in Nat /\ s < i /\ i < e /\ i \in 0..Len(text) /\ i + 1 \in 0..(Len(text) + 1)
    <3> HIDE DEF s, e
    <3> QED BY <1>0
  <2>2. AtPlace(text, located, i) = <<>>
    BY <2>1, PlaceGone
  <2>3. r[i + 1] \in Seq(Public)
    BY <2>1, PiecesType
  <2>4. r[i] = <<>> \o r[i + 1]
    BY <2>1, <2>2 DEF Pieces
  <2> QED BY <2>3, <2>4, ConcatEmptySeq
<1>6. r[s] = located[p].new \o r[s + 1]
  <2>1. s \in 0..Len(text)
    <3> HIDE DEF s, e
    <3> QED BY <1>0
  <2>2. r[s] = AtPlace(text, located, s) \o r[s + 1]
    BY <2>1 DEF Pieces
  <2> QED BY <2>2, PlaceRewritten
<1> HIDE DEF s, e
<1>2. ASSUME Bad # {} PROVE FALSE
  <2>1. Bad \in SUBSET Nat
    OBVIOUS
  <2>2. PICK k \in Bad : \A l \in Bad : k <= l
    <3> HIDE DEF Bad
    <3> QED BY <1>2, <2>1, SmallestOfNats
  <2>3. k \in 0..(e - (s + 1)) /\ r[e - k] # r[e]
    OBVIOUS
  <2>4. k # 0
    <3>1. e - 0 = e
      BY <1>0
    <3> QED BY <2>3, <3>1
  <2>5. /\ k - 1 \in 0..(e - (s + 1)) /\ ~(k <= k - 1) /\ e - k \in (s + 1)..(e - 1)
        /\ e - (k - 1) = (e - k) + 1
    BY <1>0, <2>3, <2>4
  <2>6. k - 1 \notin Bad
    <3> HIDE DEF Bad
    <3> QED BY <2>2, <2>5
  <2>7. r[(e - k) + 1] = r[e]
    BY <2>5, <2>6
  <2>8. r[e - k] = r[(e - k) + 1]
    BY <1>1, <2>5
  <2> QED BY <2>3, <2>7, <2>8
<1>3. e - (s + 1) \in 0..(e - (s + 1)) /\ e - (e - (s + 1)) = s + 1
  BY <1>0
<1>4. r[s + 1] = r[e]
  BY <1>2, <1>3
<1> QED BY <1>4, <1>6 DEF s, e

\* A text of two parts, cut between them.
LEMMA CutBetween ==
    ASSUME NEW x \in Seq(Public), NEW y \in Seq(Public)
    PROVE  /\ Slice(x \o y, 0, Len(x)) = x
           /\ Slice(x \o y, Len(x), Len(x \o y)) = y
<1> DEFINE z == x \o y
<1>1. /\ z \in Seq(Public) /\ Len(z) = Len(x) + Len(y)
      /\ \A i \in 1..(Len(x) + Len(y)) : z[i] = IF i <= Len(x) THEN x[i] ELSE y[i - Len(x)]
  BY ConcatProperties
<1>2. Len(x) \in Nat /\ Len(y) \in Nat
  OBVIOUS
<1> HIDE DEF z
<1>3. SubSeq(z, 0 + 1, Len(x)) = x
  <2> DEFINE s == SubSeq(z, 0 + 1, Len(x))
  <2>1. \A i \in (0 + 1)..Len(x) : z[i] \in Public
    BY <1>1, <1>2
  <2>2. /\ s \in Seq(Public)
        /\ Len(s) = IF 0 + 1 <= Len(x) THEN Len(x) - (0 + 1) + 1 ELSE 0
        /\ \A i \in 1..(Len(x) - (0 + 1) + 1) : s[i] = z[(0 + 1) + i - 1]
    BY <1>2, <2>1, SubSeqProperties
  <2> HIDE DEF s
  <2>3. Len(s) = Len(x)
    BY <1>2, <2>2
  <2>4. \A i \in 1..Len(s) : s[i] = x[i]
    <3> SUFFICES ASSUME NEW i \in 1..Len(s) PROVE s[i] = x[i]
      OBVIOUS
    <3>1. i \in 1..(Len(x) - (0 + 1) + 1) /\ (0 + 1) + i - 1 = i /\ i \in 1..(Len(x) + Len(y)) /\ i <= Len(x)
      BY <1>2, <2>3
    <3> QED BY <1>1, <2>2, <3>1
  <2>5. s = x
    BY <2>2, <2>3, <2>4, SeqEqual
  <2> QED BY <2>5 DEF s
<1>4. SubSeq(z, Len(x) + 1, Len(z)) = y
  <2> DEFINE s == SubSeq(z, Len(x) + 1, Len(z))
  <2>1. \A i \in (Len(x) + 1)..Len(z) : z[i] \in Public
    BY <1>1, <1>2
  <2>0. Len(x) + 1 \in Int /\ Len(z) \in Int
    BY <1>1, <1>2
  <2>2. /\ s \in Seq(Public)
        /\ Len(s) = IF Len(x) + 1 <= Len(z) THEN Len(z) - (Len(x) + 1) + 1 ELSE 0
        /\ \A i \in 1..(Len(z) - (Len(x) + 1) + 1) : s[i] = z[(Len(x) + 1) + i - 1]
    BY <2>0, <2>1, SubSeqProperties
  <2> HIDE DEF s
  <2>3. Len(s) = Len(y)
    BY <1>1, <1>2, <2>2
  <2>4. \A i \in 1..Len(s) : s[i] = y[i]
    <3> SUFFICES ASSUME NEW i \in 1..Len(s) PROVE s[i] = y[i]
      OBVIOUS
    <3>1. /\ i \in 1..(Len(z) - (Len(x) + 1) + 1) /\ (Len(x) + 1) + i - 1 = Len(x) + i
          /\ Len(x) + i \in 1..(Len(x) + Len(y)) /\ ~(Len(x) + i <= Len(x)) /\ (Len(x) + i) - Len(x) = i
      BY <1>1, <1>2, <2>3
    <3> QED BY <1>1, <2>2, <3>1
  <2>5. s = y
    BY <2>2, <2>3, <2>4, SeqEqual
  <2> QED BY <2>5 DEF s
<1> QED BY <1>3, <1>4 DEF Slice, z

\* The first characters of a text of two parts.
LEMMA CutBefore ==
    ASSUME NEW text \in Seq(Public), NEW e \in 0..Len(text), NEW s \in 0..e, NEW y \in Seq(Public)
    PROVE  Slice(Pre(text, e) \o y, 0, s) = Pre(text, s)
<1>0. Len(text) \in Nat /\ e \in 0..(Len(text) + 1) /\ s \in 0..(Len(text) + 1) /\ e <= Len(text)
      /\ s <= Len(text) /\ 1 \in Int /\ s \in Int /\ e \in Int /\ s <= e
  OBVIOUS
<1> DEFINE x == Pre(text, e)
           z == x \o y
           a == SubSeq(z, 0 + 1, s)
           b == SubSeq(text, 1, s)
<1>1. x \in Seq(Public) /\ Len(x) = e
  BY <1>0, PreType
<1>2. x = SubSeq(text, 1, e) /\ Pre(text, s) = b
  BY <1>0 DEF Pre
<1>3. \A i \in 1..e : x[i] = text[i]
  <2>1. \A i \in 1..e : text[i] \in Public
    BY <1>0
  <2>2. \A i \in 1..(e - 1 + 1) : SubSeq(text, 1, e)[i] = text[1 + i - 1]
    BY <1>0, <2>1, SubSeqProperties
  <2>3. \A i \in 1..e : i \in 1..(e - 1 + 1) /\ 1 + i - 1 = i
    BY <1>0
  <2> HIDE DEF x
  <2> QED BY <1>2, <2>2, <2>3
<1> HIDE DEF x
<1>4. /\ z \in Seq(Public) /\ Len(z) = e + Len(y)
      /\ \A i \in 1..(e + Len(y)) : z[i] = IF i <= e THEN x[i] ELSE y[i - e]
  BY <1>1, ConcatProperties
<1>5. Len(y) \in Nat
  OBVIOUS
<1> HIDE DEF z
<1>6. ASSUME NEW i \in 1..s PROVE z[i] = text[i] /\ text[i] \in Public
  <2>1. i \in 1..e /\ i <= e /\ i \in 1..Len(text) /\ i \in 1..(e + Len(y))
    BY <1>0, <1>5
  <2> QED BY <1>3, <1>4, <2>1
<1>7. /\ b \in Seq(Public) /\ Len(b) = IF 1 <= s THEN s - 1 + 1 ELSE 0
      /\ \A i \in 1..(s - 1 + 1) : b[i] = text[1 + i - 1]
  BY <1>0, <1>6, SubSeqProperties
<1>8. /\ a \in Seq(Public) /\ Len(a) = IF 0 + 1 <= s THEN s - (0 + 1) + 1 ELSE 0
      /\ \A i \in 1..(s - (0 + 1) + 1) : a[i] = z[(0 + 1) + i - 1]
  <2>1. \A i \in (0 + 1)..s : z[i] \in Public
    BY <1>6
  <2>2. 0 + 1 \in Int
    OBVIOUS
  <2> HIDE DEF a
  <2> QED BY <1>0, <2>1, <2>2, SubSeqProperties DEF a
<1> HIDE DEF a, b
<1>9. Len(a) = s /\ Len(b) = s
  BY <1>0, <1>7, <1>8
<1>10. \A i \in 1..Len(a) : a[i] = b[i]
  <2> SUFFICES ASSUME NEW i \in 1..Len(a) PROVE a[i] = b[i]
    OBVIOUS
  <2>1. i \in 1..s /\ i \in 1..(s - 1 + 1) /\ i \in 1..(s - (0 + 1) + 1) /\ 1 + i - 1 = i /\ (0 + 1) + i - 1 = i
    BY <1>0, <1>9
  <2> QED BY <1>6, <1>7, <1>8, <2>1
<1>11. a = b
  BY <1>7, <1>8, <1>9, <1>10, SeqEqual
<1> QED BY <1>2, <1>11 DEF Slice, a, z, x

\* One patch is applied to a text that is made as far as the place behind it.
LEMMA InsertMakes ==
    ASSUME NEW text \in Seq(Public), NEW located, GoodPatches(Len(text), located),
           Spread(Len(text), located), NEW r, Pieces(r, text, located),
           NEW p \in DOMAIN located, located[p].inserts
    PROVE  LET a == located[p].at IN
           ApplyOne(Pre(text, a + 1) \o r[a + 1], located[p]) = Pre(text, a) \o r[a]
<1> DEFINE a    == located[p].at
           new  == located[p].new
           x    == Pre(text, a)
           o    == Original(text, a)
           rest == r[a + 1]
<1>1. a \in 0..Len(text) /\ new \in Seq(Public)
  BY DEF GoodPatches, GoodPatch
<1>2. Len(text) \in Nat /\ a \in 0..(Len(text) + 1) /\ a + 1 \in 0..(Len(text) + 1) /\ a <= Len(text)
  <2> HIDE DEF a
  <2> QED BY <1>1
<1>3. x \in Seq(Public) /\ Len(x) = a /\ rest \in Seq(Public)
  <2> HIDE DEF a
  <2> QED BY <1>2, PreType, PiecesType
<1>4. o \in Seq(Public)
  <2>1. a # Len(text) => text[a + 1] \in Public
    <3> HIDE DEF a
    <3> QED BY <1>1, <1>2
  <2> HIDE DEF a
  <2> QED BY <2>1 DEF Original
<1>5. r[a] = (new \o o) \o rest
  <2>1. AtPlace(text, located, a) = new \o o
    BY PlaceInsert
  <2>2. r[a] = AtPlace(text, located, a) \o rest
    <3> HIDE DEF a
    <3> QED BY <1>1 DEF Pieces
  <2> QED BY <2>1, <2>2
<1>6. Pre(text, a + 1) = x \o o
  <2> HIDE DEF a
  <2> QED BY <1>1, PreNext
<1>7. ApplyOne(Pre(text, a + 1) \o rest, located[p])
        = LET t == Pre(text, a + 1) \o rest IN Slice(t, 0, a) \o new \o Slice(t, a, Len(t))
  BY DEF ApplyOne
<1> HIDE DEF a, new, x, o, rest
<1> DEFINE y == o \o rest
<1>8. y \in Seq(Public) /\ Pre(text, a + 1) \o rest = x \o y
  <2>1. o \o rest \in Seq(Public)
    BY <1>3, <1>4, Joined
  <2>2. (x \o o) \o rest = x \o (o \o rest)
    <3>1. Texts(x, o, rest)
      BY <1>3, <1>4 DEF Texts
    <3> QED BY ONLY <3>1, Associates, SMTT(30)
  <2> QED BY <1>6, <2>1, <2>2
<1>9. r[a] = new \o y
  <2>1. (new \o o) \o rest = new \o (o \o rest)
    <3>1. Texts(new, o, rest)
      BY <1>1, <1>3, <1>4 DEF Texts
    <3> QED BY ONLY <3>1, Associates, SMTT(30)
  <2> QED BY <1>5, <2>1
<1> HIDE DEF y
<1>10. Slice(x \o y, 0, a) = x /\ Slice(x \o y, a, Len(x \o y)) = y
  BY <1>3, <1>8, CutBetween
<1>11. ApplyOne(Pre(text, a + 1) \o rest, located[p]) = x \o new \o y
  BY <1>7, <1>8, <1>10
<1>12. x \o new \o y = x \o (new \o y)
  <2>1. Texts(x, new, y)
    BY <1>1, <1>3, <1>8 DEF Texts
  <2> QED BY ONLY <2>1, Associates, SMTT(30)
<1>13. ApplyOne(Pre(text, a + 1) \o rest, located[p]) = x \o r[a]
  BY <1>9, <1>11, <1>12
<1> QED BY <1>13 DEF a, x, rest

\* The same of a patch that rewrites what is between its place and its end.
LEMMA RewriteMakes ==
    ASSUME NEW text \in Seq(Public), NEW located, GoodPatches(Len(text), located),
           Spread(Len(text), located), NEW r, Pieces(r, text, located),
           NEW p \in DOMAIN located, ~located[p].inserts
    PROVE  LET e == located[p].end IN
           ApplyOne(Pre(text, e) \o r[e], located[p]) = Pre(text, located[p].at) \o r[located[p].at]
<1> DEFINE s    == located[p].at
           e    == located[p].end
           new  == located[p].new
           x    == Pre(text, e)
           y    == r[e]
<1>1. /\ s \in 0..Len(text) /\ new \in Seq(Public) /\ e \in Nat /\ located[p].start = s
      /\ s < e /\ e <= Len(text)
  <2>1. located[p].at = located[p].start /\ located[p].start < located[p].end /\ located[p].end <= Len(text)
    BY DEF Spread
  <2>2. GoodPatch(Len(text), located[p])
    BY DEF GoodPatches
  <2> QED BY <2>1, <2>2 DEF GoodPatch
<1>2. r[s] = new \o y
  <2>1. r[located[p].at] = located[p].new \o r[located[p].end]
    BY RestIsGone, Zenon
  <2> QED BY ONLY <2>1 DEF s, new, y, e
<1>3. ApplyOne(x \o y, located[p]) = Slice(x \o y, 0, s) \o new \o Slice(x \o y, e, Len(x \o y))
  BY DEF ApplyOne
<1> HIDE DEF s, e, new
<1>4. /\ Len(text) \in Nat /\ e \in 0..(Len(text) + 1) /\ e \in 0..Len(text) /\ s \in 0..e
      /\ s \in 0..(Len(text) + 1)
  BY <1>1
<1>5. x \in Seq(Public) /\ Len(x) = e /\ y \in Seq(Public)
  BY <1>1, <1>4, PreType, PiecesType
<1>6. Slice(x \o y, 0, s) = Pre(text, s)
  BY <1>4, <1>5, CutBefore
<1> HIDE DEF x, y
<1>7. Slice(x \o y, e, Len(x \o y)) = y
  BY <1>5, CutBetween
<1>8. Pre(text, s) \in Seq(Public)
  BY <1>4, PreType
<1>9. ApplyOne(x \o y, located[p]) = Pre(text, s) \o r[s]
  <2> DEFINE front == Pre(text, s)
  <2>0. front \in Seq(Public)
    BY <1>8
  <2>1. ApplyOne(x \o y, located[p]) = front \o new \o y
    BY <1>3, <1>6, <1>7
  <2>2. front \o new \o y = front \o (new \o y)
    <3> HIDE DEF front
    <3>1. Texts(front, new, y)
      BY ONLY <2>0, <1>1, <1>5, Zenon DEF Texts
    <3> QED BY ONLY <3>1, Associates, SMTT(60)
  <2> QED BY <1>2, <2>1, <2>2
<1> QED BY <1>9 DEF s, e, x, y

\* Of a text to which all patches but those that are left were applied: whoever is left
\* comes in front of the others, and before any place between the two the text is as it
\* was, from there on it is as it shall be.
Parted(text, located, r, left, cur) ==
    /\ \A j \in left, d \in DOMAIN located \ left : located[j].at < located[d].at
    /\ \A b \in 0..(Len(text) + 1) :
          /\ \A j \in left : /\ located[j].at < b
                             /\ ~located[j].inserts => located[j].end <= b
          /\ \A d \in DOMAIN located \ left : b <= located[d].at
          => cur = Pre(text, b) \o r[b]

\* Before the first patch is applied nothing is finished.
LEMMA PartedAtFirst ==
    ASSUME NEW text \in Seq(Public), NEW located, GoodPatches(Len(text), located),
           Spread(Len(text), located), NEW r, Pieces(r, text, located)
    PROVE  Parted(text, located, r, DOMAIN located, text)
<1>0. Len(text) \in Nat
  OBVIOUS
<1> SUFFICES ASSUME NEW b \in 0..(Len(text) + 1),
                    \A j \in DOMAIN located : /\ located[j].at < b
                                              /\ ~located[j].inserts => located[j].end <= b
             PROVE  text = Pre(text, b) \o r[b]
  BY DEF Parted
<1>1. ASSUME NEW i \in b..(Len(text) + 1 - 1) PROVE AtPlace(text, located, i) = Original(text, i)
  <2>1. i \in 0..Len(text) /\ b <= i
    BY <1>0
  <2>2. ASSUME NEW k \in DOMAIN located
        PROVE  /\ located[k].at # i
               /\ ~(~located[k].inserts /\ located[k].at < i /\ i < located[k].end)
    <3>1. located[k].at \in Nat /\ located[k].end \in Nat
      BY DEF GoodPatches, GoodPatch
    <3>2. located[k].at < b /\ (~located[k].inserts => located[k].end <= b)
      OBVIOUS
    <3> QED BY <2>1, <3>1, <3>2
  <2> QED BY <2>1, <2>2, PlaceFree
<1> DEFINE n == Len(text) + 1
<1>2. n \in 0..(Len(text) + 1) /\ b \in 0..n
  BY <1>0
<1>3. Still(text, located, b, n)
  BY <1>1 DEF Still
<1>4. r[n] = <<>> /\ Pre(text, n) = SubSeq(text, 1, Len(text))
  BY <1>0 DEF Pieces, Pre
<1> HIDE DEF n
<1>5. Pre(text, b) \o r[b] = Pre(text, n) \o r[n]
  BY <1>2, <1>3, Untouched
<1>6. Pre(text, n) = text
  BY <1>4, SubSeqFull
<1>7. text \o <<>> = text
  BY ConcatEmptySeq
<1> QED BY ONLY <1>4, <1>5, <1>6, <1>7

\* The next patch is applied.
LEMMA PartedStep ==
    ASSUME NEW text \in Seq(Public), NEW located, GoodPatches(Len(text), located),
           Spread(Len(text), located), NEW r, Pieces(r, text, located),
           NEW left \in SUBSET DOMAIN located, NEW cur, Parted(text, located, r, left, cur),
           NEW p \in left, \A j \in left : located[j].at <= located[p].at
    PROVE  Parted(text, located, r, left \ {p}, ApplyOne(cur, located[p]))
<1> DEFINE a == located[p].at
           e == located[p].end
           rest == left \ {p}
           done == DOMAIN located \ left
<1>0. Len(text) \in Nat /\ a \in 0..Len(text) /\ e \in Nat
      /\ \A k \in DOMAIN located : located[k].at \in Nat /\ located[k].end \in Nat
  <2>1. \A k \in DOMAIN located : /\ located[k].at \in 0..Len(text) /\ located[k].end \in Nat
    BY DEF GoodPatches, GoodPatch
  <2>2. \A k \in DOMAIN located : located[k].at \in Nat
    BY <2>1
  <2> QED BY <2>1, <2>2
<1>1. p \in DOMAIN located
  OBVIOUS
<1>2. ASSUME NEW j \in rest
      PROVE  j \in left /\ j \in DOMAIN located /\ j # p /\ located[j].at < a
             /\ (~located[j].inserts => located[j].end <= a)
  <2>1. j \in left /\ j \in DOMAIN located /\ j # p
    OBVIOUS
  <2>2. located[j].at <= a /\ located[j].at # a
    BY <1>1, <2>1 DEF Spread
  <2>3. located[j].at < a
    BY <1>0, <2>1, <2>2
  <2>4. ~located[j].inserts => located[j].end <= a
    BY <1>1, <2>1, <2>3 DEF Spread
  <2> QED BY <2>1, <2>3, <2>4
<1>3. ASSUME NEW d \in DOMAIN located \ rest
      PROVE  /\ a <= located[d].at
             /\ d = p \/ d \in done
  <2>1. d = p \/ d \in done
    OBVIOUS
  <2>2. d \in done => a < located[d].at
    BY DEF Parted
  <2> QED BY <1>0, <2>1, <2>2
<1>4. ApplyOne(cur, located[p]) = Pre(text, a) \o r[a]
  <2>1. CASE located[p].inserts
    <3>1. a + 1 \in 0..(Len(text) + 1)
      <4> HIDE DEF a
      <4> QED BY <1>0
    <3>2. ASSUME NEW j \in left
          PROVE  located[j].at < a + 1 /\ (~located[j].inserts => located[j].end <= a + 1)
      <4>1. CASE j = p
        <5> HIDE DEF a
        <5>1. located[j].at = a
          BY <4>1 DEF a
        <5> QED BY <1>0, <2>1, <4>1, <5>1
      <4>2. CASE j # p
        <5>1. located[j].at < a /\ (~located[j].inserts => located[j].end <= a) /\ j \in DOMAIN located
          BY <1>2, <4>2
        <5> HIDE DEF a
        <5> QED BY <1>0, <5>1
      <4> QED BY <4>1, <4>2
    <3>3. ASSUME NEW d \in done PROVE a + 1 <= located[d].at
      <4>1. a < located[d].at /\ d \in DOMAIN located
        BY DEF Parted
      <4> HIDE DEF a
      <4> QED BY <1>0, <4>1
    <3> HIDE DEF a
    <3>4. cur = Pre(text, a + 1) \o r[a + 1]
      BY <3>1, <3>2, <3>3 DEF Parted
    <3> QED BY <1>1, <2>1, <3>4, InsertMakes DEF a
  <2>2. CASE ~located[p].inserts
    <3>1. a < e /\ e <= Len(text)
      BY <1>1, <2>2 DEF Spread
    <3>2. e \in 0..(Len(text) + 1)
      <4> HIDE DEF a, e
      <4> QED BY <1>0, <3>1
    <3>3. ASSUME NEW j \in left
          PROVE  located[j].at < e /\ (~located[j].inserts => located[j].end <= e)
      <4>1. CASE j = p
        <5>1. located[j].at = a /\ located[j].end = e
          BY <4>1
        <5> HIDE DEF a, e
        <5> QED BY <1>0, <3>1, <5>1
      <4>2. CASE j # p
        <5>1. located[j].at < a /\ (~located[j].inserts => located[j].end <= a) /\ j \in DOMAIN located
          BY <1>2, <4>2
        <5> HIDE DEF a, e
        <5> QED BY <1>0, <3>1, <5>1
      <4> QED BY <4>1, <4>2
    <3>4. ASSUME NEW d \in done PROVE e <= located[d].at
      <4>1. a < located[d].at /\ d \in DOMAIN located /\ d # p
        BY DEF Parted
      <4> QED BY <1>1, <2>2, <4>1 DEF Spread
    <3> HIDE DEF a, e
    <3>5. cur = Pre(text, e) \o r[e]
      BY <3>2, <3>3, <3>4 DEF Parted
    <3> QED BY <1>1, <2>2, <3>5, RewriteMakes DEF a, e
  <2> QED BY <2>1, <2>2
<1> DEFINE new == ApplyOne(cur, located[p])
<1>5. ASSUME NEW b \in 0..(Len(text) + 1),
             \A j \in rest : located[j].at < b /\ (~located[j].inserts => located[j].end <= b),
             \A d \in DOMAIN located \ rest : b <= located[d].at
      PROVE  new = Pre(text, b) \o r[b]
  <2>1. b <= a
    <3>1. p \in DOMAIN located \ rest
      OBVIOUS
    <3> QED BY <1>5, <3>1
  <2>2. a \in 0..(Len(text) + 1) /\ b \in 0..a
    <3> HIDE DEF a
    <3> QED BY <1>0, <2>1
  <2>3. ASSUME NEW i \in b..(a - 1) PROVE AtPlace(text, located, i) = Original(text, i)
    <3>1. i \in 0..Len(text) /\ b <= i /\ i < a
      <4> HIDE DEF a
      <4> QED BY <1>0, <2>2
    <3>2. ASSUME NEW k \in DOMAIN located
          PROVE  /\ located[k].at # i
                 /\ ~(~located[k].inserts /\ located[k].at < i /\ i < located[k].end)
      <4>1. CASE k \in rest
        <5>1. located[k].at < b /\ (~located[k].inserts => located[k].end <= b)
          BY <1>5, <4>1
        <5>2. located[k].at \in Nat /\ located[k].end \in Nat
          BY <1>0
        <5> QED BY <3>1, <5>1, <5>2
      <4>2. CASE k \notin rest
        <5>1. a <= located[k].at
          BY <1>3, <4>2
        <5>2. located[k].at \in Nat
          BY <1>0
        <5> HIDE DEF a
        <5> QED BY <1>0, <3>1, <5>1, <5>2
      <4> QED BY <4>1, <4>2
    <3> HIDE DEF a
    <3> QED BY <3>1, <3>2, PlaceFree
  <2> HIDE DEF a, new
  <2>4. Pre(text, b) \o r[b] = Pre(text, a) \o r[a]
    <3>1. Still(text, located, b, a)
      BY <2>3 DEF Still
    <3> QED BY <2>2, <3>1, Untouched, Zenon
  <2> QED BY <1>4, <2>4 DEF new
<1>6. \A j \in rest, d \in DOMAIN located \ rest : located[j].at < located[d].at
  <2> SUFFICES ASSUME NEW j \in rest, NEW d \in DOMAIN located \ rest
               PROVE  located[j].at < located[d].at
    OBVIOUS
  <2>1. located[j].at < a /\ a <= located[d].at
    BY <1>2, <1>3
  <2>2. located[j].at \in Nat /\ located[d].at \in Nat
    BY <1>0
  <2> HIDE DEF a
  <2> QED BY <1>0, <2>1, <2>2
<1> HIDE DEF rest, new
<1> QED BY <1>5, <1>6 DEF Parted, rest, new

\* All patches applied one after the other, from the end: each place has become what it
\* shall be.
LEMMA AppliedAsLocated ==
    ASSUME NEW text \in Seq(Public), NEW n \in Nat, NEW located, DOMAIN located = 1..n, Len(located) = n,
           GoodPatches(Len(text), located), Spread(Len(text), located)
    PROVE  Apply(text, located) = Rewritten(text, located)
<1>0. Len(text) \in Nat
  OBVIOUS
<1>1. PICK step : /\ step[0] = [left |-> DOMAIN located, text |-> text]
                  /\ \A k \in 1..n : step[k] = Applied(located, step[k - 1])
                  /\ Apply(text, located) = step[n].text
  BY ApplyUnfolds
<1>2. PICK r : Pieces(r, text, located) /\ Rewritten(text, located) = r[0]
  BY <1>0, RewrittenPieces
<1> DEFINE Good(k) == /\ step[k].left \in SUBSET (1..n)
                      /\ Cardinality(step[k].left) = n - k
                      /\ Parted(text, located, r, step[k].left, step[k].text)
           Bad == {k \in 0..n : ~Good(k)}
<1>3. IsFiniteSet(1..n) /\ Cardinality(1..n) = n
  <2>1. IsFiniteSet(1..n) /\ Cardinality(1..n) = IF 1 > n THEN 0 ELSE n - 1 + 1
    BY FS_Interval
  <2> QED BY <2>1
<1>4. Good(0)
  <2>1. step[0].left = 1..n /\ step[0].text = text
    BY <1>1
  <2>2. Parted(text, located, r, DOMAIN located, text)
    BY <1>2, PartedAtFirst
  <2>3. Cardinality(1..n) = n - 0
    BY <1>3
  <2> QED BY <2>1, <2>2, <2>3
<1>5. ASSUME NEW k \in 1..n, Good(k - 1) PROVE Good(k)
  <2> DEFINE left == step[k - 1].left
             cur  == step[k - 1].text
             i    == FirstOf(located, left)
  <2>1. /\ left \in SUBSET (1..n) /\ Cardinality(left) = n - (k - 1)
        /\ Parted(text, located, r, left, cur)
    BY <1>5
  <2>2. step[k].left = left \ {i} /\ step[k].text = ApplyOne(cur, located[i])
    <3>1. step[k] = Applied(located, step[k - 1])
      BY <1>1
    <3>2. Applied(located, step[k - 1]) = [left |-> left \ {i}, text |-> ApplyOne(cur, located[i])]
      BY DEF Applied
    <3> HIDE DEF left, cur, i
    <3> QED BY <3>1, <3>2
  <2> HIDE DEF left, cur, Good
  <2>3. IsFiniteSet(left) /\ left # {}
    <3>1. IsFiniteSet(left)
      BY <1>3, <2>1, FS_Subset
    <3>2. Cardinality(left) # 0
      BY <2>1
    <3> QED BY <3>1, <3>2, FS_EmptySet
  <2>4. i \in left /\ \A j \in left : located[j].at <= located[i].at
    BY <1>0, <2>1, <2>3, FirstOfLeft
  <2> HIDE DEF i
  <2>5. Cardinality(left \ {i}) = n - k
    <3>1. Cardinality(left \ {i}) = Cardinality(left) - 1
      BY <2>3, <2>4, FS_RemoveElement
    <3> QED BY <2>1, <3>1
  <2>6. Parted(text, located, r, left \ {i}, ApplyOne(cur, located[i]))
    BY <1>2, <2>1, <2>4, PartedStep
  <2> QED BY <2>1, <2>2, <2>5, <2>6 DEF Good
<1>6. ASSUME Bad # {} PROVE FALSE
  <2>1. PICK k \in Bad : \A l \in Bad : k <= l
    <3>1. Bad \in SUBSET Nat
      OBVIOUS
    <3> HIDE DEF Bad
    <3> QED BY <1>6, <3>1, SmallestOfNats
  <2>2. k \in 0..n /\ ~Good(k)
    OBVIOUS
  <2> HIDE DEF Good
  <2>3. k # 0
    BY <1>4, <2>2
  <2>4. k \in 1..n /\ k - 1 \in 0..n /\ ~(k <= k - 1)
    BY <2>2, <2>3
  <2>5. k - 1 \notin Bad
    <3> HIDE DEF Bad
    <3> QED BY <2>1, <2>4
  <2>6. Good(k - 1)
    BY <2>4, <2>5
  <2> QED BY <1>5, <2>2, <2>4, <2>6
<1>7. Good(n)
  <2>1. n \in 0..n
    OBVIOUS
  <2> HIDE DEF Good
  <2> QED BY <1>6, <2>1
<1>8. step[n].left = {}
  <2>1. Cardinality(step[n].left) = 0 /\ IsFiniteSet(step[n].left)
    BY <1>3, <1>7, FS_Subset
  <2> QED BY <2>1, FS_EmptySet
<1>9. step[n].text = Pre(text, 0) \o r[0]
  <2>1. 0 \in 0..(Len(text) + 1)
    BY <1>0
  <2>2. \A d \in DOMAIN located : 0 <= located[d].at
    <3>1. \A d \in DOMAIN located : located[d].at \in 0..Len(text)
      BY DEF GoodPatches, GoodPatch
    <3> QED BY <3>1
  <2>3. Parted(text, located, r, {}, step[n].text)
    BY <1>7, <1>8
  <2> QED BY <2>1, <2>2, <2>3 DEF Parted
<1>10. Pre(text, 0) = <<>> /\ r[0] \in Seq(Public)
  <2>1. ~(0 > Len(text)) /\ 0 \in 0..(Len(text) + 1)
    BY <1>0
  <2>2. Pre(text, 0) = SubSeq(text, 1, 0)
    BY <2>1 DEF Pre
  <2> QED BY <1>2, <2>1, <2>2, SubSeqEmpty, PiecesType
<1> QED BY <1>1, <1>2, <1>9, <1>10, ConcatEmptySeq

\* What a patch takes away is not nothing.
LEMMA LocatedNonEmpty ==
    ASSUME NEW text \in Seq(Chars), NEW p \in PatchSet, Locate(text, p).code = "ok"
    PROVE  Locate(text, p).start < Locate(text, p).end
<1> DEFINE bounds == AnchorBounds(text, p)
           starts == LineStarts(text)
           found  == Occurrences(text, p.old, bounds.start, bounds.end)
           span   == Locate(text, p)
<1>1. /\ p.old \in Seq(Chars) /\ p.before \in Seq(Chars) /\ p.after \in Seq(Chars)
      /\ p.nth \in Nat /\ p.lines \in {<<>>} \cup ((Nat \ {0}) \X (Nat \ {0}))
  BY DEF PatchSet
<1>2. \A code : Refused(code).code = code
  BY DEF Refused
<1>3. p.old # <<>> /\ bounds.code = "ok"
  <2>1. p.old = <<>> => span = Refused("invalid_args")
    BY DEF Locate, LocateWithin
  <2>2. p.old # <<>> /\ bounds.code # "ok" => span = bounds
    BY DEF Locate, LocateWithin
  <2> HIDE DEF bounds, span
  <2> QED BY <1>2, <2>1, <2>2 DEF span
<1>4. span.start \in Nat /\ span.end \in Nat
  BY LocatedInside DEF Inside
<1>5. CASE p.lines # <<>>
  <2> DEFINE from == p.lines[1]
             to   == p.lines[2]
             last == LineEnd(text, starts, to)
  <2>1. span = LineRangeMatch(text, p, starts)
    BY <1>3, <1>5 DEF Locate, LocateWithin
  <2>2. \/ span = Refused("patch_line_mismatch")
        \/ Slice(text, starts[from], last) = p.old /\ span = Found(starts[from], last)
    BY <2>1 DEF LineRangeMatch
  <2> HIDE DEF starts, from, to, last
  <2>3. span.start = starts[from] /\ span.end = last /\ Slice(text, starts[from], last) = p.old
    <3> HIDE DEF span
    <3> QED BY <1>2, <2>2 DEF Found, span
  <2> HIDE DEF span
  <2>4. SubSeq(text, span.start + 1, span.end) # <<>>
    BY <1>3, <2>3 DEF Slice
  <2>5. ~(span.start + 1 > span.end)
    <3>1. span.start + 1 \in Int /\ span.end \in Int
      BY <1>4
    <3> QED BY <2>4, <3>1, SubSeqEmpty
  <2>6. span.start < span.end
    BY <1>4, <2>5
  <2> QED BY <2>6 DEF span
<1>6. CASE p.lines = <<>>
  <2> DEFINE nth == IF p.nth = 0 THEN 1 ELSE p.nth
  <2>1. span = OldTextMatch(p, found)
    BY <1>3, <1>6 DEF Locate, LocateWithin
  <2>2. \/ \E code \in {"patch_old_text_not_found", "patch_ambiguous_match"} : span = Refused(code)
        \/ span = Found(found[nth], found[nth] + Len(p.old))
    BY <2>1 DEF OldTextMatch
  <2> HIDE DEF found, nth
  <2>3. span.start = found[nth] /\ span.end = found[nth] + Len(p.old)
    <3> HIDE DEF span
    <3> QED BY <1>2, <2>2 DEF Found, span
  <2>4. Len(p.old) \in Nat /\ Len(p.old) # 0
    BY <1>1, <1>3, EmptySeq
  <2> HIDE DEF span
  <2>5. span.start < span.end
    BY <1>4, <2>3, <2>4
  <2> QED BY <2>5 DEF span
<1> QED BY <1>5, <1>6

\* A patch that rewrites comes where its range begins.
LEMMA RewritesFromStart ==
    ASSUME NEW text \in Seq(Chars), NEW patches \in Seq(PatchSet), NEW i \in DOMAIN patches,
           Located(text, patches)[i].code = "ok", ~Located(text, patches)[i].inserts
    PROVE  LET x == Located(text, patches)[i] IN
           x.at = x.start /\ x.start < x.end /\ x.end <= Len(text)
<1> DEFINE p    == patches[i]
           span == Locate(text, p)
           x    == Located(text, patches)[i]
<1>1. p \in PatchSet
  OBVIOUS
<1>2. x = LocatedPatch(p, span)
  BY DEF Located
<1> HIDE DEF p, span
<1>3. /\ x.code = span.code /\ x.start = span.start /\ x.end = span.end
      /\ x.at = (IF p.op = "insert_after" THEN span.end ELSE span.start)
      /\ x.inserts = Inserts(p)
  <2> HIDE DEF x
  <2> QED BY <1>2 DEF LocatedPatch
<1>4. x.code = "ok" /\ ~x.inserts
  OBVIOUS
<1> HIDE DEF x
<1>5. p.op # "insert_after"
  BY <1>3, <1>4 DEF Inserts
<1>6. span.start < span.end /\ span.end <= Len(text)
  <2>1. Inside(text, span) /\ span.code = "ok"
    BY <1>1, <1>3, <1>4, LocatedInside DEF span
  <2> QED BY <1>1, <2>1, LocatedNonEmpty DEF span, Inside
<1>7. x.at = x.start /\ x.start < x.end /\ x.end <= Len(text)
  BY <1>3, <1>5, <1>6
<1> QED BY <1>7 DEF x

\* An accepted plan rewrites every range where it was located (build_patch_plan), when
\* none inserts into what another rewrites.
LEMMA PatchPlanAsLocated ==
    ASSUME NEW text \in Seq(Public), NEW patches \in Seq(PatchSet),
           PatchPlan(text, patches).code = "ok", ~Entangled(Located(text, patches))
    PROVE  PatchPlan(text, patches).text = Rewritten(text, Located(text, patches))
<1> DEFINE located == Located(text, patches)
           refused == {i \in DOMAIN located : located[i].code # "ok"}
<1>2. text \in Seq(Chars) /\ Len(text) \in Nat
  <2>1. Public \subseteq Chars
    BY DEF Public
  <2> QED BY <2>1
<1>3. /\ Len(patches) \in Nat /\ DOMAIN patches = 1..Len(patches)
      /\ DOMAIN located = 1..Len(patches)
  BY DEF Located
<1>4. Len(located) = Len(patches)
  <2> HIDE DEF located
  <2> QED BY <1>3
<1>1. refused = {} /\ ~OverlapConflict(located) /\ PatchPlan(text, patches).text = Apply(text, located)
  <2>1. PatchPlan(text, patches) = PlanLocated(text, located)
    BY DEF PatchPlan
  <2>2. refused = {}
    <3>1. SUFFICES ASSUME refused # {} PROVE FALSE
      OBVIOUS
    <3>2. Min(refused) \in refused
      <4>1. refused \in SUBSET (1..Len(patches))
        BY <1>3
      <4> HIDE DEF refused
      <4> QED BY <1>3, <3>1, <4>1, SmallestOfSome
    <3>3. located[Min(refused)].code # "ok"
      BY <3>2
    <3>4. PlanLocated(text, located).code \in {"invalid_args", located[Min(refused)].code}
      <4> HIDE DEF located
      <4> QED BY <3>1 DEF PlanLocated
    <3> HIDE DEF located, refused
    <3> QED BY <2>1, <3>3, <3>4
  <2> HIDE DEF located
  <2> QED BY <2>1, <2>2 DEF PlanLocated
<1>5. \A i \in DOMAIN located : located[i].code = "ok"
  BY <1>1
<1>6. GoodPatches(Len(text), located)
  <2> SUFFICES ASSUME NEW i \in DOMAIN located PROVE GoodPatch(Len(text), located[i])
    BY DEF GoodPatches
  <2>1. i \in DOMAIN patches
    <3> HIDE DEF located
    <3> QED BY <1>3
  <2> QED BY <1>2, <1>5, <2>1, LocatedGood
<1>7. \A i \in DOMAIN located : ~located[i].inserts =>
         /\ located[i].at = located[i].start
         /\ located[i].start < located[i].end /\ located[i].end <= Len(text)
  <2> SUFFICES ASSUME NEW i \in DOMAIN located, ~located[i].inserts
               PROVE  /\ located[i].at = located[i].start
                      /\ located[i].start < located[i].end /\ located[i].end <= Len(text)
    OBVIOUS
  <2>1. i \in DOMAIN patches
    <3> HIDE DEF located
    <3> QED BY <1>3
  <2> QED BY <1>2, <1>5, <2>1, RewritesFromStart
<1>8. ~Entangled(located)
  OBVIOUS
<1> HIDE DEF located
<1>9. Spread(Len(text), located)
  BY <1>1, <1>2, <1>6, <1>7, <1>8, SpreadOut
<1>10. Apply(text, located) = Rewritten(text, located)
  BY <1>3, <1>4, <1>6, <1>9, AppliedAsLocated
<1> QED BY <1>1, <1>10 DEF located

(************************ what a preview was made for **************************)

\* The first refusal is one of the refusals.
LEMMA FirstIsARule ==
    ASSUME NEW n \in Nat, NEW rules, DOMAIN rules = 1..n, NEW code, code # "ok",
           \A i \in 1..n : rules[i][2] # code
    PROVE  First(rules) # code
<1> DEFINE hit == {i \in DOMAIN rules : rules[i][1]}
<1>1. CASE hit = {}
  BY <1>1 DEF First
<1>2. CASE hit # {}
  <2>1. Min(hit) \in hit
    <3>1. hit \in SUBSET (1..n)
      OBVIOUS
    <3> HIDE DEF hit
    <3> QED BY <1>2, <3>1, SmallestOfSome
  <2>2. Min(hit) \in 1..n
    BY <2>1
  <2>3. First(rules) = rules[Min(hit)][2]
    BY <1>2 DEF First
  <2> HIDE DEF hit
  <2> QED BY <2>2, <2>3
<1> QED BY <1>1, <1>2

\* When the first refusal of five can only be the last, the others are none.
LEMMA OnlyTheLast ==
    ASSUME NEW codes, DOMAIN codes = 1..5, NEW code, code # "ok", FirstRefusal(codes) = code,
           codes[1] # code, codes[2] # code, codes[3] # code
    PROVE  codes[4] \in {"ok", code}
<1> DEFINE rules == [i \in DOMAIN codes |-> <<codes[i] # "ok", codes[i]>>]
           hit   == {i \in DOMAIN rules : rules[i][1]}
<1>1. First(rules) = code /\ DOMAIN rules = 1..5
  BY DEF FirstRefusal
<1>2. \A i \in 1..5 : rules[i][1] = (codes[i] # "ok") /\ rules[i][2] = codes[i]
  OBVIOUS
<1> HIDE DEF rules
<1>3. hit # {}
  BY <1>1 DEF First
<1>4. Min(hit) \in hit /\ \A i \in hit : Min(hit) <= i
  <2>1. hit \in SUBSET (1..5)
    BY <1>1
  <2> HIDE DEF hit
  <2> QED BY <1>3, <2>1, SmallestOfSome
<1>5. code = rules[Min(hit)][2]
  BY <1>1, <1>3 DEF First
<1>6. Min(hit) \in 1..5 /\ code = codes[Min(hit)]
  <2>1. Min(hit) \in 1..5
    BY <1>1, <1>4
  <2> HIDE DEF hit
  <2> QED BY <1>2, <1>5, <2>1
<1>7. 4 \in hit => Min(hit) <= 4
  <2> HIDE DEF hit
  <2> QED BY <1>4
<1>8. ASSUME codes[4] # "ok" PROVE 4 \in hit
  <2>1. 4 \in 1..5
    OBVIOUS
  <2>2. rules[4][1]
    BY <1>2, <1>8, <2>1
  <2> QED BY <1>1, <2>1, <2>2
<1> HIDE DEF hit
<1>9. CASE codes[4] = "ok"
  BY <1>9
<1>10. CASE codes[4] # "ok"
  <2>1. Min(hit) \in 1..4
    BY <1>6, <1>7, <1>8, <1>10
  <2>2. Min(hit) \in {1, 2, 3, 4}
    BY <2>1
  <2> QED BY <1>6, <2>2
<1> QED BY <1>9, <1>10

\* No decision says what the end of a dry run says.
LEMMA DecidesNoPreview ==
    ASSUME NEW spec, NEW req, NEW expected
    PROVE  Decide(spec, req, expected).code # "dry_run_preview"
<1> DEFINE held  == req.ticket # None
           hards == << <<~spec.enabled, "tool_disabled">>,
                       <<spec.name \in BlockedTools, "blocked_by_policy">>,
                       <<spec.scope \in BlockedScopes, "blocked_by_policy">>,
                       <<RiskOf(spec, req.call) = "blocked", "blocked_by_policy">>,
                       <<\E p \in Resources(req.call) : Refusable(spec, p), "refused_path">> >>
           softs == << <<~Capable(spec) /\ ~held, PermissionCode(spec.scope)>>,
                       <<held /\ \E p \in expected : req.ticket # p, "preview_conflict">>,
                       <<Needed(spec, req) /\ ~held /\ ~req.dry, "confirmation_required">> >>
<1>1. First(hards) # "dry_run_preview"
  <2>1. DOMAIN hards = 1..5
    OBVIOUS
  <2>2. \A i \in 1..5 : hards[i][2] # "dry_run_preview"
    <3>1. hards[1][2] # "dry_run_preview" /\ hards[2][2] # "dry_run_preview"
          /\ hards[3][2] # "dry_run_preview" /\ hards[4][2] # "dry_run_preview"
          /\ hards[5][2] # "dry_run_preview"
      OBVIOUS
    <3> HIDE DEF hards
    <3> QED BY <3>1
  <2> HIDE DEF hards
  <2> QED BY <2>1, <2>2, FirstIsARule
<1>2. First(softs) # "dry_run_preview"
  <2>1. DOMAIN softs = 1..3
    OBVIOUS
  <2>2. \A i \in 1..3 : softs[i][2] # "dry_run_preview"
    <3>1. PermissionCode(spec.scope) # "dry_run_preview"
      BY DEF PermissionCode
    <3>2. softs[1][2] # "dry_run_preview" /\ softs[2][2] # "dry_run_preview"
          /\ softs[3][2] # "dry_run_preview"
      BY <3>1
    <3> HIDE DEF softs
    <3> QED BY <3>2
  <2> HIDE DEF softs
  <2> QED BY <2>1, <2>2, FirstIsARule
<1>3. Decide(spec, req, expected).code \in {First(hards), "ok", First(softs)}
  BY DEF Decide
<1> HIDE DEF hards, softs
<1> QED BY <1>1, <1>2, <1>3

\* No look at a file does.
LEMMA FileSaysNoPreview ==
    ASSUME NEW d, NEW p PROVE ExistingFile(d, p) # "dry_run_preview"
<1> DEFINE rules == << <<Area[p] # "plain", AreaCode(p)>>,
                       <<~Exists(d, p), "file_not_found">>,
                       <<~IsFile(d, p), "not_a_file">>,
                       <<p \in Linked, "sensitive_path_blocked">> >>
<1>1. DOMAIN rules = 1..4 /\ First(rules) = ExistingFile(d, p)
  BY DEF ExistingFile
<1>2. AreaCode(p) # "dry_run_preview"
  BY DEF AreaCode
<1>3. \A i \in 1..4 : rules[i][2] # "dry_run_preview"
  <2>1. rules[1][2] # "dry_run_preview" /\ rules[2][2] # "dry_run_preview"
        /\ rules[3][2] # "dry_run_preview" /\ rules[4][2] # "dry_run_preview"
    BY <1>2
  <2> HIDE DEF rules
  <2> QED BY <2>1
<1>4. First(rules) # "dry_run_preview"
  <2>1. DOMAIN rules = 1..4
    BY <1>1
  <2> HIDE DEF rules
  <2> QED BY <1>3, <2>1, FirstIsARule
<1> QED BY <1>1, <1>4

\* And no patch.
LEMMA PatchSaysNoPreview ==
    ASSUME NEW text, NEW patches \in Seq(PatchSet)
    PROVE  PatchPlan(text, patches).code # "dry_run_preview"
<1> DEFINE located == Located(text, patches)
           refused == {i \in DOMAIN located : located[i].code # "ok"}
<1>1. ASSUME NEW p PROVE Locate(text, p).code # "dry_run_preview"
  <2> DEFINE bounds == AnchorBounds(text, p)
             starts == LineStarts(text)
             found  == Occurrences(text, p.old, bounds.start, bounds.end)
  <2>1. \A a, b : Found(a, b).code = "ok"
    BY DEF Found
  <2>2. \A code : Refused(code).code = code
    BY DEF Refused
  <2>3. bounds.code # "dry_run_preview"
    <3>1. bounds = Refused("patch_anchor_not_found") \/ \E a, b : bounds = Found(a, b)
      BY DEF AnchorBounds
    <3> HIDE DEF bounds
    <3> QED BY <2>1, <2>2, <3>1
  <2>4. LineRangeMatch(text, p, starts).code # "dry_run_preview"
    <3> DEFINE m == LineRangeMatch(text, p, starts)
    <3>1. m = Refused("patch_line_mismatch") \/ \E a, b : m = Found(a, b)
      <4> HIDE DEF starts
      <4> QED BY DEF LineRangeMatch
    <3> HIDE DEF m
    <3>2. m.code # "dry_run_preview"
      BY <2>1, <2>2, <3>1
    <3> QED BY <3>2 DEF m
  <2>5. OldTextMatch(p, found).code # "dry_run_preview"
    <3> DEFINE m == OldTextMatch(p, found)
    <3>1. \/ m = Refused("patch_old_text_not_found") \/ m = Refused("patch_ambiguous_match")
          \/ \E a, b : m = Found(a, b)
      <4> HIDE DEF found
      <4> QED BY DEF OldTextMatch
    <3> HIDE DEF m
    <3>2. m.code # "dry_run_preview"
      BY <2>1, <2>2, <3>1
    <3> QED BY <3>2 DEF m
  <2>6. Locate(text, p) \in {Refused("invalid_args"), bounds, LineRangeMatch(text, p, starts),
                             OldTextMatch(p, found)}
    BY DEF Locate, LocateWithin
  <2> HIDE DEF bounds, starts, found
  <2> QED BY <2>2, <2>3, <2>4, <2>5, <2>6
<1>2. ASSUME NEW i \in DOMAIN located PROVE located[i].code # "dry_run_preview"
  <2>1. located[i] = LocatedPatch(patches[i], Locate(text, patches[i]))
    BY DEF Located
  <2>2. located[i].code = Locate(text, patches[i]).code
    <3> HIDE DEF located
    <3> QED BY <2>1 DEF LocatedPatch
  <2> HIDE DEF located
  <2> QED BY <1>1, <2>2
<1>3. ASSUME refused # {} PROVE Min(refused) \in DOMAIN located
  <2>1. DOMAIN located = 1..Len(patches) /\ Len(patches) \in Nat
    BY DEF Located
  <2>2. refused \in SUBSET (1..Len(patches)) /\ refused \in SUBSET DOMAIN located
    BY <2>1
  <2> HIDE DEF refused
  <2> QED BY <1>3, <2>1, <2>2, SmallestOfSome
<1>4. \/ PatchPlan(text, patches).code \in {"invalid_args", "patch_conflict", "ok"}
      \/ refused # {} /\ PatchPlan(text, patches).code = located[Min(refused)].code
  <2>1. PatchPlan(text, patches) = PlanLocated(text, located)
    BY DEF PatchPlan
  <2> HIDE DEF located
  <2> QED BY <2>1 DEF PlanLocated
<1> HIDE DEF located, refused
<1> QED BY <1>2, <1>3, <1>4

\* A preview that shows what patches make of a file shows it as the reference says.
PreviewPatched(t) ==
    th[t].pc = "asked" /\ Call(t).tool = "patch_file" =>
        LET text    == th[t].preview.files[Call(t).path].text
            located == Located(text, Call(t).patches) IN
        Entangled(located) \/ th[t].preview.plan.text = Rewritten(text, located)

\* A preview that is shown for patches has what they make of the file it shows.
LEMMA PreviewPlans ==
    ASSUME SecretInv, NEW t \in Threads, Execute(t) PROVE PreviewPatched(t)'
<1> DEFINE req     == th[t].req
           call    == Call(t)
           spec    == ToolOf(t)
           first   == Decide(spec, req, {})
           preview == BuildPreview(spec, req, first, disk)
           second  == IF req.ticket = None THEN first ELSE Decide(spec, req, {preview})
           codes   == <<IF MissingParam(spec, req.call.given) THEN "missing_required_param" ELSE "ok",
                        first.code, second.code, preview.plan.code,
                        IF req.dry THEN DryRunCode(spec) ELSE "ok">>
           code    == FirstRefusal(codes)
           p       == call.path
           text    == disk[p].text
           patched == PatchPlan(text, call.patches)
<1>0. /\ ToolTyped /\ ThreadOK(t) /\ PlainPublic /\ th[t].pc = "gate" /\ IsCall(call)
      /\ DOMAIN th[t] = Fields
  BY DEF SecretInv, ToolInv, Execute, ThreadOK, ToolTyped
<1>1. th'[t] = AfterGate(t, code, preview)
  BY <1>0 DEF Execute, GateCode, ToolTyped
<1>2. SUFFICES ASSUME th'[t].pc = "asked", Call(t)'.tool = "patch_file"
               PROVE  \/ Entangled(Located(th'[t].preview.files[Call(t)'.path].text, Call(t)'.patches))
                      \/ th'[t].preview.plan.text =
                           Rewritten(th'[t].preview.files[Call(t)'.path].text,
                                     Located(th'[t].preview.files[Call(t)'.path].text, Call(t)'.patches))
  BY DEF PreviewPatched
<1>3. /\ code = "dry_run_preview" /\ th'[t].preview = preview /\ th'[t].req = th[t].req
  <2> DEFINE g == Goto(t, "asked")
  <2>1. g.pc = "asked" /\ DOMAIN g = Fields /\ g.req = th[t].req
    BY <1>0, Shapes
  <2>2. Goto(t, "run").pc = "run" /\ Ended(t, code).pc = "idle"
    <3> HIDE DEF code
    <3> QED BY <1>0, Shapes
  <2>3. CASE code = "ok"
    <3>1. th'[t] = Goto(t, "run")
      BY <1>1, <2>3 DEF AfterGate
    <3> QED BY <1>2, <2>2, <3>1
  <2>4. CASE code = "dry_run_preview"
    <3>1. th'[t] = [g EXCEPT !.preview = preview]
      BY <1>1, <2>4 DEF AfterGate
    <3> HIDE DEF g, preview
    <3>2. th'[t].preview = preview /\ th'[t].req = g.req
      BY <2>1, <3>1 DEF Fields
    <3> HIDE DEF code
    <3> QED BY <2>1, <2>4, <3>2
  <2>5. CASE code \notin {"ok", "dry_run_preview"}
    <3>1. th'[t] = Ended(t, code)
      <4> HIDE DEF code, preview
      <4> QED BY <1>1, <2>5 DEF AfterGate
    <3> HIDE DEF code
    <3> QED BY <1>2, <2>2, <3>1
  <2> HIDE DEF code
  <2> QED BY <2>3, <2>4, <2>5
<1>4. Call(t)' = call /\ call.tool = "patch_file"
  BY <1>2, <1>3 DEF Call
<1>5. spec.preview = "file_patch"
  <2>1. call.tool \in Writes
    BY <1>4 DEF Writes
  <2>2. Declared(call.tool, spec)
    BY <1>0, <2>1, ToolDeclared, RuntimeAssumption
  <2> HIDE DEF call, spec
  <2> QED BY <1>4, <2>2 DEF Declared
<1>6. preview.plan = PatchFilePlan(disk, call) /\ p \in Shown(spec, call) /\ req.call = call
  <2>1. req.call = call
    BY DEF Call
  <2>2. Planned(spec, req.call, disk) = PatchFilePlan(disk, call)
    <3> HIDE DEF spec, call, req
    <3> QED BY <1>4, <1>5, <2>1 DEF Planned, HandlerPlan
  <2>3. p \in Shown(spec, call)
    <3> HIDE DEF spec, call
    <3> QED BY <1>5 DEF Shown, p
  <2> HIDE DEF spec, call, first, req
  <2> QED BY <2>1, <2>2, <2>3 DEF BuildPreview
<1>7. preview.files[p] = disk[p]
  <2>1. preview.files = [q \in Shown(spec, req.call) |-> disk[q]]
    <3> HIDE DEF spec, req, first
    <3> QED BY DEF BuildPreview
  <2> HIDE DEF preview, spec, req, call
  <2> QED BY <1>6, <2>1
<1>8. preview.plan.code = "ok"
  <2>1. DOMAIN codes = 1..5
    OBVIOUS
  <2>2. codes[1] # "dry_run_preview"
    OBVIOUS
  <2>3. codes[2] # "dry_run_preview" /\ codes[3] # "dry_run_preview"
    <3> HIDE DEF spec, req, preview
    <3> QED BY DecidesNoPreview
  <2>4. codes[4] = preview.plan.code
    OBVIOUS
  <2>5. preview.plan.code # "dry_run_preview"
    <3>1. PatchFilePlan(disk, call).code \in {ExistingFile(disk, p), patched.code}
      <4> HIDE DEF patched
      <4> QED BY DEF PatchFilePlan, Plan, patched
    <3>2. call.patches \in Seq(PatchSet)
      BY <1>0, CallPublic
    <3>3. patched.code # "dry_run_preview"
      <4> HIDE DEF text, call
      <4> QED BY <3>2, PatchSaysNoPreview
    <3>4. ExistingFile(disk, p) # "dry_run_preview"
      BY FileSaysNoPreview
    <3> HIDE DEF patched, preview, p, call
    <3> QED BY <1>6, <3>1, <3>3, <3>4
  <2> HIDE DEF codes
  <2>6. codes[4] \in {"ok", "dry_run_preview"}
    BY <1>3, <2>1, <2>2, <2>3, OnlyTheLast
  <2> QED BY <2>4, <2>5, <2>6
<1>9. ExistingFile(disk, p) = "ok" /\ patched.code = "ok" /\ preview.plan.text = patched.text
  <2>1. PatchFilePlan(disk, call).code = "ok"
    <3> HIDE DEF preview
    <3> QED BY <1>6, <1>8
  <2>2. ExistingFile(disk, p) = "ok"
    <3>1. ExistingFile(disk, p) # "ok" => PatchFilePlan(disk, call).code = ExistingFile(disk, p)
      BY DEF PatchFilePlan, Plan
    <3> QED BY <2>1, <3>1
  <2>3. PatchFilePlan(disk, call) = Plan(patched.code, patched.text, <<>>)
    BY <2>2 DEF PatchFilePlan
  <2> HIDE DEF patched, preview
  <2> QED BY <1>6, <2>1, <2>2, <2>3 DEF Plan
<1>10. text \in Seq(Public) /\ call.patches \in Seq(PatchSet)
  <2>1. call.path \in Paths
    <3>1. call.tool \in ForOneFile
      BY <1>4 DEF ForOneFile, Writes
    <3> HIDE DEF call
    <3> QED BY <1>0, <3>1, CallPublic
  <2>2. Area[p] = "plain"
    BY <1>9, <2>1, ExistingFilePlain
  <2>3. text \in Seq(Public)
    BY <1>0, <2>1, <2>2 DEF PlainPublic
  <2>4. call.patches \in Seq(PatchSet)
    BY <1>0, CallPublic
  <2> QED BY <2>3, <2>4
<1> HIDE DEF text, patched, preview, call, p, code, codes
<1>11. Entangled(Located(text, call.patches)) \/ patched.text = Rewritten(text, Located(text, call.patches))
  BY <1>9, <1>10, PatchPlanAsLocated DEF patched
<1>12. th'[t].preview.files[Call(t)'.path].text = text /\ Call(t)'.patches = call.patches
  BY <1>3, <1>4, <1>7 DEF text, p
<1>13. th'[t].preview.plan.text = patched.text
  <2>1. th'[t].preview = preview
    BY ONLY <1>3, Zenon
  <2>2. preview.plan.text = patched.text
    BY ONLY <1>9, Zenon
  <2> QED BY ONLY <2>1, <2>2, Zenon
<1> QED BY ONLY <1>11, <1>12, <1>13

\* The step of one execution leaves the previews of the others.
LEMMA OthersPreviews ==
    ASSUME ToolTyped, NEW t \in Threads, NEW x, th' = [th EXCEPT ![t] = x],
           \A u \in Threads : PreviewPatched(u), PreviewPatched(t)'
    PROVE  \A u \in Threads : PreviewPatched(u)'
<1> SUFFICES ASSUME NEW u \in Threads, u # t PROVE PreviewPatched(u)'
  OBVIOUS
<1>1. th'[u] = th[u]
  BY DEF ToolTyped
<1> QED BY <1>1 DEF PreviewPatched, Call

\* Nor does a step after which it shows none.
LEMMA NotShowing ==
    ASSUME ToolTyped, NEW t \in Threads, NEW x, th' = [th EXCEPT ![t] = x], x.pc # "asked",
           \A u \in Threads : PreviewPatched(u)
    PROVE  \A u \in Threads : PreviewPatched(u)'
<1>1. th'[t] = x
  BY DEF ToolTyped
<1>2. PreviewPatched(t)'
  BY <1>1 DEF PreviewPatched
<1> QED BY <1>2, OthersPreviews

\* Begin, the answers of the user and the handlers leave nothing that asks.
LEMMA HandlersShowNothing ==
    ASSUME ToolTyped, NEW t \in Threads,
           \/ \E call \in Calls, marked \in BOOLEAN : Begin(t, call, marked)
           \/ Approve(t) \/ Decline(t) \/ Handle(t)
    PROVE  \E x : th' = [th EXCEPT ![t] = x] /\ x.pc # "asked"
<1>1. DOMAIN th[t] = Fields
  BY DEF ToolTyped
<1>2. /\ \A pc : Goto(t, pc).pc = pc /\ DOMAIN Goto(t, pc) = Fields
      /\ \A code : Ended(t, code).pc = "idle" /\ DOMAIN Ended(t, code) = Fields
  BY <1>1, Shapes
<1>3. ASSUME NEW call \in Calls, NEW marked \in BOOLEAN, Begin(t, call, marked)
      PROVE  \E x : th' = [th EXCEPT ![t] = x] /\ x.pc # "asked"
  <2> DEFINE x == IF Registered(call.tool) = {} THEN Blocked
                  ELSE Submitted(SpecOf(call.tool), call, marked)
  <2>1. DOMAIN NoCall = Fields /\ NoCall.pc = "idle"
    BY DEF NoCall, Fields
  <2>2. Blocked.pc = "idle"
    BY <2>1 DEF Blocked, Fields
  <2>3. x = Blocked \/ \E req : x = [NoCall EXCEPT !.pc = "gate", !.req = req]
    BY DEF Submitted
  <2>4. th' = [th EXCEPT ![t] = x]
    BY <1>3 DEF Begin
  <2> HIDE DEF x
  <2>5. x.pc # "asked"
    BY <2>1, <2>2, <2>3 DEF Fields
  <2> QED BY <2>4, <2>5
<1>4. CASE Approve(t)
  <2> DEFINE g == Goto(t, "gate")
             x == [g EXCEPT !.req.ticket = th[t].preview, !.req.dry = FALSE]
  <2>1. th' = [th EXCEPT ![t] = x]
    BY <1>4 DEF Approve
  <2>2. g.pc = "gate" /\ DOMAIN g = Fields
    BY <1>2
  <2>3. x.pc = "gate"
    <3> HIDE DEF g
    <3> QED BY <2>2 DEF Fields
  <2> HIDE DEF x
  <2> QED BY <2>1, <2>3
<1>5. CASE Decline(t) \/ Compute(t) \/ Reread(t)
  <2>1. PICK code : th' = [th EXCEPT ![t] = Ended(t, code)]
    BY <1>5 DEF Decline, Compute, Reread, Finish
  <2>2. Ended(t, code).pc # "asked"
    BY <1>2
  <2> QED BY <2>1, <2>2
<1>6. CASE Read(t)
  <2> DEFINE answer == ReadAnswer(disk, Call(t), ReadCode(disk, Call(t), th[t].req.ticket # None))
             e      == Ended(t, answer.code)
             x      == [e EXCEPT !.result.answer = answer]
  <2>1. th' = [th EXCEPT ![t] = x]
    BY <1>6 DEF Read
  <2> HIDE DEF answer
  <2>2. e.pc = "idle" /\ DOMAIN e = Fields
    BY <1>2
  <2>3. x.pc = "idle"
    <3> HIDE DEF e
    <3> QED BY <2>2 DEF Fields
  <2> HIDE DEF x
  <2> QED BY <2>1, <2>3
<1>7. CASE MakePlan(t)
  <2> DEFINE plan == HandlerPlan(disk, Call(t))
             g    == Goto(t, "act")
             x    == AfterPlan(t, plan)
  <2>1. th' = [th EXCEPT ![t] = x]
    BY <1>7 DEF MakePlan
  <2>2. g.pc = "act" /\ DOMAIN g = Fields /\ Ended(t, plan.code).pc = "idle"
    <3> HIDE DEF plan
    <3> QED BY <1>2
  <2>3. x \in {[g EXCEPT !.plan = plan], Ended(t, plan.code)}
    BY DEF AfterPlan
  <2> HIDE DEF plan, g, x
  <2>4. x.pc # "asked"
    BY <2>2, <2>3 DEF Fields
  <2> QED BY <2>1, <2>4
<1>8. CASE Act(t)
  <2> DEFINE made == HandlerAct(disk, Call(t), th[t].plan.text)
             x    == IF made.code = "ok" /\ Rereads(Call(t)) THEN Goto(t, "reread")
                     ELSE Ended(t, made.code)
  <2>1. th' = [th EXCEPT ![t] = x]
    BY <1>8 DEF Act
  <2> HIDE DEF made
  <2>2. x.pc # "asked"
    BY <1>2
  <2> HIDE DEF x
  <2> QED BY <2>1, <2>2
<1>9. CASE UnlinkNext(t)
  <2> DEFINE todo == th[t].plan.todo
             made == Unlink(disk, Head(todo))
             e    == Ended(t, "ok")
             x    == IF made.code # "ok" THEN Ended(t, made.code)
                     ELSE [(IF Len(todo) > 1 THEN th[t] ELSE e) EXCEPT !.plan.todo = Tail(todo)]
  <2>1. th' = [th EXCEPT ![t] = x] /\ th[t].pc = "act"
    BY <1>9 DEF UnlinkNext
  <2> HIDE DEF made, todo
  <2>2. e.pc = "idle" /\ DOMAIN e = Fields /\ Ended(t, made.code).pc = "idle"
    BY <1>2
  <2> HIDE DEF e
  <2>3. \/ x = Ended(t, made.code)
        \/ x = [th[t] EXCEPT !.plan.todo = Tail(todo)]
        \/ x = [e EXCEPT !.plan.todo = Tail(todo)]
    OBVIOUS
  <2> HIDE DEF x
  <2>4. x.pc # "asked"
    BY <1>1, <2>1, <2>2, <2>3 DEF Fields
  <2> QED BY <2>1, <2>4
<1> QED BY <1>3, <1>4, <1>5, <1>6, <1>7, <1>8, <1>9 DEF Handle

\* Inductive with what keeps secrets: the text that is patched is in the workspace.
PatchInv == SecretInv /\ \A t \in Threads : PreviewPatched(t)

LEMMA PatchStep == ASSUME PatchInv, [Next]_vars PROVE PatchInv'
<1>7. SecretInv'
  BY SecretStep DEF PatchInv
<1> SUFFICES \A t \in Threads : PreviewPatched(t)'
  BY <1>7 DEF PatchInv
<1>0. ToolTyped /\ SecretInv /\ \A t \in Threads : PreviewPatched(t)
  BY DEF PatchInv, SecretInv, ToolInv
<1>1. CASE UNCHANGED th
  BY <1>0, <1>1 DEF PreviewPatched, Call
<1>2. ASSUME NEW t \in Threads,
             \/ \E call \in Calls, marked \in BOOLEAN : Begin(t, call, marked)
             \/ Approve(t) \/ Decline(t) \/ Handle(t)
      PROVE  \A u \in Threads : PreviewPatched(u)'
  <2>1. PICK x : th' = [th EXCEPT ![t] = x] /\ x.pc # "asked"
    BY <1>0, <1>2, HandlersShowNothing
  <2> QED BY <1>0, <2>1, NotShowing
<1>3. ASSUME NEW t \in Threads, Execute(t) PROVE \A u \in Threads : PreviewPatched(u)'
  <2>1. PreviewPatched(t)'
    BY <1>0, <1>3, PreviewPlans
  <2>2. \E x : th' = [th EXCEPT ![t] = x]
    BY <1>3 DEF Execute
  <2> QED BY <1>0, <2>1, <2>2, OthersPreviews
<1>4. CASE UNCHANGED vars
  BY <1>1, <1>4 DEF vars
<1>5. ASSUME NEW p \in Paths, NEW node \in Edits, Edit(p, node)
      PROVE  \A u \in Threads : PreviewPatched(u)'
  BY <1>1, <1>5 DEF Edit
<1>6. ASSUME NEW t \in Threads,
             \/ \E call \in Calls, marked \in BOOLEAN : Begin(t, call, marked)
             \/ Execute(t) \/ Approve(t) \/ Decline(t) \/ Handle(t)
      PROVE  \A u \in Threads : PreviewPatched(u)'
  BY <1>2, <1>3, <1>6
<1> QED BY <1>4, <1>5, <1>6, Zenon DEF Next

\* Accepted patches make of the text of a file what they say, each at the place where it
\* was found in the original (build_patch_plan, _apply_located_patches), whatever the
\* text and however many patches, when none inserts into what another rewrites: the
\* preview that a user is asked about shows it.
THEOREM PatchedAsLocatedAlways == Spec => []PatchedAsLocated
<1>1. Init => PatchInv
  <2> SUFFICES ASSUME Init PROVE PatchInv
    OBVIOUS
  <2>1. \A t \in Threads : th[t] = NoCall
    BY DEF Init
  <2>2. NoCall.pc = "idle"
    BY DEF NoCall
  <2> QED BY <2>1, <2>2, SecretInit DEF PreviewPatched, PatchInv
<1>2. PatchInv /\ [Next]_vars => PatchInv'
  BY PatchStep
<1>3. PatchInv => PatchedAsLocated
  BY DEF PreviewPatched, PatchedAsLocated, PatchInv
<1> QED BY <1>1, <1>2, <1>3, PTL DEF Spec

==============================================================================
