------------------------------ MODULE McpClient ------------------------------
(* One configured MCP server as the tools layer sees it: MCPManager starts,     *)
(* refreshes and stops it; MCPToolGateway routes the tool calls of many threads *)
(* to its client; MCPStdioClient speaks JSON-RPC to a child process and starts  *)
(* a new one when it is gone; the pump thread of every process ever started     *)
(* feeds the one stdout queue of the client.  The server process is external:   *)
(* it answers, fails, writes noise to stdout or dies as it likes.               *)
EXTENDS Naturals, Sequences, FiniteSets, SequencesExt

CONSTANTS Callers,    \* threads that run tools of this server
          Tools,      \* remote tool names
          Offers,     \* what the server may answer to tools/list
          Chatters,   \* kinds of lines it writes that answer nothing: "note", "junk"
          Allowed,    \* allowed_tools of the configuration, empty for all
          Taken,      \* local names that another source of the registry holds
          None,
          MaxOps,     \* bound: start_server, refresh_server, stop_server calls
          MaxCalls,   \* bound: tool calls
          MaxFaults   \* bound: deaths, failed starts and noise of the server

Manager == "manager"
Threads == Callers \cup {Manager}
Clients == 1..MaxOps                       \* client objects, one per start_server

ASSUME McpAssumption == /\ Chatters \subseteq {"note", "junk"}
                        /\ Offers \subseteq SUBSET Tools
                        /\ Allowed \subseteq Tools /\ Taken \subseteq Tools
                        /\ Manager \notin Callers
                        /\ None \notin Threads /\ None \notin Clients
                        /\ None \notin {"start", "refresh", "call", "tools/list"}
                        /\ \A found \in SUBSET Tools : found # None
                        /\ MaxOps \in Nat /\ MaxCalls \in Nat /\ MaxFaults \in Nat

VARIABLES th,        \* what each thread is doing
          client,    \* the client objects
          proc,      \* every process ever started, by pid
          gateway,   \* the client MCPToolGateway.clients holds, or None
          managed,   \* the client of MCPManager.managed, or None
          specs,     \* remote names registered under the server's source
          used       \* operations, calls, faults and starts so far

vars == <<th, client, proc, gateway, managed, specs, used>>
registry == <<gateway, managed, specs>>

Idle == [pc |-> "idle", cl |-> 0, goal |-> None, tool |-> None, meth |-> None,
         id |-> 0]

NewClient == [lock |-> None, id |-> 0, init |-> FALSE, disc |-> None, pid |-> 0,
              queue |-> <<>>, info |-> "configured"]

Method(goal) == IF goal = "call" THEN "tools/call" ELSE "tools/list"

Running(c)     == client[c].pid # 0 /\ proc[client[c].pid].alive
Initialized(c) == client[c].init /\ Running(c)
Visible(found) == IF Allowed = {} THEN found ELSE found \cap Allowed

Init == /\ th = [t \in Threads |-> Idle]
        /\ client = [c \in Clients |-> NewClient]
        /\ proc = <<>>
        /\ gateway = None /\ managed = None /\ specs = {}
        /\ used = [ops |-> 0, calls |-> 0, faults |-> 0, starts |-> 0]

(******************************* the server process ****************************)
Line(kind, r, found) == [kind |-> kind, id |-> r.id, by |-> r.by, meth |-> r.meth,
                         found |-> found]
Noise == [id |-> 0, by |-> None, meth |-> None]
Put(c, line) == client' = [client EXCEPT ![c].queue = Append(@, line)]

\* The server takes the next line of its stdin.  It answers a request, with a
\* result or an error as the reader of the answer finds; a notification is not
\* answered.
Answer(p) ==
    /\ proc[p].alive /\ proc[p].inbox # <<>>
    /\ proc' = [proc EXCEPT ![p].inbox = Tail(@)]
    /\ LET r == Head(proc[p].inbox) IN
       \/ /\ r.meth = "initialized" /\ UNCHANGED client
       \/ /\ r.meth \in {"initialize", "tools/call"}
          /\ Put(proc[p].cl, Line("answer", r, {}))
       \/ /\ r.meth = "tools/list"
          /\ \E found \in Offers : Put(proc[p].cl, Line("answer", r, found))
    /\ UNCHANGED <<th, registry, used>>

Fault == used.faults < MaxFaults /\ used' = [used EXCEPT !.faults = @ + 1]

\* The server writes a line that is no answer: a notification, or no JSON.
Chatter(p) ==
    /\ proc[p].alive /\ Fault
    /\ \E kind \in Chatters : Put(proc[p].cl, Line(kind, Noise, {}))
    /\ UNCHANGED <<th, proc, registry>>

Die(p) == /\ proc[p].alive /\ Fault
          /\ proc' = [proc EXCEPT ![p].alive = FALSE, ![p].inbox = <<>>]
          /\ UNCHANGED <<th, client, registry>>

\* The pump thread of a process that is gone reports the end of its stdout; a
\* later process of the client may already be running then.
PumpEnd(p) == /\ ~proc[p].alive /\ ~proc[p].ended
              /\ proc' = [proc EXCEPT ![p].ended = TRUE]
              /\ Put(proc[p].cl, Line("eof", Noise, {}))
              /\ UNCHANGED <<th, registry, used>>

(********************************* one exchange ********************************)
\* A process that runs is used as it is, and one that is gone is replaced: the
\* client keeps its queue, its ids and the result of the earlier handshake.
Spawn(c, q) == [cl |-> c, alive |-> TRUE, inbox |-> <<q>>, ended |-> FALSE]

\* q is written to the process of c, and record becomes the state of c.
WriteLine(c, q, record) ==
    IF Running(c)
    THEN /\ proc' = [proc EXCEPT ![client[c].pid].inbox = Append(@, q)]
         /\ client' = [client EXCEPT ![c] = record]
    ELSE /\ proc' = Append(proc, Spawn(c, q))
         /\ client' = [client EXCEPT ![c] = [record EXCEPT !.pid = Len(proc) + 1]]

\* connection_info after a request of the method failed.
FailedInfo(meth, code, info) ==
    CASE meth = "initialize" -> "failed"
      [] meth = "tools/list" -> "tool_discovery_failed"
      [] OTHER               -> IF code = "process_exited" THEN "stopped" ELSE info

\* A failed request: the call becomes a failed ToolResult, refresh_server raises
\* and start_server goes on to undo what it did.
Failed(t) == th' = [th EXCEPT ![t] = IF th[t].goal = "start" THEN [@ EXCEPT !.pc = "undo"]
                                                             ELSE Idle]

\* initialize, list_tools and call_tool look whether a handshake was made.
Check(t) ==
    /\ th[t].pc = "check"
    /\ th' = [th EXCEPT ![t].pc = "send",
                        ![t].meth = IF Initialized(th[t].cl) THEN Method(th[t].goal)
                                                             ELSE "initialize"]
    /\ UNCHANGED <<client, proc, registry, used>>

\* request() under the lock: a new id, the line, and the wait for its answer.
Send(t) ==
    LET c == th[t].cl
        q == [id |-> client[c].id + 1, by |-> t, meth |-> th[t].meth] IN
    /\ th[t].pc = "send" /\ client[c].lock = None
    /\ WriteLine(c, q, [client[c] EXCEPT !.lock = t, !.id = @ + 1,
                                         !.info = IF Running(c) THEN @ ELSE "starting"])
    /\ th' = [th EXCEPT ![t].pc = "wait", ![t].id = q.id]
    /\ UNCHANGED <<registry, used>>

\* The command is gone or Popen fails, in request() or in notify().
SendFails(t) ==
    LET c == th[t].cl IN
    /\ th[t].pc \in {"send", "greet"} /\ ~Running(c) /\ Fault
    /\ th[t].pc = "send" => client[c].lock = None
    /\ client' = [client EXCEPT ![c].info = FailedInfo(th[t].meth, "start_failed", @)]
    /\ Failed(t)
    /\ UNCHANGED <<proc, registry>>

Waiting(t) == th[t].pc = "wait" /\ UNCHANGED <<proc, registry, used>>

\* Mutant: the exception leaves the request lock held.
GiveUpHeld(t, code, queue) ==
    LET c == th[t].cl IN
    /\ client' = [client EXCEPT ![c].queue = queue,
                                ![c].info = FailedInfo(th[t].meth, code, @)]
    /\ Failed(t)

GiveUp(t, code, queue) ==
    LET c == th[t].cl IN
    /\ client' = [client EXCEPT ![c].lock = None, ![c].queue = queue,
                                ![c].info = FailedInfo(th[t].meth, code, @)]
    /\ Failed(t)

\* The deadline passes with no line to read, or in between two lines.
Expire(t) ==
    LET c == th[t].cl IN
    /\ Waiting(t)
    /\ GiveUp(t, IF client[c].queue = <<>> /\ ~Running(c) THEN "process_exited"
                                                          ELSE "timeout",
              client[c].queue)

\* Mutant: an answer is taken whatever its id.
DiscardNoId(t, line) == line.kind = "note" \/ (line.kind = "eof" /\ Running(th[t].cl))

Discard(t, line) ==
    \/ line.kind = "note"
    \/ line.kind = "eof" /\ Running(th[t].cl)
    \/ line.kind = "answer" /\ line.id # th[t].id

\* A line that is not the answer is thrown away and the wait goes on.
ReadOther(t) ==
    LET c == th[t].cl IN
    /\ Waiting(t) /\ client[c].queue # <<>>
    /\ Discard(t, Head(client[c].queue))
    /\ client' = [client EXCEPT ![c].queue = Tail(@)]
    /\ UNCHANGED th

\* No JSON, the end of a process that was not replaced, a JSON-RPC error, or a
\* result the parser of the method refuses (version, capabilities, shape).
ReadFailure(t) ==
    LET c == th[t].cl
        line == Head(client[c].queue) IN
    /\ Waiting(t) /\ client[c].queue # <<>> /\ ~Discard(t, line)
    /\ GiveUp(t, IF line.kind = "eof" THEN "process_exited" ELSE "refused",
              Tail(client[c].queue))

\* The answer: what follows depends on what was asked.  The tools of tools/list
\* that the configuration allows become the discovery result at once.
ReadResult(t) ==
    LET c == th[t].cl
        line == Head(client[c].queue)
        after == [client[c] EXCEPT !.lock = None, !.queue = Tail(@)]
        next == CASE th[t].meth = "initialize" -> [th[t] EXCEPT !.pc = "greet"]
                  [] th[t].meth = "tools/list" -> [th[t] EXCEPT !.pc = "adapt"]
                  [] OTHER                     -> Idle IN
    /\ Waiting(t) /\ client[c].queue # <<>>
    /\ line.kind = "answer" /\ ~Discard(t, line)
    /\ client' = [client EXCEPT ![c] =
                    IF th[t].meth = "tools/list"
                    THEN [after EXCEPT !.disc = Visible(line.found), !.info = "ready"]
                    ELSE after]
    /\ th' = [th EXCEPT ![t] = next]

\* notifications/initialized, outside the lock; then the request itself, with no
\* further look at the connection.
Greet(t) ==
    LET c == th[t].cl IN
    /\ th[t].pc = "greet"
    /\ WriteLine(c, [Noise EXCEPT !.meth = "initialized"],
                 [client[c] EXCEPT !.init = TRUE, !.info = "ready"])
    /\ th' = [th EXCEPT ![t].pc = "send", ![t].meth = Method(th[t].goal)]
    /\ UNCHANGED <<registry, used>>

(********************************* tool calls **********************************)
\* ToolRuntime resolved the name in the registry; the handler keeps the spec.
CallTool(t, tool) ==
    /\ th[t].pc = "idle" /\ tool \in specs /\ used.calls < MaxCalls
    /\ used' = [used EXCEPT !.calls = @ + 1]
    /\ th' = [th EXCEPT ![t] = [Idle EXCEPT !.pc = "ready", !.goal = "call", !.tool = tool]]
    /\ UNCHANGED <<client, proc, registry>>

Ready(tool) == /\ gateway # None                        \* else mcp_server_not_found
               /\ Initialized(gateway)                  \* else mcp_connection_failed
               /\ client[gateway].disc # None
               /\ tool \in client[gateway].disc         \* else mcp_tool_not_found

\* run_spec finds the client and looks whether it can take the call.
ReadyClient(t) ==
    /\ th[t].pc = "ready"
    /\ th' = [th EXCEPT ![t] = IF Ready(th[t].tool)
                               THEN [@ EXCEPT !.pc = "check", !.cl = gateway] ELSE Idle]
    /\ UNCHANGED <<client, proc, registry, used>>

(******************************* the manager ***********************************)
Operation == /\ th[Manager].pc = "idle" /\ used.ops < MaxOps

StartServer ==
    /\ Operation
    /\ used' = [used EXCEPT !.ops = @ + 1, !.starts = @ + 1]
    /\ th' = [th EXCEPT ![Manager] = [Idle EXCEPT !.pc = "check", !.goal = "start",
                                                  !.cl = used.starts + 1]]
    /\ UNCHANGED <<client, proc, registry>>

RefreshServer ==
    /\ Operation /\ managed # None
    /\ used' = [used EXCEPT !.ops = @ + 1]
    /\ th' = [th EXCEPT ![Manager] = [Idle EXCEPT !.pc = "check", !.goal = "refresh",
                                                  !.cl = managed]]
    /\ UNCHANGED <<client, proc, registry>>

Conflicts(found) == found \cap Taken # {}

\* register_mcp_tool_specs: a name of another source refuses the whole list,
\* otherwise the source is emptied before it is filled again.
RefuseSpecs == /\ th[Manager].pc = "adapt" /\ Conflicts(client[th[Manager].cl].disc)
               /\ Failed(Manager)
               /\ UNCHANGED <<client, proc, registry, used>>

EmptySource == /\ th[Manager].pc = "adapt" /\ ~Conflicts(client[th[Manager].cl].disc)
               /\ specs' = {}
               /\ th' = [th EXCEPT ![Manager].pc = "register"]
               /\ UNCHANGED <<client, proc, gateway, managed, used>>

\* The specs enter the registry before the gateway knows the client.
Register == /\ th[Manager].pc = "register"
            /\ specs' = client[th[Manager].cl].disc
            /\ th' = [th EXCEPT ![Manager] = IF th[Manager].goal = "start"
                                             THEN [@ EXCEPT !.pc = "route"]
                                             ELSE Idle]
            /\ UNCHANGED <<client, proc, gateway, managed, used>>

Route == /\ th[Manager].pc = "route"
         /\ gateway' = th[Manager].cl /\ managed' = th[Manager].cl
         /\ th' = [th EXCEPT ![Manager] = Idle]
         /\ UNCHANGED <<client, proc, specs, used>>

Kill(c) == proc' = IF Running(c)
                   THEN [proc EXCEPT ![client[c].pid] = [@ EXCEPT !.alive = FALSE, !.inbox = <<>>]]
                   ELSE proc
Forget(c) == client' = [client EXCEPT ![c] = [@ EXCEPT !.init = FALSE, !.disc = None,
                                                       !.info = "stopped"]]

\* Mutant: a failed start leaves the client of the gateway.
UndoKeepsRoute == LET c == th[Manager].cl IN
        /\ th[Manager].pc = "undo"
        /\ Kill(c) /\ Forget(c)
        /\ specs' = {}
        /\ th' = [th EXCEPT ![Manager] = Idle]
        /\ UNCHANGED <<gateway, managed, used>>

\* A start that failed stops its client and clears what is known of the server,
\* an earlier client of it included.
Undo == LET c == th[Manager].cl IN
        /\ th[Manager].pc = "undo"
        /\ Kill(c) /\ Forget(c)
        /\ gateway' = None /\ specs' = {}
        /\ th' = [th EXCEPT ![Manager] = Idle]
        /\ UNCHANGED <<managed, used>>

\* stop_server: out of the registry and the gateway, then the process is ended,
\* then the client forgets the handshake; none of it takes the request lock.
StopServer(removeSpecs) ==
    /\ Operation
    /\ used' = [used EXCEPT !.ops = @ + 1]
    /\ managed' = None /\ gateway' = None
    /\ specs' = IF removeSpecs THEN {} ELSE specs
    /\ th' = [th EXCEPT ![Manager] = IF managed = None THEN Idle
                                     ELSE [Idle EXCEPT !.pc = "kill", !.cl = managed]]
    /\ UNCHANGED <<client, proc>>

StopProcess == /\ th[Manager].pc = "kill"
               /\ Kill(th[Manager].cl)
               /\ th' = [th EXCEPT ![Manager].pc = "forget"]
               /\ UNCHANGED <<client, registry, used>>

StopClient == /\ th[Manager].pc = "forget"
              /\ Forget(th[Manager].cl)
              /\ th' = [th EXCEPT ![Manager] = Idle]
              /\ UNCHANGED <<proc, registry, used>>

(******************************* specification *********************************)
Exchange(t) == Check(t) \/ Send(t) \/ Expire(t) \/ ReadOther(t) \/ ReadFailure(t)
               \/ ReadResult(t) \/ Greet(t)
Manage      == RefuseSpecs \/ EmptySource \/ Register \/ Route \/ Undo
               \/ StopProcess \/ StopClient
\* A step of the program in a thread that has work.
Work(t)     == Exchange(t) \/ IF t = Manager THEN Manage ELSE ReadyClient(t)

Next == \/ \E t \in Threads : Exchange(t) \/ SendFails(t)
        \/ \E t \in Callers : ReadyClient(t) \/ \E tool \in Tools : CallTool(t, tool)
        \/ StartServer \/ RefreshServer \/ \E removeSpecs \in BOOLEAN : StopServer(removeSpecs)
        \/ Manage
        \/ \E p \in DOMAIN proc : Answer(p) \/ Chatter(p) \/ Die(p) \/ PumpEnd(p)

Spec == Init /\ [][Next]_vars

\* A thread that has work keeps running, and threading.Lock, free again and again,
\* is handed to each waiting thread in the end.  The server owes nothing.
Fairness == \A t \in Threads : SF_vars(Work(t))
FairSpec == Spec /\ Fairness

(******************************** properties ***********************************)
\* A result is only ever taken by the thread that asked for it and as the answer
\* to the method it asked, although one queue carries the late answers of
\* requests that timed out and the lines of processes that are gone (request,
\* _wait_for_response).
OwnAnswer ==
    \A t \in Threads : th[t].pc = "wait" =>
        \A line \in Range(client[th[t].cl].queue) :
            line.kind = "answer" /\ ~Discard(t, line) =>
                line.by = t /\ line.meth = th[t].meth

\* Between two operations of the manager the gateway routes to the managed client,
\* and the registry offers what its latest discovery found, unless that discovery
\* was refused for a name of another source (start_server, refresh_server,
\* stop_server, register_mcp_tool_specs).
RoutedAsDiscovered ==
    th[Manager].pc = "idle" /\ gateway # None =>
        /\ gateway = managed
        /\ LET found == client[gateway].disc IN
           found # None /\ (specs = found \/ Conflicts(found))

\* Every tool call the gateway took ends in a ToolResult, whatever the server
\* does and however many threads share the request lock (run_spec).  The number
\* of calls is bounded, so this says that all of them are over in the end.
CallsEnd == <>[](\A t \in Callers : th[t].pc = "idle")
============================================================================
