--------------------------- MODULE McpClientProofs ---------------------------
(***************************************************************************)
(* Proofs about McpClient for any number of callers, processes, late       *)
(* answers and failures: a thread only ever takes its own answer from the  *)
(* shared queue, and between two operations of the manager the gateway     *)
(* routes what the registry offers.                                        *)
(***************************************************************************)
EXTENDS McpClient, SequenceTheorems, TLAPS

-----------------------------------------------------------------------------
(* Types *)

Stages == {"idle", "check", "send", "wait", "greet", "adapt", "register", "route",
           "undo", "kill", "forget", "ready"}
Methods == {"initialize", "tools/list", "tools/call"}
Thread == [pc : Stages, cl : Clients \cup {0}, goal : {"call", "start", "refresh", None},
           tool : Tools \cup {None}, meth : Methods \cup {None}, id : Nat]
Request == [id : Nat, by : Threads \cup {None}, meth : Methods \cup {"initialized", None}]
QueueLine == [kind : {"answer", "note", "junk", "eof"}, id : Nat, by : Threads \cup {None},
              meth : Methods \cup {"initialized", None}, found : SUBSET Tools]
ClientState == [lock : Threads \cup {None}, id : Nat, init : BOOLEAN,
                disc : (SUBSET Tools) \cup {None}, pid : Nat, queue : Seq(QueueLine),
                info : {"configured", "starting", "ready", "failed", "stopped",
                        "tool_discovery_failed"}]
Process == [cl : Clients, alive : BOOLEAN, inbox : Seq(Request), ended : BOOLEAN]

AtServer == {"check", "send", "wait", "greet"}

McpTyped ==
  /\ th \in [Threads -> Thread]
  /\ client \in [Clients -> ClientState]
  /\ proc \in Seq(Process)
  /\ gateway \in Clients \cup {None} /\ managed \in Clients \cup {None}
  /\ specs \in SUBSET Tools
  /\ used \in [ops : Nat, calls : Nat, faults : Nat, starts : Nat]
  /\ used.starts <= used.ops /\ used.ops <= MaxOps
  /\ \A c \in Clients : /\ client[c].pid \in 0..Len(proc)
                        /\ client[c].pid # 0 => proc[client[c].pid].cl = c

\* A thread that works has a client; only the manager lists and registers tools.
ThreadOK(t, x) ==
  /\ x.pc \notin {"idle", "ready"} => x.cl \in Clients
  /\ IF t = Manager THEN x.pc # "ready"
     ELSE /\ x.pc \in AtServer \cup {"idle", "ready"}
          /\ x.pc # "idle" => x.goal = "call"
          /\ x.meth # "tools/list"

ThreadsOK == \A t \in Threads : ThreadOK(t, th[t])

-----------------------------------------------------------------------------
(* Answers *)

\* Who waits at a client holds its lock, for the answer to its latest request.
WaitsOK ==
  \A t \in Threads : th[t].pc = "wait" =>
    /\ client[th[t].cl].lock = t
    /\ th[t].id = client[th[t].cl].id /\ th[t].id # 0

\* What a process of client c has to answer, or has answered, is no later than
\* the latest request of c, and is that request only if the two agree.
Asks(c, r) ==
  /\ r.id <= client[c].id
  /\ \A t \in Threads : th[t].pc = "wait" /\ th[t].cl = c /\ r.id = th[t].id =>
       r.by = t /\ r.meth = th[t].meth

InboxesOK == \A p \in DOMAIN proc : \A r \in Range(proc[p].inbox) : Asks(proc[p].cl, r)

QueuesOK == \A c \in Clients : \A line \in Range(client[c].queue) :
              line.kind = "answer" => Asks(c, line)

AnswersInv == McpTyped /\ ThreadsOK /\ WaitsOK /\ InboxesOK /\ QueuesOK

-----------------------------------------------------------------------------
(* The registry and the gateway *)

Agrees(c) == specs = client[c].disc \/ Conflicts(client[c].disc)

RouteOK ==
  /\ gateway # None => gateway = managed /\ client[gateway].disc # None
  /\ managed # None => managed <= used.starts
  /\ LET m == th[Manager] IN
     /\ m.goal = "start" => m.cl = used.starts /\ m.cl # managed
     /\ m.goal = "refresh" => m.cl = managed
     /\ m.pc \in AtServer \cup {"adapt", "register", "route", "undo"} => m.goal \in {"start", "refresh"}
     /\ m.pc \in AtServer \cup {"idle"} /\ gateway # None => Agrees(gateway)
     /\ m.pc \in {"adapt", "register"} => client[m.cl].disc # None
     /\ m.pc = "register" => ~Conflicts(client[m.cl].disc)
     /\ m.pc = "route" => m.goal = "start" /\ client[m.cl].disc # None /\ Agrees(m.cl)
     /\ m.pc = "undo" => m.goal = "start"
     /\ m.pc \in {"kill", "forget"} => gateway = None /\ m.goal \notin {"start", "refresh"}

McpInv == AnswersInv /\ RouteOK

-----------------------------------------------------------------------------
(* Sequences *)

\* An appended line is the only new one.
LEMMA RangeOfAppend ==
  ASSUME NEW S, NEW q \in Seq(S), NEW e \in S
  PROVE  Append(q, e) \in Seq(S) /\ \A x \in Range(Append(q, e)) : x \in Range(q) \/ x = e
<1>1. /\ Append(q, e) \in Seq(S) /\ Len(Append(q, e)) = Len(q) + 1 /\ Len(q) \in Nat
      /\ \A i \in 1 .. Len(q) : Append(q, e)[i] = q[i]
      /\ Append(q, e)[Len(q) + 1] = e
  BY AppendProperties, LenProperties
<1>2. DOMAIN Append(q, e) = 1 .. Len(q) + 1 /\ DOMAIN q = 1 .. Len(q)
  BY <1>1, LenProperties
<1>3. ASSUME NEW x \in Range(Append(q, e))
      PROVE  x \in Range(q) \/ x = e
  <2>1. PICK i \in 1 .. Len(q) + 1 : x = Append(q, e)[i]
    BY <1>2 DEF Range
  <2>2. i \in 1 .. Len(q) \/ i = Len(q) + 1
    BY <1>1
  <2> QED BY <1>1, <1>2, <2>1, <2>2 DEF Range
<1> QED BY <1>1, <1>3

\* The head of a queue is one of its lines, and the tail holds no others.
LEMMA RangeOfTail ==
  ASSUME NEW S, NEW q \in Seq(S), q # <<>>
  PROVE  /\ Head(q) \in S /\ Tail(q) \in Seq(S)
         /\ Head(q) \in Range(q)
         /\ \A x \in Range(Tail(q)) : x \in Range(q)
<1>1. /\ Head(q) \in S /\ Tail(q) \in Seq(S)
      /\ Len(Tail(q)) = Len(q) - 1
      /\ \A i \in 1 .. Len(Tail(q)) : Tail(q)[i] = q[i + 1]
  BY HeadTailProperties
<1>2. Len(q) \in Nat \ {0} /\ DOMAIN q = 1 .. Len(q)
  BY EmptySeq, LenProperties
<1>3. DOMAIN Tail(q) = 1 .. Len(q) - 1
  BY <1>1, LenProperties
<1>4. Head(q) = q[1] /\ 1 \in DOMAIN q
  BY <1>2
<1>5. ASSUME NEW x \in Range(Tail(q))
      PROVE  x \in Range(q)
  <2>1. PICK i \in 1 .. Len(q) - 1 : x = Tail(q)[i]
    BY <1>3 DEF Range
  <2>2. x = q[i + 1] /\ i + 1 \in DOMAIN q
    BY <1>1, <1>2, <2>1
  <2> QED BY <2>2 DEF Range
<1> QED BY <1>1, <1>4, <1>5 DEF Range

-----------------------------------------------------------------------------
(* Types are kept *)

\* The initial state.
LEMMA InitMcp == Init => McpInv
<1> SUFFICES ASSUME Init PROVE McpInv
  OBVIOUS
<1>1. Idle \in Thread
  BY DEF Idle, Thread, Stages
<1>2. NewClient \in ClientState
  <2>1. <<>> \in Seq(QueueLine)
    BY EmptySeq
  <2> QED BY <2>1 DEF NewClient, ClientState
<1>3. McpTyped
  <2>1. proc \in Seq(Process) /\ Len(proc) = 0
    BY EmptySeq DEF Init
  <2>2. \A c \in Clients : client[c].pid = 0
    BY DEF Init, NewClient
  <2> QED BY <1>1, <1>2, <2>1, <2>2, McpAssumption DEF Init, McpTyped
<1>4. \A t \in Threads : th[t].pc = "idle" /\ th[t].goal = None /\ th[t].meth = None
  BY DEF Init, Idle
<1>5. ThreadsOK /\ WaitsOK
  BY <1>4, McpAssumption DEF ThreadsOK, ThreadOK, WaitsOK, AtServer
<1>6. InboxesOK /\ QueuesOK
  <2>1. DOMAIN proc = {} /\ \A c \in Clients : Range(client[c].queue) = {}
    BY DEF Init, NewClient, Range
  <2> QED BY <2>1 DEF InboxesOK, QueuesOK
<1>7. RouteOK
  BY <1>4, McpAssumption DEF Init, RouteOK, Threads, AtServer
<1> QED BY <1>3, <1>5, <1>6, <1>7 DEF McpInv, AnswersInv

-----------------------------------------------------------------------------
(* What a step does to lines and requests *)

\* A request that a process still has to answer, and the answer to one.
Asked(c, r) == \E p \in DOMAIN proc : proc[p].cl = c /\ r \in Range(proc[p].inbox)
AnswerTo(line, r) == line.id = r.id /\ line.by = r.by /\ line.meth = r.meth

\* A step that asks nothing new: no id is given, nobody begins to wait, and what
\* is in an inbox or a queue came from one, or is a greeting.
Quiet ==
  /\ \A c \in Clients : client'[c].id = client[c].id
  /\ \A t \in Threads : th'[t].pc = "wait" =>
       th[t].pc = "wait" /\ th'[t].cl = th[t].cl /\ th'[t].id = th[t].id /\ th'[t].meth = th[t].meth
  /\ \A p \in DOMAIN proc' : \A r \in Range(proc'[p].inbox) : r.id = 0 \/ Asked(proc'[p].cl, r)
  /\ \A c \in Clients : \A line \in Range(client'[c].queue) : line.kind = "answer" =>
       line \in Range(client[c].queue) \/ \E r : Asked(c, r) /\ AnswerTo(line, r)

\* The parts of the types that a step has to keep when it changes no process.
ClientsTyped == /\ client' \in [Clients -> ClientState]
                /\ \A c \in Clients : client'[c].pid = client[c].pid

\* One client changes, in its lock, its queue or what is known of it.
LEMMA OneClient ==
  ASSUME McpTyped, NEW c \in Clients, NEW new \in ClientState,
         client' = [client EXCEPT ![c] = new], new.pid = client[c].pid
  PROVE  /\ ClientsTyped
         /\ client'[c] = new
         /\ \A d \in Clients : d # c => client'[d] = client[d]
BY DEF McpTyped, ClientsTyped

\* A line is put at the end of a queue.
LEMMA PutKeeps ==
  ASSUME McpTyped, NEW c \in Clients, NEW line \in QueueLine, Put(c, line)
  PROVE  /\ ClientsTyped
         /\ \A d \in Clients : /\ client'[d].lock = client[d].lock /\ client'[d].id = client[d].id
                               /\ client'[d].disc = client[d].disc
         /\ \A d \in Clients : \A x \in Range(client'[d].queue) :
              x \in Range(client[d].queue) \/ (d = c /\ x = line)
<1>1. client[c] \in ClientState /\ client \in [Clients -> ClientState]
  BY DEF McpTyped
<1>2. client[c].queue \in Seq(QueueLine)
  BY <1>1 DEF ClientState
<1> DEFINE queue == Append(client[c].queue, line)
           new == [client[c] EXCEPT !.queue = queue]
<1>3. /\ queue \in Seq(QueueLine)
      /\ \A x \in Range(queue) : x \in Range(client[c].queue) \/ x = line
  BY <1>2, RangeOfAppend
<1>4. client' = [client EXCEPT ![c] = new]
  BY DEF Put
<1> HIDE DEF queue
<1>5. new \in ClientState /\ new.pid = client[c].pid /\ new.lock = client[c].lock
      /\ new.id = client[c].id /\ new.disc = client[c].disc /\ new.queue = queue
  BY <1>1, <1>3 DEF ClientState
<1> HIDE DEF new
<1>6. /\ ClientsTyped /\ client'[c] = new
      /\ \A d \in Clients : d # c => client'[d] = client[d]
  BY <1>4, <1>5, OneClient
<1> QED BY <1>3, <1>5, <1>6

\* A line is written to the process of a client, or to a new one.
LEMMA WriteLineKeeps ==
  ASSUME McpTyped, NEW c \in Clients, NEW q \in Request, NEW record \in ClientState,
         record.pid = client[c].pid, WriteLine(c, q, record)
  PROVE  /\ client' \in [Clients -> ClientState] /\ proc' \in Seq(Process)
         /\ \A d \in Clients : /\ client'[d].pid \in 0..Len(proc')
                               /\ client'[d].pid # 0 => proc'[client'[d].pid].cl = d
         /\ \A d \in Clients : d # c => client'[d] = client[d]
         /\ client'[c].lock = record.lock /\ client'[c].id = record.id
         /\ client'[c].disc = record.disc /\ client'[c].queue = record.queue
         /\ \A p \in DOMAIN proc' : \A r \in Range(proc'[p].inbox) :
              Asked(proc'[p].cl, r) \/ (proc'[p].cl = c /\ r = q)
<1>1. /\ client[c] \in ClientState /\ client \in [Clients -> ClientState]
      /\ proc \in Seq(Process)
      /\ \A d \in Clients : /\ client[d].pid \in 0..Len(proc)
                            /\ client[d].pid # 0 => proc[client[d].pid].cl = d
  BY DEF McpTyped
<1>2. Len(proc) \in Nat /\ DOMAIN proc = 1 .. Len(proc) /\ proc \in [1 .. Len(proc) -> Process]
  BY <1>1, LenProperties
<1>3. CASE Running(c)
  <2> DEFINE n == client[c].pid
             p0 == proc[n]
  <2>1. n \in 1 .. Len(proc) /\ p0 \in Process /\ p0.cl = c
    BY <1>1, <1>2, <1>3 DEF Running
  <2> DEFINE inbox == Append(p0.inbox, q)
             p1 == [p0 EXCEPT !.inbox = inbox]
  <2>2. inbox \in Seq(Request) /\ \A x \in Range(inbox) : x \in Range(p0.inbox) \/ x = q
    <3>1. p0.inbox \in Seq(Request)
      BY <2>1 DEF Process
    <3> QED BY <3>1, RangeOfAppend
  <2>3. proc' = [proc EXCEPT ![n] = p1] /\ client' = [client EXCEPT ![c] = record]
    BY <1>3 DEF WriteLine
  <2> HIDE DEF inbox
  <2>4. p1 \in Process /\ p1.cl = c /\ p1.inbox = inbox
    BY <2>1, <2>2 DEF Process
  <2> HIDE DEF p1, p0, n
  <2>5. /\ proc' \in Seq(Process) /\ Len(proc') = Len(proc) /\ DOMAIN proc' = DOMAIN proc
        /\ proc'[n] = p1 /\ \A p \in DOMAIN proc : p # n => proc'[p] = proc[p]
    <3>1. proc' \in Seq(Process) /\ Len(proc') = Len(proc)
      BY <1>1, <2>1, <2>3, <2>4, ExceptSeq
    <3>2. DOMAIN proc' = 1 .. Len(proc')
      BY <3>1, LenProperties
    <3> QED BY <1>2, <2>1, <2>3, <3>1, <3>2
  <2>6. /\ client'[c] = record /\ \A d \in Clients : d # c => client'[d] = client[d]
        /\ client' \in [Clients -> ClientState]
    BY <1>1, <2>3
  <2>7. ASSUME NEW d \in Clients
        PROVE  client'[d].pid \in 0..Len(proc') /\ (client'[d].pid # 0 => proc'[client'[d].pid].cl = d)
    <3>1. client'[d].pid = client[d].pid
      BY <2>6
    <3>2. \A p \in DOMAIN proc : proc'[p].cl = proc[p].cl
      BY <2>4, <2>5, <2>1 DEF p0
    <3> QED BY <1>1, <1>2, <2>5, <3>1, <3>2
  <2>8. ASSUME NEW p \in DOMAIN proc', NEW r \in Range(proc'[p].inbox)
        PROVE  Asked(proc'[p].cl, r) \/ (proc'[p].cl = c /\ r = q)
    <3>1. CASE p # n
      BY <2>5, <2>8, <3>1 DEF Asked
    <3>2. CASE p = n
      <4>1. r \in Range(p0.inbox) \/ r = q
        BY <2>2, <2>4, <2>5, <2>8, <3>2
      <4> QED BY <1>2, <2>1, <2>4, <2>5, <3>2, <4>1 DEF Asked, p0
    <3> QED BY <3>1, <3>2
  <2> QED BY <2>5, <2>6, <2>7, <2>8
<1>4. CASE ~Running(c)
  <2> DEFINE p1 == Spawn(c, q)
             n == Len(proc) + 1
             new == [record EXCEPT !.pid = n]
  <2>1. /\ <<q>> \in Seq(Request) /\ Len(<<q>>) = 1
        /\ \A x \in Range(<<q>>) : x = q
    BY DEF Range
  <2>2. p1 \in Process /\ p1.cl = c /\ p1.inbox = <<q>>
    BY <2>1 DEF Spawn, Process
  <2>3. n \in Nat /\ n = Len(proc) + 1
    BY <1>2
  <2> HIDE DEF n
  <2>4. /\ new \in ClientState /\ new.pid = n
        /\ new.lock = record.lock /\ new.id = record.id /\ new.disc = record.disc
        /\ new.queue = record.queue
    BY <2>3 DEF ClientState
  <2>5. proc' = Append(proc, p1) /\ client' = [client EXCEPT ![c] = new]
    BY <1>4 DEF WriteLine, n
  <2> HIDE DEF p1, new
  <2>6. /\ proc' \in Seq(Process) /\ Len(proc') = Len(proc) + 1
        /\ proc'[Len(proc) + 1] = p1 /\ \A p \in DOMAIN proc : proc'[p] = proc[p]
    BY <1>1, <1>2, <2>2, <2>5, AppendProperties
  <2>7. DOMAIN proc' = 1 .. Len(proc) + 1
    BY <2>6, LenProperties
  <2>8. /\ client'[c] = new /\ \A d \in Clients : d # c => client'[d] = client[d]
        /\ client' \in [Clients -> ClientState]
    BY <1>1, <2>4, <2>5
  <2>9. ASSUME NEW d \in Clients
        PROVE  client'[d].pid \in 0..Len(proc') /\ (client'[d].pid # 0 => proc'[client'[d].pid].cl = d)
    <3>1. CASE d = c
      BY <1>2, <2>2, <2>3, <2>4, <2>6, <2>8, <3>1
    <3>2. CASE d # c
      BY <1>1, <1>2, <2>6, <2>8, <3>2
    <3> QED BY <3>1, <3>2
  <2>10. ASSUME NEW p \in DOMAIN proc', NEW r \in Range(proc'[p].inbox)
        PROVE  Asked(proc'[p].cl, r) \/ (proc'[p].cl = c /\ r = q)
    <3>1. CASE p \in DOMAIN proc
      BY <2>6, <2>10, <3>1 DEF Asked
    <3>2. CASE p = Len(proc) + 1
      BY <2>1, <2>2, <2>6, <2>10, <3>2
    <3> QED BY <1>2, <2>7, <3>1, <3>2
  <2> QED BY <2>4, <2>6, <2>8, <2>9, <2>10
<1> QED BY <1>3, <1>4

-----------------------------------------------------------------------------
(* What a step does to threads *)

\* A thread moves on and does not begin to wait: whoever waits at a client still
\* holds its lock, for its latest request.
LEMMA MovesOn ==
  ASSUME AnswersInv, NEW t \in Threads, NEW x \in Thread, ThreadOK(t, x), x.pc # "wait",
         th' = [th EXCEPT ![t] = x],
         \A d \in Clients : /\ client'[d].id = client[d].id
                            /\ client'[d].lock = client[d].lock \/ client[d].lock = t
  PROVE  /\ th' \in [Threads -> Thread] /\ ThreadsOK' /\ WaitsOK'
         /\ th'[t] = x /\ \A u \in Threads : u # t => th'[u] = th[u]
         /\ \A u \in Threads : th'[u].pc = "wait" => th[u].pc = "wait" /\ th'[u] = th[u]
<1>1. th \in [Threads -> Thread] /\ ThreadsOK /\ WaitsOK
  BY DEF AnswersInv, McpTyped
<1>2. th' \in [Threads -> Thread] /\ th'[t] = x /\ \A u \in Threads : u # t => th'[u] = th[u]
  BY <1>1
<1>3. ThreadsOK'
  <2>1. \A u \in Threads : ThreadOK(u, th'[u])
    BY <1>1, <1>2 DEF ThreadsOK
  <2> QED BY <2>1 DEF ThreadsOK, ThreadOK
<1>4. \A u \in Threads : th'[u].pc = "wait" => th[u].pc = "wait" /\ th'[u] = th[u]
  BY <1>2
<1>5. ASSUME NEW u \in Threads, th'[u].pc = "wait"
      PROVE  client'[th'[u].cl].lock = u /\ th'[u].id = client'[th'[u].cl].id /\ th'[u].id # 0
  <2>1. u # t /\ th[u].pc = "wait" /\ th'[u] = th[u]
    BY <1>2, <1>5
  <2>2. th[u].cl \in Clients
    BY <1>1, <2>1 DEF ThreadsOK, ThreadOK
  <2> QED BY <1>1, <2>1, <2>2 DEF WaitsOK
<1> QED BY <1>2, <1>3, <1>4, <1>5 DEF WaitsOK

\* A thread whose request failed has nothing more to do, or has to undo its start.
LEMMA FailedMoves ==
  ASSUME AnswersInv, NEW t \in Threads, Failed(t), th[t].pc \in AtServer \cup {"adapt"}
  PROVE  \E x \in Thread :
           /\ th' = [th EXCEPT ![t] = x] /\ ThreadOK(t, x) /\ x.pc # "wait"
           /\ \/ x = Idle /\ th[t].goal # "start"
              \/ x.pc = "undo" /\ x.goal = "start" /\ th[t].goal = "start" /\ x.cl = th[t].cl
<1>1. th[t] \in Thread /\ ThreadOK(t, th[t])
  BY DEF AnswersInv, McpTyped, ThreadsOK
<1>2. CASE th[t].goal = "start"
  <2> DEFINE x == [th[t] EXCEPT !.pc = "undo"]
  <2>1. x \in Thread /\ x.pc = "undo" /\ x.goal = th[t].goal /\ x.cl = th[t].cl
    BY <1>1 DEF Thread, Stages
  <2>2. th' = [th EXCEPT ![t] = x]
    BY <1>2 DEF Failed
  <2>3. ThreadOK(t, x)
    BY <1>1, <1>2, <2>1 DEF ThreadOK, AtServer
  <2> QED BY <1>2, <2>1, <2>2, <2>3
<1>3. CASE th[t].goal # "start"
  <2>1. Idle \in Thread /\ Idle.pc = "idle" /\ Idle.meth = None
    BY DEF Idle, Thread, Stages
  <2>2. ThreadOK(t, Idle)
    BY <2>1, McpAssumption DEF ThreadOK
  <2>3. th' = [th EXCEPT ![t] = Idle]
    BY <1>3 DEF Failed
  <2> QED BY <1>3, <2>1, <2>2, <2>3
<1> QED BY <1>2, <1>3

-----------------------------------------------------------------------------
(* Answers: only Send asks something new *)

\* What a quiet step leaves in inboxes and queues was asked before.
LEMMA QuietKeeps ==
  ASSUME AnswersInv, McpTyped', Quiet
  PROVE  InboxesOK' /\ QueuesOK'
<1>1. \A c \in Clients : \A r : Asks(c, r) => Asks(c, r)'
  <2> SUFFICES ASSUME NEW c \in Clients, NEW r, Asks(c, r) PROVE Asks(c, r)'
    OBVIOUS
  <2> QED BY DEF Quiet, Asks
<1>2. ASSUME NEW c \in Clients, NEW r, r.id = 0 PROVE Asks(c, r)'
  <2>1. 0 <= client'[c].id
    BY DEF McpTyped, ClientState
  <2>2. \A t \in Threads : th'[t].pc = "wait" => th'[t].id # 0
    BY DEF AnswersInv, WaitsOK, Quiet
  <2> QED BY <1>2, <2>1, <2>2 DEF Asks
<1>3. \A c \in Clients : \A r : Asked(c, r) => Asks(c, r)'
  BY <1>1 DEF Asked, AnswersInv, InboxesOK
<1>4. \A p \in DOMAIN proc' : proc'[p].cl \in Clients
  <2>1. proc' \in Seq(Process)
    BY DEF McpTyped
  <2>2. proc' \in [1 .. Len(proc') -> Process] /\ DOMAIN proc' = 1 .. Len(proc')
    BY <2>1, LenProperties
  <2> QED BY <2>2 DEF Process
<1>5. InboxesOK'
  BY <1>2, <1>3, <1>4 DEF Quiet, InboxesOK
<1>6. ASSUME NEW c \in Clients, NEW line \in Range(client'[c].queue), line.kind = "answer"
      PROVE  Asks(c, line)'
  <2>1. CASE line \in Range(client[c].queue)
    BY <1>1, <1>6, <2>1 DEF AnswersInv, QueuesOK
  <2>2. ASSUME NEW r, Asked(c, r), AnswerTo(line, r) PROVE Asks(c, line)'
    <3>1. Asks(c, r)'
      BY <1>3, <2>2
    <3> QED BY <2>2, <3>1 DEF Asks, AnswerTo
  <2> QED BY <1>6, <2>1, <2>2 DEF Quiet
<1> QED BY <1>5, <1>6 DEF QueuesOK

\* A step that changes neither a thread nor the registry nor who holds a lock.
Aside ==
  /\ UNCHANGED <<th, registry>> /\ used'.starts = used.starts
  /\ \A c \in Clients : /\ client'[c].lock = client[c].lock /\ client'[c].id = client[c].id
                        /\ client'[c].disc = client[c].disc

LEMMA AsideKeeps ==
  ASSUME McpInv, McpTyped', Aside
  PROVE  ThreadsOK' /\ WaitsOK' /\ RouteOK'
<1>1. ThreadsOK'
  BY DEF McpInv, AnswersInv, ThreadsOK, ThreadOK, Aside
<1>2. WaitsOK'
  BY DEF McpInv, AnswersInv, ThreadsOK, ThreadOK, WaitsOK, Aside
<1>3. RouteOK'
  <2>1. /\ \A c \in Clients : client'[c].disc = client[c].disc
        /\ UNCHANGED <<th, gateway, managed, specs>> /\ used'.starts = used.starts
    BY DEF Aside, registry
  <2>2. /\ gateway # None => gateway \in Clients
        /\ th[Manager].pc \in {"adapt", "register", "route"} => th[Manager].cl \in Clients
    BY DEF McpInv, AnswersInv, McpTyped, ThreadsOK, ThreadOK, Threads
  <2> QED BY <2>1, <2>2 DEF McpInv, RouteOK, Agrees, AtServer
<1> QED BY <1>1, <1>2, <1>3

\* One process changes, in what it has to answer or in whether it runs.
LEMMA OneProcess ==
  ASSUME McpTyped, NEW p \in DOMAIN proc, NEW new \in Process, new.cl = proc[p].cl,
         proc' = [proc EXCEPT ![p] = new],
         \A r \in Range(new.inbox) : r \in Range(proc[p].inbox)
  PROVE  /\ proc' \in Seq(Process) /\ Len(proc') = Len(proc)
         /\ \A o \in DOMAIN proc : proc'[o].cl = proc[o].cl
         /\ \A o \in DOMAIN proc' : \A r \in Range(proc'[o].inbox) : Asked(proc'[o].cl, r)
<1>1. proc \in Seq(Process)
  BY DEF McpTyped
<1>2. p \in 1 .. Len(proc) /\ DOMAIN proc = 1 .. Len(proc)
  BY <1>1, LenProperties
<1>3. proc' \in Seq(Process) /\ Len(proc') = Len(proc)
  BY <1>1, <1>2, ExceptSeq
<1>4. DOMAIN proc' = DOMAIN proc
  BY <1>2, <1>3, LenProperties
<1>5. proc'[p] = new /\ \A o \in DOMAIN proc : o # p => proc'[o] = proc[o]
  BY <1>2
<1> QED BY <1>3, <1>4, <1>5 DEF Asked

\* A process is a record, and its client and its inbox are of their types.
LEMMA ProcessTyped ==
  ASSUME McpTyped, NEW p \in DOMAIN proc
  PROVE  /\ proc[p] \in Process /\ proc[p].cl \in Clients /\ proc[p].inbox \in Seq(Request)
<1>1. proc \in Seq(Process)
  BY DEF McpTyped
<1>2. proc \in [1 .. Len(proc) -> Process] /\ DOMAIN proc = 1 .. Len(proc)
  BY <1>1, LenProperties
<1> QED BY <1>2 DEF Process

\* The types of the processes and clients, from those of the rest.
LEMMA TypedFrom ==
  ASSUME McpTyped, UNCHANGED <<registry>>, th' \in [Threads -> Thread], ClientsTyped,
         proc' \in Seq(Process), Len(proc') = Len(proc),
         \A o \in DOMAIN proc : proc'[o].cl = proc[o].cl,
         used' = used \/ used' = [used EXCEPT !.faults = @ + 1]
  PROVE  McpTyped'
<1>1. DOMAIN proc = 1 .. Len(proc) /\ Len(proc) \in Nat
  BY LenProperties DEF McpTyped
<1>2. \A c \in Clients : /\ client'[c].pid \in 0..Len(proc')
                         /\ client'[c].pid # 0 => proc'[client'[c].pid].cl = c
  BY <1>1 DEF McpTyped, ClientsTyped
<1>3. /\ used' \in [ops : Nat, calls : Nat, faults : Nat, starts : Nat]
      /\ used'.starts = used.starts /\ used'.ops = used.ops
  BY DEF McpTyped
<1>4. gateway' = gateway /\ managed' = managed /\ specs' = specs
  BY DEF registry
<1> QED BY <1>2, <1>3, <1>4 DEF McpTyped, ClientsTyped

-----------------------------------------------------------------------------
(* The steps of the server process *)

\* The server answers a request, or takes a greeting.
LEMMA AnswerKeeps ==
  ASSUME McpInv, NEW p \in DOMAIN proc, Answer(p)
  PROVE  McpTyped' /\ Quiet /\ Aside
<1>1. McpTyped
  BY DEF McpInv, AnswersInv
<1>2. proc[p] \in Process /\ proc[p].cl \in Clients /\ proc[p].inbox \in Seq(Request)
      /\ proc[p].inbox # <<>>
  BY <1>1, ProcessTyped DEF Answer
<1> DEFINE c == proc[p].cl
           r == Head(proc[p].inbox)
           rest == Tail(proc[p].inbox)
           new == [proc[p] EXCEPT !.inbox = rest]
<1>3. /\ r \in Request /\ rest \in Seq(Request) /\ r \in Range(proc[p].inbox)
      /\ \A x \in Range(rest) : x \in Range(proc[p].inbox)
  BY <1>2, RangeOfTail
<1>4. proc' = [proc EXCEPT ![p] = new] /\ UNCHANGED <<th, registry, used>>
  BY DEF Answer
<1>5. UNCHANGED client \/ \E found \in SUBSET Tools : Put(c, Line("answer", r, found))
  BY McpAssumption DEF Answer
<1> HIDE DEF r, rest
<1>6. new \in Process /\ new.cl = c /\ new.inbox = rest
  BY <1>2, <1>3 DEF Process
<1> HIDE DEF new
<1>7. /\ proc' \in Seq(Process) /\ Len(proc') = Len(proc)
      /\ \A o \in DOMAIN proc : proc'[o].cl = proc[o].cl
      /\ \A o \in DOMAIN proc' : \A x \in Range(proc'[o].inbox) : Asked(proc'[o].cl, x)
  BY <1>1, <1>3, <1>4, <1>6, OneProcess
<1>8. Asked(c, r)
  BY <1>3 DEF Asked
<1>9. /\ ClientsTyped
      /\ \A d \in Clients : /\ client'[d].lock = client[d].lock /\ client'[d].id = client[d].id
                            /\ client'[d].disc = client[d].disc
      /\ \A d \in Clients : \A x \in Range(client'[d].queue) :
           x \in Range(client[d].queue) \/ (d = c /\ AnswerTo(x, r))
  <2>1. CASE UNCHANGED client
    BY <1>1, <2>1 DEF McpTyped, ClientsTyped
  <2>2. ASSUME NEW found \in SUBSET Tools, Put(c, Line("answer", r, found))
        PROVE  <1>9!1 /\ <1>9!2 /\ <1>9!3
    <3>1. Line("answer", r, found) \in QueueLine /\ AnswerTo(Line("answer", r, found), r)
      BY <1>3 DEF Line, QueueLine, Request, AnswerTo
    <3> HIDE DEF c
    <3> QED BY <1>1, <1>2, <2>2, <3>1, PutKeeps DEF c
  <2> QED BY <1>5, <2>1, <2>2
<1>10. McpTyped'
  BY <1>1, <1>4, <1>7, <1>9, TypedFrom DEF McpTyped
<1>11. Quiet
  <2>1. \A t \in Threads : th'[t] = th[t]
    BY <1>4
  <2> QED BY <1>7, <1>8, <1>9, <2>1 DEF Quiet
<1>12. Aside
  BY <1>4, <1>9 DEF Aside
<1> QED BY <1>10, <1>11, <1>12

\* The server writes noise, dies, or its pump reports the end of its stdout.
LEMMA NoiseKeeps ==
  ASSUME McpInv, NEW p \in DOMAIN proc, Chatter(p) \/ Die(p) \/ PumpEnd(p)
  PROVE  McpTyped' /\ Quiet /\ Aside
<1>1. McpTyped
  BY DEF McpInv, AnswersInv
<1>2. proc[p] \in Process /\ proc[p].cl \in Clients /\ proc[p].inbox \in Seq(Request)
  BY <1>1, ProcessTyped
<1> DEFINE c == proc[p].cl
<1>3. /\ UNCHANGED <<th, registry>>
      /\ used' = used \/ used' = [used EXCEPT !.faults = @ + 1]
  BY DEF Chatter, Die, PumpEnd, Fault
<1>4. /\ proc' \in Seq(Process) /\ Len(proc') = Len(proc)
      /\ \A o \in DOMAIN proc : proc'[o].cl = proc[o].cl
      /\ \A o \in DOMAIN proc' : \A x \in Range(proc'[o].inbox) : Asked(proc'[o].cl, x)
  <2>1. CASE UNCHANGED proc
    BY <1>1, <2>1 DEF McpTyped, Asked
  <2>2. CASE Die(p)
    <3> DEFINE new == [proc[p] EXCEPT !.alive = FALSE, !.inbox = <<>>]
    <3>1. <<>> \in Seq(Request) /\ Range(<<>>) = {}
      BY EmptySeq DEF Range
    <3>2. new \in Process /\ new.cl = c /\ new.inbox = <<>>
      BY <1>2, <3>1 DEF Process
    <3>3. proc' = [proc EXCEPT ![p] = new]
      BY <2>2 DEF Die
    <3> HIDE DEF new
    <3> QED BY <1>1, <3>1, <3>2, <3>3, OneProcess
  <2>3. CASE PumpEnd(p)
    <3> DEFINE new == [proc[p] EXCEPT !.ended = TRUE]
    <3>1. new \in Process /\ new.cl = c /\ new.inbox = proc[p].inbox
      BY <1>2 DEF Process
    <3>2. proc' = [proc EXCEPT ![p] = new]
      BY <2>3 DEF PumpEnd
    <3> HIDE DEF new
    <3> QED BY <1>1, <3>1, <3>2, OneProcess
  <2> QED BY <2>1, <2>2, <2>3 DEF Chatter
<1>5. UNCHANGED client \/ \E kind \in {"note", "junk", "eof"} : Put(c, Line(kind, Noise, {}))
  BY McpAssumption DEF Chatter, Die, PumpEnd
<1>6. /\ ClientsTyped
      /\ \A d \in Clients : /\ client'[d].lock = client[d].lock /\ client'[d].id = client[d].id
                            /\ client'[d].disc = client[d].disc
      /\ \A d \in Clients : \A x \in Range(client'[d].queue) :
           x \in Range(client[d].queue) \/ x.kind # "answer"
  <2>1. CASE UNCHANGED client
    BY <1>1, <2>1 DEF McpTyped, ClientsTyped
  <2>2. ASSUME NEW kind \in {"note", "junk", "eof"}, Put(c, Line(kind, Noise, {}))
        PROVE  <1>6!1 /\ <1>6!2 /\ <1>6!3
    <3>1. Line(kind, Noise, {}) \in QueueLine /\ Line(kind, Noise, {}).kind # "answer"
      BY DEF Line, QueueLine, Noise
    <3> HIDE DEF c
    <3> QED BY <1>1, <1>2, <2>2, <3>1, PutKeeps DEF c
  <2> QED BY <1>5, <2>1, <2>2
<1>7. McpTyped'
  BY <1>1, <1>3, <1>4, <1>6, TypedFrom DEF McpTyped
<1>8. Quiet
  <2>1. \A t \in Threads : th'[t] = th[t]
    BY <1>3
  <2> QED BY <1>4, <1>6, <2>1 DEF Quiet
<1>9. Aside
  <2>1. used'.starts = used.starts
    BY <1>1, <1>3 DEF McpTyped
  <2> QED BY <1>3, <1>6, <2>1 DEF Aside
<1> QED BY <1>7, <1>8, <1>9

-----------------------------------------------------------------------------
(* One exchange *)

\* What a step of an exchange leaves alone, and where it takes its thread.
Exchanged(t) ==
  /\ UNCHANGED registry /\ used'.starts = used.starts
  /\ \A c \in Clients : client'[c].disc = client[c].disc
  /\ th[t].pc \in AtServer
  /\ \A u \in Threads : u # t => th'[u] = th[u]
  /\ \/ th'[t].pc \in AtServer /\ th'[t].goal = th[t].goal /\ th'[t].cl = th[t].cl
     \/ th'[t] = Idle
     \/ th'[t].pc = "undo" /\ th'[t].goal = "start" /\ th[t].goal = "start" /\ th'[t].cl = th[t].cl

\* An exchange does not touch what the gateway and the registry rely on.
LEMMA ExchangedKeeps ==
  ASSUME McpInv, NEW t \in Threads, Exchanged(t)
  PROVE  RouteOK'
<1>1. /\ \A c \in Clients : client'[c].disc = client[c].disc
      /\ gateway' = gateway /\ managed' = managed /\ specs' = specs
      /\ used'.starts = used.starts
  BY DEF Exchanged, registry
<1>2. /\ gateway # None => gateway \in Clients
      /\ th[Manager].pc \in {"adapt", "register", "route"} => th[Manager].cl \in Clients
      /\ Manager \in Threads
  BY DEF McpInv, AnswersInv, McpTyped, ThreadsOK, ThreadOK, Threads
<1>3. \A c \in Clients : Agrees(c) => Agrees(c)'
  BY <1>1 DEF Agrees
<1>4. CASE t # Manager
  <2>1. th'[Manager] = th[Manager]
    BY <1>2, <1>4 DEF Exchanged
  <2> QED BY <1>1, <1>2, <1>3, <2>1 DEF McpInv, RouteOK, AtServer
<1>5. CASE t = Manager
  <2>1. th[Manager].pc \in AtServer
    BY <1>5 DEF Exchanged
  <2>2. CASE th'[t] = Idle
    <3>1. th'[Manager].pc = "idle" /\ th'[Manager].goal \notin {"start", "refresh"}
      BY <1>5, <2>2, McpAssumption DEF Idle
    <3> QED BY <1>1, <1>2, <1>3, <2>1, <3>1 DEF McpInv, RouteOK, AtServer
  <2>3. CASE th'[t].pc \in AtServer /\ th'[t].goal = th[t].goal /\ th'[t].cl = th[t].cl
    BY <1>1, <1>2, <1>3, <1>5, <2>1, <2>3 DEF McpInv, RouteOK, AtServer
  <2>4. CASE th'[t].pc = "undo" /\ th'[t].goal = "start" /\ th[t].goal = "start" /\ th'[t].cl = th[t].cl
    BY <1>1, <1>2, <1>3, <1>5, <2>1, <2>4 DEF McpInv, RouteOK, AtServer
  <2> QED BY <1>5, <2>2, <2>3, <2>4 DEF Exchanged
<1> QED BY <1>4, <1>5

\* What every step but Send is shown to do.
Kept == McpTyped' /\ ThreadsOK' /\ WaitsOK' /\ Quiet

\* A thread and its client, while it works at the server.
LEMMA AtServerFacts ==
  ASSUME McpInv, NEW t \in Threads, th[t].pc \in AtServer
  PROVE  /\ th[t] \in Thread /\ ThreadOK(t, th[t])
         /\ th[t].cl \in Clients /\ client[th[t].cl] \in ClientState
         /\ client[th[t].cl].queue \in Seq(QueueLine)
         /\ t # Manager => th[t].goal = "call"
<1>1. th[t] \in Thread /\ ThreadOK(t, th[t])
  BY DEF McpInv, AnswersInv, McpTyped, ThreadsOK
<1>2. th[t].cl \in Clients /\ (t # Manager => th[t].goal = "call")
  BY <1>1 DEF ThreadOK, AtServer
<1>3. client[th[t].cl] \in ClientState
  BY <1>2 DEF McpInv, AnswersInv, McpTyped
<1> QED BY <1>1, <1>2, <1>3 DEF ClientState

\* A look at the handshake.
LEMMA CheckKeeps ==
  ASSUME McpInv, NEW t \in Threads, Check(t)
  PROVE  Kept /\ Exchanged(t)
<1>1. th[t].pc = "check" /\ UNCHANGED <<client, proc, registry, used>>
  BY DEF Check
<1>2. th[t] \in Thread /\ ThreadOK(t, th[t]) /\ (t # Manager => th[t].goal = "call")
  BY <1>1, AtServerFacts DEF AtServer
<1>3. PICK meth \in {"initialize", Method(th[t].goal)} :
        th' = [th EXCEPT ![t] = [th[t] EXCEPT !.pc = "send", !.meth = meth]]
  <2> DEFINE meth == IF Initialized(th[t].cl) THEN Method(th[t].goal) ELSE "initialize"
  <2>1. th' = [th EXCEPT ![t] = [th[t] EXCEPT !.pc = "send", !.meth = meth]]
    BY DEF Check
  <2>2. meth \in {"initialize", Method(th[t].goal)}
    OBVIOUS
  <2> QED BY <2>1, <2>2
<1> DEFINE x == [th[t] EXCEPT !.pc = "send", !.meth = meth]
<1>4. x \in Thread /\ x.pc = "send" /\ x.meth = meth /\ x.goal = th[t].goal /\ x.cl = th[t].cl
  BY <1>2, <1>3 DEF Thread, Stages, Methods, Method
<1>5. ThreadOK(t, x)
  BY <1>1, <1>2, <1>3, <1>4 DEF ThreadOK, AtServer, Method
<1> HIDE DEF x
<1>6. /\ th' \in [Threads -> Thread] /\ ThreadsOK' /\ WaitsOK'
      /\ th'[t] = x /\ \A u \in Threads : u # t => th'[u] = th[u]
      /\ \A u \in Threads : th'[u].pc = "wait" => th[u].pc = "wait" /\ th'[u] = th[u]
  <2>1. th' = [th EXCEPT ![t] = x]
    BY <1>3 DEF x
  <2> QED BY <1>1, <1>4, <1>5, <2>1, MovesOn DEF McpInv
<1>7. McpTyped'
  <2>1. ClientsTyped
    BY <1>1 DEF McpInv, AnswersInv, McpTyped, ClientsTyped
  <2> QED BY <1>1, <1>6, <2>1, TypedFrom DEF McpInv, AnswersInv, McpTyped
<1>8. Quiet
  BY <1>1, <1>6 DEF Quiet, Asked
<1>9. Exchanged(t)
  BY <1>1, <1>4, <1>6 DEF Exchanged, AtServer
<1> QED BY <1>6, <1>7, <1>8, <1>9 DEF Kept

\* A step of an exchange that changes no process: one thread moves on, and its
\* client keeps its id, what it discovered and some of its lines.
LEMMA ClientStep ==
  ASSUME McpInv, NEW t \in Threads, th[t].pc \in AtServer, NEW x \in Thread, ThreadOK(t, x),
         x.pc # "wait", th' = [th EXCEPT ![t] = x],
         NEW new \in ClientState, client' = [client EXCEPT ![th[t].cl] = new],
         new.pid = client[th[t].cl].pid, new.id = client[th[t].cl].id,
         new.lock = client[th[t].cl].lock \/ client[th[t].cl].lock = t,
         \A line \in Range(new.queue) : line \in Range(client[th[t].cl].queue),
         UNCHANGED <<proc, registry>>, used' = used \/ used' = [used EXCEPT !.faults = @ + 1]
  PROVE  /\ Kept /\ used'.starts = used.starts
         /\ th'[t] = x /\ \A u \in Threads : u # t => th'[u] = th[u]
         /\ client'[th[t].cl] = new
         /\ \A d \in Clients : d # th[t].cl => client'[d] = client[d]
<1> DEFINE c == th[t].cl
<1>1. McpTyped /\ AnswersInv
  BY DEF McpInv, AnswersInv
<1>2. c \in Clients
  BY AtServerFacts
<1>3. /\ ClientsTyped /\ client'[c] = new
      /\ \A d \in Clients : d # c => client'[d] = client[d]
  BY <1>1, <1>2, OneClient
<1>4. /\ th' \in [Threads -> Thread] /\ ThreadsOK' /\ WaitsOK'
      /\ th'[t] = x /\ \A u \in Threads : u # t => th'[u] = th[u]
      /\ \A u \in Threads : th'[u].pc = "wait" => th[u].pc = "wait" /\ th'[u] = th[u]
  BY <1>1, <1>3, MovesOn
<1>5. McpTyped'
  BY <1>1, <1>3, <1>4, TypedFrom DEF McpTyped
<1>6. Quiet
  BY <1>3, <1>4 DEF Quiet, Asked
<1>7. used'.starts = used.starts
  BY <1>1 DEF McpTyped
<1> QED BY <1>3, <1>4, <1>5, <1>6, <1>7 DEF Kept

\* What connection_info may become.
LEMMA FailedInfoTyped ==
  ASSUME NEW meth, NEW code,
         NEW info \in {"configured", "starting", "ready", "failed", "stopped",
                       "tool_discovery_failed"}
  PROVE  FailedInfo(meth, code, info) \in {"configured", "starting", "ready", "failed",
                                           "stopped", "tool_discovery_failed"}
BY DEF FailedInfo

\* The process cannot be started.
LEMMA SendFailsKeeps ==
  ASSUME McpInv, NEW t \in Threads, SendFails(t)
  PROVE  Kept /\ Exchanged(t)
<1> DEFINE c == th[t].cl
           info == FailedInfo(th[t].meth, "start_failed", client[c].info)
           new == [client[c] EXCEPT !.info = info]
<1>1. /\ th[t].pc \in AtServer /\ UNCHANGED <<proc, registry>> /\ Failed(t)
      /\ client' = [client EXCEPT ![c] = new]
      /\ used' = [used EXCEPT !.faults = @ + 1]
  BY DEF SendFails, AtServer, Fault
<1>2. client[c] \in ClientState /\ c \in Clients
  BY <1>1, AtServerFacts
<1>3. info \in {"configured", "starting", "ready", "failed", "stopped",
                "tool_discovery_failed"}
  BY <1>2, FailedInfoTyped DEF ClientState
<1> HIDE DEF info
<1>4. /\ new \in ClientState /\ new.pid = client[c].pid /\ new.id = client[c].id
      /\ new.lock = client[c].lock /\ new.queue = client[c].queue /\ new.disc = client[c].disc
  BY <1>2, <1>3 DEF ClientState
<1> HIDE DEF new
<1>5. PICK x \in Thread :
           /\ th' = [th EXCEPT ![t] = x] /\ ThreadOK(t, x) /\ x.pc # "wait"
           /\ \/ x = Idle /\ th[t].goal # "start"
              \/ x.pc = "undo" /\ x.goal = "start" /\ th[t].goal = "start" /\ x.cl = th[t].cl
  BY <1>1, FailedMoves DEF McpInv
<1>6. /\ Kept /\ used'.starts = used.starts
      /\ th'[t] = x /\ \A u \in Threads : u # t => th'[u] = th[u]
      /\ client'[c] = new
      /\ \A d \in Clients : d # c => client'[d] = client[d]
  BY <1>1, <1>4, <1>5, ClientStep
<1> QED BY <1>1, <1>4, <1>5, <1>6 DEF Exchanged

\* A thread gives up its wait: the lock is free, and the call or the operation of
\* the manager has failed.
LEMMA GiveUpKeeps ==
  ASSUME McpInv, NEW t \in Threads, Waiting(t), NEW code, NEW queue \in Seq(QueueLine),
         \A line \in Range(queue) : line \in Range(client[th[t].cl].queue),
         GiveUp(t, code, queue)
  PROVE  Kept /\ Exchanged(t)
<1> DEFINE c == th[t].cl
           info == FailedInfo(th[t].meth, code, client[c].info)
           new == [client[c] EXCEPT !.lock = None, !.queue = queue, !.info = info]
<1>1. /\ th[t].pc = "wait" /\ th[t].pc \in AtServer /\ UNCHANGED <<proc, registry, used>>
      /\ Failed(t)
  BY DEF Waiting, AtServer, GiveUp
<1>2. client[c] \in ClientState /\ c \in Clients /\ client[c].lock = t
  BY <1>1, AtServerFacts DEF McpInv, AnswersInv, WaitsOK
<1>3. client' = [client EXCEPT ![c] = new]
  <2>1. client \in [Clients -> ClientState]
    BY DEF McpInv, AnswersInv, McpTyped
  <2> QED BY <1>2, <2>1 DEF GiveUp
<1>4. info \in {"configured", "starting", "ready", "failed", "stopped",
                "tool_discovery_failed"}
  BY <1>2, FailedInfoTyped DEF ClientState
<1> HIDE DEF info
<1>5. /\ new \in ClientState /\ new.pid = client[c].pid /\ new.id = client[c].id
      /\ new.queue = queue /\ new.disc = client[c].disc
  BY <1>2, <1>4 DEF ClientState
<1> HIDE DEF new
<1>6. PICK x \in Thread :
           /\ th' = [th EXCEPT ![t] = x] /\ ThreadOK(t, x) /\ x.pc # "wait"
           /\ \/ x = Idle /\ th[t].goal # "start"
              \/ x.pc = "undo" /\ x.goal = "start" /\ th[t].goal = "start" /\ x.cl = th[t].cl
  BY <1>1, FailedMoves DEF McpInv
<1>7. /\ Kept /\ used'.starts = used.starts
      /\ th'[t] = x /\ \A u \in Threads : u # t => th'[u] = th[u]
      /\ client'[c] = new
      /\ \A d \in Clients : d # c => client'[d] = client[d]
  BY <1>1, <1>2, <1>3, <1>5, <1>6, ClientStep
<1> QED BY <1>1, <1>5, <1>6, <1>7 DEF Exchanged

\* The deadline passes, or what comes is a failure.
LEMMA WaitFailsKeeps ==
  ASSUME McpInv, NEW t \in Threads, Expire(t) \/ ReadFailure(t)
  PROVE  Kept /\ Exchanged(t)
<1>1. Waiting(t) /\ th[t].pc \in AtServer
  BY DEF Expire, ReadFailure, Waiting, AtServer
<1>2. client[th[t].cl].queue \in Seq(QueueLine)
  BY <1>1, AtServerFacts
<1>3. CASE Expire(t)
  <2>1. PICK code \in {"process_exited", "timeout"} : GiveUp(t, code, client[th[t].cl].queue)
    BY <1>3 DEF Expire
  <2> QED BY <1>1, <1>2, <2>1, GiveUpKeeps
<1>4. CASE ReadFailure(t)
  <2>1. PICK code \in {"process_exited", "refused"} : GiveUp(t, code, Tail(client[th[t].cl].queue))
    BY <1>4 DEF ReadFailure
  <2>2. client[th[t].cl].queue # <<>>
    BY <1>4 DEF ReadFailure
  <2>3. /\ Tail(client[th[t].cl].queue) \in Seq(QueueLine)
        /\ \A x \in Range(Tail(client[th[t].cl].queue)) : x \in Range(client[th[t].cl].queue)
    BY <1>2, <2>2, RangeOfTail
  <2> QED BY <1>1, <2>1, <2>3, GiveUpKeeps
<1> QED BY <1>3, <1>4

\* A line that answers nothing here is thrown away.
LEMMA ReadOtherKeeps ==
  ASSUME McpInv, NEW t \in Threads, ReadOther(t)
  PROVE  McpTyped' /\ Quiet /\ Aside
<1> DEFINE c == th[t].cl
           rest == Tail(client[c].queue)
           new == [client[c] EXCEPT !.queue = rest]
<1>1. /\ th[t].pc \in AtServer /\ UNCHANGED <<th, proc, registry, used>>
      /\ client[c].queue # <<>> /\ client' = [client EXCEPT ![c] = new]
  BY DEF ReadOther, Waiting, AtServer
<1>2. McpTyped
  BY DEF McpInv, AnswersInv
<1>3. client[c] \in ClientState /\ c \in Clients /\ client[c].queue \in Seq(QueueLine)
  BY <1>1, AtServerFacts
<1>4. rest \in Seq(QueueLine) /\ \A x \in Range(rest) : x \in Range(client[c].queue)
  BY <1>1, <1>3, RangeOfTail
<1> HIDE DEF rest
<1>5. /\ new \in ClientState /\ new.pid = client[c].pid /\ new.id = client[c].id
      /\ new.lock = client[c].lock /\ new.queue = rest /\ new.disc = client[c].disc
  BY <1>3, <1>4 DEF ClientState
<1> HIDE DEF new
<1>6. /\ ClientsTyped /\ client'[c] = new
      /\ \A d \in Clients : d # c => client'[d] = client[d]
  BY <1>1, <1>2, <1>3, <1>5, OneClient
<1>7. McpTyped'
  BY <1>1, <1>2, <1>6, TypedFrom DEF McpTyped
<1>8. Quiet
  BY <1>1, <1>4, <1>5, <1>6 DEF Quiet, Asked
<1>9. Aside
  BY <1>1, <1>5, <1>6 DEF Aside
<1> QED BY <1>7, <1>8, <1>9

\* The answer is there; only the manager learns what tools there are, and then
\* it has them to register.
LEMMA ReadResultKeeps ==
  ASSUME McpInv, NEW t \in Threads, ReadResult(t)
  PROVE  Kept /\ RouteOK'
<1> DEFINE c == th[t].cl
           line == Head(client[c].queue)
           rest == Tail(client[c].queue)
           listed == th[t].meth = "tools/list"
           new == [client[c] EXCEPT !.lock = None, !.queue = rest,
                                    !.disc = IF listed THEN Visible(line.found) ELSE @,
                                    !.info = IF listed THEN "ready" ELSE @]
           x == CASE th[t].meth = "initialize" -> [th[t] EXCEPT !.pc = "greet"]
                  [] th[t].meth = "tools/list" -> [th[t] EXCEPT !.pc = "adapt"]
                  [] OTHER                     -> Idle
<1>1. /\ th[t].pc = "wait" /\ th[t].pc \in AtServer /\ UNCHANGED <<proc, registry, used>>
      /\ client[c].queue # <<>>
      /\ th' = [th EXCEPT ![t] = x]
  BY DEF ReadResult, Waiting, AtServer
<1>2. /\ client[c] \in ClientState /\ c \in Clients /\ client[c].queue \in Seq(QueueLine)
      /\ client[c].lock = t /\ th[t] \in Thread /\ ThreadOK(t, th[t])
  BY <1>1, AtServerFacts DEF McpInv, AnswersInv, WaitsOK
<1>3. /\ line \in QueueLine /\ rest \in Seq(QueueLine)
      /\ \A y \in Range(rest) : y \in Range(client[c].queue)
  BY <1>1, <1>2, RangeOfTail
<1>4. Visible(line.found) \in SUBSET Tools
  BY <1>3 DEF Visible, QueueLine
<1>5. client' = [client EXCEPT ![c] = new]
  <2>1. CASE listed
    BY <1>2, <2>1 DEF ReadResult, ClientState
  <2>2. CASE ~listed
    <3>1. client' = [client EXCEPT ![c] = [client[c] EXCEPT !.lock = None, !.queue = rest]]
      BY <2>2 DEF ReadResult
    <3>2. new = [client[c] EXCEPT !.lock = None, !.queue = rest]
      BY <1>2, <2>2 DEF ClientState
    <3> QED BY <3>1, <3>2
  <2> QED BY <2>1, <2>2
<1> HIDE DEF rest, line
<1>6. /\ new \in ClientState /\ new.pid = client[c].pid /\ new.id = client[c].id
      /\ new.queue = rest
      /\ new.disc = IF listed THEN Visible(line.found) ELSE client[c].disc
  BY <1>2, <1>3, <1>4 DEF ClientState
<1> HIDE DEF new
<1>7. x \in Thread /\ x.pc # "wait" /\ ThreadOK(t, x)
  <2>1. CASE th[t].meth = "initialize"
    BY <1>1, <1>2, <2>1 DEF Thread, Stages, ThreadOK, AtServer
  <2>2. CASE listed
    BY <1>1, <1>2, <2>2 DEF Thread, Stages, ThreadOK, AtServer
  <2>3. CASE th[t].meth # "initialize" /\ ~listed
    <3>1. x = Idle
      BY <2>3
    <3>2. Idle \in Thread /\ Idle.pc = "idle" /\ Idle.meth = None
      BY DEF Idle, Thread, Stages
    <3> QED BY <3>1, <3>2, McpAssumption DEF ThreadOK
  <2> QED BY <2>1, <2>2, <2>3
<1>8. /\ x = Idle \/ (x.goal = th[t].goal /\ x.cl = th[t].cl)
      /\ ~listed => x.pc = "greet" \/ x = Idle
      /\ listed => x.pc = "adapt" /\ x.goal = th[t].goal /\ x.cl = th[t].cl
  BY <1>2 DEF Thread
<1> HIDE DEF x
<1>9. /\ Kept /\ used'.starts = used.starts
      /\ th'[t] = x /\ \A u \in Threads : u # t => th'[u] = th[u]
      /\ client'[c] = new
      /\ \A d \in Clients : d # c => client'[d] = client[d]
  BY <1>1, <1>2, <1>3, <1>5, <1>6, <1>7, ClientStep
<1>10. CASE ~listed
  <2>1. Exchanged(t)
    BY <1>1, <1>6, <1>8, <1>9, <1>10 DEF Exchanged, AtServer
  <2> QED BY <1>9, <2>1, ExchangedKeeps
<1>11. CASE listed
  <2>1. t = Manager
    BY <1>2, <1>11 DEF ThreadOK
  <2>2. /\ th'[Manager].pc = "adapt" /\ th'[Manager].cl = c
        /\ th'[Manager].goal = th[Manager].goal /\ th[Manager].cl = c
    BY <1>8, <1>9, <1>11, <2>1
  <2>3. /\ client'[c].disc # None
        /\ \A d \in Clients : client[d].disc # None => client'[d].disc # None
    BY <1>4, <1>6, <1>9, <1>11, McpAssumption
  <2>4. /\ gateway' = gateway /\ managed' = managed /\ specs' = specs
        /\ used'.starts = used.starts
    BY <1>1 DEF registry
  <2>5. gateway # None => gateway \in Clients
    BY DEF McpInv, AnswersInv, McpTyped
  <2>6. th[Manager].goal \in {"start", "refresh"}
    BY <1>1, <2>1 DEF McpInv, RouteOK
  <2>7. RouteOK'
    BY <2>2, <2>3, <2>4, <2>5, <2>6 DEF McpInv, RouteOK, AtServer
  <2> QED BY <1>9, <2>7
<1> QED BY <1>10, <1>11

\* The types after a line was written to a process.
LEMMA TypedAfterWrite ==
  ASSUME McpTyped, UNCHANGED <<registry, used>>, th' \in [Threads -> Thread],
         client' \in [Clients -> ClientState], proc' \in Seq(Process),
         \A d \in Clients : /\ client'[d].pid \in 0..Len(proc')
                            /\ client'[d].pid # 0 => proc'[client'[d].pid].cl = d
  PROVE  McpTyped'
<1>1. gateway' = gateway /\ managed' = managed /\ specs' = specs /\ used' = used
  BY DEF registry
<1> QED BY <1>1 DEF McpTyped

\* The greeting: it asks nothing, so that no answer can be taken for its own.
LEMMA GreetKeeps ==
  ASSUME McpInv, NEW t \in Threads, Greet(t)
  PROVE  Kept /\ Exchanged(t)
<1> DEFINE c == th[t].cl
           q == [Noise EXCEPT !.meth = "initialized"]
           record == [client[c] EXCEPT !.init = TRUE, !.info = "ready"]
           x == [th[t] EXCEPT !.pc = "send", !.meth = Method(th[t].goal)]
<1>1. /\ th[t].pc = "greet" /\ th[t].pc \in AtServer /\ UNCHANGED <<registry, used>>
      /\ WriteLine(c, q, record) /\ th' = [th EXCEPT ![t] = x]
  BY DEF Greet, AtServer
<1>2. /\ client[c] \in ClientState /\ c \in Clients /\ client[c].queue \in Seq(QueueLine)
      /\ th[t] \in Thread /\ ThreadOK(t, th[t]) /\ (t # Manager => th[t].goal = "call")
  BY <1>1, AtServerFacts
<1>3. q \in Request /\ q.id = 0
  BY DEF Noise, Request
<1>4. /\ record \in ClientState /\ record.pid = client[c].pid /\ record.id = client[c].id
      /\ record.lock = client[c].lock /\ record.queue = client[c].queue
      /\ record.disc = client[c].disc
  BY <1>2 DEF ClientState
<1>5. x \in Thread /\ x.pc = "send" /\ x.goal = th[t].goal /\ x.cl = c
      /\ x.meth = Method(th[t].goal)
  BY <1>2 DEF Thread, Stages, Methods, Method
<1>6. ThreadOK(t, x)
  BY <1>1, <1>2, <1>5 DEF ThreadOK, AtServer, Method
<1> HIDE DEF q, record, x
<1>7. /\ client' \in [Clients -> ClientState] /\ proc' \in Seq(Process)
      /\ \A d \in Clients : /\ client'[d].pid \in 0..Len(proc')
                            /\ client'[d].pid # 0 => proc'[client'[d].pid].cl = d
      /\ \A d \in Clients : d # c => client'[d] = client[d]
      /\ client'[c].lock = record.lock /\ client'[c].id = record.id
      /\ client'[c].disc = record.disc /\ client'[c].queue = record.queue
      /\ \A p \in DOMAIN proc' : \A r \in Range(proc'[p].inbox) :
           Asked(proc'[p].cl, r) \/ (proc'[p].cl = c /\ r = q)
  BY <1>1, <1>2, <1>3, <1>4, WriteLineKeeps DEF McpInv, AnswersInv
<1>8. /\ th' \in [Threads -> Thread] /\ ThreadsOK' /\ WaitsOK'
      /\ th'[t] = x /\ \A u \in Threads : u # t => th'[u] = th[u]
      /\ \A u \in Threads : th'[u].pc = "wait" => th[u].pc = "wait" /\ th'[u] = th[u]
  <2>1. \A d \in Clients : client'[d].id = client[d].id /\ client'[d].lock = client[d].lock
    BY <1>4, <1>7
  <2>2. AnswersInv /\ x.pc # "wait"
    BY <1>5 DEF McpInv
  <2> QED BY <1>1, <1>5, <1>6, <2>1, <2>2, MovesOn
<1>9. McpTyped'
  BY <1>1, <1>7, <1>8, TypedAfterWrite DEF McpInv, AnswersInv
<1>10. Quiet
  BY <1>3, <1>4, <1>7, <1>8 DEF Quiet
<1>11. Exchanged(t)
  BY <1>1, <1>4, <1>5, <1>7, <1>8 DEF Exchanged, AtServer
<1> QED BY <1>8, <1>9, <1>10, <1>11 DEF Kept

\* Asks, in the state after a step.
AsksThen(c, r) ==
  /\ r.id <= client'[c].id
  /\ \A t \in Threads : th'[t].pc = "wait" /\ th'[t].cl = c /\ r.id = th'[t].id =>
       r.by = t /\ r.meth = th'[t].meth

\* The request: its id is above every id in use, and it is alone at its client.
LEMMA SendKeeps ==
  ASSUME McpInv, NEW t \in Threads, Send(t)
  PROVE  AnswersInv' /\ Exchanged(t)
<1> DEFINE c == th[t].cl
           n == client[c].id + 1
           info == IF Running(c) THEN client[c].info ELSE "starting"
           q == [id |-> n, by |-> t, meth |-> th[t].meth]
           record == [client[c] EXCEPT !.lock = t, !.id = n, !.info = info]
           x == [th[t] EXCEPT !.pc = "wait", !.id = n]
<1>1. /\ th[t].pc = "send" /\ th[t].pc \in AtServer /\ UNCHANGED <<registry, used>>
      /\ client[c].lock = None /\ WriteLine(c, q, record) /\ th' = [th EXCEPT ![t] = x]
  BY DEF Send, AtServer
<1>2. /\ client[c] \in ClientState /\ c \in Clients /\ client[c].queue \in Seq(QueueLine)
      /\ th[t] \in Thread /\ ThreadOK(t, th[t])
  BY <1>1, AtServerFacts
<1>3. /\ client[c].id \in Nat /\ n \in Nat /\ n = client[c].id + 1
      /\ info \in {"configured", "starting", "ready", "failed", "stopped",
                  "tool_discovery_failed"}
  BY <1>2 DEF ClientState
<1> HIDE DEF n, info
<1>4. q \in Request /\ q.id = client[c].id + 1 /\ q.by = t /\ q.meth = th[t].meth
  BY <1>2, <1>3 DEF Request, Thread
<1>5. /\ record \in ClientState /\ record.pid = client[c].pid /\ record.id = client[c].id + 1
      /\ record.lock = t /\ record.queue = client[c].queue
      /\ record.disc = client[c].disc
  BY <1>2, <1>3 DEF ClientState
<1>6. x \in Thread /\ x.pc = "wait" /\ x.goal = th[t].goal /\ x.cl = c
      /\ x.meth = th[t].meth /\ x.id = client[c].id + 1
  BY <1>2, <1>3 DEF Thread, Stages
<1>7. ThreadOK(t, x)
  BY <1>1, <1>2, <1>6 DEF ThreadOK, AtServer
<1> HIDE DEF q, record, x
<1>8. /\ client' \in [Clients -> ClientState] /\ proc' \in Seq(Process)
      /\ \A d \in Clients : /\ client'[d].pid \in 0..Len(proc')
                            /\ client'[d].pid # 0 => proc'[client'[d].pid].cl = d
      /\ \A d \in Clients : d # c => client'[d] = client[d]
      /\ client'[c].lock = record.lock /\ client'[c].id = record.id
      /\ client'[c].disc = record.disc /\ client'[c].queue = record.queue
      /\ \A p \in DOMAIN proc' : \A r \in Range(proc'[p].inbox) :
           Asked(proc'[p].cl, r) \/ (proc'[p].cl = c /\ r = q)
  BY <1>1, <1>2, <1>4, <1>5, WriteLineKeeps DEF McpInv, AnswersInv
<1>9. /\ th' \in [Threads -> Thread]
      /\ th'[t] = x /\ \A u \in Threads : u # t => th'[u] = th[u]
  BY <1>1, <1>6 DEF McpInv, AnswersInv, McpTyped
<1>10. ThreadsOK'
  <2>1. \A u \in Threads : ThreadOK(u, th'[u])
    BY <1>7, <1>9 DEF McpInv, AnswersInv, ThreadsOK
  <2> QED BY <2>1 DEF ThreadsOK, ThreadOK
<1>11. McpTyped'
  BY <1>1, <1>8, <1>9, TypedAfterWrite DEF McpInv, AnswersInv
<1>12. ASSUME NEW u \in Threads, th'[u].pc = "wait", u # t
       PROVE  /\ th[u].pc = "wait" /\ th'[u] = th[u]
              /\ th[u].cl \in Clients /\ th[u].cl # c
  <2>1. th[u].pc = "wait" /\ th'[u] = th[u]
    BY <1>9, <1>12
  <2>2. client[th[u].cl].lock = u
    BY <2>1 DEF McpInv, AnswersInv, WaitsOK
  <2>3. th[u].cl \in Clients
    BY <2>1 DEF McpInv, AnswersInv, ThreadsOK, ThreadOK
  <2> QED BY <1>1, <2>1, <2>2, <2>3, McpAssumption
<1>13. WaitsOK'
  <2>1. ASSUME NEW u \in Threads, th'[u].pc = "wait"
        PROVE  client'[th'[u].cl].lock = u /\ th'[u].id = client'[th'[u].cl].id /\ th'[u].id # 0
    <3>1. CASE u = t
      BY <1>3, <1>5, <1>6, <1>8, <1>9, <3>1
    <3>2. CASE u # t
      BY <1>8, <1>12, <2>1, <3>2 DEF McpInv, AnswersInv, WaitsOK
    <3> QED BY <3>1, <3>2
  <2> QED BY <2>1 DEF WaitsOK
<1>14. ASSUME NEW d \in Clients, NEW r, r.id \in Nat, Asks(d, r)
       PROVE  AsksThen(d, r)
  <2>1. r.id <= client'[d].id
    <3>1. r.id <= client[d].id
      BY <1>14 DEF Asks
    <3>2. CASE d = c
      BY <1>3, <1>5, <1>8, <1>14, <3>1, <3>2
    <3>3. CASE d # c
      BY <1>8, <3>1, <3>3
    <3> QED BY <3>2, <3>3
  <2>2. ASSUME NEW u \in Threads, th'[u].pc = "wait", th'[u].cl = d, r.id = th'[u].id
        PROVE  r.by = u /\ r.meth = th'[u].meth
    <3>1. CASE u = t
      <4>1. r.id = client[c].id + 1 /\ d = c
        BY <1>6, <1>9, <2>2, <3>1
      <4>2. r.id <= client[c].id
        BY <1>14, <4>1 DEF Asks
      <4> QED BY <1>3, <1>14, <4>1, <4>2
    <3>2. CASE u # t
      BY <1>12, <1>14, <2>2, <3>2 DEF Asks
    <3> QED BY <3>1, <3>2
  <2> QED BY <2>1, <2>2 DEF AsksThen
<1>15. AsksThen(c, q)
  <2>1. q.id <= client'[c].id
    BY <1>3, <1>4, <1>5, <1>8
  <2>2. ASSUME NEW u \in Threads, th'[u].pc = "wait", th'[u].cl = c
        PROVE  u = t
    BY <1>12, <2>2
  <2>3. q.by = t /\ q.meth = th'[t].meth
    BY <1>4, <1>6, <1>9
  <2> QED BY <2>1, <2>2, <2>3 DEF AsksThen
<1>16. InboxesOK'
  <2>1. ASSUME NEW p \in DOMAIN proc', NEW r \in Range(proc'[p].inbox)
        PROVE  AsksThen(proc'[p].cl, r)
    <3>1. CASE proc'[p].cl = c /\ r = q
      BY <1>15, <3>1
    <3>2. CASE Asked(proc'[p].cl, r)
      <4>1. PICK o \in DOMAIN proc : proc[o].cl = proc'[p].cl /\ r \in Range(proc[o].inbox)
        BY <3>2 DEF Asked
      <4>2. proc[o].cl \in Clients /\ proc[o].inbox \in Seq(Request)
        BY ProcessTyped DEF McpInv, AnswersInv
      <4>3. r \in Request
        <5>1. proc[o].inbox \in [1 .. Len(proc[o].inbox) -> Request]
          BY <4>2, LenProperties
        <5> QED BY <4>1, <5>1 DEF Range
      <4>4. Asks(proc[o].cl, r)
        BY <4>1 DEF McpInv, AnswersInv, InboxesOK
      <4> QED BY <1>14, <4>1, <4>2, <4>3, <4>4 DEF Request
    <3> QED BY <1>8, <2>1, <3>1, <3>2
  <2> QED BY <2>1 DEF InboxesOK, Asks, AsksThen
<1>17. QueuesOK'
  <2>1. ASSUME NEW d \in Clients, NEW line \in Range(client'[d].queue), line.kind = "answer"
        PROVE  AsksThen(d, line)
    <3>1. client'[d].queue = client[d].queue
      BY <1>5, <1>8
    <3>2. client[d] \in ClientState
      BY DEF McpInv, AnswersInv, McpTyped
    <3>3. client[d].queue \in [1 .. Len(client[d].queue) -> QueueLine]
      BY <3>2, LenProperties DEF ClientState
    <3>4. line.id \in Nat
      BY <2>1, <3>1, <3>3 DEF Range, QueueLine
    <3>5. Asks(d, line)
      BY <2>1, <3>1 DEF McpInv, AnswersInv, QueuesOK
    <3> QED BY <1>14, <3>4, <3>5
  <2> QED BY <2>1 DEF QueuesOK, Asks, AsksThen
<1>18. Exchanged(t)
  BY <1>1, <1>5, <1>6, <1>8, <1>9 DEF Exchanged, AtServer
<1> QED BY <1>10, <1>11, <1>13, <1>16, <1>17, <1>18 DEF AnswersInv

-----------------------------------------------------------------------------
(* Tool calls and the manager *)

\* A step that changes neither a client nor a process.
LEMMA ThreadStep ==
  ASSUME McpInv, NEW t \in Threads, NEW x \in Thread, ThreadOK(t, x), x.pc # "wait",
         th' = [th EXCEPT ![t] = x], UNCHANGED <<client, proc>>,
         gateway' \in Clients \cup {None}, managed' \in Clients \cup {None},
         specs' \in SUBSET Tools,
         used' \in [ops : Nat, calls : Nat, faults : Nat, starts : Nat],
         used'.starts <= used'.ops, used'.ops <= MaxOps
  PROVE  /\ Kept
         /\ th'[t] = x /\ \A u \in Threads : u # t => th'[u] = th[u]
<1>1. /\ th' \in [Threads -> Thread] /\ ThreadsOK' /\ WaitsOK'
      /\ th'[t] = x /\ \A u \in Threads : u # t => th'[u] = th[u]
      /\ \A u \in Threads : th'[u].pc = "wait" => th[u].pc = "wait" /\ th'[u] = th[u]
  BY MovesOn DEF McpInv
<1>2. McpTyped'
  BY <1>1 DEF McpInv, AnswersInv, McpTyped
<1>3. Quiet
  BY <1>1 DEF Quiet, Asked
<1> QED BY <1>1, <1>2, <1>3 DEF Kept

\* What the manager holds.
LEMMA ManagerFacts ==
  ASSUME McpInv
  PROVE  /\ Manager \in Threads /\ th[Manager] \in Thread
         /\ ThreadOK(Manager, th[Manager])
         /\ th[Manager].pc \notin {"idle", "ready"} => th[Manager].cl \in Clients
         /\ gateway \in Clients \cup {None} /\ managed \in Clients \cup {None}
         /\ specs \in SUBSET Tools
         /\ used \in [ops : Nat, calls : Nat, faults : Nat, starts : Nat]
         /\ used.starts <= used.ops /\ used.ops <= MaxOps
         /\ \A c \in Clients : client[c].disc \in (SUBSET Tools) \cup {None}
<1>1. Manager \in Threads
  BY DEF Threads
<1>2. \A c \in Clients : client[c].disc \in (SUBSET Tools) \cup {None}
  BY DEF McpInv, AnswersInv, McpTyped, ClientState
<1> QED BY <1>1, <1>2 DEF McpInv, AnswersInv, McpTyped, ThreadsOK, ThreadOK

\* An idle thread.
LEMMA IdleFacts ==
  /\ Idle \in Thread /\ Idle.pc = "idle" /\ Idle.goal \notin {"start", "refresh"}
  /\ \A t \in Threads : ThreadOK(t, Idle)
<1>1. Idle \in Thread /\ Idle.pc = "idle" /\ Idle.goal = None /\ Idle.meth = None
  BY DEF Idle, Thread, Stages
<1> QED BY <1>1, McpAssumption DEF ThreadOK

\* A call starts, or finds the client that is to carry it.
LEMMA CallKeeps ==
  ASSUME McpInv, NEW t \in Callers,
         ReadyClient(t) \/ \E tool \in Tools : CallTool(t, tool)
  PROVE  Kept /\ RouteOK'
<1>1. t \in Threads /\ t # Manager /\ UNCHANGED <<client, proc, gateway, managed, specs>>
  BY McpAssumption DEF Threads, ReadyClient, CallTool, registry
<1>2. th[t] \in Thread /\ ThreadOK(t, th[t])
  BY <1>1 DEF McpInv, AnswersInv, McpTyped, ThreadsOK
<1>3. /\ used' \in [ops : Nat, calls : Nat, faults : Nat, starts : Nat]
      /\ used'.starts = used.starts /\ used'.ops = used.ops
  <2>1. used' = used \/ used' = [used EXCEPT !.calls = @ + 1]
    BY DEF ReadyClient, CallTool
  <2>2. used \in [ops : Nat, calls : Nat, faults : Nat, starts : Nat]
    BY ManagerFacts
  <2> QED BY <2>1, <2>2
<1>4. PICK x \in Thread : th' = [th EXCEPT ![t] = x] /\ ThreadOK(t, x) /\ x.pc # "wait"
  <2>1. ASSUME NEW tool \in Tools, CallTool(t, tool)
        PROVE  \E x \in Thread : th' = [th EXCEPT ![t] = x] /\ ThreadOK(t, x) /\ x.pc # "wait"
    <3> DEFINE x == [Idle EXCEPT !.pc = "ready", !.goal = "call", !.tool = tool]
    <3>1. x \in Thread /\ x.pc = "ready" /\ x.goal = "call" /\ x.meth = None
      BY DEF Idle, Thread, Stages
    <3>2. th' = [th EXCEPT ![t] = x]
      BY <2>1 DEF CallTool
    <3> HIDE DEF x
    <3> QED BY <3>1, <3>2, McpAssumption DEF ThreadOK
  <2>2. CASE ReadyClient(t) /\ ~Ready(th[t].tool)
    BY <1>1, <2>2, IdleFacts DEF ReadyClient
  <2>3. CASE ReadyClient(t) /\ Ready(th[t].tool)
    <3> DEFINE x == [th[t] EXCEPT !.pc = "check", !.cl = gateway]
    <3>1. gateway \in Clients
      BY <2>3, ManagerFacts DEF Ready
    <3>2. /\ x \in Thread /\ x.pc = "check" /\ x.goal = th[t].goal /\ x.meth = th[t].meth
          /\ x.cl = gateway
      BY <1>2, <3>1 DEF Thread, Stages
    <3>3. th' = [th EXCEPT ![t] = x] /\ th[t].pc = "ready"
      BY <2>3 DEF ReadyClient
    <3> HIDE DEF x
    <3> QED BY <1>1, <1>2, <3>1, <3>2, <3>3 DEF ThreadOK, AtServer
  <2> QED BY <2>1, <2>2, <2>3
<1>5. /\ Kept
      /\ th'[t] = x /\ \A u \in Threads : u # t => th'[u] = th[u]
  BY <1>1, <1>3, <1>4, ManagerFacts, ThreadStep
<1>6. th'[Manager] = th[Manager]
  BY <1>1, <1>5, ManagerFacts
<1>7. RouteOK'
  BY <1>1, <1>3, <1>6 DEF McpInv, RouteOK, Agrees
<1> QED BY <1>5, <1>7

\* The manager starts: a start makes a client that nobody knows, a refresh takes
\* the managed one, and a stop takes it out of the gateway at once.
LEMMA OperationKeeps ==
  ASSUME McpInv,
         StartServer \/ RefreshServer \/ \E removeSpecs \in BOOLEAN : StopServer(removeSpecs)
  PROVE  Kept /\ RouteOK'
<1> DEFINE m == th[Manager]
<1>1. /\ m.pc = "idle" /\ used.ops < MaxOps /\ UNCHANGED <<client, proc>>
      /\ Manager \in Threads /\ m \in Thread
  BY ManagerFacts DEF StartServer, RefreshServer, StopServer, Operation
<1>2. /\ used \in [ops : Nat, calls : Nat, faults : Nat, starts : Nat]
      /\ used.starts <= used.ops /\ MaxOps \in Nat
      /\ used.starts \in Nat /\ used.ops \in Nat
  BY ManagerFacts, McpAssumption
<1>3. CASE StartServer
  <2> DEFINE n == used.starts + 1
             x == [Idle EXCEPT !.pc = "check", !.goal = "start", !.cl = n]
  <2>1. n \in Clients /\ n \in Nat
    BY <1>1, <1>2 DEF Clients
  <2>2. /\ used' \in [ops : Nat, calls : Nat, faults : Nat, starts : Nat]
        /\ used'.starts = n /\ used'.ops = used.ops + 1
    <3>1. used' = [used EXCEPT !.ops = used.ops + 1, !.starts = n]
      BY <1>3 DEF StartServer
    <3>2. used.ops + 1 \in Nat
      BY <1>2
    <3> HIDE DEF n
    <3> QED BY <1>2, <2>1, <3>1, <3>2
  <2>3. used'.starts <= used'.ops /\ used'.ops <= MaxOps
    BY <1>1, <1>2, <2>2
  <2>4. managed # n
    BY <1>2, <2>1, McpAssumption DEF McpInv, RouteOK
  <2> HIDE DEF n
  <2>5. x \in Thread /\ x.pc = "check" /\ x.goal = "start" /\ x.cl = n
    BY <2>1 DEF Idle, Thread, Stages
  <2>6. th' = [th EXCEPT ![Manager] = x] /\ UNCHANGED <<gateway, managed, specs>>
    BY <1>3 DEF StartServer, n, registry
  <2> HIDE DEF x
  <2>7. ThreadOK(Manager, x)
    BY <2>1, <2>5 DEF ThreadOK
  <2>8. Kept /\ th'[Manager] = x
    BY <1>1, <2>2, <2>3, <2>5, <2>6, <2>7, ManagerFacts, ThreadStep
  <2>9. managed # None => managed <= n
    BY <1>2, <2>1, ManagerFacts DEF McpInv, RouteOK, n, Clients
  <2>10. RouteOK'
    BY <1>1, <2>2, <2>4, <2>5, <2>6, <2>8, <2>9 DEF McpInv, RouteOK, Agrees, AtServer
  <2> QED BY <2>8, <2>10
<1>4. CASE RefreshServer
  <2> DEFINE x == [Idle EXCEPT !.pc = "check", !.goal = "refresh", !.cl = managed]
  <2>1. managed \in Clients
    BY <1>4, ManagerFacts DEF RefreshServer
  <2>2. /\ used' \in [ops : Nat, calls : Nat, faults : Nat, starts : Nat]
        /\ used'.starts = used.starts /\ used'.ops = used.ops + 1
    BY <1>2, <1>4 DEF RefreshServer
  <2>3. used'.starts <= used'.ops /\ used'.ops <= MaxOps
    BY <1>1, <1>2, <2>2
  <2>4. x \in Thread /\ x.pc = "check" /\ x.goal = "refresh" /\ x.cl = managed
    BY <2>1 DEF Idle, Thread, Stages
  <2>5. th' = [th EXCEPT ![Manager] = x] /\ UNCHANGED <<gateway, managed, specs>>
    BY <1>4 DEF RefreshServer, registry
  <2> HIDE DEF x
  <2>6. ThreadOK(Manager, x)
    BY <2>1, <2>4 DEF ThreadOK
  <2>7. Kept /\ th'[Manager] = x
    BY <1>1, <2>2, <2>3, <2>4, <2>5, <2>6, ManagerFacts, ThreadStep
  <2>8. RouteOK'
    BY <1>1, <2>2, <2>4, <2>5, <2>7 DEF McpInv, RouteOK, Agrees, AtServer
  <2> QED BY <2>7, <2>8
<1>5. ASSUME NEW removeSpecs \in BOOLEAN, StopServer(removeSpecs)
      PROVE  Kept /\ RouteOK'
  <2>1. /\ used' \in [ops : Nat, calls : Nat, faults : Nat, starts : Nat]
        /\ used'.starts = used.starts /\ used'.ops = used.ops + 1
    BY <1>2, <1>5 DEF StopServer
  <2>2. used'.starts <= used'.ops /\ used'.ops <= MaxOps
    BY <1>1, <1>2, <2>1
  <2>3. PICK x \in Thread : /\ th' = [th EXCEPT ![Manager] = x] /\ ThreadOK(Manager, x)
                            /\ x.pc \in {"idle", "kill"} /\ x.goal \notin {"start", "refresh"}
    <3>1. CASE managed = None
      BY <1>1, <1>5, <3>1, IdleFacts DEF StopServer
    <3>2. CASE managed # None
      <4> DEFINE x == [Idle EXCEPT !.pc = "kill", !.cl = managed]
      <4>1. managed \in Clients
        BY <3>2, ManagerFacts
      <4>2. x \in Thread /\ x.pc = "kill" /\ x.goal = None /\ x.cl = managed
        BY <4>1 DEF Idle, Thread, Stages
      <4>3. th' = [th EXCEPT ![Manager] = x]
        BY <1>5, <3>2 DEF StopServer
      <4> HIDE DEF x
      <4> QED BY <4>1, <4>2, <4>3, McpAssumption DEF ThreadOK
    <3> QED BY <3>1, <3>2
  <2>4. gateway' = None /\ managed' = None /\ specs' \in SUBSET Tools
    BY <1>5, ManagerFacts DEF StopServer
  <2>5. Kept /\ th'[Manager] = x
    BY <1>1, <2>1, <2>2, <2>3, <2>4, ThreadStep
  <2>6. RouteOK'
    BY <2>3, <2>4, <2>5 DEF RouteOK, AtServer
  <2> QED BY <2>5, <2>6
<1> QED BY <1>3, <1>4, <1>5

\* The specs of a discovery enter the registry, and the gateway learns the client.
LEMMA RegistrationKeeps ==
  ASSUME McpInv, RefuseSpecs \/ EmptySource \/ Register \/ Route
  PROVE  Kept /\ RouteOK'
<1> DEFINE m == th[Manager]
<1>1. /\ m.pc \in {"adapt", "register", "route"} /\ UNCHANGED <<client, proc, used>>
      /\ Manager \in Threads /\ m \in Thread /\ m.cl \in Clients
      /\ m.goal \in {"start", "refresh"}
  <2>1. m.pc \in {"adapt", "register", "route"} /\ UNCHANGED <<client, proc, used>>
    BY DEF RefuseSpecs, EmptySource, Register, Route
  <2> QED BY <2>1, ManagerFacts DEF McpInv, RouteOK
<1>2. /\ used' \in [ops : Nat, calls : Nat, faults : Nat, starts : Nat]
      /\ used'.starts <= used'.ops /\ used'.ops <= MaxOps
      /\ used'.starts = used.starts
  BY <1>1, ManagerFacts
<1>3. \A c \in Clients : client'[c].disc = client[c].disc
  BY <1>1
<1>4. CASE RefuseSpecs
  <2>1. m.pc = "adapt" /\ m.pc \in AtServer \cup {"adapt"} /\ Conflicts(client[m.cl].disc)
        /\ Failed(Manager) /\ gateway' = gateway /\ managed' = managed /\ specs' = specs
    BY <1>4 DEF RefuseSpecs, registry
  <2>2. PICK x \in Thread :
           /\ th' = [th EXCEPT ![Manager] = x] /\ ThreadOK(Manager, x) /\ x.pc # "wait"
           /\ \/ x = Idle /\ m.goal # "start"
              \/ x.pc = "undo" /\ x.goal = "start" /\ m.goal = "start" /\ x.cl = m.cl
    BY <1>1, <2>1, FailedMoves DEF McpInv
  <2>3. Kept /\ th'[Manager] = x
    BY <1>1, <1>2, <2>1, <2>2, ManagerFacts, ThreadStep
  <2>4. CASE x = Idle /\ m.goal # "start"
    <3>1. m.cl = managed
      BY <1>1, <2>4 DEF McpInv, RouteOK
    <3>2. x.pc = "idle" /\ x.goal \notin {"start", "refresh"}
      BY <2>4, IdleFacts
    <3>3. gateway # None => Agrees(gateway)'
      BY <1>1, <2>1, <3>1 DEF McpInv, RouteOK, Agrees
    <3> QED BY <1>1, <1>2, <2>1, <2>3, <3>2, <3>3 DEF McpInv, RouteOK, AtServer
  <2>5. CASE x.pc = "undo" /\ x.goal = "start" /\ m.goal = "start" /\ x.cl = m.cl
    BY <1>1, <1>2, <2>1, <2>3, <2>5 DEF McpInv, RouteOK, AtServer
  <2> QED BY <2>2, <2>3, <2>4, <2>5
<1>5. CASE EmptySource
  <2> DEFINE x == [m EXCEPT !.pc = "register"]
  <2>1. /\ m.pc = "adapt" /\ ~Conflicts(client[m.cl].disc) /\ specs' = {}
        /\ th' = [th EXCEPT ![Manager] = x] /\ gateway' = gateway /\ managed' = managed
    BY <1>5 DEF EmptySource
  <2>2. x \in Thread /\ x.pc = "register" /\ x.goal = m.goal /\ x.cl = m.cl
    BY <1>1 DEF Thread, Stages
  <2> HIDE DEF x
  <2>3. ThreadOK(Manager, x)
    BY <1>1, <2>2 DEF ThreadOK
  <2>4. Kept /\ th'[Manager] = x
    BY <1>1, <1>2, <2>1, <2>2, <2>3, ManagerFacts, ThreadStep
  <2> QED BY <1>1, <1>2, <2>1, <2>2, <2>4 DEF McpInv, RouteOK, AtServer
<1>6. CASE Register
  <2>1. /\ m.pc = "register" /\ specs' = client[m.cl].disc
        /\ th' = [th EXCEPT ![Manager] = IF m.goal = "start" THEN [m EXCEPT !.pc = "route"]
                                                             ELSE Idle]
        /\ gateway' = gateway /\ managed' = managed
    BY <1>6 DEF Register
  <2>2. client[m.cl].disc # None /\ specs' \in SUBSET Tools
    BY <1>1, <2>1, ManagerFacts DEF McpInv, RouteOK
  <2>4. specs' = client'[m.cl].disc
    BY <1>1, <2>1
  <2>5. CASE m.goal = "start"
    <3> DEFINE x == [m EXCEPT !.pc = "route"]
    <3>1. x \in Thread /\ x.pc = "route" /\ x.goal = m.goal /\ x.cl = m.cl
      BY <1>1 DEF Thread, Stages
    <3>2. th' = [th EXCEPT ![Manager] = x]
      BY <2>1, <2>5
    <3> HIDE DEF x
    <3>3. ThreadOK(Manager, x)
      BY <1>1, <3>1 DEF ThreadOK
    <3>4. Kept /\ th'[Manager] = x
      BY <1>1, <1>2, <2>1, <2>2, <3>1, <3>2, <3>3, ManagerFacts, ThreadStep
    <3> QED BY <1>1, <1>2, <2>1, <2>2, <2>4, <2>5, <3>1, <3>4
         DEF McpInv, RouteOK, Agrees, AtServer
  <2>6. CASE m.goal # "start"
    <3>1. th' = [th EXCEPT ![Manager] = Idle]
      BY <2>1, <2>6
    <3>2. Kept /\ th'[Manager] = Idle
      BY <1>1, <1>2, <2>1, <2>2, <3>1, IdleFacts, ManagerFacts, ThreadStep
    <3>3. m.cl = managed
      BY <1>1, <2>6 DEF McpInv, RouteOK
    <3> QED BY <1>1, <1>2, <2>1, <2>4, <3>2, <3>3, IdleFacts
         DEF McpInv, RouteOK, Agrees, AtServer
  <2> QED BY <2>5, <2>6
<1>7. CASE Route
  <2>1. /\ m.pc = "route" /\ gateway' = m.cl /\ managed' = m.cl /\ specs' = specs
        /\ th' = [th EXCEPT ![Manager] = Idle]
    BY <1>7 DEF Route
  <2>2. /\ m.goal = "start" /\ client[m.cl].disc # None /\ Agrees(m.cl)
        /\ m.cl = used.starts
    BY <2>1 DEF McpInv, RouteOK
  <2>3. Kept /\ th'[Manager] = Idle
    BY <1>1, <1>2, <2>1, IdleFacts, ManagerFacts, ThreadStep
  <2>4. m.cl <= used.starts
    BY <2>2, ManagerFacts
  <2> QED BY <1>1, <1>2, <2>1, <2>2, <2>3, <2>4, IdleFacts DEF RouteOK, Agrees, AtServer
<1> QED BY <1>4, <1>5, <1>6, <1>7

\* A process is killed with what it had to answer.
LEMMA KillKeeps ==
  ASSUME McpTyped, NEW c \in Clients, Kill(c)
  PROVE  /\ proc' \in Seq(Process) /\ Len(proc') = Len(proc)
         /\ \A o \in DOMAIN proc : proc'[o].cl = proc[o].cl
         /\ \A o \in DOMAIN proc' : \A r \in Range(proc'[o].inbox) : Asked(proc'[o].cl, r)
<1>1. CASE Running(c)
  <2> DEFINE n == client[c].pid
             new == [proc[n] EXCEPT !.alive = FALSE, !.inbox = <<>>]
  <2>1. n \in DOMAIN proc
    <3>1. n \in 1 .. Len(proc)
      BY <1>1 DEF McpTyped, Running
    <3> QED BY <3>1, LenProperties DEF McpTyped
  <2>2. proc[n] \in Process
    BY <2>1, ProcessTyped
  <2>3. <<>> \in Seq(Request) /\ Range(<<>>) = {}
    BY EmptySeq DEF Range
  <2>4. new \in Process /\ new.cl = proc[n].cl /\ new.inbox = <<>>
    BY <2>2, <2>3 DEF Process
  <2>5. proc' = [proc EXCEPT ![n] = new]
    BY <1>1 DEF Kill
  <2> HIDE DEF new
  <2> QED BY <2>1, <2>3, <2>4, <2>5, OneProcess
<1>2. CASE ~Running(c)
  BY <1>2 DEF Kill, McpTyped, Asked
<1> QED BY <1>1, <1>2

\* A failed start is undone, and a stopped server is killed and then forgotten.
LEMMA StopKeeps ==
  ASSUME McpInv, Undo \/ StopProcess \/ StopClient
  PROVE  Kept /\ RouteOK'
<1> DEFINE m == th[Manager]
           c == m.cl
<1>1. /\ m.pc \in {"undo", "kill", "forget"} /\ used' = used /\ managed' = managed
      /\ Manager \in Threads /\ m \in Thread /\ c \in Clients /\ ThreadOK(Manager, m)
  <2>1. m.pc \in {"undo", "kill", "forget"} /\ used' = used /\ managed' = managed
    BY DEF Undo, StopProcess, StopClient, registry
  <2> QED BY <2>1, ManagerFacts
<1>2. McpTyped
  BY DEF McpInv, AnswersInv
<1>3. /\ proc' \in Seq(Process) /\ Len(proc') = Len(proc)
      /\ \A o \in DOMAIN proc : proc'[o].cl = proc[o].cl
      /\ \A o \in DOMAIN proc' : \A r \in Range(proc'[o].inbox) : Asked(proc'[o].cl, r)
  <2>1. CASE Kill(c)
    BY <1>1, <1>2, <2>1, KillKeeps
  <2>2. CASE UNCHANGED proc
    BY <1>2, <2>2 DEF McpTyped, Asked
  <2> QED BY <2>1, <2>2 DEF Undo, StopProcess, StopClient
<1>4. /\ ClientsTyped
      /\ \A d \in Clients : /\ client'[d].lock = client[d].lock /\ client'[d].id = client[d].id
                            /\ client'[d].queue = client[d].queue
      /\ \A d \in Clients : d # c => client'[d].disc = client[d].disc
  <2>1. CASE Forget(c)
    <3> DEFINE new == [client[c] EXCEPT !.init = FALSE, !.disc = None, !.info = "stopped"]
    <3>1. client[c] \in ClientState
      BY <1>1, <1>2 DEF McpTyped
    <3>2. /\ new \in ClientState /\ new.pid = client[c].pid /\ new.id = client[c].id
          /\ new.lock = client[c].lock /\ new.queue = client[c].queue
      BY <3>1 DEF ClientState
    <3>3. client' = [client EXCEPT ![c] = new]
      BY <2>1 DEF Forget
    <3> HIDE DEF new
    <3>4. /\ ClientsTyped /\ client'[c] = new
          /\ \A d \in Clients : d # c => client'[d] = client[d]
      BY <1>1, <1>2, <3>2, <3>3, OneClient
    <3> QED BY <3>2, <3>4
  <2>2. CASE UNCHANGED client
    BY <1>2, <2>2 DEF McpTyped, ClientsTyped
  <2> QED BY <2>1, <2>2 DEF Undo, StopProcess, StopClient
<1>5. PICK x \in Thread :
        /\ th' = [th EXCEPT ![Manager] = x] /\ ThreadOK(Manager, x)
        /\ x = Idle \/ (x.pc = "forget" /\ x.goal = m.goal /\ m.pc = "kill")
  <2>1. CASE Undo \/ StopClient
    BY <1>1, <2>1, IdleFacts DEF Undo, StopClient
  <2>2. CASE StopProcess
    <3> DEFINE x == [m EXCEPT !.pc = "forget"]
    <3>1. x \in Thread /\ x.pc = "forget" /\ x.goal = m.goal /\ x.cl = c
      BY <1>1 DEF Thread, Stages
    <3>2. th' = [th EXCEPT ![Manager] = x] /\ m.pc = "kill"
      BY <2>2 DEF StopProcess
    <3> HIDE DEF x
    <3> QED BY <1>1, <3>1, <3>2 DEF ThreadOK
  <2> QED BY <2>1, <2>2
<1>6. x.pc \in {"idle", "forget"}
  BY <1>5, IdleFacts
<1>7. /\ th' \in [Threads -> Thread] /\ ThreadsOK' /\ WaitsOK'
      /\ th'[Manager] = x
      /\ \A u \in Threads : th'[u].pc = "wait" => th[u].pc = "wait" /\ th'[u] = th[u]
  BY <1>1, <1>4, <1>5, <1>6, MovesOn DEF McpInv
<1>8. gateway' = None /\ specs' \in SUBSET Tools
  BY ManagerFacts DEF Undo, StopProcess, StopClient, registry, McpInv, RouteOK
<1>9. McpTyped'
  <2>1. DOMAIN proc = 1 .. Len(proc) /\ Len(proc) \in Nat
    BY <1>2, LenProperties DEF McpTyped
  <2>2. \A d \in Clients : /\ client'[d].pid \in 0..Len(proc')
                           /\ client'[d].pid # 0 => proc'[client'[d].pid].cl = d
    BY <1>2, <1>3, <1>4, <2>1 DEF McpTyped, ClientsTyped
  <2> QED BY <1>1, <1>2, <1>3, <1>4, <1>7, <1>8, <2>2 DEF McpTyped, ClientsTyped
<1>10. Quiet
  BY <1>3, <1>4, <1>7 DEF Quiet
<1>11. RouteOK'
  <2>1. managed # None => managed <= used.starts
    BY DEF McpInv, RouteOK
  <2>2. CASE x = Idle
    BY <1>1, <1>7, <1>8, <2>1, <2>2, IdleFacts DEF RouteOK, AtServer
  <2>3. CASE x.pc = "forget" /\ x.goal = m.goal /\ m.pc = "kill"
    <3>1. x.goal \notin {"start", "refresh"}
      BY <2>3 DEF McpInv, RouteOK
    <3> QED BY <1>1, <1>7, <1>8, <2>1, <2>3, <3>1 DEF RouteOK, AtServer
  <2> QED BY <1>5, <2>2, <2>3
<1> QED BY <1>7, <1>9, <1>10, <1>11 DEF Kept

-----------------------------------------------------------------------------
(* The invariant and what follows from it *)

\* Every step keeps the invariant.
LEMMA NextMcp ==
  ASSUME McpInv, [Next]_vars
  PROVE  McpInv'
<1>1. ASSUME Kept, RouteOK' PROVE McpInv'
  <2>1. InboxesOK' /\ QueuesOK'
    BY <1>1, QuietKeeps DEF Kept, McpInv
  <2> QED BY <1>1, <2>1 DEF Kept, McpInv, AnswersInv
<1>2. ASSUME McpTyped', Quiet, Aside PROVE McpInv'
  <2>1. InboxesOK' /\ QueuesOK'
    BY <1>2, QuietKeeps DEF McpInv
  <2> QED BY <1>2, <2>1, AsideKeeps DEF McpInv, AnswersInv
<1>3. ASSUME NEW t \in Threads, Exchange(t) \/ SendFails(t) PROVE McpInv'
  <2>1. CASE Check(t)
    BY <1>1, <2>1, CheckKeeps, ExchangedKeeps
  <2>2. CASE Send(t)
    BY <2>2, SendKeeps, ExchangedKeeps DEF McpInv
  <2>3. CASE Expire(t) \/ ReadFailure(t)
    BY <1>1, <2>3, WaitFailsKeeps, ExchangedKeeps
  <2>4. CASE ReadOther(t)
    BY <1>2, <2>4, ReadOtherKeeps
  <2>5. CASE ReadResult(t)
    BY <1>1, <2>5, ReadResultKeeps
  <2>6. CASE Greet(t)
    BY <1>1, <2>6, GreetKeeps, ExchangedKeeps
  <2>7. CASE SendFails(t)
    BY <1>1, <2>7, SendFailsKeeps, ExchangedKeeps
  <2> QED BY <1>3, <2>1, <2>2, <2>3, <2>4, <2>5, <2>6, <2>7 DEF Exchange
<1>4. ASSUME NEW t \in Callers, ReadyClient(t) \/ \E tool \in Tools : CallTool(t, tool)
      PROVE  McpInv'
  BY <1>1, <1>4, CallKeeps
<1>5. CASE StartServer \/ RefreshServer \/ \E removeSpecs \in BOOLEAN : StopServer(removeSpecs)
  BY <1>1, <1>5, OperationKeeps
<1>6. CASE Manage
  <2>1. CASE RefuseSpecs \/ EmptySource \/ Register \/ Route
    BY <1>1, <2>1, RegistrationKeeps
  <2>2. CASE Undo \/ StopProcess \/ StopClient
    BY <1>1, <2>2, StopKeeps
  <2> QED BY <1>6, <2>1, <2>2 DEF Manage
<1>7. ASSUME NEW p \in DOMAIN proc, Answer(p) \/ Chatter(p) \/ Die(p) \/ PumpEnd(p)
      PROVE  McpInv'
  <2>1. CASE Answer(p)
    BY <1>2, <2>1, AnswerKeeps
  <2>2. CASE Chatter(p) \/ Die(p) \/ PumpEnd(p)
    BY <1>2, <2>2, NoiseKeeps
  <2> QED BY <1>7, <2>1, <2>2
<1>8. CASE UNCHANGED vars
  <2>1. Quiet
    BY <1>8 DEF vars, registry, Quiet, Asked
  <2>2. McpTyped'
    BY <1>8 DEF vars, registry, McpTyped, McpInv, AnswersInv
  <2>3. Aside
    BY <1>8 DEF vars, registry, Aside
  <2> QED BY <1>2, <2>1, <2>2, <2>3
<1> QED BY <1>3, <1>4, <1>5, <1>6, <1>7, <1>8 DEF Next

\* The whole invariant: types, who waits for what, what may still be answered,
\* and what the gateway and the registry agree on (MCPStdioClient, MCPManager,
\* MCPToolGateway).
THEOREM McpInvariant == Spec => []McpInv
<1>1. Init => McpInv
  BY InitMcp
<1>2. McpInv /\ [Next]_vars => McpInv'
  BY NextMcp
<1> QED BY <1>1, <1>2, PTL DEF Spec

\* A result is only taken by the thread that asked for it, as the answer to the
\* method it asked, for any number of threads, timeouts and processes (request,
\* _wait_for_response).
THEOREM McpOwnAnswer == Spec => []OwnAnswer
<1>1. ASSUME McpInv PROVE OwnAnswer
  <2>1. ASSUME NEW t \in Threads, th[t].pc = "wait",
               NEW line \in Range(client[th[t].cl].queue),
               line.kind = "answer", ~Discard(t, line)
        PROVE  line.by = t /\ line.meth = th[t].meth
    <3>1. th[t].cl \in Clients
      BY <1>1, <2>1, AtServerFacts DEF AtServer
    <3>2. line.id = th[t].id
      BY <2>1 DEF Discard
    <3>3. Asks(th[t].cl, line)
      BY <1>1, <2>1, <3>1 DEF McpInv, AnswersInv, QueuesOK
    <3> QED BY <2>1, <3>2, <3>3 DEF Asks
  <2> QED BY <2>1 DEF OwnAnswer
<1> QED BY <1>1, McpInvariant, PTL

\* Between two operations of the manager the gateway routes to the managed client
\* and the registry offers what it discovered, unless that was refused
\* (start_server, refresh_server, stop_server, register_mcp_tool_specs).
THEOREM McpRoutedAsDiscovered == Spec => []RoutedAsDiscovered
<1>1. McpInv => RoutedAsDiscovered
  BY DEF McpInv, RouteOK, Agrees, RoutedAsDiscovered
<1> QED BY <1>1, McpInvariant, PTL

=============================================================================
