--------------------------- MODULE RuntimeProofs ---------------------------
(***************************************************************************)
(* Proofs for any number of processes, threads, sessions, runs, clients,   *)
(* events and messages, with crashes and failures.                         *)
(*                                                                         *)
(* First the store (SessionStore): type correctness, the shared timeline   *)
(* sequence, that no row is left without its parent, and that a completed  *)
(* run has its answer; then the same of the store with its summaries       *)
(* (SummaryStore), and that the summaries forget no message.               *)
(*                                                                         *)
(* Then the Runtime, which uses the store only through the store's own     *)
(* operations: every step of it is a step of SessionStore or leaves the    *)
(* store alone, so what is proved of the store holds of the Runtime.       *)
(*                                                                         *)
(* Then who has a run.  Last what one turn may rely on: the confirmations  *)
(* of a run are carried out at most once, a run that waits has not ended,  *)
(* a result that says it was stored was, and the timeline of a run is in   *)
(* order.                                                                  *)
(***************************************************************************)
EXTENDS Runtime, SummaryStore, FiniteSetTheorems, TLAPS

-----------------------------------------------------------------------------
(* The inductive invariant.  A client that has read and will write relies   *)
(* on what it read: the first four parts say what is still true of it.      *)

UsesRun(c) == call[c] # Nil /\ call[c].op \in {"update", "insert_run"}

\* Run ids are issued once, so what a stored row or a pending write refers to
\* was issued.
RunsIssued ==
  /\ \A r \in Runs : runs[r] # Nil => r \in issued
  /\ \A c \in Clients : UsesRun(c) => call[c].run \in issued

\* A row on its way to be inserted is not in the table, and nobody else refers
\* to its run.
InsertIsFirst ==
  \A c \in Clients : call[c] # Nil /\ call[c].op = "insert_run" =>
    /\ runs[call[c].run] = Nil
    /\ \A d \in Clients : UsesRun(d) /\ call[d].run = call[c].run => d = c

\* A row about to be written back belongs to the session of the stored row.
UpdateSameSession ==
  \A c \in Clients :
    call[c] # Nil /\ call[c].op = "update" /\ runs[call[c].run] # Nil
      => call[c].row.session = runs[call[c].run].session

HasAnswer(r, row) ==
  /\ row.final \in messages
  /\ row.final.run = r
  /\ row.final.role = "assistant"
  /\ row.final.session = row.session

\* A completion about to be written still has its answer, unless its run has
\* been deleted, and then for good.
UpdateHasAnswer ==
  \A c \in Clients :
    /\ call[c] # Nil /\ call[c].op = "insert_run" => call[c].row.status = "running"
    /\ call[c] # Nil /\ call[c].op = "update" /\ runs[call[c].run] # Nil
         /\ call[c].row.status = "completed"
       => HasAnswer(call[c].run, call[c].row)

StoreInv ==
  /\ StoreTypeOK
  /\ SeqBelowNext
  /\ TimelineSeqUnique
  /\ RunsIssued
  /\ InsertIsFirst
  /\ UpdateSameSession
  /\ NoOrphanRows
  /\ UpdateHasAnswer
  /\ CompletedHasAnswer

-----------------------------------------------------------------------------
(* Type correctness *)

\* The next timeline number of a session is positive.
LEMMA NextSeqType ==
  ASSUME StoreTypeOK, NEW s \in Sessions
  PROVE  NextSeq(s) \in Nat \ {0}
BY DEF StoreTypeOK, NextSeq, SessionRow

\* last_run_id names a run or nothing.
LEMMA LastRunType ==
  ASSUME StoreTypeOK, NEW s \in Sessions
  PROVE  LastRun(s) \in Runs \cup {Nil}
BY DEF StoreTypeOK, LastRun, SessionRow

\* Reserving a number leaves a table of sessions.
LEMMA SequencedType ==
  ASSUME StoreTypeOK, NEW s \in Sessions, NEW last \in Runs \cup {Nil}
  PROVE  Sequenced(s, last) \in [Sessions -> SessionRow \cup {Nil}]
<1>1. NextSeq(s) + 1 \in Nat \ {0}
  BY NextSeqType
<1>2. [next |-> NextSeq(s) + 1, lastRun |-> last] \in SessionRow
  BY <1>1 DEF SessionRow
<1> QED BY <1>2 DEF Sequenced, StoreTypeOK

\* So does _touch_session.
LEMMA TouchedType ==
  ASSUME StoreTypeOK, NEW s \in Sessions, NEW r \in Runs
  PROVE  Touched(s, r) \in [Sessions -> SessionRow \cup {Nil}]
BY DEF Touched, StoreTypeOK, SessionRow

\* The messages that are inserted are messages.
LEMMA QuestionType ==
  ASSUME StoreTypeOK, NEW s \in Sessions, NEW r \in Runs
  PROVE  Question(s, r) \in Message /\ Answer(s, r) \in Message
BY NextSeqType DEF Question, Answer, Message

\* The empty tables are well typed.
LEMMA TypeInit == StoreInit => StoreTypeOK
BY DEF StoreInit, StoreTypeOK

\* Every operation of the store keeps the types of its tables.
LEMMA TypeStep ==
  ASSUME StoreTypeOK, [StoreNext]_storeVars
  PROVE  StoreTypeOK'
<1> USE DEF StoreTypeOK
<1>1. ASSUME NEW c \in Clients, NEW s \in Sessions, CreateSession(c, s)
      PROVE  StoreTypeOK'
  <2>1. [next |-> 1, lastRun |-> Nil] \in SessionRow
    BY DEF SessionRow
  <2> QED BY <1>1, <2>1 DEF CreateSession
<1>2. ASSUME NEW c \in Clients, NEW s \in Sessions, DeleteSession(c, s)
      PROVE  StoreTypeOK'
  BY <1>2 DEF DeleteSession
<1>3. ASSUME NEW c \in Clients, NEW s \in Sessions, NEW r \in Runs, CreateUserTurn(c, s, r)
      PROVE  StoreTypeOK'
  <2>1. Question(s, r) \in Message
    BY QuestionType
  <2>2. [session |-> s, question |-> Question(s, r), status |-> "running", final |-> Nil] \in RunRow
    BY <2>1 DEF RunRow, RunStatus, ActiveStatus
  <2>3. sessions' \in [Sessions -> SessionRow \cup {Nil}]
    BY <1>3, SequencedType DEF CreateUserTurn
  <2> QED BY <1>3, <2>1, <2>2, <2>3 DEF CreateUserTurn
<1>4. ASSUME NEW c \in Clients, NEW s \in Sessions, NEW r \in Runs, BeginAppend(c, s, r)
      PROVE  StoreTypeOK'
  <2>1. [op |-> "append", session |-> s, run |-> r] \in Call
    BY DEF Call
  <2> QED BY <1>4, <2>1 DEF BeginAppend, tables
<1>5. ASSUME NEW c \in Clients, NEW r \in Runs, IssueRunId(c, r)
      PROVE  StoreTypeOK'
  BY <1>5 DEF IssueRunId, tables
<1>6. ASSUME NEW c \in Clients, NEW s \in Sessions, NEW r \in Runs, NEW e \in EventIds,
             InsertEvent(c, s, r, e)
      PROVE  StoreTypeOK'
  <2>1. [id |-> e, session |-> s, run |-> r, seq |-> NextSeq(s)] \in Event
    BY NextSeqType DEF Event
  <2>2. sessions' \in [Sessions -> SessionRow \cup {Nil}]
    BY <1>6, SequencedType, LastRunType DEF InsertEvent
  <2> QED BY <1>6, <2>1, <2>2 DEF InsertEvent
<1>7. ASSUME NEW c \in Clients, NEW r \in Runs, NEW m \in messages, BeginCompleteRun(c, r, m)
      PROVE  StoreTypeOK'
  <2>1. Completed(runs[r], m) \in RunRow
    BY <1>7 DEF BeginCompleteRun, Completed, RunRow, RunStatus
  <2>2. [op |-> "update", run |-> r, row |-> Completed(runs[r], m)] \in Call
    BY <2>1 DEF Call
  <2> QED BY <1>7, <2>2 DEF BeginCompleteRun, tables
<1>8. ASSUME NEW c \in Clients, NEW r \in Runs, NEW m \in messages, BeginCreateRun(c, r, m)
      PROVE  StoreTypeOK'
  <2>1. [session |-> m.session, question |-> m, status |-> "running", final |-> Nil] \in RunRow
    BY DEF RunRow, Message, RunStatus, ActiveStatus
  <2>2. [op |-> "insert_run", run |-> r,
         row |-> [session |-> m.session, question |-> m, status |-> "running", final |-> Nil]] \in Call
    BY <2>1 DEF Call
  <2> QED BY <1>8, <2>2 DEF BeginCreateRun, tables
<1>9. ASSUME NEW c \in Clients, NEW r \in Runs, NEW status \in FailStatus, BeginFailRun(c, r, status)
      PROVE  StoreTypeOK'
  <2>1. [runs[r] EXCEPT !.status = status] \in RunRow
    BY <1>9 DEF BeginFailRun, RunRow, RunStatus
  <2>2. [op |-> "update", run |-> r, row |-> [runs[r] EXCEPT !.status = status]] \in Call
    BY <2>1 DEF Call
  <2> QED BY <1>9, <2>2 DEF BeginFailRun, tables
<1>10. ASSUME NEW c \in Clients, InsertMessage(c)
       PROVE  StoreTypeOK'
  <2>1. call[c].session \in Sessions /\ call[c].run \in Runs
    BY <1>10, NilAssumption DEF InsertMessage, Idle, Call
  <2>2. Answer(call[c].session, call[c].run) \in Message
    BY <2>1, QuestionType
  <2>3. sessions' \in [Sessions -> SessionRow \cup {Nil}]
    BY <1>10, <2>1, SequencedType, LastRunType DEF InsertMessage
  <2> QED BY <1>10, <2>2, <2>3 DEF InsertMessage, Return
<1>11. ASSUME NEW c \in Clients, UpdateRun(c)
       PROVE  StoreTypeOK'
  <2>1. call[c].run \in Runs /\ call[c].row \in RunRow /\ call[c].row.session \in Sessions
    BY <1>11 DEF UpdateRun, Idle, Call, RunRow
  <2>2. sessions' \in [Sessions -> SessionRow \cup {Nil}]
    BY <1>11, <2>1, TouchedType DEF UpdateRun
  <2> QED BY <1>11, <2>1, <2>2 DEF UpdateRun, Return
<1>12. ASSUME NEW c \in Clients, InsertRun(c)
       PROVE  StoreTypeOK'
  <2>1. call[c].run \in Runs /\ call[c].row \in RunRow /\ call[c].row.session \in Sessions
    BY <1>12 DEF InsertRun, Idle, Call, RunRow
  <2>2. sessions' \in [Sessions -> SessionRow \cup {Nil}]
    BY <1>12, <2>1, TouchedType DEF InsertRun
  <2> QED BY <1>12, <2>1, <2>2 DEF InsertRun, Return
<1>13. ASSUME NEW c \in Clients, MarkInterruptedRuns(c)
       PROVE  StoreTypeOK'
  <2>1. \A r \in Runs : Interrupted(runs[r]) \in RunRow \cup {Nil}
    BY DEF Interrupted, RunRow, RunStatus
  <2> QED BY <1>13, <2>1 DEF MarkInterruptedRuns
<1>14. ASSUME NEW C \in SUBSET Clients, AbandonCalls(C)
       PROVE  StoreTypeOK'
  BY <1>14 DEF AbandonCalls, tables
<1>15. CASE UNCHANGED storeVars
  BY <1>15 DEF storeVars, tables
<1> QED
  BY <1>1, <1>2, <1>3, <1>4, <1>5, <1>6, <1>7, <1>8, <1>9, <1>10, <1>11, <1>12, <1>13, <1>14,
     <1>15 DEF StoreNext, StoreStep

\* The tables hold rows of their declared columns, and a pending write one too.
THEOREM StoreTyped == StoreSpec => []StoreTypeOK
<1>1. StoreTypeOK /\ [StoreNext]_storeVars => StoreTypeOK'
  BY TypeStep
<1> QED BY TypeInit, <1>1, PTL DEF StoreSpec
-----------------------------------------------------------------------------
(* The timeline sequence *)

Entries == messages \cup events

\* A new entry takes the session's next number and leaves the counter past it.
LEMMA NewEntry ==
  ASSUME StoreTypeOK, SeqBelowNext, TimelineSeqUnique,
         NEW s \in Sessions, NEW last \in Runs \cup {Nil}, NEW x,
         x.session = s, x.seq = NextSeq(s), Entries' = Entries \cup {x},
         sessions' = Sequenced(s, last)
  PROVE  SeqBelowNext' /\ TimelineSeqUnique'
<1>1. \A u \in Sessions : Timeline(u)' = IF u = s THEN Timeline(u) \cup {x} ELSE Timeline(u)
  BY DEF Timeline, Entries
<1>2. \A y \in Timeline(s) : y.seq \in Nat /\ y.seq < NextSeq(s)
  BY DEF SeqBelowNext, NextSeq, Timeline, StoreTypeOK, Message, Event, SessionRow
<1>3. sessions'[s] # Nil /\ sessions'[s].next = NextSeq(s) + 1
  <2>1. [next |-> NextSeq(s) + 1, lastRun |-> last] \in SessionRow
    BY NextSeqType DEF SessionRow
  <2> QED BY <2>1, NilAssumption DEF Sequenced, StoreTypeOK
<1>4. \A u \in Sessions : u # s => sessions'[u] = sessions[u]
  BY DEF Sequenced, StoreTypeOK
<1>5. NextSeq(s) \in Nat
  BY NextSeqType
<1>6. SeqBelowNext'
  BY <1>1, <1>2, <1>3, <1>4, <1>5 DEF SeqBelowNext
<1>7. TimelineSeqUnique'
  BY <1>1, <1>2, <1>5 DEF TimelineSeqUnique
<1> QED BY <1>6, <1>7

\* Without a new entry the counters only have to stay where they are.
LEMMA NoNewEntry ==
  ASSUME SeqBelowNext, TimelineSeqUnique, Entries' \subseteq Entries,
         \A s \in Sessions : Timeline(s)' # {} =>
           sessions'[s] # Nil /\ sessions'[s].next = sessions[s].next
  PROVE  SeqBelowNext' /\ TimelineSeqUnique'
<1>1. \A s \in Sessions : Timeline(s)' \subseteq Timeline(s)
  BY DEF Timeline, Entries
<1> QED BY <1>1 DEF SeqBelowNext, TimelineSeqUnique

\* _touch_session never changes which sessions exist or their counters.
LEMMA TouchedKeepsNext ==
  ASSUME StoreTypeOK, NEW s \in Sessions, NEW r \in Runs, NEW u \in Sessions
  PROVE  /\ Touched(s, r)[u] = Nil <=> sessions[u] = Nil
         /\ sessions[u] # Nil => Touched(s, r)[u].next = sessions[u].next
<1>1. CASE sessions[s] = Nil
  BY <1>1 DEF Touched
<1>2. CASE sessions[s] # Nil
  <2>1. [sessions[s] EXCEPT !.lastRun = r] \in SessionRow
    BY <1>2 DEF StoreTypeOK, SessionRow
  <2>2. [sessions[s] EXCEPT !.lastRun = r].next = sessions[s].next
    BY <1>2 DEF StoreTypeOK, SessionRow
  <2> QED BY <1>2, <2>1, <2>2, NilAssumption DEF Touched, StoreTypeOK
<1> QED BY <1>1, <1>2

\* Every operation keeps the numbers of a timeline unique and below its counter.
LEMMA SeqStep ==
  ASSUME StoreTypeOK, SeqBelowNext, TimelineSeqUnique, [StoreNext]_storeVars
  PROVE  SeqBelowNext' /\ TimelineSeqUnique'
<1>1. ASSUME UNCHANGED <<messages, events>>,
             \A u \in Sessions : sessions[u] # Nil =>
               sessions'[u] # Nil /\ sessions'[u].next = sessions[u].next
      PROVE  SeqBelowNext' /\ TimelineSeqUnique'
  <2>1. Entries' = Entries /\ \A s \in Sessions : Timeline(s)' = Timeline(s)
    BY <1>1 DEF Entries, Timeline
  <2> QED BY <1>1, <2>1, NoNewEntry DEF SeqBelowNext
<1>2. ASSUME NEW c \in Clients, NEW s \in Sessions, CreateSession(c, s)
      PROVE  SeqBelowNext' /\ TimelineSeqUnique'
  BY <1>1, <1>2 DEF CreateSession, StoreTypeOK
<1>3. ASSUME NEW c \in Clients, NEW s \in Sessions, DeleteSession(c, s)
      PROVE  SeqBelowNext' /\ TimelineSeqUnique'
  <2>1. Entries' \subseteq Entries
    BY <1>3 DEF DeleteSession, Entries
  <2>2. \A u \in Sessions : Timeline(u)' # {} => u # s /\ Timeline(u) # {}
    BY <1>3 DEF DeleteSession, Timeline
  <2>3. \A u \in Sessions : u # s => sessions'[u] = sessions[u]
    BY <1>3 DEF DeleteSession, StoreTypeOK
  <2> QED BY <2>1, <2>2, <2>3, NoNewEntry DEF SeqBelowNext
<1>4. ASSUME NEW c \in Clients, NEW s \in Sessions, NEW r \in Runs, CreateUserTurn(c, s, r)
      PROVE  SeqBelowNext' /\ TimelineSeqUnique'
  <2>1. Entries' = Entries \cup {Question(s, r)}
    BY <1>4 DEF CreateUserTurn, Entries
  <2>2. Question(s, r).session = s /\ Question(s, r).seq = NextSeq(s)
    BY DEF Question
  <2> QED BY <1>4, <2>1, <2>2, NewEntry DEF CreateUserTurn
<1>5. ASSUME NEW c \in Clients, NEW s \in Sessions, NEW r \in Runs, NEW e \in EventIds,
             InsertEvent(c, s, r, e)
      PROVE  SeqBelowNext' /\ TimelineSeqUnique'
  <2>1. CASE \E x \in events : x.id = e
    BY <1>1, <1>5, <2>1 DEF InsertEvent, SeqBelowNext
  <2>2. CASE ~\E x \in events : x.id = e
    <3> DEFINE x == [id |-> e, session |-> s, run |-> r, seq |-> NextSeq(s)]
    <3>1. Entries' = Entries \cup {x}
      BY <1>5, <2>2 DEF InsertEvent, Entries
    <3>2. sessions' = Sequenced(s, LastRun(s))
      BY <1>5, <2>2 DEF InsertEvent
    <3>3. x.session = s /\ x.seq = NextSeq(s)
      OBVIOUS
    <3> HIDE DEF x
    <3> QED BY <3>1, <3>2, <3>3, LastRunType, NewEntry
  <2> QED BY <2>1, <2>2
<1>6. ASSUME NEW c \in Clients, InsertMessage(c)
      PROVE  SeqBelowNext' /\ TimelineSeqUnique'
  <2> DEFINE s == call[c].session
             x == Answer(s, call[c].run)
  <2>1. s \in Sessions
    BY <1>6 DEF InsertMessage, Idle, Call, StoreTypeOK
  <2>2. Entries' = Entries \cup {x}
    BY <1>6 DEF InsertMessage, Entries
  <2>3. x.session = s /\ x.seq = NextSeq(s)
    BY DEF Answer
  <2>4. sessions' = Sequenced(s, LastRun(s)) /\ LastRun(s) \in Runs \cup {Nil}
    BY <1>6, <2>1, LastRunType DEF InsertMessage
  <2> HIDE DEF s, x
  <2> QED BY <2>1, <2>2, <2>3, <2>4, NewEntry
<1>7. ASSUME NEW c \in Clients, UpdateRun(c) \/ InsertRun(c)
      PROVE  SeqBelowNext' /\ TimelineSeqUnique'
  <2>1. call[c].run \in Runs /\ call[c].row.session \in Sessions
    BY <1>7 DEF UpdateRun, InsertRun, Idle, Call, RunRow, StoreTypeOK
  <2>2. sessions' \in {sessions, Touched(call[c].row.session, call[c].run)}
    BY <1>7 DEF UpdateRun, InsertRun
  <2>3. UNCHANGED <<messages, events>>
    BY <1>7 DEF UpdateRun, InsertRun
  <2> QED BY <1>1, <2>1, <2>2, <2>3, TouchedKeepsNext
<1>8. ASSUME UNCHANGED <<sessions, messages, events>>
      PROVE  SeqBelowNext' /\ TimelineSeqUnique'
  BY <1>1, <1>8
<1> QED
  BY <1>2, <1>3, <1>4, <1>5, <1>6, <1>7, <1>8
  DEF StoreNext, StoreStep, storeVars, tables, BeginAppend, IssueRunId, BeginCompleteRun,
      BeginCreateRun, BeginFailRun, MarkInterruptedRuns, AbandonCalls

\* Every entry of a timeline, message or event, has a number of its own, below
\* the session's counter: for any interleaving of any number of clients.
THEOREM StoreSequence == StoreSpec => [](TimelineSeqUnique /\ SeqBelowNext)
<1> DEFINE Inv == StoreTypeOK /\ SeqBelowNext /\ TimelineSeqUnique
<1>1. StoreInit => Inv
  BY TypeInit DEF StoreInit, SeqBelowNext, TimelineSeqUnique, Timeline
<1>2. Inv /\ [StoreNext]_storeVars => Inv'
  BY TypeStep, SeqStep
<1>3. Inv => TimelineSeqUnique /\ SeqBelowNext
  OBVIOUS
<1> QED BY <1>1, <1>2, <1>3, PTL DEF StoreSpec
-----------------------------------------------------------------------------
(* Pending writes *)

\* A pending update or insert has a run and a row.
LEMMA CallType ==
  ASSUME StoreTypeOK, NEW c \in Clients, UsesRun(c)
  PROVE  /\ call[c].run \in Runs
         /\ call[c].row \in RunRow
         /\ call[c].row.session \in Sessions
BY DEF UsesRun, StoreTypeOK, Call, RunRow

\* What the actions do to a client's pending write of a run: it is new, or it
\* was there before.
LEMMA CallStep ==
  ASSUME StoreTypeOK, [StoreNext]_storeVars, NEW d \in Clients, UsesRun(d)'
  PROVE  \/ call'[d] = call[d] /\ UsesRun(d)
         \/ \E r \in Runs, m \in messages : BeginCompleteRun(d, r, m) \/ BeginCreateRun(d, r, m)
         \/ \E r \in Runs, status \in FailStatus : BeginFailRun(d, r, status)
<1>1. CASE call'[d] = call[d]
  BY <1>1 DEF UsesRun
<1>2. CASE call'[d] # call[d]
  <2>1. ASSUME NEW c \in Clients, InsertMessage(c) \/ UpdateRun(c) \/ InsertRun(c)
        PROVE  FALSE
    BY <2>1, <1>2 DEF InsertMessage, UpdateRun, InsertRun, Return, StoreTypeOK, UsesRun
  <2>2. ASSUME NEW c \in Clients, NEW s \in Sessions, NEW r \in Runs, BeginAppend(c, s, r)
        PROVE  FALSE
    BY <2>2, <1>2 DEF BeginAppend, StoreTypeOK, UsesRun
  <2>3. ASSUME NEW C \in SUBSET Clients, AbandonCalls(C)
        PROVE  FALSE
    BY <2>3, <1>2 DEF AbandonCalls, UsesRun
  <2>4. ASSUME NEW c \in Clients, NEW r \in Runs, NEW m \in messages,
               BeginCompleteRun(c, r, m) \/ BeginCreateRun(c, r, m)
        PROVE  c = d
    BY <2>4, <1>2 DEF BeginCompleteRun, BeginCreateRun, StoreTypeOK
  <2>5. ASSUME NEW c \in Clients, NEW r \in Runs, NEW status \in FailStatus,
               BeginFailRun(c, r, status)
        PROVE  c = d
    BY <2>5, <1>2 DEF BeginFailRun, StoreTypeOK
  <2>6. ASSUME UNCHANGED call
        PROVE  FALSE
    BY <2>6, <1>2
  <2> QED
    BY <2>1, <2>2, <2>3, <2>4, <2>5, <2>6
    DEF StoreNext, StoreStep, storeVars, CreateSession, DeleteSession, CreateUserTurn,
        IssueRunId, InsertEvent, MarkInterruptedRuns
<1> QED BY <1>1, <1>2

MarkInterrupted(r) == runs'[r] = Interrupted(runs[r])

\* What the actions do to a row of agent_runs: it stays, changes its status,
\* is written back, is inserted, or goes with its session.
LEMMA RowStep ==
  ASSUME StoreTypeOK, [StoreNext]_storeVars, NEW r \in Runs
  PROVE  \/ runs'[r] = runs[r]
         \/ runs'[r] = Nil
         \/ MarkInterrupted(r)
         \/ \E c \in Clients : UpdateRun(c) /\ call[c].run = r /\ runs[r] # Nil
         \/ \E c \in Clients : InsertRun(c) /\ call[c].run = r
         \/ \E c \in Clients, s \in Sessions : CreateUserTurn(c, s, r)
<1>1. ASSUME NEW c \in Clients, NEW s \in Sessions, DeleteSession(c, s)
      PROVE  runs'[r] = runs[r] \/ runs'[r] = Nil
  BY <1>1 DEF DeleteSession
<1>2. ASSUME NEW c \in Clients, NEW s \in Sessions, NEW q \in Runs, CreateUserTurn(c, s, q)
      PROVE  runs'[r] = runs[r] \/ q = r
  BY <1>2 DEF CreateUserTurn, StoreTypeOK
<1>3. ASSUME NEW c \in Clients, UpdateRun(c)
      PROVE  runs'[r] = runs[r] \/ (call[c].run = r /\ runs[r] # Nil)
  BY <1>3 DEF UpdateRun, StoreTypeOK
<1>4. ASSUME NEW c \in Clients, InsertRun(c)
      PROVE  runs'[r] = runs[r] \/ call[c].run = r
  BY <1>4 DEF InsertRun, StoreTypeOK
<1>5. ASSUME NEW c \in Clients, MarkInterruptedRuns(c)
      PROVE  runs'[r] = Interrupted(runs[r])
  BY <1>5 DEF MarkInterruptedRuns
<1>6. CASE UNCHANGED runs
  BY <1>6
<1> QED
  BY <1>1, <1>2, <1>3, <1>4, <1>5, <1>6
  DEF StoreNext, StoreStep, storeVars, tables, CreateSession, BeginAppend, IssueRunId,
      InsertEvent, BeginCompleteRun, BeginCreateRun, BeginFailRun, InsertMessage, AbandonCalls,
      MarkInterrupted
-----------------------------------------------------------------------------
(* What pending writes may rely on *)

\* Every stored run was issued, and no run id is taken back.
LEMMA IssuedStep ==
  ASSUME StoreTypeOK, RunsIssued, [StoreNext]_storeVars
  PROVE  RunsIssued' /\ issued \subseteq issued'
<1>1. issued \subseteq issued'
  BY DEF StoreNext, StoreStep, storeVars, tables, CreateSession, DeleteSession, CreateUserTurn,
         BeginAppend, IssueRunId, InsertEvent, BeginCompleteRun, BeginCreateRun, BeginFailRun,
         InsertMessage, UpdateRun, InsertRun, MarkInterruptedRuns, AbandonCalls
<1>2. ASSUME NEW r \in Runs, runs'[r] # Nil
      PROVE  r \in issued'
  <2>1. runs[r] # Nil => r \in issued
    BY DEF RunsIssued
  <2>2. MarkInterrupted(r) => runs[r] # Nil
    BY <1>2 DEF MarkInterrupted, Interrupted
  <2>3. ASSUME NEW c \in Clients, InsertRun(c), call[c].run = r
        PROVE  r \in issued
    BY <2>3 DEF InsertRun, Idle, UsesRun, RunsIssued
  <2>4. ASSUME NEW c \in Clients, NEW s \in Sessions, CreateUserTurn(c, s, r)
        PROVE  r \in issued'
    BY <2>4 DEF CreateUserTurn
  <2> QED BY <1>1, <1>2, <2>1, <2>2, <2>3, <2>4, RowStep
<1>3. ASSUME NEW d \in Clients, UsesRun(d)'
      PROVE  call'[d].run \in issued'
  <2>1. CASE call'[d] = call[d] /\ UsesRun(d)
    BY <1>1, <2>1 DEF RunsIssued
  <2>2. ASSUME NEW r \in Runs, NEW m \in messages, BeginCompleteRun(d, r, m)
        PROVE  call'[d].run \in issued'
    BY <1>1, <2>2 DEF BeginCompleteRun, RunsIssued, StoreTypeOK
  <2>3. ASSUME NEW r \in Runs, NEW m \in messages, BeginCreateRun(d, r, m)
        PROVE  call'[d].run \in issued'
    BY <2>3 DEF BeginCreateRun, StoreTypeOK
  <2>4. ASSUME NEW r \in Runs, NEW status \in FailStatus, BeginFailRun(d, r, status)
        PROVE  call'[d].run \in issued'
    BY <1>1, <2>4 DEF BeginFailRun, RunsIssued, StoreTypeOK
  <2> QED BY <1>3, <2>1, <2>2, <2>3, <2>4, CallStep
<1>4. RunsIssued'
  BY <1>2, <1>3 DEF RunsIssued
<1> QED BY <1>1, <1>4

\* The row of a pending create_run stays unwritten until its insert.
LEMMA InsertStep ==
  ASSUME StoreTypeOK, RunsIssued, InsertIsFirst, [StoreNext]_storeVars
  PROVE  InsertIsFirst'
<1> SUFFICES ASSUME NEW c \in Clients, call'[c] # Nil, call'[c].op = "insert_run"
             PROVE  /\ runs'[call'[c].run] = Nil
                    /\ \A d \in Clients : UsesRun(d)' /\ call'[d].run = call'[c].run => d = c
  BY DEF InsertIsFirst
<1>1. CASE call'[c] = call[c] /\ UsesRun(c)
  <2> DEFINE q == call[c].run
  <2>1. q \in Runs /\ q \in issued /\ runs[q] = Nil
    BY <1>1, CallType DEF RunsIssued, InsertIsFirst
  <2>2. ~MarkInterrupted(q) \/ runs'[q] = Nil
    BY <2>1 DEF MarkInterrupted, Interrupted
  <2>3. ASSUME NEW d \in Clients, InsertRun(d), call[d].run = q
        PROVE  FALSE
    <3>1. d = c
      BY <1>1, <2>3 DEF InsertRun, Idle, UsesRun, InsertIsFirst
    <3> QED BY <1>1, <2>3, <3>1 DEF InsertRun, Return, StoreTypeOK
  <2>4. ASSUME NEW d \in Clients, NEW s \in Sessions, CreateUserTurn(d, s, q)
        PROVE  FALSE
    BY <2>1, <2>4 DEF CreateUserTurn
  <2>5. runs'[q] = Nil
    BY <2>1, <2>2, <2>3, <2>4, RowStep
  <2>6. ASSUME NEW d \in Clients, UsesRun(d)', call'[d].run = q
        PROVE  d = c
    <3>1. CASE call'[d] = call[d] /\ UsesRun(d)
      BY <1>1, <2>6, <3>1 DEF InsertIsFirst
    <3>2. ASSUME NEW r \in Runs, NEW m \in messages, BeginCompleteRun(d, r, m)
          PROVE  FALSE
      BY <2>1, <2>6, <3>2 DEF BeginCompleteRun, StoreTypeOK
    <3>3. ASSUME NEW r \in Runs, NEW m \in messages, BeginCreateRun(d, r, m)
          PROVE  FALSE
      BY <2>1, <2>6, <3>3 DEF BeginCreateRun, StoreTypeOK
    <3>4. ASSUME NEW r \in Runs, NEW status \in FailStatus, BeginFailRun(d, r, status)
          PROVE  FALSE
      BY <2>1, <2>6, <3>4 DEF BeginFailRun, StoreTypeOK
    <3> QED BY <2>6, <3>1, <3>2, <3>3, <3>4, CallStep
  <2> QED BY <1>1, <2>5, <2>6
<1>2. ASSUME NEW r \in Runs, NEW m \in messages, BeginCreateRun(c, r, m)
      PROVE  /\ runs'[call'[c].run] = Nil
             /\ \A d \in Clients : UsesRun(d)' /\ call'[d].run = call'[c].run => d = c
  <2>1. call'[c].run = r /\ runs'[r] = Nil
    BY <1>2 DEF BeginCreateRun, StoreTypeOK, RunsIssued, tables
  <2>2. ASSUME NEW d \in Clients, UsesRun(d)', call'[d].run = r, d # c
        PROVE  FALSE
    <3>1. call'[d] = call[d] /\ UsesRun(d)
      BY <1>2, <2>2 DEF BeginCreateRun, StoreTypeOK, UsesRun
    <3> QED BY <1>2, <2>2, <3>1 DEF RunsIssued, BeginCreateRun
  <2> QED BY <2>1, <2>2
<1>3. ASSUME NEW r \in Runs,
             \/ \E m \in messages : BeginCompleteRun(c, r, m)
             \/ \E status \in FailStatus : BeginFailRun(c, r, status)
      PROVE  FALSE
  BY <1>3 DEF BeginCompleteRun, BeginFailRun, StoreTypeOK
<1>4. UsesRun(c)'
  BY DEF UsesRun
<1> QED BY <1>1, <1>2, <1>3, <1>4, CallStep
\* A completion or failure that is written back finds the row it was read from.
LEMMA UpdateStep ==
  ASSUME StoreTypeOK, RunsIssued, InsertIsFirst, UpdateSameSession, [StoreNext]_storeVars
  PROVE  UpdateSameSession'
<1> SUFFICES ASSUME NEW c \in Clients, call'[c] # Nil, call'[c].op = "update",
                    runs'[call'[c].run] # Nil
             PROVE  call'[c].row.session = runs'[call'[c].run].session
  BY DEF UpdateSameSession
<1>1. CASE call'[c] = call[c] /\ UsesRun(c)
  <2> DEFINE q == call[c].run
  <2>1. q \in Runs /\ q \in issued
    BY <1>1, CallType DEF RunsIssued
  <2>2. runs[q] # Nil => call[c].row.session = runs[q].session
    BY <1>1 DEF UpdateSameSession, UsesRun
  <2>3. MarkInterrupted(q) => runs[q] # Nil /\ runs'[q].session = runs[q].session
    BY <1>1, <2>1 DEF MarkInterrupted, Interrupted, StoreTypeOK, RunRow
  <2>4. ASSUME NEW d \in Clients, UpdateRun(d), call[d].run = q, runs[q] # Nil
        PROVE  runs'[q].session = runs[q].session
    BY <2>1, <2>4 DEF UpdateRun, Idle, UpdateSameSession, StoreTypeOK
  <2>5. ASSUME NEW d \in Clients, InsertRun(d), call[d].run = q
        PROVE  FALSE
    BY <1>1, <2>5 DEF InsertRun, Idle, UsesRun, InsertIsFirst, Return, StoreTypeOK
  <2>6. ASSUME NEW d \in Clients, NEW s \in Sessions, CreateUserTurn(d, s, q)
        PROVE  FALSE
    BY <2>1, <2>6 DEF CreateUserTurn
  <2> QED BY <1>1, <2>1, <2>2, <2>3, <2>4, <2>5, <2>6, RowStep
<1>2. ASSUME NEW r \in Runs, NEW m \in messages, BeginCompleteRun(c, r, m)
      PROVE  call'[c].row.session = runs'[call'[c].run].session
  BY <1>2 DEF BeginCompleteRun, Completed, StoreTypeOK, RunRow, tables
<1>3. ASSUME NEW r \in Runs, NEW status \in FailStatus, BeginFailRun(c, r, status)
      PROVE  call'[c].row.session = runs'[call'[c].run].session
  <2>1. [runs[r] EXCEPT !.status = status].session = runs[r].session
    BY <1>3 DEF BeginFailRun, StoreTypeOK, RunRow
  <2> QED BY <1>3, <2>1 DEF BeginFailRun, StoreTypeOK, tables
<1>4. ASSUME NEW r \in Runs, NEW m \in messages, BeginCreateRun(c, r, m)
      PROVE  FALSE
  BY <1>4 DEF BeginCreateRun, StoreTypeOK
<1>5. UsesRun(c)'
  BY DEF UsesRun
<1> QED BY <1>1, <1>2, <1>3, <1>4, <1>5, CallStep

-----------------------------------------------------------------------------
(* Rows and their parents *)

\* A session stays until it is deleted.
LEMMA SessionStep ==
  ASSUME StoreTypeOK, [StoreNext]_storeVars, NEW s \in Sessions, sessions[s] # Nil
  PROVE  sessions'[s] # Nil \/ \E c \in Clients : DeleteSession(c, s)
<1>1. ASSUME NEW c \in Clients, NEW u \in Sessions, CreateSession(c, u)
      PROVE  sessions'[s] # Nil
  BY <1>1 DEF CreateSession, StoreTypeOK
<1>2. ASSUME NEW c \in Clients, NEW u \in Sessions, DeleteSession(c, u)
      PROVE  sessions'[s] # Nil \/ u = s
  BY <1>2 DEF DeleteSession, StoreTypeOK
<1>3. \A u \in Sessions, last \in Runs \cup {Nil} : Sequenced(u, last)[s] # Nil
  <2>1. \A u \in Sessions, last \in Runs \cup {Nil} :
          [next |-> NextSeq(u) + 1, lastRun |-> last] \in SessionRow
    BY NextSeqType DEF SessionRow
  <2> QED BY <2>1, NilAssumption DEF Sequenced, StoreTypeOK
<1>4. ASSUME NEW c \in Clients, NEW u \in Sessions, NEW r \in Runs, CreateUserTurn(c, u, r)
      PROVE  sessions'[s] # Nil
  BY <1>3, <1>4 DEF CreateUserTurn
<1>5. ASSUME NEW c \in Clients, NEW u \in Sessions, NEW r \in Runs, NEW e \in EventIds,
             InsertEvent(c, u, r, e)
      PROVE  sessions'[s] # Nil
  BY <1>3, <1>5, LastRunType DEF InsertEvent
<1>6. ASSUME NEW c \in Clients, InsertMessage(c)
      PROVE  sessions'[s] # Nil
  <2>1. call[c].session \in Sessions
    BY <1>6 DEF InsertMessage, Idle, Call, StoreTypeOK
  <2> QED BY <1>3, <1>6, <2>1, LastRunType DEF InsertMessage
<1>7. ASSUME NEW c \in Clients, UpdateRun(c) \/ InsertRun(c)
      PROVE  sessions'[s] # Nil
  <2>1. call[c].run \in Runs /\ call[c].row.session \in Sessions
    BY <1>7, CallType DEF UpdateRun, InsertRun, Idle, UsesRun
  <2>2. sessions' \in {sessions, Touched(call[c].row.session, call[c].run)}
    BY <1>7 DEF UpdateRun, InsertRun
  <2> QED BY <2>1, <2>2, TouchedKeepsNext
<1>8. CASE UNCHANGED sessions
  BY <1>8
<1> QED
  BY <1>1, <1>2, <1>4, <1>5, <1>6, <1>7, <1>8
  DEF StoreNext, StoreStep, storeVars, tables, BeginAppend, IssueRunId, BeginCompleteRun,
      BeginCreateRun, BeginFailRun, MarkInterruptedRuns, AbandonCalls

\* No operation leaves or makes a row without its session or run.
LEMMA OrphanStep ==
  ASSUME StoreTypeOK, RunsIssued, InsertIsFirst, UpdateSameSession, NoOrphanRows,
         [StoreNext]_storeVars
  PROVE  NoOrphanRows'
<1>1. ASSUME NEW r \in Runs, runs'[r] # Nil
      PROVE  sessions'[runs'[r].session] # Nil
  <2>1. ASSUME NEW s \in Sessions, sessions[s] # Nil, runs'[r].session = s
        PROVE  sessions'[s] # Nil
    <3>1. ASSUME NEW c \in Clients, DeleteSession(c, s)
          PROVE  FALSE
      BY <1>1, <2>1, <3>1 DEF DeleteSession
    <3> QED BY <2>1, <3>1, SessionStep
  <2>2. CASE runs'[r] = runs[r]
    <3>1. runs[r].session \in Sessions
      BY <1>1, <2>2 DEF StoreTypeOK, RunRow
    <3> QED BY <1>1, <2>1, <2>2, <3>1 DEF NoOrphanRows
  <2>3. CASE MarkInterrupted(r)
    <3>1. runs[r] # Nil /\ runs'[r].session = runs[r].session /\ runs[r].session \in Sessions
      BY <1>1, <2>3 DEF MarkInterrupted, Interrupted, StoreTypeOK, RunRow
    <3> QED BY <2>1, <3>1 DEF NoOrphanRows
  <2>4. ASSUME NEW c \in Clients, UpdateRun(c), call[c].run = r, runs[r] # Nil
        PROVE  sessions'[runs'[r].session] # Nil
    <3>1. runs'[r].session = runs[r].session /\ runs[r].session \in Sessions
      BY <2>4 DEF UpdateRun, Idle, UpdateSameSession, StoreTypeOK, RunRow
    <3> QED BY <2>1, <2>4, <3>1 DEF NoOrphanRows
  <2>5. ASSUME NEW c \in Clients, InsertRun(c), call[c].run = r
        PROVE  sessions'[runs'[r].session] # Nil
    <3>1. runs[r] = Nil /\ call[c].row.session \in Sessions
      BY <2>5, CallType DEF InsertRun, Idle, UsesRun, InsertIsFirst
    <3>2. runs'[r] = call[c].row /\ sessions[call[c].row.session] # Nil
      BY <2>5, <3>1 DEF InsertRun, StoreTypeOK
    <3> QED BY <2>1, <3>1, <3>2
  <2>6. ASSUME NEW c \in Clients, NEW s \in Sessions, CreateUserTurn(c, s, r)
        PROVE  sessions'[runs'[r].session] # Nil
    <3>1. [next |-> NextSeq(s) + 1, lastRun |-> r] \in SessionRow
      BY NextSeqType DEF SessionRow
    <3>2. sessions'[s] # Nil
      BY <2>6, <3>1, NilAssumption DEF CreateUserTurn, Sequenced, StoreTypeOK
    <3> QED BY <2>6, <3>2 DEF CreateUserTurn, StoreTypeOK
  <2> QED BY <1>1, <2>2, <2>3, <2>4, <2>5, <2>6, RowStep
<1>2. ASSUME NEW e \in events', runs'[e.run] # Nil, e \in events
      PROVE  runs'[e.run].session = e.session
  <2> DEFINE r == e.run
  <2>1. r \in Runs /\ runs[r] # Nil /\ runs[r].session = e.session /\ r \in issued
    BY <1>2 DEF StoreTypeOK, Event, NoOrphanRows, RunsIssued
  <2>2. MarkInterrupted(r) => runs'[r].session = runs[r].session
    BY <2>1 DEF MarkInterrupted, Interrupted, StoreTypeOK, RunRow
  <2>3. ASSUME NEW c \in Clients, UpdateRun(c), call[c].run = r
        PROVE  runs'[r].session = runs[r].session
    BY <2>1, <2>3 DEF UpdateRun, Idle, UpdateSameSession, StoreTypeOK
  <2>4. ASSUME NEW c \in Clients, InsertRun(c), call[c].run = r
        PROVE  FALSE
    BY <2>1, <2>4 DEF InsertRun, Idle, InsertIsFirst
  <2>5. ASSUME NEW c \in Clients, NEW s \in Sessions, CreateUserTurn(c, s, r)
        PROVE  FALSE
    BY <2>1, <2>5 DEF CreateUserTurn
  <2> QED BY <1>2, <2>1, <2>2, <2>3, <2>4, <2>5, RowStep
<1>3. ASSUME NEW e \in events'
      PROVE  runs'[e.run] # Nil /\ runs'[e.run].session = e.session
  <2>1. ASSUME NEW c \in Clients, NEW s \in Sessions, NEW r \in Runs, NEW x \in EventIds,
               InsertEvent(c, s, r, x)
        PROVE  runs'[e.run] # Nil /\ runs'[e.run].session = e.session
    BY <2>1 DEF InsertEvent, CanInsertEvent, NoOrphanRows
  <2>2. ASSUME NEW c \in Clients, NEW s \in Sessions, DeleteSession(c, s)
        PROVE  runs'[e.run] # Nil /\ e \in events
    BY <2>2 DEF DeleteSession
  <2>3. ASSUME UNCHANGED events, runs'[e.run] = Nil
        PROVE  \E c \in Clients, s \in Sessions : DeleteSession(c, s)
    <3>1. e.run \in Runs /\ runs[e.run] # Nil
      BY <2>3 DEF StoreTypeOK, Event, NoOrphanRows
    <3>2. runs'[e.run] # Interrupted(runs[e.run])
      <4>1. runs[e.run] \in RunRow
        BY <3>1 DEF StoreTypeOK
      <4>2. Interrupted(runs[e.run]) \in RunRow
        BY <4>1 DEF Interrupted, RunRow, RunStatus
      <4> QED BY <2>3, <4>2, NilAssumption
    <3>3. ASSUME NEW c \in Clients, UpdateRun(c) \/ InsertRun(c)
          PROVE  FALSE
      <4>1. call[c].row \in RunRow
        BY <3>3, CallType DEF UpdateRun, InsertRun, Idle, UsesRun
      <4> QED BY <2>3, <3>1, <3>3, <4>1, NilAssumption DEF UpdateRun, InsertRun, StoreTypeOK
    <3>4. ASSUME NEW c \in Clients, NEW s \in Sessions, NEW r \in Runs, CreateUserTurn(c, s, r)
          PROVE  FALSE
      BY <2>3, <3>1, <3>4, TypeStep, NilAssumption
      DEF CreateUserTurn, StoreTypeOK, RunsIssued
    <3>5. ASSUME NEW c \in Clients, MarkInterruptedRuns(c)
          PROVE  FALSE
      BY <3>1, <3>2, <3>5 DEF MarkInterruptedRuns
    <3> QED
      BY <2>3, <3>1, <3>3, <3>4, <3>5
      DEF StoreNext, StoreStep, storeVars, tables, CreateSession, BeginAppend, IssueRunId,
          InsertEvent, BeginCompleteRun, BeginCreateRun, BeginFailRun, InsertMessage, AbandonCalls
  <2>4. \/ UNCHANGED events
        \/ \E c \in Clients, s \in Sessions : DeleteSession(c, s)
        \/ \E c \in Clients, s \in Sessions, r \in Runs, x \in EventIds : InsertEvent(c, s, r, x)
    BY DEF StoreNext, StoreStep, storeVars, tables, CreateSession, CreateUserTurn, BeginAppend,
           IssueRunId, BeginCompleteRun, BeginCreateRun, BeginFailRun, InsertMessage, UpdateRun,
           InsertRun, MarkInterruptedRuns, AbandonCalls
  <2> QED BY <1>2, <2>1, <2>2, <2>3, <2>4
<1> QED BY <1>1, <1>3 DEF NoOrphanRows
-----------------------------------------------------------------------------
(* A completed run and its answer *)

\* A message stays until its session is deleted.
LEMMA MessageStep ==
  ASSUME [StoreNext]_storeVars, NEW m \in messages
  PROVE  m \in messages' \/ \E c \in Clients, s \in Sessions : DeleteSession(c, s) /\ m.session = s
BY DEF StoreNext, StoreStep, storeVars, tables, CreateSession, DeleteSession, CreateUserTurn,
       BeginAppend, IssueRunId, InsertEvent, BeginCompleteRun, BeginCreateRun, BeginFailRun,
       InsertMessage, UpdateRun, InsertRun, MarkInterruptedRuns, AbandonCalls

\* The answer of a row stays in the table as long as the stored run of that
\* session does.
LEMMA AnswerStays ==
  ASSUME StoreTypeOK, [StoreNext]_storeVars, NEW q \in Runs, NEW row,
         HasAnswer(q, row), runs[q] # Nil, runs[q].session = row.session, runs'[q] # Nil
  PROVE  HasAnswer(q, row)'
<1>1. ASSUME NEW c \in Clients, NEW s \in Sessions, DeleteSession(c, s), row.final.session = s
      PROVE  FALSE
  BY <1>1 DEF DeleteSession, HasAnswer
<1> QED BY <1>1, MessageStep DEF HasAnswer

\* A row that is or will be written as completed keeps its answer.
LEMMA AnswerStep ==
  ASSUME StoreTypeOK, RunsIssued, InsertIsFirst, UpdateSameSession, UpdateHasAnswer,
         CompletedHasAnswer, [StoreNext]_storeVars
  PROVE  UpdateHasAnswer' /\ CompletedHasAnswer'
<1>1. ASSUME NEW c \in Clients, call'[c] # Nil, call'[c].op = "insert_run"
      PROVE  call'[c].row.status = "running"
  <2>1. CASE call'[c] = call[c] /\ UsesRun(c)
    BY <1>1, <2>1 DEF UpdateHasAnswer, UsesRun
  <2>2. ASSUME NEW r \in Runs, NEW m \in messages, BeginCreateRun(c, r, m)
        PROVE  call'[c].row.status = "running"
    BY <2>2 DEF BeginCreateRun, StoreTypeOK
  <2>3. ASSUME NEW r \in Runs,
               \/ \E m \in messages : BeginCompleteRun(c, r, m)
               \/ \E status \in FailStatus : BeginFailRun(c, r, status)
        PROVE  FALSE
    BY <1>1, <2>3 DEF BeginCompleteRun, BeginFailRun, StoreTypeOK
  <2>4. UsesRun(c)'
    BY <1>1 DEF UsesRun
  <2> QED BY <2>1, <2>2, <2>3, <2>4, CallStep
<1>2. ASSUME NEW c \in Clients, call'[c] # Nil, call'[c].op = "update",
             runs'[call'[c].run] # Nil, call'[c].row.status = "completed"
      PROVE  HasAnswer(call[c].run, call[c].row)' 
  <2>1. CASE call'[c] = call[c] /\ UsesRun(c)
    <3> DEFINE q == call[c].run
    <3>1. q \in Runs /\ q \in issued
      BY <2>1, CallType DEF RunsIssued
    <3>2. ASSUME NEW d \in Clients, InsertRun(d), call[d].run = q
          PROVE  FALSE
      BY <1>2, <2>1, <3>2 DEF InsertRun, Idle, UsesRun, InsertIsFirst, Return, StoreTypeOK
    <3>3. ASSUME NEW d \in Clients, NEW s \in Sessions, CreateUserTurn(d, s, q)
          PROVE  FALSE
      BY <3>1, <3>3 DEF CreateUserTurn
    <3>4. runs[q] # Nil
      BY <1>2, <2>1, <3>1, <3>2, <3>3, RowStep DEF MarkInterrupted, Interrupted
    <3>5. HasAnswer(q, call[c].row) /\ runs[q].session = call[c].row.session
      BY <1>2, <2>1, <3>4 DEF UpdateHasAnswer, UpdateSameSession
    <3>6. ASSUME NEW row, row = call[c].row
          PROVE  HasAnswer(q, row)'
      BY <1>2, <2>1, <3>1, <3>4, <3>5, <3>6, AnswerStays
    <3> QED BY <2>1, <3>6 DEF HasAnswer
  <2>2. ASSUME NEW r \in Runs, NEW m \in messages, BeginCompleteRun(c, r, m)
        PROVE  HasAnswer(call[c].run, call[c].row)'
    <3>1. Completed(runs[r], m).final = m /\ Completed(runs[r], m).session = runs[r].session
      BY <2>2 DEF BeginCompleteRun, Completed, StoreTypeOK, RunRow
    <3> QED BY <2>2, <3>1 DEF BeginCompleteRun, HasAnswer, StoreTypeOK, tables
  <2>3. ASSUME NEW r \in Runs, NEW status \in FailStatus, BeginFailRun(c, r, status)
        PROVE  FALSE
    <3>1. [runs[r] EXCEPT !.status = status].status = status /\ status # "completed"
      BY <2>3, StoreAssumption DEF BeginFailRun, StoreTypeOK, RunRow
    <3> QED BY <1>2, <2>3, <3>1 DEF BeginFailRun, StoreTypeOK
  <2>4. ASSUME NEW r \in Runs, NEW m \in messages, BeginCreateRun(c, r, m)
        PROVE  FALSE
    BY <1>2, <2>4 DEF BeginCreateRun, StoreTypeOK
  <2>5. UsesRun(c)'
    BY <1>2 DEF UsesRun
  <2> QED BY <2>1, <2>2, <2>3, <2>4, <2>5, CallStep
<1>3. ASSUME NEW r \in Runs, runs'[r] # Nil, runs'[r].status = "completed"
      PROVE  HasAnswer(r, runs[r])'
  <2>1. CASE runs'[r] = runs[r]
    <3>1. HasAnswer(r, runs[r])
      BY <1>3, <2>1 DEF CompletedHasAnswer, HasAnswer
    <3>2. ASSUME NEW row, row = runs[r]
          PROVE  HasAnswer(r, row)'
      BY <1>3, <2>1, <3>1, <3>2, AnswerStays
    <3> QED BY <2>1, <3>2 DEF HasAnswer
  <2>2. CASE MarkInterrupted(r)
    <3>1. runs[r] # Nil => [runs[r] EXCEPT !.status = "interrupted"].status = "interrupted"
      BY DEF StoreTypeOK, RunRow
    <3>2. runs'[r] = runs[r]
      BY <1>3, <2>2, <3>1 DEF MarkInterrupted, Interrupted
    <3> QED BY <2>1, <3>2
  <2>3. ASSUME NEW c \in Clients, UpdateRun(c), call[c].run = r, runs[r] # Nil
        PROVE  HasAnswer(r, runs[r])'
    <3>1. runs'[r] = call[c].row /\ call[c] # Nil /\ call[c].op = "update"
      BY <2>3 DEF UpdateRun, Idle, StoreTypeOK
    <3>2. HasAnswer(r, call[c].row) /\ UNCHANGED messages
      BY <1>3, <2>3, <3>1 DEF UpdateHasAnswer, UpdateRun
    <3> QED BY <3>1, <3>2 DEF HasAnswer
  <2>4. ASSUME NEW c \in Clients, InsertRun(c), call[c].run = r
        PROVE  FALSE
    <3>1. runs[r] = Nil
      BY <2>4 DEF InsertRun, Idle, InsertIsFirst
    <3>2. call[c].row.status = "running"
      BY <2>4 DEF InsertRun, Idle, UpdateHasAnswer
    <3> QED BY <1>3, <2>4, <3>1, <3>2 DEF InsertRun, StoreTypeOK
  <2>5. ASSUME NEW c \in Clients, NEW s \in Sessions, CreateUserTurn(c, s, r)
        PROVE  FALSE
    BY <1>3, <2>5 DEF CreateUserTurn, StoreTypeOK
  <2> QED BY <1>3, <2>1, <2>2, <2>3, <2>4, <2>5, RowStep
<1>4. UpdateHasAnswer'
  BY <1>1, <1>2 DEF UpdateHasAnswer, HasAnswer
<1>5. CompletedHasAnswer'
  BY <1>3 DEF CompletedHasAnswer, HasAnswer
<1> QED BY <1>4, <1>5

-----------------------------------------------------------------------------
(* The inductive invariant, and what it says of the store *)

\* The empty tables satisfy the invariant.
LEMMA InvInit == StoreInit => StoreInv
<1> SUFFICES ASSUME StoreInit PROVE StoreInv
  OBVIOUS
<1>1. StoreTypeOK
  BY TypeInit
<1>2. /\ \A r \in Runs : runs[r] = Nil
      /\ \A c \in Clients : call[c] = Nil
      /\ messages = {} /\ events = {}
  BY DEF StoreInit
<1> QED
  BY <1>1, <1>2
  DEF StoreInv, SeqBelowNext, TimelineSeqUnique, Timeline, RunsIssued, UsesRun, InsertIsFirst,
      UpdateSameSession, NoOrphanRows, UpdateHasAnswer, CompletedHasAnswer

LEMMA StoreInvStep ==
  ASSUME StoreInv, [StoreNext]_storeVars
  PROVE  StoreInv'
BY TypeStep, SeqStep, IssuedStep, InsertStep, UpdateStep, OrphanStep, AnswerStep DEF StoreInv

\* The strengthening that is inductive holds of the store in every reachable state:
\* see StoreInv for what pending writes may rely on.
THEOREM StoreInductive == StoreSpec => []StoreInv
<1>1. StoreInv /\ [StoreNext]_storeVars => StoreInv'
  BY StoreInvStep
<1> QED BY InvInit, <1>1, PTL DEF StoreSpec

\* Nothing of a deleted session is left or comes back, whatever stale writes of
\* its runs are still on their way.
THEOREM StoreNoOrphans == StoreSpec => []NoOrphanRows
<1>1. StoreInv => NoOrphanRows
  BY DEF StoreInv
<1> QED BY StoreInductive, <1>1, PTL

\* A run that is marked completed has an assistant message of its own.
THEOREM StoreAnswers == StoreSpec => []CompletedHasAnswer
<1>1. StoreInv => CompletedHasAnswer
  BY DEF StoreInv
<1> QED BY StoreInductive, <1>1, PTL

\* No operation but the deletion of a session takes an entry from its timeline or
\* lowers its counter.
LEMMA AppendStep ==
  ASSUME StoreInv, [StoreNext]_storeVars, NEW s \in Sessions, sessions[s] # Nil, sessions'[s] # Nil
  PROVE  Timeline(s) \subseteq Timeline(s)' /\ sessions[s].next <= sessions'[s].next
<1> USE DEF StoreInv
<1>0. sessions[s].next \in Nat
  BY DEF StoreTypeOK, SessionRow
<1>1. ASSUME messages \subseteq messages', events \subseteq events'
      PROVE  Timeline(s) \subseteq Timeline(s)'
  BY <1>1 DEF Timeline
<1>2. ASSUME NEW c \in Clients, NEW u \in Sessions, CreateSession(c, u)
      PROVE  Timeline(s) \subseteq Timeline(s)' /\ sessions[s].next <= sessions'[s].next
  BY <1>0, <1>1, <1>2 DEF CreateSession, StoreTypeOK
<1>3. ASSUME NEW c \in Clients, NEW u \in Sessions, DeleteSession(c, u)
      PROVE  Timeline(s) \subseteq Timeline(s)' /\ sessions[s].next <= sessions'[s].next
  <2>1. u # s
    BY <1>3 DEF DeleteSession, StoreTypeOK
  <2>2. \A e \in events : e.session = s => e \in events'
    BY <1>3, <2>1 DEF DeleteSession, NoOrphanRows, StoreTypeOK, Event
  <2>3. \A m \in messages : m.session = s => m \in messages'
    BY <1>3, <2>1 DEF DeleteSession
  <2>4. sessions'[s] = sessions[s]
    BY <1>3, <2>1 DEF DeleteSession, StoreTypeOK
  <2> QED BY <1>0, <2>2, <2>3, <2>4 DEF Timeline
<1>4. ASSUME NEW u \in Sessions, NEW last \in Runs \cup {Nil}, sessions' = Sequenced(u, last)
      PROVE  sessions[s].next <= sessions'[s].next
  BY <1>0, <1>4, NextSeqType DEF Sequenced, NextSeq, StoreTypeOK
<1>5. ASSUME NEW c \in Clients, NEW u \in Sessions, NEW r \in Runs, CreateUserTurn(c, u, r)
      PROVE  Timeline(s) \subseteq Timeline(s)' /\ sessions[s].next <= sessions'[s].next
  BY <1>1, <1>4, <1>5 DEF CreateUserTurn
<1>6. ASSUME NEW c \in Clients, NEW u \in Sessions, NEW r \in Runs, NEW e \in EventIds,
             InsertEvent(c, u, r, e)
      PROVE  Timeline(s) \subseteq Timeline(s)' /\ sessions[s].next <= sessions'[s].next
  BY <1>0, <1>1, <1>4, <1>6, LastRunType DEF InsertEvent
<1>7. ASSUME NEW c \in Clients, InsertMessage(c)
      PROVE  Timeline(s) \subseteq Timeline(s)' /\ sessions[s].next <= sessions'[s].next
  <2>1. call[c].session \in Sessions
    BY <1>7 DEF InsertMessage, Idle, Call, StoreTypeOK
  <2> QED BY <1>1, <1>4, <1>7, <2>1, LastRunType DEF InsertMessage
<1>8. ASSUME NEW c \in Clients, UpdateRun(c) \/ InsertRun(c)
      PROVE  Timeline(s) \subseteq Timeline(s)' /\ sessions[s].next <= sessions'[s].next
  <2>1. call[c].run \in Runs /\ call[c].row.session \in Sessions
    BY <1>8, CallType DEF UpdateRun, InsertRun, Idle, UsesRun
  <2>2. sessions' \in {sessions, Touched(call[c].row.session, call[c].run)}
    BY <1>8 DEF UpdateRun, InsertRun
  <2>3. UNCHANGED <<messages, events>>
    BY <1>8 DEF UpdateRun, InsertRun
  <2> QED BY <1>0, <1>1, <2>1, <2>2, <2>3, TouchedKeepsNext
<1>9. CASE UNCHANGED <<sessions, messages, events>>
  BY <1>0, <1>1, <1>9
<1> QED
  BY <1>2, <1>3, <1>5, <1>6, <1>7, <1>8, <1>9
  DEF StoreNext, StoreStep, storeVars, tables, BeginAppend, IssueRunId, BeginCompleteRun,
      BeginCreateRun, BeginFailRun, MarkInterruptedRuns, AbandonCalls

\* An entry of a timeline keeps its place and its number until its session is
\* deleted, and a session's counter never goes back.
THEOREM StoreAppendOnly == StoreSpec => TimelineAppendOnly
<1>1. StoreInv /\ [StoreNext]_storeVars
      => [\A s \in Sessions : sessions[s] # Nil /\ sessions'[s] # Nil =>
            /\ Timeline(s) \subseteq Timeline(s)'
            /\ sessions[s].next <= sessions'[s].next]_storeVars
  BY AppendStep
<1> QED BY StoreInductive, <1>1, PTL DEF StoreSpec, TimelineAppendOnly

-----------------------------------------------------------------------------
(* With summaries.  Summarising (SummaryStore) keeps the types and leaves  *)
(* the tables alone, so what is proved of the store holds with any number  *)
(* of threads that summarise.                                              *)

\* The messages of a table are finitely many, so some are the newest.
SummaryInv ==
  /\ SummaryTypeOK
  /\ IsFiniteSet(messages)

-----------------------------------------------------------------------------
(* The tables *)

\* Steps of a client that summarises read the tables only.
LEMMA SummaryStepReads ==
  ASSUME NEW c \in Clients, SummaryStep(c)
  PROVE  UNCHANGED storeVars
BY DEF SummaryStep, BeginSummary, GatherCandidates, CheckRange, InsertSummary, AbandonSummary

\* A step with summaries is a step of the store or changes none of its tables.
LEMMA SummaryStoreStep ==
  ASSUME [SummaryNext]_summaryVars
  PROVE  [StoreNext]_storeVars
<1>1. CASE TableStep
  BY <1>1 DEF TableStep, StoreNext
<1>2. ASSUME NEW c \in Clients, SummaryStep(c) PROVE UNCHANGED storeVars
  BY <1>2, SummaryStepReads
<1>3. CASE UNCHANGED summaryVars
  BY <1>3 DEF summaryVars
<1> QED BY <1>1, <1>2, <1>3 DEF SummaryNext

\* The store with its summaries implements the store (maybe_auto_summarize and
\* update_summary write to no table that the other operations read).
THEOREM SummaryRefinesStore == SummarySpec => StoreSpec
<1>1. SummaryInit => StoreInit
  BY DEF SummaryInit
<1>2. [SummaryNext]_summaryVars => [StoreNext]_storeVars
  BY SummaryStoreStep
<1> QED BY <1>1, <1>2, PTL DEF SummarySpec, StoreSpec

\* So its timelines, rows and answers stay as they must while any number of
\* threads summarise.
THEOREM SummaryKeepsStoreSound ==
  SummarySpec => [](TimelineSeqUnique /\ NoOrphanRows /\ CompletedHasAnswer) /\ TimelineAppendOnly
BY SummaryRefinesStore, StoreSequence, StoreNoOrphans, StoreAnswers, StoreAppendOnly, PTL

-----------------------------------------------------------------------------
(* Types *)

\* A finite set of numbers that is not empty has a largest one: of the sets of
\* what is above an element, a smallest one is empty.
LEMMA LargestOfSome ==
  ASSUME NEW S \in SUBSET Nat, IsFiniteSet(S), S # {}
  PROVE  \E x \in S : \A y \in S : y <= x
<1> DEFINE Above(x) == {y \in S : y > x}
           R == StrictSubsetOrdering(S)
           T == {Above(x) : x \in S}
<1>1. IsWellFoundedOn(R, FiniteSubsetsOf(S))
  BY FS_StrictSubsetOrderingWellFounded
<1>2. T \subseteq FiniteSubsetsOf(S) /\ T # {}
  <2>1. ASSUME NEW x \in S PROVE Above(x) \in FiniteSubsetsOf(S)
    <3>1. Above(x) \in SUBSET S
      OBVIOUS
    <3>2. IsFiniteSet(Above(x))
      BY <3>1, FS_Subset
    <3> QED BY <3>1, <3>2 DEF FiniteSubsetsOf
  <2> QED BY <2>1
<1> HIDE DEF R
<1>3. \E U \in T : \A V \in T : <<V, U>> \notin R
  <2> HIDE DEF T
  <2> QED BY <1>1, <1>2, WFMin
<1>4. PICK x \in S : \A y \in S : <<Above(y), Above(x)>> \notin R
  BY <1>3
<1>5. ASSUME NEW y \in S, y > x PROVE FALSE
  <2>1. x \in Nat /\ y \in Nat /\ \A z \in S : z \in Nat
    OBVIOUS
  <2>2. ASSUME NEW z \in Above(y) PROVE z \in Above(x)
    <3>1. z \in S /\ z > y
      BY <2>2
    <3> QED BY <3>1, <2>1, <1>5
  <2>3. y \in Above(x) /\ Above(y) \in SUBSET S /\ Above(x) \in SUBSET S
    BY <1>5
  <2>4. y \notin Above(y)
    BY <2>1
  <2>5. <<Above(y), Above(x)>> \in R
    BY <2>2, <2>3, <2>4 DEF R, StrictSubsetOrdering
  <2> QED BY <2>5, <1>4
<1>6. \A y \in S : y <= x
  BY <1>5
<1> QED BY <1>6

\* The last number of some messages is the number of one of them.
LEMMA LastIsOfSome ==
  ASSUME NEW S \in SUBSET Message, IsFiniteSet(S), S # {}
  PROVE  \E m \in S : m.seq = LastSeq(S) /\ \A k \in S : k.seq <= m.seq
<1> DEFINE T == {m.seq : m \in S}
           f == [m \in S |-> m.seq]
<1>1. T \in SUBSET Nat /\ T # {} /\ \A n \in T : n \in Nat \ {0}
  BY DEF Message
<1>2. f \in Surjection(S, T)
  BY DEF Surjection
<1>3. IsFiniteSet(T)
  <2> HIDE DEF f, T
  <2> QED BY <1>2, FS_Surjection
<1>4. \E n \in T : \A k \in T : k <= n
  <2> HIDE DEF T
  <2> QED BY <1>1, <1>3, LargestOfSome
<1>5. \E n \in T : \A m \in S : m.seq <= n
  BY <1>4
<1>6. LastSeq(S) \in T /\ \A m \in S : m.seq <= LastSeq(S)
  BY <1>5 DEF LastSeq
<1> QED BY <1>6

LEMMA LastSeqType ==
  ASSUME NEW S \in SUBSET Message, IsFiniteSet(S), S # {}
  PROVE  LastSeq(S) \in Nat \ {0}
BY LastIsOfSome DEF Message

\* A client that is summarising holds a draft of the kind its place asks for.
LEMMA DraftType ==
  ASSUME SummaryTypeOK, NEW c \in Clients, draft[c] # Nil
  PROVE  /\ draft[c].session \in Sessions
         /\ draft[c].at = "read" => draft[c].old \in Summary \cup {Nil}
         /\ draft[c].at # "read" => draft[c].new \in Summary
<1>1. draft[c] \in Draft
  BY DEF SummaryTypeOK
<1> QED BY <1>1 DEF Draft

\* What the model writes from the old summary and the candidates is a summary.
LEMMA WrittenType ==
  ASSUME SummaryInv, NEW s \in Sessions, NEW old \in Summary \cup {Nil},
         Cardinality(Candidates(s, old)) >= Batch
  PROVE  Written(s, old) \in Summary
<1> DEFINE S == Candidates(s, old)
<1>1. S \in SUBSET messages /\ messages \in SUBSET Message
  BY DEF SummaryInv, SummaryTypeOK, StoreTypeOK, Candidates, Conversation
<1>2. IsFiniteSet(S)
  BY <1>1, FS_Subset DEF SummaryInv
<1>3. S # {}
  BY FS_EmptySet, SummaryAssumption
<1>4. LastSeq(S) \in Nat \ {0}
  BY <1>1, <1>2, <1>3, LastSeqType
<1>5. Told(old) \in SUBSET (Message \cup {Nil})
  BY SummaryNilAssumption DEF Told, Summary
<1> QED BY <1>1, <1>4, <1>5 DEF Written, Summary

\* Messages that are deleted leave a summary a summary and a draft a draft.
LEMMA AgedType ==
  ASSUME NEW x \in Summary \cup {Nil}, messages' \in SUBSET Message
  PROVE  /\ Aged(x) \in Summary \cup {Nil}
         /\ Aged(x) = Nil <=> x = Nil
         /\ x # Nil => /\ Aged(x).to = x.to
                       /\ Aged(x).told = {IF m \in messages' THEN m ELSE Nil : m \in x.told}
<1>1. CASE x = Nil
  BY <1>1 DEF Aged
<1>2. CASE x # Nil
  <2>1. x \in Summary
    BY <1>2
  <2>2. {IF m \in messages' THEN m ELSE Nil : m \in x.told} \in SUBSET (Message \cup {Nil})
    OBVIOUS
  <2>3. Aged(x) = [x EXCEPT !.told = {IF m \in messages' THEN m ELSE Nil : m \in x.told}]
    BY <1>2 DEF Aged
  <2>4. Aged(x) \in Summary
    BY <2>1, <2>2, <2>3 DEF Summary
  <2> QED BY <1>2, <2>1, <2>3, <2>4, SummaryNilAssumption DEF Summary
<1> QED BY <1>1, <1>2

LEMMA AgedDraftType ==
  ASSUME NEW d \in Draft \cup {Nil}, messages' \in SUBSET Message
  PROVE  AgedDraft(d) \in Draft \cup {Nil}
<1>1. CASE d = Nil
  BY <1>1 DEF AgedDraft
<1>2. CASE d # Nil /\ d.at = "read"
  <2>1. d \in [at : {"read"}, session : Sessions, old : Summary \cup {Nil}]
    BY <1>2 DEF Draft
  <2>2. AgedDraft(d) = [d EXCEPT !.old = Aged(d.old)]
    BY <1>2 DEF AgedDraft
  <2>3. Aged(d.old) \in Summary \cup {Nil}
    BY <2>1, AgedType
  <2> QED BY <2>1, <2>2, <2>3 DEF Draft
<1>3. CASE d # Nil /\ d.at # "read"
  <2>1. d \in [at : {"compress", "insert"}, session : Sessions, new : Summary]
    BY <1>3 DEF Draft
  <2>2. AgedDraft(d) = [d EXCEPT !.new = Aged(d.new)]
    BY <1>3 DEF AgedDraft
  <2>3. Aged(d.new) \in Summary
    BY <2>1, AgedType, SummaryNilAssumption
  <2> QED BY <2>1, <2>2, <2>3 DEF Draft
<1> QED BY <1>1, <1>2, <1>3

\* A step of the store adds at most one message.
LEMMA MessagesStayFinite ==
  ASSUME IsFiniteSet(messages), [StoreNext]_storeVars
  PROVE  IsFiniteSet(messages')
<1>1. \/ messages' \in SUBSET messages
      \/ \E m : messages' = messages \cup {m}
  BY DEF StoreNext, StoreStep, storeVars, tables, CreateSession, DeleteSession, CreateUserTurn,
         BeginAppend, IssueRunId, InsertEvent, BeginCompleteRun, BeginCreateRun, BeginFailRun,
         InsertMessage, UpdateRun, InsertRun, MarkInterruptedRuns, AbandonCalls
<1> QED BY <1>1, FS_Subset, FS_AddElement

\* Every step keeps the types of the summaries.
LEMMA SummaryTypeStep ==
  ASSUME SummaryInv, [SummaryNext]_summaryVars
  PROVE  SummaryInv'
<1>1. StoreTypeOK' /\ IsFiniteSet(messages')
  BY SummaryStoreStep, TypeStep, MessagesStayFinite DEF SummaryInv, SummaryTypeOK
<1> SUFFICES current' \in [Sessions -> Summary \cup {Nil}] /\ draft' \in [Clients -> Draft \cup {Nil}]
  BY <1>1 DEF SummaryInv, SummaryTypeOK
<1> USE DEF SummaryInv, SummaryTypeOK
<1>2. CASE TableStep
  <2>1. messages' \in SUBSET Message
    BY <1>1 DEF StoreTypeOK
  <2>2. \A s \in Sessions : Aged(current[s]) \in Summary \cup {Nil}
    BY <2>1, AgedType
  <2>3. \A c \in Clients : AgedDraft(draft[c]) \in Draft \cup {Nil}
    BY <2>1, AgedDraftType
  <2> QED BY <1>2, <2>2, <2>3 DEF TableStep
<1>3. ASSUME NEW c \in Clients, NEW s \in Sessions, BeginSummary(c, s)
      PROVE  current' = current /\ draft' \in [Clients -> Draft \cup {Nil}]
  <2>1. current[s] \in Summary \cup {Nil}
    OBVIOUS
  <2>2. [at |-> "read", session |-> s, old |-> current[s]] \in Draft
    BY <2>1 DEF Draft
  <2> QED BY <1>3, <2>2 DEF BeginSummary
<1>4. ASSUME NEW c \in Clients, GatherCandidates(c)
      PROVE  current' = current /\ draft' \in [Clients -> Draft \cup {Nil}]
  <2> DEFINE s == draft[c].session
             old == draft[c].old
             drawn == IF Cardinality(Candidates(s, old)) < Batch THEN Nil
                      ELSE [at |-> "compress", session |-> s, new |-> Written(s, old)]
  <2>1. s \in Sessions /\ old \in Summary \cup {Nil}
    BY <1>4, DraftType DEF GatherCandidates, DraftAt
  <2>2. Cardinality(Candidates(s, old)) \in Nat
    <3>1. Candidates(s, old) \in SUBSET messages
      BY DEF Candidates, Conversation
    <3> QED BY <3>1, FS_Subset, FS_CardinalityType
  <2>3. CASE Cardinality(Candidates(s, old)) < Batch
    BY <1>4, <2>3 DEF GatherCandidates
  <2>4. CASE ~(Cardinality(Candidates(s, old)) < Batch)
    <3>1. Written(s, old) \in Summary
      BY <2>1, <2>2, <2>4, WrittenType, SummaryAssumption
    <3>2. [at |-> "compress", session |-> s, new |-> Written(s, old)] \in Draft
      BY <2>1, <3>1 DEF Draft
    <3> QED BY <1>4, <2>4, <3>2 DEF GatherCandidates
  <2> QED BY <2>3, <2>4
<1>5. ASSUME NEW c \in Clients, CheckRange(c)
      PROVE  current' = current /\ draft' \in [Clients -> Draft \cup {Nil}]
  <2> DEFINE s == draft[c].session
             new == [draft[c].new EXCEPT !.from = CoveredTo(current[s]) + 1]
  <2>1. s \in Sessions /\ draft[c].new \in Summary
    BY <1>5, DraftType DEF CheckRange, DraftAt
  <2>2. CoveredTo(current[s]) \in Nat
    BY <2>1, SummaryNilAssumption DEF CoveredTo, Summary
  <2>3. new \in Summary
    BY <2>1, <2>2 DEF Summary
  <2>4. [at |-> "insert", session |-> s, new |-> new] \in Draft
    BY <2>1, <2>3 DEF Draft
  <2>5. \/ draft' = [draft EXCEPT ![c] = [at |-> "insert", session |-> s, new |-> new]]
        \/ draft' = [draft EXCEPT ![c] = Nil]
    BY <1>5 DEF CheckRange
  <2> QED BY <1>5, <2>4, <2>5 DEF CheckRange
<1>6. ASSUME NEW c \in Clients, InsertSummary(c)
      PROVE  /\ current' \in [Sessions -> Summary \cup {Nil}]
             /\ draft' \in [Clients -> Draft \cup {Nil}]
  <2>1. draft[c].session \in Sessions /\ draft[c].new \in Summary
    BY <1>6, DraftType DEF InsertSummary, DraftAt
  <2> QED BY <1>6, <2>1 DEF InsertSummary, Discard
<1>7. ASSUME NEW c \in Clients, AbandonSummary(c)
      PROVE  current' = current /\ draft' \in [Clients -> Draft \cup {Nil}]
  BY <1>7 DEF AbandonSummary, Discard
<1>8. CASE UNCHANGED summaryVars
  BY <1>8 DEF summaryVars
<1> QED BY <1>2, <1>3, <1>4, <1>5, <1>6, <1>7, <1>8 DEF SummaryNext, SummaryStep

\* Summaries and drafts are what they are declared to be, in particular the last
\* number of the candidates exists, since there are at least Batch of them
\* (summarize, _build_chunks, update_summary).
THEOREM SummaryTyped == SummarySpec => []SummaryTypeOK
<1>1. SummaryInit => SummaryInv
  BY TypeInit, FS_EmptySet DEF SummaryInit, SummaryInv, SummaryTypeOK, StoreInit
<1>2. SummaryInv /\ [SummaryNext]_summaryVars => SummaryInv'
  BY SummaryTypeStep
<1>3. SummaryInv => SummaryTypeOK
  BY DEF SummaryInv
<1> QED BY <1>1, <1>2, <1>3, PTL DEF SummarySpec

-----------------------------------------------------------------------------
(* Nothing is forgotten.  What a summary says of its session, as far as its *)
(* messages are still there: its range ends at one of the messages it tells *)
(* and it tells every message up to there.                                  *)

TellsAll(x, C) ==
  x # Nil /\ Nil \notin x.told =>
    /\ \E m \in x.told \cap C : m.seq = x.to
    /\ {m \in C : m.seq <= x.to} \subseteq x.told

\* What a client that is summarising has read or made.
Made(d) == IF d.at = "read" THEN d.old ELSE d.new

\* The messages of session s among M.
Said(M, s) == {m \in M : m.session = s}

AllTell(cur, drawn, M) ==
  /\ \A s \in Sessions : TellsAll(cur[s], Said(M, s))
  /\ \A c \in Clients : drawn[c] # Nil => TellsAll(Made(drawn[c]), Said(M, drawn[c].session))

SummariesTell == AllTell(current, draft, messages)

TellInv == SummaryInv /\ StoreInv /\ SummariesTell

\* A new message takes the session's next number (_reserve_next_timeline_seq).
LEMMA NewMessageSeq ==
  ASSUME StoreInv, [StoreNext]_storeVars, NEW m \in messages', m \notin messages
  PROVE  m.seq = NextSeq(m.session)
<1>1. ASSUME NEW s \in Sessions, NEW r \in Runs, messages' = messages \cup {Question(s, r)}
      PROVE  m.seq = NextSeq(m.session)
  BY <1>1 DEF Question
<1>2. ASSUME NEW s, NEW r, messages' = messages \cup {Answer(s, r)}
      PROVE  m.seq = NextSeq(m.session)
  BY <1>2 DEF Answer
<1>3. ASSUME NEW c \in Clients, InsertMessage(c)
      PROVE  m.seq = NextSeq(m.session)
  BY <1>2, <1>3 DEF InsertMessage
<1>4. messages' # messages
  OBVIOUS
<1> QED
  BY <1>1, <1>3, <1>4
  DEF StoreNext, StoreStep, storeVars, tables, CreateSession, DeleteSession, CreateUserTurn,
      BeginAppend, IssueRunId, InsertEvent, BeginCompleteRun, BeginCreateRun, BeginFailRun,
      UpdateRun, InsertRun, MarkInterruptedRuns, AbandonCalls

\* A step of the store leaves a summary as complete as it was: a message that
\* comes is numbered past its range, and one that goes marks it.
LEMMA AgedTellsAll ==
  ASSUME StoreInv, [StoreNext]_storeVars, messages' \in SUBSET Message,
         NEW s \in Sessions, NEW x \in Summary \cup {Nil}, TellsAll(x, Conversation(s))
  PROVE  TellsAll(Aged(x), Conversation(s)')
<1> SUFFICES ASSUME x # Nil, Nil \notin Aged(x).told
             PROVE  /\ \E m \in Aged(x).told \cap Conversation(s)' : m.seq = Aged(x).to
                    /\ {m \in Conversation(s)' : m.seq <= Aged(x).to} \subseteq Aged(x).told
  BY AgedType DEF TellsAll
<1>1. Aged(x).to = x.to /\ Aged(x).told = {IF m \in messages' THEN m ELSE Nil : m \in x.told}
  BY AgedType
<1>2. x.told \in SUBSET messages' /\ Aged(x).told = x.told
  BY <1>1
<1>3. Nil \notin x.told
  BY <1>2, NilAssumption
<1>4. PICK n \in x.told \cap Conversation(s) : n.seq = x.to
  BY <1>3 DEF TellsAll
<1>5. n \in Conversation(s)'
  BY <1>2, <1>4 DEF Conversation
<1>6. ASSUME NEW m \in Conversation(s)', m.seq <= x.to
      PROVE  m \in x.told
  <2>1. CASE m \in messages
    BY <2>1, <1>3, <1>6 DEF TellsAll, Conversation
  <2>2. CASE m \notin messages
    <3>1. m.seq = NextSeq(s)
      BY <2>2, NewMessageSeq DEF Conversation
    <3>2. n \in Timeline(s)
      BY <1>4 DEF Timeline, Conversation
    <3>3. sessions[s] # Nil /\ n.seq < sessions[s].next
      BY <3>2 DEF StoreInv, SeqBelowNext
    <3>4. n.seq \in Nat /\ sessions[s].next \in Nat
      BY <1>4, <3>3 DEF StoreInv, StoreTypeOK, SessionRow, Conversation, Message
    <3> QED BY <3>1, <3>3, <3>4, <1>4, <1>6 DEF NextSeq
  <2> QED BY <2>1, <2>2
<1> QED BY <1>1, <1>2, <1>4, <1>5, <1>6

\* What is not recent stays so further back: an older message has at least as
\* many newer ones.
LEMMA OlderIsNotRecent ==
  ASSUME SummaryInv, NEW s \in Sessions,
         NEW m \in Conversation(s), NEW n \in Conversation(s) \ Recent(s), m.seq <= n.seq
  PROVE  m \notin Recent(s)
<1> DEFINE Newer(k) == {x \in Conversation(s) : x.seq > k.seq}
<1>1. \A x \in Conversation(s) : x.seq \in Nat
  BY DEF SummaryInv, SummaryTypeOK, StoreTypeOK, Conversation, Message
<1>2. Newer(n) \in SUBSET Newer(m)
  BY <1>1
<1>3. IsFiniteSet(Newer(m))
  <2>1. Newer(m) \in SUBSET messages
    BY DEF Conversation
  <2> QED BY <2>1, FS_Subset DEF SummaryInv
<1>4. Cardinality(Newer(n)) <= Cardinality(Newer(m)) /\ IsFiniteSet(Newer(n))
  BY <1>2, <1>3, FS_Subset
<1>5. Cardinality(Newer(n)) \in Nat /\ Cardinality(Newer(m)) \in Nat
  BY <1>3, <1>4, FS_CardinalityType
<1>6. ~(Cardinality(Newer(n)) < MaxRecent)
  BY DEF Recent
<1>7. ~(Cardinality(Newer(m)) < MaxRecent)
  BY <1>4, <1>5, <1>6, SummaryAssumption
<1> QED BY <1>7 DEF Recent

\* What the model is told, the old summary and the candidates, is everything up
\* to the last candidate.
LEMMA WrittenTellsAll ==
  ASSUME SummaryInv, NEW s \in Sessions, NEW old \in Summary \cup {Nil}, TellsAll(old, Conversation(s)),
         Cardinality(Candidates(s, old)) >= Batch
  PROVE  TellsAll(Written(s, old), Conversation(s))
<1> DEFINE S == Candidates(s, old)
           x == Written(s, old)
<1>1. S \in SUBSET messages /\ messages \in SUBSET Message /\ S \in SUBSET Conversation(s)
  BY DEF SummaryInv, SummaryTypeOK, StoreTypeOK, Candidates, Conversation
<1>2. IsFiniteSet(S)
  BY <1>1, FS_Subset DEF SummaryInv
<1>3. S # {}
  BY FS_EmptySet, SummaryAssumption
<1>4. PICK n \in S : n.seq = LastSeq(S)
  BY <1>1, <1>2, <1>3, LastIsOfSome
<1>5. x.told = Told(old) \cup S /\ x.to = n.seq
  BY <1>4 DEF Written
<1>6. ASSUME Nil \notin x.told, NEW m \in Conversation(s), m.seq <= n.seq
      PROVE  m \in x.told
  <2>1. m \notin Recent(s)
    BY <1>1, <1>6, OlderIsNotRecent DEF Candidates
  <2>2. CASE m.seq > CoveredTo(old)
    BY <1>5, <2>1, <2>2 DEF Candidates
  <2>3. CASE ~(m.seq > CoveredTo(old))
    <3>1. m.seq \in Nat \ {0} /\ CoveredTo(old) \in Nat
      BY <1>1 DEF Conversation, Message, CoveredTo, Summary
    <3>2. old # Nil /\ m.seq <= old.to
      BY <2>3, <3>1 DEF CoveredTo
    <3>3. m \in old.told
      BY <1>5, <1>6, <3>2 DEF TellsAll, Told
    <3> QED BY <1>5, <3>2, <3>3 DEF Told
  <2> QED BY <2>2, <2>3
<1> QED BY <1>1, <1>4, <1>5, <1>6 DEF TellsAll

\* A draft ages in what it has read or made and in nothing else.
LEMMA AgedDraftParts ==
  ASSUME NEW d \in Draft
  PROVE  AgedDraft(d).session = d.session /\ Made(AgedDraft(d)) = Aged(Made(d))
<1>0. d # Nil
  BY SummaryNilAssumption
<1>1. CASE d.at = "read"
  <2>1. d \in [at : {"read"}, session : Sessions, old : Summary \cup {Nil}]
    BY <1>1 DEF Draft
  <2>2. AgedDraft(d) = [d EXCEPT !.old = Aged(d.old)]
    BY <1>0, <1>1 DEF AgedDraft
  <2> QED BY <2>1, <2>2 DEF Made
<1>2. CASE d.at # "read"
  <2>1. d \in [at : {"compress", "insert"}, session : Sessions, new : Summary]
    BY <1>2 DEF Draft
  <2>2. AgedDraft(d) = [d EXCEPT !.new = Aged(d.new)]
    BY <1>0, <1>2 DEF AgedDraft
  <2> QED BY <2>1, <2>2 DEF Made
<1> QED BY <1>1, <1>2

\* Every step keeps the summaries complete.
LEMMA TellStep ==
  ASSUME TellInv, [SummaryNext]_summaryVars
  PROVE  TellInv'
<1>1. SummaryInv' /\ [StoreNext]_storeVars
  BY SummaryTypeStep, SummaryStoreStep DEF TellInv
<1>2. StoreInv'
  BY <1>1, StoreInvStep DEF TellInv
<1> SUFFICES SummariesTell'
  BY <1>1, <1>2 DEF TellInv
<1> USE DEF TellInv
<1>t. /\ \A s \in Sessions : current[s] \in Summary \cup {Nil}
      /\ \A c \in Clients : draft[c] \in Draft \cup {Nil}
      /\ current \in [Sessions -> Summary \cup {Nil}] /\ draft \in [Clients -> Draft \cup {Nil}]
  BY DEF SummaryInv, SummaryTypeOK
<1>3. CASE TableStep
  <2>1. messages' \in SUBSET Message
    BY <1>1 DEF SummaryInv, SummaryTypeOK, StoreTypeOK
  <2>2. ASSUME NEW s \in Sessions PROVE TellsAll(current'[s], Said(messages', s))
    <3>1. TellsAll(Aged(current[s]), Said(messages', s))
      BY <1>1, <1>t, <2>1, AgedTellsAll DEF Conversation, Said, SummariesTell, AllTell
    <3>2. current'[s] \in {Nil, Aged(current[s])}
      BY <1>3 DEF TableStep
    <3> QED BY <3>1, <3>2 DEF TellsAll
  <2>3. ASSUME NEW c \in Clients, draft'[c] # Nil
        PROVE  TellsAll(Made(draft'[c]), Said(messages', draft'[c].session))
    <3>1. draft'[c] = AgedDraft(draft[c]) /\ draft[c] # Nil
      BY <1>3, <2>3 DEF TableStep, AgedDraft
    <3>2. draft[c].session \in Sessions /\ Made(draft[c]) \in Summary \cup {Nil}
      BY <3>1, DraftType DEF Made, SummaryInv
    <3>3. draft'[c].session = draft[c].session /\ Made(draft'[c]) = Aged(Made(draft[c]))
      BY <3>1, <1>t, AgedDraftParts
    <3>4. TellsAll(Aged(Made(draft[c])), Said(messages', draft[c].session))
      BY <1>1, <2>1, <3>1, <3>2, AgedTellsAll DEF Conversation, Said, SummariesTell, AllTell
    <3> QED BY <3>3, <3>4 
  <2> QED BY <2>2, <2>3 DEF SummariesTell, AllTell
<1>4. ASSUME UNCHANGED storeVars, NEW c \in Clients, draft' = [draft EXCEPT ![c] = Nil],
             current' = current
      PROVE  SummariesTell'
  BY <1>4, <1>t DEF SummariesTell, AllTell, storeVars, tables
<1>5. ASSUME UNCHANGED storeVars, current' = current, NEW c \in Clients, NEW d \in Draft,
             draft' = [draft EXCEPT ![c] = d], TellsAll(Made(d), Said(messages, d.session))
      PROVE  SummariesTell'
  <2>1. messages' = messages
    BY <1>5 DEF storeVars, tables
  <2>3. ASSUME NEW b \in Clients, draft'[b] # Nil
        PROVE  TellsAll(Made(draft'[b]), Said(messages', draft'[b].session))
    <3>1. CASE b = c
      BY <3>1, <1>5, <1>t, <2>1
    <3>2. CASE b # c
      <4>1. draft'[b] = draft[b] /\ draft[b] # Nil /\ draft[b].session \in Sessions
        BY <3>2, <1>5, <1>t, <2>3, DraftType DEF SummaryInv
      <4> QED BY <4>1, <2>1 DEF SummariesTell, AllTell
    <3> QED BY <3>1, <3>2
  <2> QED BY <1>5, <2>1, <2>3 DEF SummariesTell, AllTell
<1>6. ASSUME NEW c \in Clients, NEW s \in Sessions, BeginSummary(c, s)
      PROVE  SummariesTell'
  <2> DEFINE d == [at |-> "read", session |-> s, old |-> current[s]]
  <2>1. d \in Draft /\ Made(d) = current[s] /\ d.session = s
    BY <1>t DEF Draft, Made
  <2>2. TellsAll(Made(d), Said(messages, d.session))
    BY <2>1 DEF SummariesTell, AllTell
  <2> QED BY <1>5, <1>6, <2>1, <2>2 DEF BeginSummary
<1>7. ASSUME NEW c \in Clients, GatherCandidates(c)
      PROVE  SummariesTell'
  <2> DEFINE s == draft[c].session
             old == draft[c].old
             d == [at |-> "compress", session |-> s, new |-> Written(s, old)]
  <2>1. s \in Sessions /\ old \in Summary \cup {Nil} /\ TellsAll(old, Said(messages, s))
    BY <1>7, DraftType DEF GatherCandidates, DraftAt, SummaryInv, SummariesTell, AllTell, Made
  <2>2. Cardinality(Candidates(s, old)) \in Nat
    <3>1. Candidates(s, old) \in SUBSET messages
      BY DEF Candidates, Conversation
    <3> QED BY <3>1, FS_Subset, FS_CardinalityType DEF SummaryInv
  <2>3. CASE Cardinality(Candidates(s, old)) < Batch
    BY <1>4, <1>7, <2>3 DEF GatherCandidates
  <2>4. CASE ~(Cardinality(Candidates(s, old)) < Batch)
    <3>1. Written(s, old) \in Summary /\ TellsAll(Written(s, old), Said(messages, s))
      BY <2>1, <2>2, <2>4, WrittenType, WrittenTellsAll, SummaryAssumption DEF Said, Conversation
    <3>2. d \in Draft /\ Made(d) = Written(s, old) /\ d.session = s
      BY <2>1, <3>1 DEF Draft, Made
    <3> QED BY <1>5, <1>7, <2>4, <3>1, <3>2 DEF GatherCandidates
  <2> QED BY <2>3, <2>4
<1>8. ASSUME NEW c \in Clients, CheckRange(c)
      PROVE  SummariesTell'
  <2> DEFINE s == draft[c].session
             new == [draft[c].new EXCEPT !.from = CoveredTo(current[s]) + 1]
             d == [at |-> "insert", session |-> s, new |-> new]
  <2>1. s \in Sessions /\ draft[c].new \in Summary /\ TellsAll(draft[c].new, Said(messages, s))
    BY <1>8, DraftType DEF CheckRange, DraftAt, SummaryInv, SummariesTell, AllTell, Made
  <2>2. CoveredTo(current[s]) \in Nat
    BY <2>1, <1>t DEF CoveredTo, Summary
  <2>3. new \in Summary /\ new.told = draft[c].new.told /\ new.to = draft[c].new.to
    BY <2>1, <2>2 DEF Summary
  <2>4. TellsAll(new, Said(messages, s))
    BY <2>1, <2>3, SummaryNilAssumption DEF TellsAll
  <2>5. d \in Draft /\ Made(d) = new /\ d.session = s
    BY <2>1, <2>3 DEF Draft, Made
  <2>6. \/ draft' = [draft EXCEPT ![c] = d]
        \/ draft' = [draft EXCEPT ![c] = Nil]
    BY <1>8 DEF CheckRange
  <2>7. UNCHANGED storeVars /\ current' = current
    BY <1>8 DEF CheckRange
  <2> HIDE DEF d, new
  <2> QED BY <1>4, <1>5, <2>4, <2>5, <2>6, <2>7
<1>9. ASSUME NEW c \in Clients, InsertSummary(c)
      PROVE  SummariesTell'
  <2> DEFINE s == draft[c].session
  <2>1. s \in Sessions /\ draft[c].new \in Summary /\ TellsAll(draft[c].new, Said(messages, s))
    BY <1>9, DraftType DEF InsertSummary, DraftAt, SummaryInv, SummariesTell, AllTell, Made
  <2>2. current' = [current EXCEPT ![s] = draft[c].new] /\ draft' = [draft EXCEPT ![c] = Nil]
    BY <1>9 DEF InsertSummary, Discard
  <2>3. messages' = messages
    BY <1>9 DEF InsertSummary, storeVars, tables
  <2> HIDE DEF s
  <2>4. \A u \in Sessions : TellsAll(current'[u], Said(messages', u))
    BY <2>1, <2>2, <2>3, <1>t DEF SummariesTell, AllTell
  <2>5. \A b \in Clients : draft'[b] # Nil => draft'[b] = draft[b] /\ draft[b] # Nil
    BY <2>2, <1>t
  <2>6. \A b \in Clients : draft'[b] # Nil
          => TellsAll(Made(draft'[b]), Said(messages', draft'[b].session))
    BY <2>3, <2>5 DEF SummariesTell, AllTell
  <2> QED BY <2>4, <2>6 DEF SummariesTell, AllTell
<1>10. ASSUME NEW c \in Clients, AbandonSummary(c)
       PROVE  SummariesTell'
  BY <1>4, <1>10 DEF AbandonSummary, Discard
<1>11. CASE UNCHANGED summaryVars
  BY <1>11 DEF summaryVars, storeVars, tables, SummariesTell, AllTell
<1> QED BY <1>3, <1>6, <1>7, <1>8, <1>9, <1>10, <1>11 DEF SummaryNext, SummaryStep

\* Summaries forget nothing: whatever the order in which the old summary, the
\* messages and the range are read, checked and written, and whoever summarises
\* or writes messages in between, a current summary tells every message it
\* stands for (summarize, _build_candidate, _build_chunks, update_summary).
THEOREM SummariesForgetNothing == SummarySpec => []NothingForgotten
<1>1. SummaryInit => TellInv
  <2>1. SummaryInit => SummaryInv /\ StoreInv
    BY TypeInit, InvInit, FS_EmptySet DEF SummaryInit, SummaryInv, SummaryTypeOK, StoreInit
  <2>2. SummaryInit => SummariesTell
    BY DEF SummaryInit, SummariesTell, AllTell, TellsAll
  <2> QED BY <2>1, <2>2 DEF TellInv
<1>2. TellInv /\ [SummaryNext]_summaryVars => TellInv'
  BY TellStep
<1>3. TellInv => NothingForgotten
  BY DEF TellInv, SummariesTell, AllTell, TellsAll, Said, Conversation, NothingForgotten
<1> QED BY <1>1, <1>2, <1>3, PTL DEF SummarySpec

-----------------------------------------------------------------------------
(* The Runtime over the store. *)

Ending == {"append", "complete", "fail", "summarize"}

\* A request works on a run unless it only clears a deleted session; one that is
\* going to fail its run carries a status fail_run may be given, and one that is
\* ending a final status.
RequestOK(q) ==
  /\ q.at # "clear" => q.run \in Runs
  /\ q.at \in {"fail", "notice"} => q.status \in FailStatus
  /\ q.at \in Ending => q.status \notin ActiveStatus

ThreadsOK ==
  /\ th \in [Clients -> Request \cup {Nil}]
  /\ \A t \in Clients : th[t] # Nil => RequestOK(th[t])

RuntimeTyped == RuntimeTypeOK /\ ThreadsOK

-----------------------------------------------------------------------------
(* Every step is a store step or leaves the store alone *)

\* record_event, with its insert_execution_event, is a store step or none.
LEMMA RecordEventIsStoreStep ==
  ASSUME NEW t \in Clients, NEW n \in 0 .. MaxEvents, th[t] # Nil, th[t] \in Request,
         th[t].run \in Runs, RecordEvent(t, n)
  PROVE  StoreNext \/ UNCHANGED storeVars
<1>1. <<th[t].run, n>> \in EventIds
  BY RuntimeAssumption
<1> QED BY <1>1 DEF RecordEvent, StoreNext, StoreStep, Request

\* What a user's call does to the store.
LEMMA UserCallIsStoreStep ==
  ASSUME NEW t \in Clients, UserCall(t)
  PROVE  StoreNext \/ UNCHANGED storeVars
<1>1. ASSUME NEW s \in Sessions, NEW r \in Runs, BeginTurn(t, s, r)
      PROVE  StoreNext
  BY <1>1 DEF BeginTurn, StoreNext, StoreStep
<1>2. ASSUME NEW s \in Sessions, NEW r \in Runs, BeginTurnUnstored(t, s, r)
      PROVE  StoreNext
  BY <1>2 DEF BeginTurnUnstored, StoreNext, StoreStep
<1>3. ASSUME NEW r \in Runs, NEW approved \in BOOLEAN, NEW k \in 0 .. MaxTickets,
             Resume(t, r, approved, k)
      PROVE  UNCHANGED storeVars
  BY <1>3 DEF Resume
<1>4. ASSUME NEW r \in Runs, ResumeExpired(t, r) \/ Cancel(t, r)
      PROVE  UNCHANGED storeVars
  BY <1>4 DEF ResumeExpired, Cancel
<1>5. ASSUME NEW s \in Sessions, DeleteStored(t, s)
      PROVE  StoreNext
  BY <1>5 DEF DeleteStored, StoreNext, StoreStep
<1> QED BY <1>1, <1>2, <1>3, <1>4, <1>5 DEF UserCall

\* The agent reaches the store only by its events.
LEMMA AgentStepIsStoreStep ==
  ASSUME RuntimeTyped, NEW t \in Clients, AgentStep(t)
  PROVE  StoreNext \/ UNCHANGED storeVars
<1>1. CASE EmitEvent(t)
  <2>1. th[t] # Nil /\ th[t] \in Request /\ th[t].run \in Runs
    BY <1>1 DEF EmitEvent, At, RuntimeTyped, ThreadsOK, RuntimeTypeOK, RequestOK
  <2>2. emitted[th[t].run] + 1 \in 0 .. MaxEvents
    BY <1>1, <2>1, RuntimeAssumption DEF EmitEvent, RuntimeTyped, RuntimeTypeOK
  <2>3. RecordEvent(t, emitted[th[t].run] + 1)
    BY <1>1 DEF EmitEvent
  <2> HIDE DEF RuntimeTyped
  <2> QED BY <2>1, <2>2, <2>3, RecordEventIsStoreStep
<1>2. ASSUME \/ AgentCompletes(t)
             \/ \E status \in FailStatus : AgentFails(t, status)
             \/ AgentAsks(t)
             \/ AgentAsksInput(t)
      PROVE  UNCHANGED storeVars
  BY <1>2 DEF AgentCompletes, AgentFails, AgentAsks, AgentAsksInput
<1> QED BY <1>1, <1>2 DEF AgentStep

\* Each step of the Runtime with a request is one operation of the store.
LEMMA RuntimeStepIsStoreStep ==
  ASSUME RuntimeTyped, NEW t \in Clients, RuntimeStep(t)
  PROVE  StoreNext \/ UNCHANGED storeVars
<1> USE DEF StoreNext, StoreStep
<1>1. CASE CancelNotice(t)
  <2>1. th[t] # Nil /\ th[t] \in Request /\ th[t].run \in Runs
    BY <1>1 DEF CancelNotice, At, RuntimeTyped, ThreadsOK, RuntimeTypeOK, RequestOK
  <2>2. 0 \in 0 .. MaxEvents
    BY RuntimeAssumption
  <2> QED BY <1>1, <2>1, <2>2, RecordEventIsStoreStep DEF CancelNotice
<1>2. ASSUME NEW r \in Runs, BuildContextFails(t, r)
      PROVE  StoreNext
  BY <1>2 DEF BuildContextFails
<1>3. ASSUME AnswerChecked(t) \/ AnswerStored(t)
      PROVE  StoreNext
  <2>1. th[t] # Nil /\ th[t].at = "append"
    BY <1>3 DEF AnswerChecked, AnswerStored, At
  <2>2. th[t].session \in Sessions /\ th[t].run \in Runs
    BY <2>1 DEF RuntimeTyped, ThreadsOK, RuntimeTypeOK, RequestOK, Request
  <2> QED BY <1>3, <2>2 DEF AnswerChecked, AnswerStored
<1>4. ASSUME CompletionLoaded(t) \/ FailureLoaded(t)
      PROVE  StoreNext
  <2>1. th[t] # Nil /\ th[t].at \in {"complete", "fail"}
    BY <1>4 DEF CompletionLoaded, FailureLoaded, At
  <2>2. th[t].run \in Runs /\ (th[t].at = "fail" => th[t].status \in FailStatus)
    BY <2>1 DEF RuntimeTyped, ThreadsOK, RuntimeTypeOK, RequestOK, Request
  <2>3. CASE CompletionLoaded(t)
    <3>1. BeginCompleteRun(t, th[t].run, th[t].answer) /\ th[t].answer \in messages
      BY <2>3 DEF CompletionLoaded, BeginCompleteRun
    <3> QED BY <3>1, <2>2
  <2>4. CASE FailureLoaded(t)
    BY <2>4, <2>2 DEF FailureLoaded, At
  <2> QED BY <1>4, <2>3, <2>4
<1>5. ASSUME RunWritten(t)
      PROVE  StoreNext
  BY <1>5 DEF RunWritten
<1>6. ASSUME FinalizeFails(t)
      PROVE  StoreNext
  BY <1>6 DEF FinalizeFails
<1>7. ASSUME \/ BuildContext(t) \/ RegisterWait(t) \/ FinalizeUnstored(t)
             \/ Summarize(t) \/ ClearPending(t)
      PROVE  UNCHANGED storeVars
  BY <1>7 DEF BuildContext, RegisterWait, FinalizeUnstored, Summarize, ClearPending
<1> QED BY <1>1, <1>2, <1>3, <1>4, <1>5, <1>6, <1>7 DEF RuntimeStep

\* A crash abandons the calls of the process, a restart marks the open runs.
LEMMA ProcessStepIsStoreStep ==
  ASSUME NEW p \in Procs, Crash(p) \/ Restart(p)
  PROVE  StoreNext
BY DEF Crash, Restart, ThreadsOf, StoreNext, StoreStep

\* Every step of the Runtime is a step of the store or leaves it alone.
LEMMA NextIsStoreStep ==
  ASSUME RuntimeTyped, Next
  PROVE  StoreNext \/ UNCHANGED storeVars
<1>1. ASSUME ClockTicks
      PROVE  UNCHANGED storeVars
  BY <1>1 DEF ClockTicks
<1> QED BY <1>1, UserCallIsStoreStep, AgentStepIsStoreStep, RuntimeStepIsStoreStep,
           ProcessStepIsStoreStep DEF Next

-----------------------------------------------------------------------------
(* Types *)

\* A thread takes up a request, goes on with it, or is done with it.
LEMMA ThreadsTyped ==
  ASSUME RuntimeTyped, NEW t \in Clients, NEW q \in Request \cup {Nil}, q # Nil => RequestOK(q),
         th' = [th EXCEPT ![t] = q]
  PROVE  ThreadsOK'
BY DEF RuntimeTyped, ThreadsOK, RuntimeTypeOK

\* A request goes on: at another stage, with another status or its answer.
LEMMA MovedTyped ==
  ASSUME RuntimeTyped, NEW t \in Clients, th[t] # Nil,
         NEW stage \in Stage, NEW status \in RunStatus, NEW m \in Message \cup {Nil},
         stage # "clear" => th[t].run \in Runs,
         stage \in {"fail", "notice"} => status \in FailStatus,
         stage \in Ending => status \notin ActiveStatus,
         th' = [th EXCEPT ![t] = [@ EXCEPT !.at = stage, !.status = status, !.answer = m]]
  PROVE  ThreadsOK'
<1> DEFINE q == [th[t] EXCEPT !.at = stage, !.status = status, !.answer = m]
<1>1. th[t] \in Request
  BY DEF RuntimeTyped, ThreadsOK, RuntimeTypeOK
<1>2. q \in Request /\ RequestOK(q)
  BY <1>1 DEF Request, RequestOK
<1>3. th' = [th EXCEPT ![t] = q]
  OBVIOUS
<1> QED BY <1>2, <1>3, ThreadsTyped

\* The same for a step that only moves the request.
LEMMA MoveTyped ==
  ASSUME RuntimeTyped, NEW t \in Clients, th[t] # Nil, th[t].at # "clear", NEW stage \in Stage,
         stage \in {"fail", "notice"} => th[t].status \in FailStatus,
         stage \in Ending => th[t].status \notin ActiveStatus, Move(t, stage)
  PROVE  ThreadsOK'
<1>1. th[t] \in Request /\ th[t].run \in Runs
  BY DEF RuntimeTyped, ThreadsOK, RuntimeTypeOK, RequestOK
<1>2. th[t].status \in RunStatus /\ th[t].answer \in Message \cup {Nil}
  BY <1>1 DEF Request
<1>3. [th[t] EXCEPT !.at = stage]
        = [th[t] EXCEPT !.at = stage, !.status = th[t].status, !.answer = th[t].answer]
  BY <1>1 DEF Request
<1>4. th' = [th EXCEPT ![t] = [@ EXCEPT !.at = stage, !.status = th[t].status,
                                         !.answer = th[t].answer]]
  BY <1>3 DEF Move
<1> QED BY <1>1, <1>2, <1>4, MovedTyped

\* A new request.
LEMMA NewRequestTyped ==
  ASSUME NEW stage \in Stage, NEW s \in Sessions, NEW r \in Runs \cup {Nil},
         NEW cancel \in BOOLEAN, NEW status \in RunStatus
  PROVE  NewRequest(stage, s, r, cancel, status) \in Request
BY DEF NewRequest, Request

\* The request a user's call starts is well formed.
LEMMA UserCallThreads ==
  ASSUME RuntimeTyped, NEW t \in Clients, UserCall(t)
  PROVE  ThreadsOK'
<1>1. ASSUME NEW s \in Sessions, NEW r \in Runs, NEW stage \in {"context", "agent"},
             th' = [th EXCEPT ![t] = NewRequest(stage, s, r, FALSE, "running")]
      PROVE  ThreadsOK'
  <2>1. NewRequest(stage, s, r, FALSE, "running") \in Request
    BY NewRequestTyped DEF Stage, RunStatus, ActiveStatus
  <2>2. RequestOK(NewRequest(stage, s, r, FALSE, "running"))
    BY DEF RequestOK, NewRequest, Ending
  <2> QED BY <1>1, <2>1, <2>2, ThreadsTyped
<1>2. ASSUME NEW r \in Runs, pending[ProcOf[t]][r] # Nil
      PROVE  pending[ProcOf[t]][r].session \in Sessions
  BY <1>2, RuntimeAssumption DEF RuntimeTyped, RuntimeTypeOK, RegistryTypeOK, PendingRecord
<1>4. "failed" \in FailStatus /\ "cancelled" \in FailStatus /\ FailStatus \subseteq RunStatus
  BY RuntimeAssumption DEF RunStatus
<1>5. ASSUME NEW s \in Sessions, NEW r \in Runs, BeginTurn(t, s, r) \/ BeginTurnUnstored(t, s, r)
      PROVE  ThreadsOK'
  BY <1>1, <1>5 DEF BeginTurn, BeginTurnUnstored
<1>6. ASSUME NEW r \in Runs, NEW approved \in BOOLEAN, NEW k \in 0 .. MaxTickets,
             Resume(t, r, approved, k)
      PROVE  ThreadsOK'
  <2>1. pending[ProcOf[t]][r].session \in Sessions
    BY <1>2, <1>6 DEF Resume
  <2>2. ASSUME NEW stage \in {"fail", "agent"}, NEW status \in {"failed", "running"},
               stage = "fail" => status = "failed", Taken(t, r, stage, status)
        PROVE  ThreadsOK'
    <3> DEFINE s == pending[ProcOf[t]][r].session
               q == NewRequest(stage, s, r, FALSE, status)
    <3>1. stage \in Stage /\ status \in RunStatus
      <4>1. "running" \in RunStatus
        BY DEF RunStatus, ActiveStatus
      <4> QED BY <4>1, <1>4 DEF Stage
    <3>2. q \in Request
      BY <2>1, <3>1, NewRequestTyped
    <3>3. q.status = status /\ q.at = stage /\ q.run = r
      BY DEF NewRequest
    <3>4. RequestOK(q)
      BY <2>2, <3>3, <1>4 DEF RequestOK, Ending, ActiveStatus
    <3>5. th' = [th EXCEPT ![t] = q]
      BY <2>2 DEF Taken
    <3> HIDE DEF q
    <3> QED BY <3>2, <3>4, <3>5, ThreadsTyped
  <2> QED BY <1>6, <2>2 DEF Resume
<1>7. ASSUME NEW r \in Runs, ResumeExpired(t, r)
      PROVE  ThreadsOK'
  BY <1>7 DEF ResumeExpired, RuntimeTyped, ThreadsOK
<1>8. ASSUME NEW r \in Runs, Cancel(t, r)
      PROVE  ThreadsOK'
  <2>1. pending[ProcOf[t]][r].session \in Sessions
    BY <1>2, <1>8 DEF Cancel
  <2> DEFINE s == pending[ProcOf[t]][r].session
             q == NewRequest("notice", s, r, TRUE, "cancelled")
  <2>3. q \in Request
    BY <2>1, <1>4, NewRequestTyped DEF Stage
  <2>4. RequestOK(q)
    BY <1>4 DEF RequestOK, NewRequest, Ending
  <2>5. th' = [th EXCEPT ![t] = q]
    BY <1>8 DEF Cancel
  <2> HIDE DEF q
  <2> QED BY <2>3, <2>4, <2>5, ThreadsTyped
<1>9. ASSUME NEW s \in Sessions, DeleteStored(t, s)
      PROVE  ThreadsOK'
  <2>1. NewRequest("clear", s, Nil, FALSE, "running") \in Request
    BY NewRequestTyped DEF Stage, RunStatus, ActiveStatus
  <2>2. RequestOK(NewRequest("clear", s, Nil, FALSE, "running"))
    BY DEF RequestOK, NewRequest, Ending
  <2> QED BY <1>9, <2>1, <2>2, ThreadsTyped DEF DeleteStored
<1> QED BY <1>5, <1>6, <1>7, <1>8, <1>9 DEF UserCall

\* What the agent returns is taken up with a status fit for the stage it goes to.
LEMMA AgentStepThreads ==
  ASSUME RuntimeTyped, NEW t \in Clients, AgentStep(t)
  PROVE  ThreadsOK'
<1>1. ASSUME At(t, "agent"), NEW stage \in {"append", "fail", "register"},
             NEW status \in FailStatus \cup {"completed", "waiting_user"},
             stage = "fail" => status \in FailStatus,
             stage = "append" => status = "completed", AfterAgent(t, stage, status)
      PROVE  ThreadsOK'
  <2>1. th[t] \in Request /\ th[t].run \in Runs /\ th[t] # Nil
    BY <1>1 DEF At, RuntimeTyped, ThreadsOK, RequestOK
  <2> DEFINE at == IF th[t].cancel THEN "fail" ELSE stage
             st == IF th[t].cancel THEN "cancelled" ELSE status
  <2>2. at \in Stage /\ at # "clear" /\ st \in RunStatus
    BY RuntimeAssumption DEF Stage, RunStatus, ActiveStatus
  <2>3. at \in {"fail", "notice"} => st \in FailStatus
    BY <1>1, RuntimeAssumption
  <2>8. at \in Ending => st \notin ActiveStatus
    BY <1>1, StoreAssumption DEF Ending, ActiveStatus
  <2>4. th' = [th EXCEPT ![t] = [@ EXCEPT !.at = at, !.status = st]]
    BY <1>1, <2>1 DEF AfterAgent, RuntimeTyped, ThreadsOK, Request
  <2>5. [th[t] EXCEPT !.at = at, !.status = st]
          = [th[t] EXCEPT !.at = at, !.status = st, !.answer = th[t].answer]
    BY <2>1 DEF Request
  <2>6. th' = [th EXCEPT ![t] = [@ EXCEPT !.at = at, !.status = st, !.answer = th[t].answer]]
    BY <2>4, <2>5
  <2>7. th[t].answer \in Message \cup {Nil}
    BY <2>1 DEF Request
  <2> HIDE DEF at, st
  <2> QED BY <2>1, <2>2, <2>3, <2>8, <2>6, <2>7, MovedTyped
<1>2. CASE EmitEvent(t)
  BY <1>2 DEF EmitEvent, RuntimeTyped, ThreadsOK
<1>3. CASE AgentCompletes(t)
  BY <1>1, <1>3 DEF AgentCompletes
<1>4. ASSUME NEW status \in FailStatus, AgentFails(t, status)
      PROVE  ThreadsOK'
  BY <1>1, <1>4 DEF AgentFails
<1>5. CASE AgentAsks(t) \/ AgentAsksInput(t)
  BY <1>1, <1>5 DEF AgentAsks, AgentAsksInput
<1> QED BY <1>2, <1>3, <1>4, <1>5 DEF AgentStep

\* A request that goes on stays well formed.
LEMMA RuntimeStepThreads ==
  ASSUME RuntimeTyped, NEW t \in Clients, RuntimeStep(t)
  PROVE  ThreadsOK'
<1>1. ASSUME th' = [th EXCEPT ![t] = Nil]
      PROVE  ThreadsOK'
  BY <1>1, ThreadsTyped
<1>2. ASSUME At(t, "context"), NEW r \in Runs,
             th' = [th EXCEPT ![t] = NewRequest("agent", th[t].session, r, FALSE, "running")]
      PROVE  ThreadsOK'
  <2>1. th[t].session \in Sessions
    BY <1>2 DEF At, RuntimeTyped, ThreadsOK, Request
  <2>2. NewRequest("agent", th[t].session, r, FALSE, "running") \in Request
    BY <2>1, NewRequestTyped DEF Stage, RunStatus, ActiveStatus
  <2>3. RequestOK(NewRequest("agent", th[t].session, r, FALSE, "running"))
    BY DEF RequestOK, NewRequest, Ending
  <2> QED BY <1>2, <2>2, <2>3, ThreadsTyped
<1>3. ASSUME th[t] # Nil, NEW stage \in {"agent", "summarize"}, Move(t, stage),
             th[t].at # "clear", stage = "summarize" => th[t].at \in Ending
      PROVE  ThreadsOK'
  <2>1. stage \in Stage /\ stage \notin {"fail", "notice"}
    BY DEF Stage
  <2>2. stage \in Ending => th[t].status \notin ActiveStatus
    BY <1>3 DEF RuntimeTyped, ThreadsOK, RequestOK, Ending
  <2> QED BY <1>3, <2>1, <2>2, MoveTyped
<1>4. CASE CancelNotice(t)
  <2> DEFINE stage == IF asked[th[t].run] = 0 THEN "fail" ELSE "agent"
  <2>1. th[t] # Nil /\ th[t].at # "clear" /\ th[t].status \in FailStatus
    BY <1>4 DEF CancelNotice, At, RuntimeTyped, ThreadsOK, RequestOK
  <2>2. Move(t, stage) /\ stage \in Stage
    BY <1>4 DEF CancelNotice, Stage
  <2>3. stage \in Ending => th[t].status \notin ActiveStatus
    BY <2>1, StoreAssumption DEF ActiveStatus
  <2> HIDE DEF stage
  <2> QED BY <2>1, <2>2, <2>3, MoveTyped
<1>5. CASE AnswerStored(t)
  <2> DEFINE m == Answer(th[t].session, th[t].run)
  <2>1. th[t] # Nil /\ th[t] \in Request /\ th[t].run \in Runs
    BY <1>5 DEF AnswerStored, At, RuntimeTyped, ThreadsOK, RequestOK
  <2>2. m \in Message
    BY <2>1, QuestionType DEF RuntimeTyped, RuntimeTypeOK, Request
  <2>3. th' = [th EXCEPT ![t] = [@ EXCEPT !.at = "complete", !.answer = m]]
    BY <1>5, <2>1 DEF AnswerStored, RuntimeTyped, ThreadsOK, Request
  <2>4. [th[t] EXCEPT !.at = "complete", !.answer = m]
          = [th[t] EXCEPT !.at = "complete", !.status = th[t].status, !.answer = m]
    BY <2>1 DEF Request
  <2>5. th' = [th EXCEPT ![t] = [@ EXCEPT !.at = "complete", !.status = th[t].status, !.answer = m]]
    BY <2>3, <2>4
  <2>6. "complete" \in Stage /\ th[t].status \in RunStatus
    BY <2>1 DEF Stage, Request
  <2>7. th[t].status \notin ActiveStatus
    BY <1>5 DEF AnswerStored, At, RuntimeTyped, ThreadsOK, RequestOK, Ending
  <2> HIDE DEF m
  <2> QED BY <2>1, <2>2, <2>5, <2>6, <2>7, MovedTyped
<1>6. ASSUME NEW r \in Runs, BuildContextFails(t, r)
      PROVE  ThreadsOK'
  BY <1>2, <1>6 DEF BuildContextFails
<1>7. CASE BuildContext(t)
  BY <1>3, <1>7 DEF BuildContext, At
<1>8. CASE RunWritten(t)
  BY <1>3, <1>8 DEF RunWritten, At, Ending
<1>9. CASE AnswerChecked(t) \/ CompletionLoaded(t) \/ FailureLoaded(t)
  BY <1>9 DEF AnswerChecked, CompletionLoaded, FailureLoaded, RuntimeTyped, ThreadsOK
<1>10. CASE RegisterWait(t) \/ FinalizeFails(t) \/ FinalizeUnstored(t) \/ Summarize(t) \/ ClearPending(t)
  BY <1>1, <1>10 DEF RegisterWait, FinalizeFails, FinalizeUnstored, Summarize, ClearPending, Finish
<1> QED BY <1>4, <1>5, <1>6, <1>7, <1>8, <1>9, <1>10 DEF RuntimeStep

\* The request of every thread stays well formed.
LEMMA ThreadsStep ==
  ASSUME RuntimeTyped, [Next]_vars
  PROVE  ThreadsOK'
<1>1. ASSUME NEW p \in Procs, Crash(p)
      PROVE  ThreadsOK'
  BY <1>1 DEF Crash, RuntimeTyped, ThreadsOK
<1>2. ASSUME UNCHANGED th
      PROVE  ThreadsOK'
  BY <1>2 DEF RuntimeTyped, ThreadsOK
<1> QED BY <1>1, <1>2, UserCallThreads, AgentStepThreads, RuntimeStepThreads
        DEF Next, Restart, ClockTicks, vars

\* The registries hold records.
LEMMA RegistryTyped ==
  ASSUME RuntimeTyped, [Next]_vars
  PROVE  RegistryTypeOK'
<1> USE RuntimeAssumption, RegistryAssumption DEF RuntimeTyped, RuntimeTypeOK, RegistryTypeOK
<1>1. ASSUME UNCHANGED registryVars
      PROVE  RegistryTypeOK'
  BY <1>1 DEF registryVars
<1>2. ASSUME NEW t \in Clients, RegisterWait(t)
      PROVE  RegistryTypeOK'
  <2>1. th[t] \in Request /\ th[t].run \in Runs
    BY <1>2 DEF RegisterWait, At, ThreadsOK, RequestOK
  <2>2. asked[th[t].run] \in Nat
    BY <2>1
  <2>3. [session |-> th[t].session, ticket |-> asked[th[t].run], expires |-> clock + Ttl]
          \in PendingRecord
    BY <2>1, <2>2 DEF PendingRecord, Request
  <2>4. Unexpired(pending[ProcOf[t]]) \in [Runs -> PendingRecord \cup {Nil}]
    BY DEF Unexpired
  <2> QED BY <1>2, <2>3, <2>4 DEF RegisterWait, Register
<1>3. ASSUME NEW t \in Clients, NEW r \in Runs,
             \/ ResumeExpired(t, r) \/ Cancel(t, r)
             \/ \E approved \in BOOLEAN, k \in 0 .. MaxTickets : Resume(t, r, approved, k)
      PROVE  RegistryTypeOK'
  <2>1. pending' = [pending EXCEPT ![ProcOf[t]][r] = Nil] /\ UNCHANGED clock
    BY <1>3 DEF ResumeExpired, Cancel, Resume, Pop, DropExpired
  <2>2. ProcOf[t] \in Procs /\ [pending[ProcOf[t]] EXCEPT ![r] = Nil] \in [Runs -> PendingRecord \cup {Nil}]
    OBVIOUS
  <2> QED BY <2>1, <2>2
<1>4. ASSUME NEW t \in Clients, ClearPending(t)
      PROVE  RegistryTypeOK'
  <2>1. Unexpired(pending[ProcOf[t]]) \in [Runs -> PendingRecord \cup {Nil}]
    BY DEF Unexpired
  <2> QED BY <1>4, <2>1 DEF ClearPending, ClearSession
<1>5. ASSUME NEW p \in Procs, Crash(p)
      PROVE  RegistryTypeOK'
  BY <1>5 DEF Crash, Clear
<1>6. ASSUME ClockTicks
      PROVE  RegistryTypeOK'
  BY <1>6 DEF ClockTicks, Tick
<1>7. ASSUME NEW t \in Clients, AgentStep(t)
      PROVE  UNCHANGED registryVars
  BY <1>7 DEF AgentStep, EmitEvent, AgentCompletes, AgentFails, AgentAsks, AgentAsksInput
<1>8. ASSUME NEW t \in Clients, UserCall(t)
      PROVE  RegistryTypeOK'
  <2>1. ASSUME NEW s \in Sessions, NEW r \in Runs,
               BeginTurn(t, s, r) \/ BeginTurnUnstored(t, s, r)
        PROVE  UNCHANGED registryVars
    BY <2>1 DEF BeginTurn, BeginTurnUnstored, DeleteStored
  <2>2. ASSUME NEW s \in Sessions, DeleteStored(t, s)
        PROVE  UNCHANGED registryVars
    BY <2>2 DEF DeleteStored
  <2> HIDE DEF RuntimeTyped, RuntimeTypeOK, RegistryTypeOK
  <2> QED BY <1>1, <1>3, <1>8, <2>1, <2>2 DEF UserCall
<1>9. ASSUME NEW t \in Clients, RuntimeStep(t)
      PROVE  RegistryTypeOK'
  BY <1>1, <1>2, <1>4, <1>9
  DEF RuntimeStep, BuildContext, BuildContextFails, CancelNotice, AnswerChecked, AnswerStored,
      CompletionLoaded, FailureLoaded, RunWritten, FinalizeFails, FinalizeUnstored, Summarize,
      Finalizing
<1>10. ASSUME NEW p \in Procs, Restart(p)
       PROVE  UNCHANGED registryVars
  BY <1>10 DEF Restart
<1>11. ASSUME UNCHANGED vars
       PROVE  UNCHANGED registryVars
  BY <1>11 DEF vars
<1> QED BY <1>1, <1>5, <1>6, <1>7, <1>8, <1>9, <1>10, <1>11 DEF Next

Bookkeeping ==
  /\ up \in [Procs -> BOOLEAN]
  /\ persisted \in [Runs -> BOOLEAN]
  /\ emitted \in [Runs -> 0 .. MaxEvents]
  /\ tickets \in [Runs -> 0 .. MaxTickets]
  /\ asked \in [Runs -> 0 .. MaxTickets]
  /\ granted \in [Runs -> SUBSET (1 .. MaxTickets)]
  /\ dispatched \in [Runs -> [1 .. MaxTickets -> Nat]]
  /\ refused \in [Runs -> SUBSET (1 .. MaxTickets)]
  /\ outcome \in [Runs -> Outcome \cup {Nil}]
  /\ faults \in 0 .. MaxFaults
  /\ crashes \in 0 .. MaxCrashes

\* A database failure is counted.
LEMMA FaultTyped ==
  ASSUME Bookkeeping, DatabaseFault
  PROVE  faults' \in 0 .. MaxFaults
BY RuntimeAssumption DEF Bookkeeping, DatabaseFault

\* A history of tickets grows by tickets.
LEMMA SetsGrow ==
  ASSUME NEW f \in [Runs -> SUBSET (1 .. MaxTickets)], NEW r \in Runs,
         NEW X \in SUBSET (1 .. MaxTickets)
  PROVE  [f EXCEPT ![r] = @ \cup X] \in [Runs -> SUBSET (1 .. MaxTickets)]
<1>1. f[r] \cup X \in SUBSET (1 .. MaxTickets)
  OBVIOUS
<1> QED BY <1>1, Zenon

\* A user's call keeps the types of the turn's bookkeeping.
LEMMA UserCallBooks ==
  ASSUME RuntimeTyped, Bookkeeping, NEW t \in Clients, UserCall(t)
  PROVE  Bookkeeping'
<1> USE RuntimeAssumption DEF Bookkeeping, budget, turnVars, historyVars
<1>1. ASSUME NEW s \in Sessions, NEW r \in Runs, BeginTurn(t, s, r) \/ BeginTurnUnstored(t, s, r)
      PROVE  Bookkeeping'
  BY <1>1, FaultTyped DEF BeginTurn, BeginTurnUnstored
<1>2. ASSUME NEW r \in Runs, NEW approved \in BOOLEAN, NEW k \in 0 .. MaxTickets,
             Resume(t, r, approved, k)
      PROVE  Bookkeeping'
  <2>1. granted' \in [Runs -> SUBSET (1 .. MaxTickets)]
    <3>1. (IF k = 0 THEN asked[r] ELSE k) \in 0 .. MaxTickets
      OBVIOUS
    <3>2. (IF k = 0 THEN asked[r] ELSE k) \in {0} \cup (1 .. MaxTickets)
      BY <3>1
    <3>3. ({IF k = 0 THEN asked[r] ELSE k} \ {0}) \subseteq 1 .. MaxTickets
      BY <3>2
    <3> DEFINE X == {IF k = 0 THEN asked[r] ELSE k} \ {0}
    <3>4. UNCHANGED granted \/ granted' = [granted EXCEPT ![r] = @ \cup X]
      BY <1>2 DEF Resume, Grant
    <3>5. granted \in [Runs -> SUBSET (1 .. MaxTickets)] /\ X \in SUBSET (1 .. MaxTickets)
      BY <3>3
    <3> HIDE DEF X, Bookkeeping
    <3>6. [granted EXCEPT ![r] = @ \cup X] \in [Runs -> SUBSET (1 .. MaxTickets)]
      BY <3>5, SetsGrow
    <3> QED BY <3>4, <3>5, <3>6
  <2>2. asked' \in [Runs -> 0 .. MaxTickets]
    <3>1. UNCHANGED asked \/ asked' = [asked EXCEPT ![r] = 0]
      BY <1>2 DEF Resume
    <3>2. asked \in [Runs -> 0 .. MaxTickets] /\ 0 \in 0 .. MaxTickets
      OBVIOUS
    <3> HIDE DEF Bookkeeping
    <3> QED BY <3>1, <3>2
  <2>3. dispatched' \in [Runs -> [1 .. MaxTickets -> Nat]]
    <3>1. asked[r] # 0 => asked[r] \in 1 .. MaxTickets
      OBVIOUS
    <3>2. UNCHANGED dispatched \/ (asked[r] # 0 /\ dispatched' = [dispatched EXCEPT ![r][asked[r]] = @ + 1])
      BY <1>2 DEF Resume
    <3>3. asked[r] # 0 => dispatched[r][asked[r]] + 1 \in Nat
      BY <3>1
    <3>4. asked[r] # 0 => [dispatched[r] EXCEPT ![asked[r]] = @ + 1] \in [1 .. MaxTickets -> Nat]
      BY <3>1, <3>3
    <3> QED BY <3>2, <3>4
  <2>4. refused' \in [Runs -> SUBSET (1 .. MaxTickets)]
    <3>1. UNCHANGED refused \/ (asked[r] # 0 /\ refused' = [refused EXCEPT ![r] = @ \cup {asked[r]}])
      BY <1>2 DEF Resume
    <3>2. refused \in [Runs -> SUBSET (1 .. MaxTickets)]
      OBVIOUS
    <3>3. asked[r] # 0 => {asked[r]} \in SUBSET (1 .. MaxTickets)
      OBVIOUS
    <3> HIDE DEF Bookkeeping
    <3>4. asked[r] # 0
            => [refused EXCEPT ![r] = @ \cup {asked[r]}] \in [Runs -> SUBSET (1 .. MaxTickets)]
      BY <3>2, <3>3, SetsGrow
    <3> QED BY <3>1, <3>2, <3>4
  <2> QED BY <1>2, <2>1, <2>2, <2>3, <2>4 DEF Resume
<1>3. ASSUME NEW r \in Runs, ResumeExpired(t, r) \/ Cancel(t, r)
      PROVE  Bookkeeping'
  BY <1>3 DEF ResumeExpired, Cancel
<1>4. ASSUME NEW s \in Sessions, DeleteStored(t, s)
      PROVE  Bookkeeping'
  BY <1>4 DEF DeleteStored
<1> QED BY <1>1, <1>2, <1>3, <1>4 DEF UserCall

\* record_event may only turn off persistence and use up a fault.
LEMMA RecordEventBooks ==
  ASSUME Bookkeeping, NEW t \in Clients, NEW n, RecordEvent(t, n)
  PROVE  persisted' \in [Runs -> BOOLEAN] /\ faults' \in 0 .. MaxFaults
BY FaultTyped DEF Bookkeeping, RecordEvent, LosePersistence

\* So does a step of the agent.
LEMMA AgentStepBooks ==
  ASSUME RuntimeTyped, Bookkeeping, NEW t \in Clients, AgentStep(t)
  PROVE  Bookkeeping'
<1> USE RuntimeAssumption DEF budget, turnVars, historyVars
<1>1. th[t].run \in Runs
  <2>1. th[t] # Nil /\ th[t].at = "agent"
    BY DEF AgentStep, EmitEvent, AgentCompletes, AgentFails, AgentAsks, AgentAsksInput, At
  <2> QED BY <2>1 DEF RuntimeTyped, ThreadsOK, RequestOK
<1>2. CASE EmitEvent(t)
  <2>1. emitted' \in [Runs -> 0 .. MaxEvents]
    BY <1>1, <1>2 DEF EmitEvent, Bookkeeping
  <2>2. persisted' \in [Runs -> BOOLEAN] /\ faults' \in 0 .. MaxFaults
    BY <1>2, RecordEventBooks DEF EmitEvent
  <2> QED BY <1>2, <2>1, <2>2 DEF EmitEvent, Bookkeeping
<1>3. CASE AgentAsks(t)
  <2>1. tickets[th[t].run] + 1 \in 0 .. MaxTickets
    BY <1>1, <1>3 DEF AgentAsks, Bookkeeping
  <2> QED BY <1>1, <1>3, <2>1 DEF AgentAsks, Bookkeeping
<1>4. CASE AgentCompletes(t) \/ AgentAsksInput(t) \/ \E status \in FailStatus : AgentFails(t, status)
  BY <1>4 DEF AgentCompletes, AgentAsksInput, AgentFails, Bookkeeping
<1> QED BY <1>2, <1>3, <1>4 DEF AgentStep

\* So does a step of the Runtime with a request.
LEMMA RuntimeStepBooks ==
  ASSUME RuntimeTyped, Bookkeeping, NEW t \in Clients, RuntimeStep(t)
  PROVE  Bookkeeping'
<1> USE DEF budget, turnVars, historyVars, Finalizing, LosePersistence
<1>1. CASE CancelNotice(t)
  <2>1. th[t].run \in Runs
    BY <1>1 DEF CancelNotice, At, RuntimeTyped, ThreadsOK, RequestOK
  <2>2. persisted' \in [Runs -> BOOLEAN] /\ faults' \in 0 .. MaxFaults
    BY <1>1, RecordEventBooks DEF CancelNotice
  <2>3. ({asked[th[t].run]} \ {0}) \subseteq 1 .. MaxTickets
    BY <2>1, RuntimeAssumption DEF Bookkeeping
  <2>4. refused' \in [Runs -> SUBSET (1 .. MaxTickets)] /\ asked' \in [Runs -> 0 .. MaxTickets]
    BY <1>1, <2>1, <2>3, RuntimeAssumption DEF CancelNotice, Bookkeeping
  <2> QED BY <1>1, <2>2, <2>4 DEF CancelNotice, Bookkeeping
<1>2. ASSUME NEW r \in Runs, BuildContextFails(t, r)
      PROVE  Bookkeeping'
  BY <1>2, FaultTyped DEF BuildContextFails, Bookkeeping
<1>3. ASSUME NEW kept \in BOOLEAN,
             th[t] # Nil, th[t].at \in {"append", "complete", "fail", "summarize"},
             Finish(t, th[t].status, kept)
      PROVE  outcome' \in [Runs -> Outcome \cup {Nil}]
  <2>1. th[t].status \in RunStatus
    BY <1>3 DEF RuntimeTyped, ThreadsOK, Request
  <2>2. [status |-> th[t].status, kept |-> kept] \in Outcome
    BY <2>1 DEF Outcome
  <2> QED BY <1>3, <2>2 DEF Finish, Bookkeeping
<1>4. CASE FinalizeFails(t)
  <2>1. outcome' \in [Runs -> Outcome \cup {Nil}]
    BY <1>3, <1>4 DEF FinalizeFails, At
  <2>2. persisted' \in [Runs -> BOOLEAN] /\ faults' \in 0 .. MaxFaults
    BY <1>4, FaultTyped DEF FinalizeFails, Bookkeeping
  <2> QED BY <1>4, <2>1, <2>2 DEF FinalizeFails, Bookkeeping
<1>5. CASE FinalizeUnstored(t) \/ Summarize(t)
  <2>1. outcome' \in [Runs -> Outcome \cup {Nil}]
    BY <1>3, <1>5 DEF FinalizeUnstored, Summarize, At
  <2> QED BY <1>5, <2>1 DEF FinalizeUnstored, Summarize, Bookkeeping
<1>6. CASE \/ BuildContext(t) \/ RegisterWait(t) \/ AnswerChecked(t) \/ AnswerStored(t)
           \/ CompletionLoaded(t) \/ FailureLoaded(t) \/ RunWritten(t) \/ ClearPending(t)
  BY <1>6 DEF BuildContext, RegisterWait, AnswerChecked, AnswerStored, CompletionLoaded,
              FailureLoaded, RunWritten, ClearPending, Bookkeeping
<1> QED BY <1>1, <1>2, <1>4, <1>5, <1>6 DEF RuntimeStep

\* So does every step.
LEMMA BookkeepingStep ==
  ASSUME RuntimeTyped, Bookkeeping, [Next]_vars
  PROVE  Bookkeeping'
<1>1. ASSUME NEW p \in Procs, Crash(p) \/ Restart(p)
      PROVE  Bookkeeping'
  <2>1. CASE Crash(p)
    <3>1. crashes' \in 0 .. MaxCrashes
      BY <2>1, RuntimeAssumption DEF Crash, Bookkeeping
    <3> QED BY <2>1, <3>1 DEF Crash, Bookkeeping, turnVars, historyVars
  <2>2. CASE Restart(p)
    BY <2>2 DEF Restart, Bookkeeping, turnVars, historyVars, budget
  <2> QED BY <1>1, <2>1, <2>2
<1>2. ASSUME ClockTicks \/ UNCHANGED vars
      PROVE  Bookkeeping'
  BY <1>2 DEF ClockTicks, vars, Bookkeeping, turnVars, historyVars, budget
<1> QED BY <1>1, <1>2, UserCallBooks, AgentStepBooks, RuntimeStepBooks DEF Next

\* A Runtime that starts is well typed.
LEMMA RuntimeInit == Init => RuntimeTyped
<1> SUFFICES ASSUME Init PROVE RuntimeTyped
  OBVIOUS
<1>1. StoreTypeOK
  BY TypeInit DEF Init
<1>2. RegistryTypeOK
  BY DEF Init, RegistryInit, RegistryTypeOK
<1>3. ThreadsOK
  BY DEF Init, ThreadsOK
<1>4. Bookkeeping
  BY RuntimeAssumption DEF Init, Bookkeeping
<1> QED BY <1>1, <1>2, <1>3, <1>4 DEF RuntimeTyped, RuntimeTypeOK, ThreadsOK, Bookkeeping

\* Every step of the Runtime keeps its types.
LEMMA RuntimeTypeStep ==
  ASSUME RuntimeTyped, [Next]_vars
  PROVE  RuntimeTyped'
<1>1. [StoreNext]_storeVars
  BY NextIsStoreStep DEF vars
<1>2. StoreTypeOK'
  BY <1>1, TypeStep DEF RuntimeTyped, RuntimeTypeOK
<1>3. Bookkeeping
  BY DEF RuntimeTyped, RuntimeTypeOK, Bookkeeping
<1>4. Bookkeeping'
  BY <1>3, BookkeepingStep
<1> QED BY <1>2, <1>4, RegistryTyped, ThreadsStep
        DEF RuntimeTyped, RuntimeTypeOK, ThreadsOK, Bookkeeping

-----------------------------------------------------------------------------
(* Theorems *)

\* Every variable of the Runtime keeps its type, with any number of threads,
\* processes, failures and crashes.
THEOREM RuntimeTypes == Spec => []RuntimeTypeOK
<1>1. RuntimeTyped /\ [Next]_vars => RuntimeTyped'
  BY RuntimeTypeStep
<1>2. RuntimeTyped => RuntimeTypeOK
  BY DEF RuntimeTyped
<1> QED BY RuntimeInit, <1>1, <1>2, PTL DEF Spec

\* The Runtime implements the session store: whatever its threads, crashes and
\* restarts do to the tables is what the store's own operations may do.
THEOREM RuntimeRefinesStore == Spec => StoreSpec
<1>1. Init => StoreInit
  BY DEF Init
<1>2. RuntimeTyped /\ [Next]_vars => RuntimeTyped'
  BY RuntimeTypeStep
<1>3. RuntimeTyped /\ [Next]_vars => [StoreNext]_storeVars
  BY NextIsStoreStep DEF vars
<1> QED BY RuntimeInit, <1>1, <1>2, <1>3, PTL DEF Spec, StoreSpec

\* So the timeline of a session stays unique, nothing of a deleted session
\* comes back and completed runs have their answers in the whole system too.
THEOREM RuntimeKeepsStoreSound ==
  Spec => [](TimelineSeqUnique /\ NoOrphanRows /\ CompletedHasAnswer) /\ TimelineAppendOnly
<1> QED BY RuntimeRefinesStore, StoreSequence, StoreNoOrphans, StoreAnswers, StoreAppendOnly, PTL

-----------------------------------------------------------------------------
(* Who has a run.  In one step a run is started, waits, is taken up, ends, *)
(* or at most loses those that had it.  From these five shapes of a step   *)
(* follow, run by run, that a run is in one place, that it ends once and   *)
(* that the Runtime implements the life cycle of RunLifecycle.             *)

Kept(r) ==
  /\ Holders(r)' \subseteq Holders(r)
  /\ Keepers(r)' \subseteq Keepers(r)
  /\ outcome'[r] = outcome[r]

Started(r) ==
  /\ r \notin issued
  /\ r \in issued'
  /\ \E t \in Clients : Holders(r)' = Holders(r) \cup {t}
  /\ Keepers(r)' = Keepers(r)
  /\ outcome'[r] = outcome[r]

Waited(r) ==
  /\ \E t \in Holders(r) : Holders(r)' = Holders(r) \ {t}
  /\ \E p \in Procs : p \in Keepers(r)' /\ Keepers(r)' \subseteq Keepers(r) \cup {p}
  /\ outcome'[r] = outcome[r]

TakenUp(r) ==
  /\ \E p \in Keepers(r) : Keepers(r)' = Keepers(r) \ {p}
  /\ \E t \in Clients : Holders(r)' = Holders(r) \cup {t}
  /\ outcome'[r] = outcome[r]

Ended(r) ==
  /\ \E t \in Holders(r) : Holders(r)' = Holders(r) \ {t}
  /\ Keepers(r)' = Keepers(r)
  /\ outcome'[r] # Nil
  /\ outcome'[r].status \in RunStatus \ ActiveStatus

Shaped(r) ==
  /\ r \in issued => r \in issued'
  /\ r \in issued' \ issued => Holders(r)' # {}
  /\ Kept(r) \/ Started(r) \/ Waited(r) \/ TakenUp(r) \/ Ended(r)

\* Run ids are never taken back.
LEMMA IssuedGrows ==
  ASSUME [StoreNext]_storeVars
  PROVE  issued \subseteq issued'
BY DEF StoreNext, StoreStep, storeVars, tables, CreateSession, DeleteSession, CreateUserTurn,
       BeginAppend, IssueRunId, InsertEvent, BeginCompleteRun, BeginCreateRun, BeginFailRun,
       InsertMessage, UpdateRun, InsertRun, MarkInterruptedRuns, AbandonCalls

\* A step that leaves the registries and results alone and takes up no run.
LEMMA ThreadOnly ==
  ASSUME NEW r \in Runs, UNCHANGED <<pending, outcome>>,
         \A t \in Clients : th'[t] # Nil /\ th'[t].run = r => th[t] # Nil /\ th[t].run = r
  PROVE  Kept(r)
BY DEF Kept, Holders, Keepers

\* A step that starts run q: a turn, or the id of a turn that is not stored.
LEMMA StartShape ==
  ASSUME RuntimeTyped, NEW r \in Runs, NEW t \in Clients, NEW q \in Runs, q \notin issued, q \in issued',
         NEW a \in Stage, NEW s \in Sessions,
         th' = [th EXCEPT ![t] = NewRequest(a, s, q, FALSE, "running")],
         UNCHANGED <<pending, outcome>>
  PROVE  Kept(r) \/ Started(r)
<1>0. NewRequest(a, s, q, FALSE, "running") # Nil
  BY NewRequestTyped, RuntimeNilAssumption DEF RunStatus, ActiveStatus
<1>1. CASE r = q
  <2>1. Holders(r)' = Holders(r) \cup {t}
    BY <1>0, <1>1 DEF Holders, NewRequest, RuntimeTyped, ThreadsOK
  <2> QED BY <1>1, <2>1 DEF Started, Keepers
<1>2. CASE r # q
  <2>1. Holders(r)' \subseteq Holders(r)
    BY <1>0, <1>2 DEF Holders, NewRequest, RuntimeTyped, ThreadsOK
  <2> QED BY <2>1 DEF Kept, Keepers
<1> QED BY <1>1, <1>2

\* A step that takes a run from the registry.
LEMMA TakeShape ==
  ASSUME RuntimeTyped, NEW r \in Runs, NEW t \in Clients, NEW q \in Runs,
         Free(t), pending[ProcOf[t]][q] # Nil,
         pending' = [pending EXCEPT ![ProcOf[t]][q] = Nil], UNCHANGED outcome,
         NEW a \in Stage, NEW s \in Sessions, NEW b \in BOOLEAN, NEW status \in RunStatus,
         th' = [th EXCEPT ![t] = NewRequest(a, s, q, b, status)]
  PROVE  Kept(r) \/ TakenUp(r)
<1>0. NewRequest(a, s, q, b, status) # Nil
  BY NewRequestTyped, RuntimeNilAssumption
<1>1. /\ ProcOf[t] \in Procs
      /\ \A p \in Procs, x \in Runs :
           pending'[p][x] = IF p = ProcOf[t] /\ x = q THEN Nil ELSE pending[p][x]
  BY RuntimeAssumption DEF RuntimeTyped, RuntimeTypeOK, RegistryTypeOK
<1>2. CASE r = q
  <2>1. Holders(r)' = Holders(r) \cup {t}
    BY <1>0, <1>2 DEF Holders, NewRequest, RuntimeTyped, ThreadsOK
  <2>2. Keepers(r)' = Keepers(r) \ {ProcOf[t]} /\ ProcOf[t] \in Keepers(r)
    BY <1>1, <1>2 DEF Keepers
  <2> QED BY <1>2, <2>1, <2>2 DEF TakenUp
<1>3. CASE r # q
  <2>1. Holders(r)' \subseteq Holders(r)
    BY <1>0, <1>3 DEF Holders, NewRequest, RuntimeTyped, ThreadsOK
  <2> QED BY <1>1, <1>3, <2>1 DEF Kept, Keepers
<1> QED BY <1>2, <1>3

\* A step that gives a final result.
LEMMA EndShape ==
  ASSUME RuntimeTyped, NEW r \in Runs, NEW t \in Clients, th[t] # Nil, th[t].at \in Ending,
         NEW kept \in BOOLEAN, Finish(t, th[t].status, kept), UNCHANGED pending
  PROVE  Kept(r) \/ Ended(r)
<1>1. th[t].run \in Runs /\ th[t].status \in RunStatus \ ActiveStatus
  BY DEF RuntimeTyped, ThreadsOK, RequestOK, Request, Ending
<1>2. CASE r = th[t].run
  <2>1. Holders(r)' = Holders(r) \ {t} /\ t \in Holders(r)
    BY <1>2 DEF Finish, Holders, RuntimeTyped, ThreadsOK
  <2>2. outcome'[r] = [status |-> th[t].status, kept |-> kept]
    BY <1>1, <1>2 DEF Finish, RuntimeTyped, RuntimeTypeOK
  <2> QED BY <1>1, <2>1, <2>2, RuntimeNilAssumption DEF Ended, Keepers, Outcome
<1>3. CASE r # th[t].run
  <2>1. Holders(r)' \subseteq Holders(r) /\ outcome'[r] = outcome[r]
    BY <1>3 DEF Finish, Holders, RuntimeTyped, ThreadsOK, RuntimeTypeOK
  <2> QED BY <2>1 DEF Kept, Keepers
<1> QED BY <1>2, <1>3

\* A step after which a thread carries nothing, and no run is taken up.
LEMMA DropShape ==
  ASSUME RuntimeTyped, NEW r \in Runs, UNCHANGED outcome,
         \A t \in Clients : th'[t] # Nil => th'[t] = th[t],
         \A p \in Procs, x \in Runs : pending'[p][x] # Nil => pending[p][x] # Nil
  PROVE  Kept(r)
BY DEF Kept, Holders, Keepers

\* A user's call starts a run, takes one up, or drops an expired wait.
LEMMA UserCallShape ==
  ASSUME RuntimeTyped, NEW r \in Runs, NEW t \in Clients, UserCall(t)
  PROVE  Kept(r) \/ Started(r) \/ TakenUp(r)
<1> USE DEF registryVars, turnVars, historyVars, budget
<1>1. ASSUME NEW s \in Sessions, NEW q \in Runs, BeginTurn(t, s, q) \/ BeginTurnUnstored(t, s, q)
      PROVE  Kept(r) \/ Started(r)
  <2>1. q \notin issued /\ q \in issued'
    BY <1>1 DEF BeginTurn, BeginTurnUnstored, CreateUserTurn, IssueRunId
  <2>2. UNCHANGED <<pending, outcome>>
    BY <1>1 DEF BeginTurn, BeginTurnUnstored
  <2>3. PICK a \in {"context", "agent"} : th' = [th EXCEPT ![t] = NewRequest(a, s, q, FALSE, "running")]
    BY <1>1 DEF BeginTurn, BeginTurnUnstored
  <2> QED BY <2>1, <2>2, <2>3, StartShape DEF Stage
<1>2. ASSUME NEW q \in Runs, pending[ProcOf[t]][q] # Nil
      PROVE  pending[ProcOf[t]][q].session \in Sessions
  BY <1>2, RuntimeAssumption DEF RuntimeTyped, RuntimeTypeOK, RegistryTypeOK, PendingRecord
<1>3. ASSUME NEW q \in Runs, NEW approved \in BOOLEAN, NEW k \in 0 .. MaxTickets,
             Resume(t, q, approved, k)
      PROVE  Kept(r) \/ TakenUp(r)
  <2>1. /\ Free(t)
        /\ pending[ProcOf[t]][q] # Nil
        /\ pending' = [pending EXCEPT ![ProcOf[t]][q] = Nil]
        /\ UNCHANGED outcome
    BY <1>3 DEF Resume, Pop
  <2>2. PICK a \in {"fail", "agent"}, status \in {"failed", "running"} : Taken(t, q, a, status)
    BY <1>3 DEF Resume
  <2>3. a \in Stage /\ status \in RunStatus
    BY RuntimeAssumption DEF Stage, RunStatus, ActiveStatus
  <2> QED BY <1>2, <2>1, <2>2, <2>3, TakeShape DEF Taken
<1>4. ASSUME NEW q \in Runs, ResumeExpired(t, q)
      PROVE  Kept(r)
  <2>1. UNCHANGED <<th, outcome>> /\ pending' = [pending EXCEPT ![ProcOf[t]][q] = Nil]
    BY <1>4 DEF ResumeExpired, DropExpired
  <2>2. \A p \in Procs, x \in Runs : pending'[p][x] # Nil => pending[p][x] # Nil
    BY <2>1, RuntimeAssumption DEF RuntimeTyped, RuntimeTypeOK, RegistryTypeOK
  <2> QED BY <2>1, <2>2, DropShape
<1>5. ASSUME NEW q \in Runs, Cancel(t, q)
      PROVE  Kept(r) \/ TakenUp(r)
  <2>1. /\ Free(t)
        /\ pending[ProcOf[t]][q] # Nil
        /\ pending' = [pending EXCEPT ![ProcOf[t]][q] = Nil]
        /\ UNCHANGED outcome
        /\ th' = [th EXCEPT ![t] = NewRequest("notice", pending[ProcOf[t]][q].session, q,
                                              TRUE, "cancelled")]
    BY <1>5 DEF Cancel, Pop
  <2>2. "notice" \in Stage /\ "cancelled" \in RunStatus
    BY RuntimeAssumption DEF Stage, RunStatus
  <2> QED BY <1>2, <2>1, <2>2, TakeShape
<1>6. ASSUME NEW s \in Sessions, DeleteStored(t, s)
      PROVE  Kept(r)
  BY <1>6, ThreadOnly, NilAssumption DEF DeleteStored, NewRequest, RuntimeTyped, ThreadsOK
<1> QED BY <1>1, <1>3, <1>4, <1>5, <1>6 DEF UserCall

\* While the agent works its run stays where it is.
LEMMA AgentStepShape ==
  ASSUME RuntimeTyped, NEW r \in Runs, NEW t \in Clients, AgentStep(t)
  PROVE  Kept(r)
<1>1. UNCHANGED <<pending, outcome>>
  BY DEF AgentStep, EmitEvent, AgentCompletes, AgentFails, AgentAsks, AgentAsksInput, registryVars
<1>2. th[t] # Nil /\ th[t] \in Request
  BY DEF AgentStep, EmitEvent, AgentCompletes, AgentFails, AgentAsks, AgentAsksInput, At,
         RuntimeTyped, ThreadsOK
<1>3. UNCHANGED th \/ \E stage, status : AfterAgent(t, stage, status)
  BY DEF AgentStep, EmitEvent, AgentCompletes, AgentFails, AgentAsks, AgentAsksInput
<1>4. \A u \in Clients : th'[u] # Nil /\ th'[u].run = r => th[u] # Nil /\ th[u].run = r
  <2>1. ASSUME NEW stage, NEW status,
               th' = [th EXCEPT ![t].at = stage, ![t].status = status]
        PROVE  /\ th'[t].run = th[t].run
               /\ \A u \in Clients : u # t => th'[u] = th[u]
    BY <1>2, <2>1 DEF RuntimeTyped, ThreadsOK, Request
  <2>2. \/ UNCHANGED th
        \/ \E stage, status : th' = [th EXCEPT ![t].at = stage, ![t].status = status]
    BY <1>3 DEF AfterAgent
  <2> QED BY <1>2, <2>1, <2>2
<1> QED BY <1>1, <1>4, ThreadOnly

\* A turn that goes on keeps its run, hands it to the registry or ends it; one
\* that loses its store starts another run.
LEMMA RuntimeStepShape ==
  ASSUME RuntimeTyped, NEW r \in Runs, NEW t \in Clients, RuntimeStep(t)
  PROVE  Kept(r) \/ Started(r) \/ Waited(r) \/ Ended(r)
<1> USE DEF registryVars, turnVars, historyVars, budget
<1>1. ASSUME NEW q \in Runs, BuildContextFails(t, q)
      PROVE  Kept(r) \/ Started(r)
  <2>1. q \notin issued /\ q \in issued' /\ UNCHANGED <<pending, outcome>>
    BY <1>1 DEF BuildContextFails, IssueRunId
  <2>2. th[t].session \in Sessions /\ "agent" \in Stage
    BY <1>1 DEF BuildContextFails, At, RuntimeTyped, ThreadsOK, Request, Stage
  <2>3. th' = [th EXCEPT ![t] = NewRequest("agent", th[t].session, q, FALSE, "running")]
    BY <1>1 DEF BuildContextFails
  <2> QED BY <2>1, <2>2, <2>3, StartShape
<1>2. CASE RegisterWait(t)
  <2>1. /\ th[t] # Nil /\ th[t].run \in Runs /\ th[t].session \in Sessions
        /\ asked[th[t].run] \in Nat
    <3>1. th[t] # Nil /\ th[t] \in Request /\ th[t].run \in Runs
      BY <1>2 DEF RegisterWait, At, RuntimeTyped, ThreadsOK, RequestOK
    <3>2. asked[th[t].run] \in Nat
      BY <3>1, RuntimeAssumption DEF RuntimeTyped, RuntimeTypeOK
    <3> QED BY <3>1, <3>2 DEF Request
  <2> DEFINE p0 == ProcOf[t]
             rec == [session |-> th[t].session, ticket |-> asked[th[t].run], expires |-> clock + Ttl]
  <2>2. p0 \in Procs /\ rec # Nil
    <3>1. rec \in PendingRecord
      BY <2>1, RegistryAssumption DEF PendingRecord, RuntimeTyped, RuntimeTypeOK, RegistryTypeOK
    <3> QED BY <3>1, RegistryNilAssumption, RuntimeAssumption
  <2>3. pending' = [pending EXCEPT ![p0] = [Unexpired(pending[p0]) EXCEPT ![th[t].run] = rec]]
    BY <1>2 DEF RegisterWait, Register
  <2>4. /\ \A p \in Procs, x \in Runs : pending'[p][x] # Nil =>
             pending[p][x] # Nil \/ (p = p0 /\ x = th[t].run)
        /\ pending'[p0][th[t].run] # Nil
    BY <2>1, <2>2, <2>3 DEF Unexpired, RuntimeTyped, RuntimeTypeOK, RegistryTypeOK
  <2>5. th' = [th EXCEPT ![t] = Nil] /\ UNCHANGED outcome
    BY <1>2 DEF RegisterWait
  <2> HIDE DEF p0, rec
  <2>6. CASE r = th[t].run
    <3>1. t \in Holders(r) /\ Holders(r)' = Holders(r) \ {t}
      BY <2>1, <2>5, <2>6 DEF Holders, RuntimeTyped, ThreadsOK
    <3>2. p0 \in Keepers(r)' /\ Keepers(r)' \subseteq Keepers(r) \cup {p0}
      BY <2>2, <2>4, <2>6 DEF Keepers
    <3> QED BY <2>2, <2>5, <3>1, <3>2 DEF Waited
  <2>7. CASE r # th[t].run
    <3>1. Holders(r)' \subseteq Holders(r)
      BY <2>5 DEF Holders, RuntimeTyped, ThreadsOK
    <3>2. Keepers(r)' \subseteq Keepers(r)
      BY <2>4, <2>7 DEF Keepers
    <3> QED BY <2>5, <3>1, <3>2 DEF Kept
  <2> QED BY <2>6, <2>7
<1>3. CASE FinalizeFails(t) \/ FinalizeUnstored(t) \/ Summarize(t)
  <2>1. th[t] # Nil /\ th[t].at \in Ending /\ UNCHANGED pending
    BY <1>3 DEF FinalizeFails, FinalizeUnstored, Summarize, At, Ending, Finalizing
  <2>2. PICK kept \in BOOLEAN : Finish(t, th[t].status, kept)
    BY <1>3 DEF FinalizeFails, FinalizeUnstored, Summarize
  <2> QED BY <2>1, <2>2, EndShape
<1>4. CASE ClearPending(t)
  <2>1. UNCHANGED outcome /\ \A u \in Clients : th'[u] # Nil => th'[u] = th[u]
    BY <1>4 DEF ClearPending, RuntimeTyped, ThreadsOK
  <2>2. \A p \in Procs, x \in Runs : pending'[p][x] # Nil => pending[p][x] # Nil
    BY <1>4, RuntimeAssumption
    DEF ClearPending, ClearSession, Unexpired, RuntimeTyped, RuntimeTypeOK, RegistryTypeOK
  <2> QED BY <2>1, <2>2, DropShape
<1>5. ASSUME th[t] # Nil, UNCHANGED <<pending, outcome>>, NEW stage,
             Move(t, stage) \/ UNCHANGED th
                \/ th' = [th EXCEPT ![t].at = "complete",
                                    ![t].answer = Answer(th[t].session, th[t].run)]
      PROVE  Kept(r)
  <2>1. \A u \in Clients : th'[u] # Nil /\ th'[u].run = r => th[u] # Nil /\ th[u].run = r
    BY <1>5 DEF Move, RuntimeTyped, ThreadsOK, Request
  <2> QED BY <1>5, <2>1, ThreadOnly
<1>6. CASE \/ BuildContext(t) \/ CancelNotice(t) \/ AnswerChecked(t) \/ AnswerStored(t)
           \/ CompletionLoaded(t) \/ FailureLoaded(t) \/ RunWritten(t)
  <2>1. th[t] # Nil /\ UNCHANGED <<pending, outcome>>
    BY <1>6 DEF BuildContext, CancelNotice, AnswerChecked, AnswerStored, CompletionLoaded,
                FailureLoaded, RunWritten, At, Finalizing
  <2>2. \/ \E stage : Move(t, stage)
        \/ UNCHANGED th
        \/ th' = [th EXCEPT ![t].at = "complete",
                            ![t].answer = Answer(th[t].session, th[t].run)]
    BY <1>6 DEF BuildContext, CancelNotice, AnswerChecked, AnswerStored, CompletionLoaded,
                FailureLoaded, RunWritten
  <2> QED BY <1>5, <2>1, <2>2
<1> QED BY <1>1, <1>2, <1>3, <1>4, <1>6 DEF RuntimeStep

\* A run id that is issued is taken into work in the same step.
LEMMA IssuedIsHeld ==
  ASSUME RuntimeTyped, NEW r \in Runs, [Next]_vars, r \in issued' \ issued
  PROVE  Holders(r)' # {}
<1>1. ASSUME NEW t \in Clients, NEW a \in Stage, NEW s \in Sessions,
             th' = [th EXCEPT ![t] = NewRequest(a, s, r, FALSE, "running")]
      PROVE  Holders(r)' # {}
  <2>1. NewRequest(a, s, r, FALSE, "running") # Nil
    BY NewRequestTyped, RuntimeNilAssumption DEF RunStatus, ActiveStatus
  <2>2. t \in Holders(r)'
    BY <1>1, <2>1 DEF Holders, NewRequest, RuntimeTyped, ThreadsOK
  <2> QED BY <2>2
<1>2. ASSUME NEW t \in Clients, NEW s \in Sessions, NEW q \in Runs,
             BeginTurn(t, s, q) \/ BeginTurnUnstored(t, s, q)
      PROVE  Holders(r)' # {}
  <2>1. issued' = issued \cup {q}
    BY <1>2 DEF BeginTurn, BeginTurnUnstored, CreateUserTurn, IssueRunId
  <2>2. q = r
    BY <2>1
  <2>3. PICK a \in {"context", "agent"} : th' = [th EXCEPT ![t] = NewRequest(a, s, q, FALSE, "running")]
    BY <1>2 DEF BeginTurn, BeginTurnUnstored
  <2> QED BY <1>1, <2>2, <2>3 DEF Stage
<1>3. ASSUME NEW t \in Clients, NEW q \in Runs, BuildContextFails(t, q)
      PROVE  Holders(r)' # {}
  <2>1. q = r
    BY <1>3 DEF BuildContextFails, IssueRunId
  <2>2. th[t].session \in Sessions /\ "agent" \in Stage
    BY <1>3 DEF BuildContextFails, At, RuntimeTyped, ThreadsOK, Request, Stage
  <2> QED BY <1>1, <1>3, <2>1, <2>2 DEF BuildContextFails
<1>4. ASSUME UNCHANGED issued
      PROVE  FALSE
  BY <1>4
<1>5. ASSUME NEW t \in Clients, AgentStep(t)
      PROVE  UNCHANGED issued
  BY <1>5 DEF AgentStep, EmitEvent, RecordEvent, InsertEvent, AgentCompletes, AgentFails, AgentAsks,
              AgentAsksInput, storeVars
<1>6. ASSUME NEW t \in Clients, UserCall(t)
      PROVE  Holders(r)' # {}
  BY <1>2, <1>4, <1>6 DEF UserCall, Resume, ResumeExpired, Cancel, DeleteStored, DeleteSession, storeVars
<1>7. ASSUME NEW t \in Clients, RuntimeStep(t)
      PROVE  Holders(r)' # {}
  BY <1>3, <1>4, <1>7
  DEF RuntimeStep, BuildContext, CancelNotice, RecordEvent, InsertEvent, RegisterWait, AnswerChecked,
      BeginAppend, AnswerStored, InsertMessage, CompletionLoaded, BeginCompleteRun, FailureLoaded,
      BeginFailRun, RunWritten, UpdateRun, FinalizeFails, AbandonCalls, FinalizeUnstored, Summarize,
      ClearPending, storeVars
<1> QED BY <1>4, <1>5, <1>6, <1>7
        DEF Next, Crash, AbandonCalls, Restart, MarkInterruptedRuns, ClockTicks, vars, storeVars

\* For each run, every step has one of the five shapes.
LEMMA StepShape ==
  ASSUME RuntimeTyped, NEW r \in Runs, [Next]_vars
  PROVE  Shaped(r)
<1>1. r \in issued => r \in issued'
  BY NextIsStoreStep, IssuedGrows DEF vars
<1>2. ASSUME NEW p \in Procs, Crash(p)
      PROVE  Kept(r)
  <2>1. UNCHANGED outcome /\ \A u \in Clients : th'[u] # Nil => th'[u] = th[u]
    BY <1>2 DEF Crash
  <2>2. \A q \in Procs, x \in Runs : pending'[q][x] # Nil => pending[q][x] # Nil
    BY <1>2 DEF Crash, Clear, RuntimeTyped, RuntimeTypeOK, RegistryTypeOK
  <2> QED BY <2>1, <2>2, DropShape
<1>3. ASSUME UNCHANGED <<pending, outcome, th>>
      PROVE  Kept(r)
  BY <1>3, ThreadOnly
<1> QED BY <1>1, <1>2, <1>3, IssuedIsHeld, UserCallShape, AgentStepShape, RuntimeStepShape
        DEF Next, Restart, ClockTicks, vars, registryVars, Shaped

-----------------------------------------------------------------------------
(* A run is in one place and ends once *)

\* Why SoleOwner is kept: a run that somebody has was issued, so it is never
\* started again, and has no result, so it never ends again.
OwnerOK(r) ==
  /\ \A t, u \in Holders(r) : t = u
  /\ \A p, q \in Keepers(r) : p = q
  /\ Holders(r) = {} \/ Keepers(r) = {}
  /\ Owned(r) => r \in issued /\ outcome[r] = Nil
  /\ outcome[r] # Nil => r \in issued /\ outcome[r].status \in RunStatus \ ActiveStatus

OwnerInv == \A r \in Runs : OwnerOK(r)

\* Each of the five shapes keeps a run in one place, with at most one result.
LEMMA OwnerShapes ==
  ASSUME NEW r \in Runs, OwnerOK(r), Shaped(r)
  PROVE  OwnerOK(r)'
<1> USE DEF OwnerOK, Owned
<1>1. CASE Kept(r)
  BY <1>1 DEF Shaped, Kept
<1>2. CASE Started(r)
  <2>1. Holders(r) = {} /\ Keepers(r) = {} /\ outcome[r] = Nil
    BY <1>2 DEF Started
  <2> QED BY <1>2, <2>1 DEF Started
<1>3. CASE Waited(r)
  <2>1. Keepers(r) = {} /\ Holders(r)' = {} /\ r \in issued /\ outcome[r] = Nil
    BY <1>3 DEF Waited
  <2> QED BY <1>3, <2>1 DEF Waited, Shaped
<1>4. CASE TakenUp(r)
  <2>1. Holders(r) = {} /\ Keepers(r)' = {} /\ r \in issued /\ outcome[r] = Nil
    BY <1>4 DEF TakenUp
  <2> QED BY <1>4, <2>1 DEF TakenUp, Shaped
<1>5. CASE Ended(r)
  <2>1. Holders(r)' = {} /\ Keepers(r)' = {} /\ r \in issued
    BY <1>5 DEF Ended
  <2> QED BY <1>5, <2>1 DEF Ended, Shaped
<1> QED BY <1>1, <1>2, <1>3, <1>4, <1>5 DEF Shaped

\* At first nobody has a run.
LEMMA OwnerInit == Init => OwnerInv
BY DEF Init, OwnerInv, OwnerOK, Owned, Holders, Keepers, RegistryInit

\* Every step of the Runtime keeps every run in one place.
LEMMA OwnerStep ==
  ASSUME RuntimeTyped, OwnerInv, [Next]_vars
  PROVE  OwnerInv'
BY StepShape, OwnerShapes DEF OwnerInv

\* A run is worked on by one thread or waits in one registry, never both,
\* however resume, cancel, expiry, deletion and crashes interleave.
THEOREM RuntimeSoleOwner == Spec => []SoleOwner
<1>1. RuntimeTyped /\ OwnerInv /\ [Next]_vars => RuntimeTyped' /\ OwnerInv'
  BY RuntimeTypeStep, OwnerStep
<1>2. OwnerInv => SoleOwner
  BY DEF OwnerInv, OwnerOK, SoleOwner
<1> QED BY RuntimeInit, OwnerInit, <1>1, <1>2, PTL DEF Spec

\* Registering a wait never meets a record of the same run: no user ever gets
\* the SESSION_CONFLICT of the registry out of run() or resume().
THEOREM RuntimeRegisterNeverConflicts == Spec => []RegisterNeverConflicts
<1>1. RuntimeTyped /\ OwnerInv /\ [Next]_vars => RuntimeTyped' /\ OwnerInv'
  BY RuntimeTypeStep, OwnerStep
<1>2. RuntimeTyped /\ OwnerInv => RegisterNeverConflicts
  <2> SUFFICES ASSUME RuntimeTyped, OwnerInv, NEW t \in Clients, At(t, "register")
               PROVE  CanRegister(ProcOf[t], th[t].run)
    BY DEF RegisterNeverConflicts
  <2>1. th[t].run \in Runs /\ t \in Holders(th[t].run) /\ ProcOf[t] \in Procs
    BY RuntimeAssumption DEF At, RuntimeTyped, ThreadsOK, RequestOK, Holders
  <2>2. Keepers(th[t].run) = {}
    BY <2>1 DEF OwnerInv, OwnerOK
  <2>3. pending[ProcOf[t]][th[t].run] = Nil
    BY <2>1, <2>2 DEF Keepers
  <2> QED BY <2>1, <2>3 DEF CanRegister, Unexpired
<1> QED BY RuntimeInit, OwnerInit, <1>1, <1>2, PTL DEF Spec

-----------------------------------------------------------------------------
(* The life cycle *)

Results == RunStatus \ ActiveStatus

\* What Life says of a run.
LEMMA LifeOf ==
  ASSUME NEW r \in Runs, OwnerOK(r)
  PROVE  /\ outcome[r] # Nil => Life[r] = outcome[r].status /\ Life[r] \in Results
         /\ outcome[r] = Nil /\ Holders(r) # {} => Life[r] = "working"
         /\ outcome[r] = Nil /\ Holders(r) = {} /\ Keepers(r) # {} => Life[r] = "waiting"
         /\ outcome[r] = Nil /\ ~Owned(r) /\ r \in issued => Life[r] = "dropped"
         /\ outcome[r] = Nil /\ ~Owned(r) /\ r \notin issued => Life[r] = "new"
BY DEF Life, OwnerOK, Owned, Results

\* Each of the five shapes is a step of the life cycle, or none.
LEMMA LifeShapes ==
  ASSUME NEW r \in Runs, OwnerOK(r), OwnerOK(r)', Shaped(r)
  PROVE  \/ Lifecycle!Start(r) \/ Lifecycle!Wait(r) \/ Lifecycle!TakeUp(r)
         \/ Lifecycle!End(r) \/ Lifecycle!Drop(r) \/ Life'[r] = Life[r]
<1> USE DEF Lifecycle!Becomes
<1>0. /\ outcome'[r] # Nil => Life'[r] = outcome'[r].status /\ Life'[r] \in Results
      /\ outcome'[r] = Nil /\ Holders(r)' # {} => Life'[r] = "working"
      /\ outcome'[r] = Nil /\ Holders(r)' = {} /\ Keepers(r)' # {} => Life'[r] = "waiting"
      /\ outcome'[r] = Nil /\ ~Owned(r)' /\ r \in issued' => Life'[r] = "dropped"
      /\ outcome'[r] = Nil /\ ~Owned(r)' /\ r \notin issued' => Life'[r] = "new"
  BY DEF Life, OwnerOK, Owned, Results
<1>1. CASE Kept(r)
  <2>1. CASE Owned(r)
    <3>1. Life[r] \in {"working", "waiting"} /\ r \in issued'
      BY <2>1, LifeOf DEF OwnerOK, Owned, Shaped
    <3>2. Life'[r] = Life[r] \/ Life'[r] = "dropped"
      BY <1>0, <1>1, <2>1, <3>1, LifeOf DEF OwnerOK, Owned, Kept
    <3> QED BY <3>1, <3>2 DEF Lifecycle!Drop
  <2>2. CASE ~Owned(r) /\ r \notin issued
    <3>1. r \notin issued' /\ ~Owned(r)'
      BY <1>1, <2>2 DEF Shaped, Kept, Owned
    <3> QED BY <1>0, <1>1, <2>2, <3>1, LifeOf DEF Kept
  <2>3. CASE ~Owned(r) /\ r \in issued
    <3>1. r \in issued' /\ ~Owned(r)'
      BY <1>1, <2>3 DEF Shaped, Kept, Owned
    <3> QED BY <1>0, <1>1, <2>3, <3>1, LifeOf DEF Kept
  <2> QED BY <1>1, <2>1, <2>2, <2>3
<1>2. CASE Started(r)
  <2>1. Life[r] = "new"
    BY <1>2, LifeOf DEF Started, OwnerOK
  <2>2. Life'[r] = "working"
    BY <1>0, <1>2 DEF Started, OwnerOK
  <2> QED BY <2>1, <2>2 DEF Lifecycle!Start
<1>3. CASE Waited(r)
  <2>1. Life[r] = "working"
    BY <1>3, LifeOf DEF Waited, OwnerOK, Owned
  <2>2. Life'[r] = "waiting"
    BY <1>0, <1>3 DEF Waited, OwnerOK, Owned
  <2> QED BY <2>1, <2>2 DEF Lifecycle!Wait
<1>4. CASE TakenUp(r)
  <2>1. Life[r] = "waiting"
    BY <1>4, LifeOf DEF TakenUp, OwnerOK, Owned
  <2>2. Life'[r] = "working"
    BY <1>0, <1>4 DEF TakenUp, OwnerOK, Owned
  <2> QED BY <2>1, <2>2 DEF Lifecycle!TakeUp
<1>5. CASE Ended(r)
  <2>1. Life[r] = "working"
    BY <1>5, LifeOf DEF Ended, OwnerOK, Owned
  <2>2. Life'[r] \in RunStatus \ ActiveStatus
    BY <1>0, <1>5 DEF Ended, Results
  <2> QED BY <2>1, <2>2 DEF Lifecycle!End
<1> QED BY <1>1, <1>2, <1>3, <1>4, <1>5 DEF Shaped

\* The Runtime implements the life cycle of a run: a run is worked on and waits
\* by turns, ends once, and one that was dropped never comes back.
THEOREM RuntimeFollowsLifecycle == Spec => RunsFollowLifecycle
<1>1. Init => Lifecycle!Init
  <2> SUFFICES ASSUME Init PROVE Life = [r \in Runs |-> "new"]
    BY DEF Lifecycle!Init
  <2>1. \A r \in Runs : Life[r] = "new"
    BY DEF Init, Life, Owned, Holders, Keepers, RegistryInit, StoreInit
  <2> QED BY <2>1 DEF Life
<1>2. ASSUME RuntimeTyped, OwnerInv, [Next]_vars
      PROVE  [Lifecycle!Next]_Life
  <2>1. OwnerInv'
    BY <1>2, OwnerStep
  <2>2. ASSUME NEW r \in Runs
        PROVE  \/ Lifecycle!Start(r) \/ Lifecycle!Wait(r) \/ Lifecycle!TakeUp(r)
               \/ Lifecycle!End(r) \/ Lifecycle!Drop(r) \/ Life'[r] = Life[r]
    BY <1>2, <2>1, StepShape, LifeShapes DEF OwnerInv
  <2>3. ASSUME NEW r \in Runs
        PROVE  Life'[r] \in Lifecycle!Phases \cup (RunStatus \ ActiveStatus)
    BY <2>1 DEF OwnerInv, OwnerOK, Life, Owned, Lifecycle!Phases
  <2>4. Life' \in [Runs -> Lifecycle!Phases \cup (RunStatus \ ActiveStatus)]
    BY <2>3 DEF Life
  <2> QED BY <2>2, <2>4 DEF Lifecycle!Next
<1>3. RuntimeTyped /\ OwnerInv /\ [Next]_vars => RuntimeTyped' /\ OwnerInv'
  BY RuntimeTypeStep, OwnerStep
<1> QED BY RuntimeInit, OwnerInit, <1>1, <1>2, <1>3, PTL DEF Spec, RunsFollowLifecycle, Lifecycle!Spec

-----------------------------------------------------------------------------
(* Confirmations *)

\* Why ConfirmedActionOnce is kept: the pending confirmation is a ticket that
\* was issued and neither carried out nor refused, and taking it up clears it.
TicketOK(r) ==
  /\ asked[r] <= tickets[r]
  /\ \A k \in granted[r] \cup refused[r] : k <= tickets[r]
  /\ asked[r] \notin refused[r]
  /\ \A k \in 1 .. MaxTickets : dispatched[r][k] # 0 =>
       /\ dispatched[r][k] = 1
       /\ k <= tickets[r]
       /\ k # asked[r]
       /\ k \in granted[r] \ refused[r]

TicketInv == \A r \in Runs : TicketOK(r)

\* A resume with an approval, a rejection or a mismatch leaves the tickets of
\* its run in order; the mismatch may only add an approval.
LEMMA ResumeTickets ==
  ASSUME RuntimeTyped, TicketInv, NEW t \in Clients, NEW q \in Runs, NEW approved \in BOOLEAN,
         NEW k \in 0 .. MaxTickets, k <= tickets[q], Resume(t, q, approved, k), NEW r \in Runs
  PROVE  TicketOK(r)'
<1>1. /\ asked[q] \in 0 .. MaxTickets /\ tickets[q] \in 0 .. MaxTickets
      /\ granted[q] \subseteq 1 .. MaxTickets /\ refused[q] \subseteq 1 .. MaxTickets
      /\ dispatched[q] \in [1 .. MaxTickets -> Nat]
      /\ MaxTickets \in Nat /\ 0 \notin refused[q]
  BY RuntimeAssumption DEF RuntimeTyped, RuntimeTypeOK
<1>2. UNCHANGED tickets
  BY DEF Resume
<1> DEFINE new == {IF k = 0 THEN asked[q] ELSE k} \ {0}
<1>3. /\ granted' = IF ~approved THEN granted ELSE [granted EXCEPT ![q] = @ \cup new]
      /\ \A j \in new : j <= tickets[q]
      /\ approved /\ asked[q] # 0 /\ ~Mismatched(q, k) => asked[q] \in new
  <2>1. asked[q] <= tickets[q]
    BY DEF TicketInv, TicketOK
  <2> QED BY <1>1, <2>1 DEF Resume, Grant, Mismatched
<1>4. CASE r # q
  <2>1. /\ asked'[r] = asked[r] /\ granted'[r] = granted[r]
        /\ refused'[r] = refused[r] /\ dispatched'[r] = dispatched[r]
    BY <1>3, <1>4 DEF Resume, RuntimeTyped, RuntimeTypeOK
  <2> QED BY <1>2, <2>1 DEF TicketInv, TicketOK
<1>5. CASE r = q
  <2> HIDE DEF new
  <2>1. granted'[q] = IF approved THEN granted[q] \cup new ELSE granted[q]
    BY <1>3 DEF RuntimeTyped, RuntimeTypeOK
  <2>2. TicketOK(q)
    BY DEF TicketInv
  <2>3. CASE UNCHANGED <<asked, dispatched, refused>>
    BY <1>1, <1>2, <1>3, <1>5, <2>1, <2>2, <2>3 DEF TicketOK
  <2>4. ASSUME asked[q] # 0, ~Mismatched(q, k), asked' = [asked EXCEPT ![q] = 0]
        PROVE  asked'[q] = 0 /\ asked[q] \in 1 .. MaxTickets
    BY <1>1, <2>4 DEF RuntimeTyped, RuntimeTypeOK
  <2>5. ASSUME asked[q] # 0, ~Mismatched(q, k), asked' = [asked EXCEPT ![q] = 0], approved,
               dispatched' = [dispatched EXCEPT ![q][asked[q]] = @ + 1], UNCHANGED refused
        PROVE  TicketOK(r)'
    <3>1. \A j \in 1 .. MaxTickets :
            dispatched'[q][j] = IF j = asked[q] THEN dispatched[q][j] + 1 ELSE dispatched[q][j]
      BY <1>1, <2>5 DEF RuntimeTyped, RuntimeTypeOK
    <3>2. dispatched[q][asked[q]] = 0 /\ asked[q] \notin refused[q] /\ asked[q] <= tickets[q]
      BY <2>2, <2>4, <2>5 DEF TicketOK
    <3> QED BY <1>1, <1>2, <1>3, <1>5, <2>1, <2>2, <2>4, <2>5, <3>1, <3>2 DEF TicketOK
  <2>6. ASSUME asked[q] # 0, ~Mismatched(q, k), asked' = [asked EXCEPT ![q] = 0], approved,
               UNCHANGED <<dispatched, refused>>
        PROVE  TicketOK(r)'
    BY <1>1, <1>2, <1>3, <1>5, <2>1, <2>2, <2>4, <2>6 DEF TicketOK
  <2>7. ASSUME asked[q] # 0, ~Mismatched(q, k), asked' = [asked EXCEPT ![q] = 0], ~approved,
               refused' = [refused EXCEPT ![q] = @ \cup {asked[q]}], UNCHANGED dispatched
        PROVE  TicketOK(r)'
    <3>1. refused'[q] = refused[q] \cup {asked[q]}
      BY <2>7 DEF RuntimeTyped, RuntimeTypeOK
    <3> QED BY <1>1, <1>2, <1>5, <2>1, <2>2, <2>4, <2>7, <3>1 DEF TicketOK
  <2> QED BY <2>3, <2>5, <2>6, <2>7 DEF Resume
<1> QED BY <1>4, <1>5

\* A new ticket is above all earlier ones.
LEMMA AskTickets ==
  ASSUME RuntimeTyped, TicketInv, NEW t \in Clients, AgentAsks(t), NEW r \in Runs
  PROVE  TicketOK(r)'
<1> DEFINE q == th[t].run
<1>1. q \in Runs
  BY DEF AgentAsks, At, RuntimeTyped, ThreadsOK, RequestOK
<1>2. /\ asked[q] \in 0 .. MaxTickets /\ tickets[q] \in 0 .. MaxTickets
      /\ granted[q] \subseteq 1 .. MaxTickets /\ refused[q] \subseteq 1 .. MaxTickets
      /\ dispatched[q] \in [1 .. MaxTickets -> Nat]
      /\ MaxTickets \in Nat /\ 0 \notin refused[q]
  BY <1>1, RuntimeAssumption DEF RuntimeTyped, RuntimeTypeOK
<1>3. /\ \A x \in Runs : tickets'[x] = IF x = q THEN tickets[x] + 1 ELSE tickets[x]
      /\ \A x \in Runs : asked'[x] = IF x = q THEN tickets[x] + 1 ELSE asked[x]
      /\ UNCHANGED <<granted, dispatched, refused>>
  BY <1>1 DEF AgentAsks, historyVars, RuntimeTyped, RuntimeTypeOK
<1> HIDE DEF q
<1>4. TicketOK(r)
  BY DEF TicketInv
<1>5. CASE r = q
  <2>1. tickets'[r] = tickets[r] + 1 /\ asked'[r] = tickets[r] + 1
    BY <1>3, <1>5
  <2>2. \A k \in granted[r] \cup refused[r] : k \in Nat /\ k <= tickets[r]
    BY <1>2, <1>4, <1>5 DEF TicketOK
  <2>3. asked'[r] \notin refused[r]
    BY <1>2, <1>5, <2>1, <2>2
  <2>4. ASSUME NEW k \in 1 .. MaxTickets, dispatched[r][k] # 0
        PROVE  /\ dispatched[r][k] = 1 /\ k <= tickets[r]
               /\ k \in granted[r] \ refused[r]
    BY <1>4, <2>4 DEF TicketOK
  <2>5. \A k \in 1 .. MaxTickets : k <= tickets[r] => k <= tickets'[r] /\ k # asked'[r]
    BY <1>2, <1>5, <2>1
  <2>6. \A k \in granted[r] \cup refused[r] : k <= tickets'[r]
    BY <1>2, <1>5, <2>1, <2>2
  <2>7. asked'[r] <= tickets'[r]
    BY <1>2, <1>5, <2>1
  <2> QED BY <1>3, <2>3, <2>4, <2>5, <2>6, <2>7 DEF TicketOK
<1>6. CASE r # q
  BY <1>3, <1>4, <1>6 DEF TicketOK
<1> QED BY <1>5, <1>6

\* A cancellation refuses the pending ticket.
LEMMA CancelTickets ==
  ASSUME RuntimeTyped, TicketInv, NEW t \in Clients, CancelNotice(t), NEW r \in Runs
  PROVE  TicketOK(r)'
<1> DEFINE q == th[t].run
<1>1. q \in Runs
  BY DEF CancelNotice, At, RuntimeTyped, ThreadsOK, RequestOK
<1>2. /\ asked[q] \in 0 .. MaxTickets /\ tickets[q] \in 0 .. MaxTickets
      /\ granted[q] \subseteq 1 .. MaxTickets /\ refused[q] \subseteq 1 .. MaxTickets
      /\ dispatched[q] \in [1 .. MaxTickets -> Nat]
      /\ MaxTickets \in Nat /\ 0 \notin refused[q]
  BY <1>1, RuntimeAssumption DEF RuntimeTyped, RuntimeTypeOK
<1>3. /\ \A x \in Runs : asked'[x] = IF x = q THEN 0 ELSE asked[x]
      /\ \A x \in Runs : refused'[x] = IF x = q THEN refused[x] \cup ({asked[x]} \ {0}) ELSE refused[x]
      /\ UNCHANGED <<granted, dispatched, tickets>>
  BY <1>1 DEF CancelNotice, RuntimeTyped, RuntimeTypeOK
<1> HIDE DEF q
<1>4. TicketOK(r)
  BY DEF TicketInv
<1>5. CASE r # q
  BY <1>3, <1>4, <1>5 DEF TicketOK
<1>6. CASE r = q
  <2>1. asked'[q] = 0 /\ refused'[q] = refused[q] \cup ({asked[q]} \ {0})
    BY <1>1, <1>3
  <2> QED BY <1>2, <1>3, <1>4, <1>6, <2>1 DEF TicketOK
<1> QED BY <1>5, <1>6

\* No other step touches a confirmation.
LEMMA TicketStep ==
  ASSUME RuntimeTyped, TicketInv, [Next]_vars
  PROVE  TicketInv'
<1> SUFFICES ASSUME NEW r \in Runs PROVE TicketOK(r)'
  BY DEF TicketInv
<1>1. ASSUME UNCHANGED <<tickets, asked, granted, dispatched, refused>>
      PROVE  TicketOK(r)'
  BY <1>1 DEF TicketInv, TicketOK
<1> USE DEF turnVars, historyVars
<1>2. ASSUME NEW t \in Clients, UserCall(t)
      PROVE  TicketOK(r)'
  BY <1>1, <1>2, ResumeTickets
  DEF UserCall, BeginTurn, BeginTurnUnstored, ResumeExpired, Cancel, DeleteStored
<1>3. ASSUME NEW t \in Clients, AgentStep(t)
      PROVE  TicketOK(r)'
  BY <1>1, <1>3, AskTickets DEF AgentStep, EmitEvent, AgentCompletes, AgentFails, AgentAsksInput
<1>4. ASSUME NEW t \in Clients, RuntimeStep(t)
      PROVE  TicketOK(r)'
  BY <1>1, <1>4, CancelTickets
  DEF RuntimeStep, BuildContext, BuildContextFails, RegisterWait, AnswerChecked, AnswerStored,
      CompletionLoaded, FailureLoaded, RunWritten, FinalizeFails, FinalizeUnstored, Summarize,
      ClearPending, Finalizing
<1>5. ASSUME (\E p \in Procs : Crash(p) \/ Restart(p)) \/ ClockTicks \/ UNCHANGED vars
      PROVE  TicketOK(r)'
  BY <1>1, <1>5 DEF Crash, Restart, ClockTicks, vars
<1> QED BY <1>2, <1>3, <1>4, <1>5 DEF Next

\* A confirmed action is carried out at most once, only if the user approved
\* that very confirmation, and never after it was rejected or cancelled,
\* however many times the run is resumed, cancelled and resumed again.
THEOREM RuntimeConfirmsOnce == Spec => []ConfirmedActionOnce
<1>1. Init => TicketInv
  <2> SUFFICES ASSUME Init, NEW r \in Runs PROVE TicketOK(r)
    BY DEF TicketInv
  <2>1. /\ asked[r] = 0 /\ tickets[r] = 0 /\ granted[r] = {} /\ refused[r] = {}
        /\ \A k \in 1 .. MaxTickets : dispatched[r][k] = 0
    BY DEF Init
  <2> QED BY <2>1 DEF TicketOK
<1>2. RuntimeTyped /\ TicketInv /\ [Next]_vars => RuntimeTyped' /\ TicketInv'
  BY RuntimeTypeStep, TicketStep
<1>3. RuntimeTyped /\ TicketInv => ConfirmedActionOnce
  <2> SUFFICES ASSUME RuntimeTyped, TicketInv, NEW r \in Runs, NEW k \in 1 .. MaxTickets
               PROVE  /\ dispatched[r][k] <= 1
                      /\ dispatched[r][k] = 1 => k \in granted[r]
                      /\ k \in refused[r] => dispatched[r][k] = 0
    BY DEF ConfirmedActionOnce
  <2>1. TicketOK(r) /\ dispatched[r][k] \in Nat
    BY DEF TicketInv, RuntimeTyped, RuntimeTypeOK
  <2> QED BY <2>1 DEF TicketOK
<1> QED BY RuntimeInit, <1>1, <1>2, <1>3, PTL DEF Spec

-----------------------------------------------------------------------------
(* Calls under way *)

\* A thread in the middle of an operation of the store is at the stage that
\* began it, for its own run; only a completed turn appends its answer.
CallOK(u) ==
  /\ ~Idle(u) =>
       /\ th[u] # Nil
       /\ call[u].run = th[u].run
       /\ \/ /\ th[u].at = "append"
             /\ call[u].op = "append"
             /\ call[u].session = th[u].session
          \/ /\ th[u].at \in {"complete", "fail"}
             /\ call[u].op = "update"
             /\ call[u].row.status = th[u].status
  /\ th[u] # Nil /\ th[u].at \in {"append", "complete"} => th[u].status = "completed"

CallsOK == \A u \in Clients : CallOK(u)

\* What the agent's return, or an event of it, does to the request.
LEMMA AgentEffect ==
  ASSUME RuntimeTyped, NEW t \in Clients, AgentStep(t)
  PROVE  /\ At(t, "agent") /\ th[t].run \in Runs
         /\ UNCHANGED <<messages, runs, issued, call, pending, outcome>>
         /\ \A u \in Clients : u # t => th'[u] = th[u]
         /\ EmitEvent(t) => UNCHANGED th
         /\ ~EmitEvent(t) =>
              /\ UNCHANGED <<storeVars, persisted, emitted>>
              /\ \E stage \in {"append", "register", "fail"}, status \in RunStatus :
                   /\ th'[t] = [th[t] EXCEPT !.at = stage, !.status = status]
                   /\ stage = "append" => status = "completed"
<1> USE DEF registryVars, historyVars, turnVars
<1>1. At(t, "agent")
  BY DEF AgentStep, EmitEvent, AgentCompletes, AgentFails, AgentAsks, AgentAsksInput
<1>2. th[t].run \in Runs /\ th[t] \in Request /\ th \in [Clients -> Request \cup {Nil}]
  BY <1>1 DEF At, RuntimeTyped, ThreadsOK, RequestOK
<1>3. UNCHANGED <<messages, runs, issued, call, pending, outcome>>
  BY DEF AgentStep, EmitEvent, RecordEvent, InsertEvent, AgentCompletes, AgentFails, AgentAsks,
         AgentAsksInput, storeVars, tables
<1>4. CASE EmitEvent(t)
  <2>1. UNCHANGED th
    BY <1>4 DEF EmitEvent
  <2> QED BY <1>1, <1>2, <1>3, <1>4, <2>1
<1>5. CASE ~EmitEvent(t)
  <2>1. UNCHANGED <<storeVars, persisted, emitted>>
    BY <1>5 DEF AgentStep, AgentCompletes, AgentFails, AgentAsks, AgentAsksInput
  <2>2. PICK stage \in {"append", "register", "fail"}, status \in RunStatus :
          AfterAgent(t, stage, status) /\ (stage = "append" => status = "completed")
    <3>1. {"completed", "waiting_user"} \cup FailStatus \subseteq RunStatus
      BY DEF RunStatus, ActiveStatus
    <3> QED BY <1>5, <3>1 DEF AgentStep, AgentCompletes, AgentFails, AgentAsks, AgentAsksInput
  <2> DEFINE at == IF th[t].cancel THEN "fail" ELSE stage
             st == IF th[t].cancel THEN "cancelled" ELSE status
  <2>3. at \in {"append", "register", "fail"} /\ (at = "append" => st = "completed")
    BY <2>2
  <2>4. st \in RunStatus
    BY RuntimeAssumption DEF RunStatus
  <2>5. /\ th'[t] = [th[t] EXCEPT !.at = at, !.status = st]
        /\ \A u \in Clients : u # t => th'[u] = th[u]
    BY <1>2, <2>2 DEF AfterAgent, Request
  <2> HIDE DEF at, st
  <2> QED BY <1>1, <1>2, <1>3, <1>5, <2>1, <2>3, <2>4, <2>5
<1> QED BY <1>4, <1>5

\* A thread's step leaves the requests and calls of the others alone.
LEMMA OthersKeep ==
  ASSUME RuntimeTyped, NEW t \in Clients, UserCall(t) \/ AgentStep(t) \/ RuntimeStep(t),
         NEW u \in Clients, u # t
  PROVE  th'[u] = th[u] /\ call'[u] = call[u]
<1>0. th \in [Clients -> Request \cup {Nil}] /\ call \in [Clients -> Call \cup {Nil}]
  BY DEF RuntimeTyped, ThreadsOK, RuntimeTypeOK, StoreTypeOK
<1> USE DEF storeVars
<1>1. CASE UserCall(t)
  <2>1. UNCHANGED call
    BY <1>1 DEF UserCall, BeginTurn, CreateUserTurn, BeginTurnUnstored, IssueRunId, Resume,
                ResumeExpired, Cancel, DeleteStored, DeleteSession
  <2>2. UNCHANGED th \/ \E q : th' = [th EXCEPT ![t] = q]
    BY <1>1 DEF UserCall, BeginTurn, BeginTurnUnstored, Resume, Taken, ResumeExpired, Cancel,
                DeleteStored
  <2> QED BY <1>0, <2>1, <2>2
<1>2. CASE AgentStep(t)
  BY <1>2, AgentEffect
<1>3. CASE RuntimeStep(t)
  <2>1. \/ UNCHANGED call \/ \E d : call' = [call EXCEPT ![t] = d]
        \/ call' = [c \in Clients |-> IF c \in {t} THEN Nil ELSE call[c]]
    BY <1>3 DEF RuntimeStep, BuildContext, BuildContextFails, IssueRunId, CancelNotice, RecordEvent,
      InsertEvent, RegisterWait, AnswerChecked, BeginAppend, AnswerStored, InsertMessage, Return,
      CompletionLoaded, BeginCompleteRun, FailureLoaded, BeginFailRun, RunWritten, UpdateRun,
      FinalizeFails, AbandonCalls, FinalizeUnstored, Summarize, ClearPending
  <2>2. \/ UNCHANGED th \/ \E q : th' = [th EXCEPT ![t] = q]
        \/ th' = [th EXCEPT ![t].at = "complete", ![t].answer = Answer(th[t].session, th[t].run)]
    BY <1>3 DEF RuntimeStep, BuildContext, BuildContextFails, CancelNotice, RegisterWait,
      AnswerChecked, AnswerStored, CompletionLoaded, FailureLoaded, RunWritten, FinalizeFails,
      FinalizeUnstored, Summarize, ClearPending, Finish, Move
  <2> QED BY <1>0, <2>1, <2>2
<1> QED BY <1>1, <1>2, <1>3

\* A request that is taken up has no call under way.
LEMMA FreeIsIdle ==
  ASSUME CallsOK, NEW t \in Clients, th[t] = Nil \/ th[t].at \notin Ending
  PROVE  Idle(t)
BY DEF CallsOK, CallOK, Ending

\* The agent's steps keep the calls of the store in step with the request.
LEMMA AgentCalls ==
  ASSUME RuntimeTyped, CallsOK, NEW t \in Clients, AgentStep(t)
  PROVE  CallOK(t)'
<1>1. th[t] # Nil /\ th[t] \in Request /\ call'[t] = Nil
  BY AgentEffect, FreeIsIdle DEF At, Idle, Ending, RuntimeTyped, ThreadsOK
<1>2. CASE UNCHANGED th
  BY <1>1, <1>2, AgentEffect DEF CallOK, Idle, At
<1>3. CASE ~EmitEvent(t)
  <2>1. PICK stage \in {"append", "register", "fail"}, status \in RunStatus :
          /\ th'[t] = [th[t] EXCEPT !.at = stage, !.status = status]
          /\ stage = "append" => status = "completed"
    BY <1>3, AgentEffect
  <2>2. th'[t].at = stage /\ th'[t].status = status
    BY <1>1, <2>1 DEF Request
  <2> QED BY <1>1, <2>1, <2>2 DEF CallOK, Idle
<1> QED BY <1>2, <1>3, AgentEffect

\* So do the user's calls.
LEMMA UserCalls ==
  ASSUME RuntimeTyped, CallsOK, NEW t \in Clients, UserCall(t)
  PROVE  CallOK(t)'
<1>1. UNCHANGED call
  BY DEF UserCall, BeginTurn, CreateUserTurn, BeginTurnUnstored, IssueRunId, Resume,
         ResumeExpired, Cancel, DeleteStored, DeleteSession, storeVars
<1>2. Idle(t)'
  BY <1>1, FreeIsIdle DEF UserCall, BeginTurn, BeginTurnUnstored, Resume, ResumeExpired, Cancel,
                          DeleteStored, DropExpired, Free, Idle
<1>3. th'[t] # Nil => th'[t].at \notin {"append", "complete"}
  <2>1. ASSUME NEW a \in Stage, a \notin {"append", "complete"}, NEW s, NEW r, NEW b, NEW status,
               th' = [th EXCEPT ![t] = NewRequest(a, s, r, b, status)]
        PROVE  th'[t].at \notin {"append", "complete"}
    BY <2>1 DEF RuntimeTyped, ThreadsOK, NewRequest
  <2>2. ASSUME NEW s \in Sessions, NEW r \in Runs, BeginTurn(t, s, r) \/ BeginTurnUnstored(t, s, r)
        PROVE  th'[t].at \notin {"append", "complete"}
    <3>1. PICK a \in {"context", "agent"} : th' = [th EXCEPT ![t] = NewRequest(a, s, r, FALSE, "running")]
      BY <2>2 DEF BeginTurn, BeginTurnUnstored
    <3>2. a \in Stage /\ a \notin {"append", "complete"}
      BY DEF Stage
    <3> QED BY <2>1, <3>1, <3>2
  <2>3. ASSUME NEW r \in Runs, NEW approved \in BOOLEAN, NEW k \in 0 .. MaxTickets,
               Resume(t, r, approved, k)
        PROVE  th'[t].at \notin {"append", "complete"}
    <3>1. PICK a \in {"fail", "agent"}, status \in {"failed", "running"} : Taken(t, r, a, status)
      BY <2>3 DEF Resume
    <3>2. a \in Stage /\ a \notin {"append", "complete"}
      BY DEF Stage
    <3>3. th' = [th EXCEPT ![t] = NewRequest(a, pending[ProcOf[t]][r].session, r, FALSE, status)]
      BY <3>1 DEF Taken
    <3> QED BY <2>1, <3>2, <3>3
  <2>4. ASSUME NEW r \in Runs, Cancel(t, r)
        PROVE  th'[t].at \notin {"append", "complete"}
    BY <2>1, <2>4 DEF Cancel, Stage
  <2>5. ASSUME NEW s \in Sessions, DeleteStored(t, s)
        PROVE  th'[t].at \notin {"append", "complete"}
    BY <2>1, <2>5 DEF DeleteStored, Stage
  <2>6. ASSUME NEW r \in Runs, ResumeExpired(t, r)
        PROVE  th'[t] = Nil
    BY <2>6 DEF ResumeExpired, Free
  <2> QED BY <2>2, <2>3, <2>4, <2>5, <2>6 DEF UserCall
<1> QED BY <1>2, <1>3 DEF CallOK

\* Completing a row in memory changes its status and its final message only.
LEMMA CompletedRow ==
  ASSUME NEW row \in RunRow, NEW m
  PROVE  /\ Completed(row, m).status = "completed"
         /\ Completed(row, m).session = row.session
         /\ Completed(row, m).question = row.question
BY DEF Completed, RunRow

\* So do the steps that store the end of a turn.
LEMMA RuntimeCalls ==
  ASSUME RuntimeTyped, CallsOK, NEW t \in Clients, RuntimeStep(t), FinalizeUnstored(t) => Idle(t)
  PROVE  CallOK(t)'
<1> USE DEF storeVars, Idle
<1>0. /\ th \in [Clients -> Request \cup {Nil}] /\ call \in [Clients -> Call \cup {Nil}]
      /\ CallOK(t)
  BY DEF RuntimeTyped, ThreadsOK, RuntimeTypeOK, StoreTypeOK, CallsOK
<1>1. ASSUME UNCHANGED call, th[t] # Nil, th[t].at \notin Ending, th'[t] # Nil =>
             th'[t].at \notin {"append", "complete"}
      PROVE  CallOK(t)'
  BY <1>1, FreeIsIdle DEF CallOK
<1>2. ASSUME NEW stage, Move(t, stage), th[t] # Nil
      PROVE  th'[t].at = stage /\ th'[t].run = th[t].run /\ th'[t].status = th[t].status
  BY <1>0, <1>2 DEF Move, Request
<1>3. CASE BuildContext(t)
  BY <1>1, <1>2, <1>3 DEF BuildContext, At, Ending
<1>4. CASE CancelNotice(t)
  <2> DEFINE stage == IF asked[th[t].run] = 0 THEN "fail" ELSE "agent"
  <2>1. th[t] # Nil /\ th[t].at = "notice" /\ Move(t, stage) /\ UNCHANGED call
    BY <1>4 DEF CancelNotice, RecordEvent, InsertEvent, At
  <2>2. stage \notin {"append", "complete"}
    OBVIOUS
  <2> HIDE DEF stage
  <2> QED BY <1>1, <1>2, <2>1, <2>2 DEF Ending
<1>5. ASSUME NEW r \in Runs, BuildContextFails(t, r)
      PROVE  CallOK(t)'
  BY <1>0, <1>1, <1>5 DEF BuildContextFails, IssueRunId, At, Ending, NewRequest
<1>6. CASE RegisterWait(t) \/ ClearPending(t)
  BY <1>0, <1>1, <1>6 DEF RegisterWait, ClearPending, At, Ending
<1>7. CASE AnswerChecked(t)
  <2>1. /\ call'[t] = [op |-> "append", session |-> th[t].session, run |-> th[t].run]
        /\ UNCHANGED th /\ At(t, "append")
    BY <1>0, <1>7 DEF AnswerChecked, BeginAppend
  <2> QED BY <1>0, <2>1 DEF CallOK, At
<1>8. CASE AnswerStored(t)
  <2>1. call'[t] = Nil /\ th'[t].at = "complete" /\ th'[t].status = th[t].status
    BY <1>0, <1>8 DEF AnswerStored, InsertMessage, Return, At, Request
  <2> QED BY <1>0, <1>8, <2>1 DEF CallOK, AnswerStored, At
<1>9. CASE CompletionLoaded(t)
  <2>1. /\ call'[t] = [op |-> "update", run |-> th[t].run,
                       row |-> Completed(runs[th[t].run], th[t].answer)]
        /\ UNCHANGED th /\ At(t, "complete") /\ runs[th[t].run] # Nil
    BY <1>0, <1>9 DEF CompletionLoaded, BeginCompleteRun
  <2>2. runs[th[t].run] \in RunRow
    BY <2>1 DEF At, RuntimeTyped, RuntimeTypeOK, StoreTypeOK, ThreadsOK, RequestOK
  <2>3. call'[t].row.status = "completed" /\ call'[t].op = "update" /\ call'[t].run = th[t].run
    BY <2>1, <2>2, CompletedRow
  <2> QED BY <1>0, <2>1, <2>3 DEF CallOK, At
<1>10. CASE FailureLoaded(t)
  <2>1. /\ call'[t] = [op |-> "update", run |-> th[t].run,
                       row |-> [runs[th[t].run] EXCEPT !.status = th[t].status]]
        /\ UNCHANGED th /\ At(t, "fail") /\ runs[th[t].run] # Nil
    BY <1>0, <1>10 DEF FailureLoaded, BeginFailRun
  <2>2. runs[th[t].run] \in RunRow
    BY <2>1 DEF At, RuntimeTyped, RuntimeTypeOK, StoreTypeOK, ThreadsOK, RequestOK
  <2>3. call'[t].row.status = th[t].status /\ call'[t].op = "update" /\ call'[t].run = th[t].run
    BY <2>1, <2>2 DEF RunRow
  <2> QED BY <1>0, <2>1, <2>3 DEF CallOK, At
<1>11. CASE RunWritten(t)
  <2>1. call'[t] = Nil /\ th[t] # Nil /\ Move(t, "summarize")
    BY <1>0, <1>11 DEF RunWritten, UpdateRun, Return, At
  <2> QED BY <1>2, <2>1 DEF CallOK
<1>12. CASE FinalizeFails(t) \/ FinalizeUnstored(t) \/ Summarize(t)
  <2>1. th'[t] = Nil
    BY <1>0, <1>12 DEF FinalizeFails, FinalizeUnstored, Summarize, Finish
  <2>2. call'[t] = Nil
    <3>1. CASE FinalizeFails(t)
      BY <3>1 DEF FinalizeFails, AbandonCalls
    <3>2. CASE Summarize(t)
      BY <1>0, <3>2 DEF Summarize, At, CallOK
    <3>3. CASE FinalizeUnstored(t)
      BY <3>3 DEF FinalizeUnstored
    <3> QED BY <1>12, <3>1, <3>2, <3>3
  <2> QED BY <2>1, <2>2 DEF CallOK
<1> QED BY <1>3, <1>4, <1>5, <1>6, <1>7, <1>8, <1>9, <1>10, <1>11, <1>12 DEF RuntimeStep

\* So does every step, if a turn that is not stored has no call under way.
LEMMA CallsStep ==
  ASSUME RuntimeTyped, CallsOK, [Next]_vars,
         \A t \in Clients : FinalizeUnstored(t) => Idle(t)
  PROVE  CallsOK'
<1> SUFFICES ASSUME NEW u \in Clients PROVE CallOK(u)'
  BY DEF CallsOK
<1>1. ASSUME th'[u] = th[u], call'[u] = call[u]
      PROVE  CallOK(u)'
  BY <1>1 DEF CallsOK, CallOK, Idle
<1>2. ASSUME NEW t \in Clients, UserCall(t) \/ AgentStep(t) \/ RuntimeStep(t)
      PROVE  CallOK(u)'
  BY <1>1, <1>2, OthersKeep, AgentCalls, UserCalls, RuntimeCalls
<1>3. ASSUME NEW p \in Procs, Crash(p)
      PROVE  CallOK(u)'
  <2>1. (th'[u] = Nil /\ call'[u] = Nil) \/ (th'[u] = th[u] /\ call'[u] = call[u])
    BY <1>3 DEF Crash, AbandonCalls
  <2> QED BY <1>1, <2>1 DEF CallOK, Idle
<1>4. ASSUME UNCHANGED <<th, call>>
      PROVE  CallOK(u)'
  BY <1>1, <1>4
<1> QED BY <1>2, <1>3, <1>4 DEF Next, Restart, MarkInterruptedRuns, ClockTicks, vars, storeVars

-----------------------------------------------------------------------------
(* What is true of a turn, by who has its run *)

OpenStatus == {"running", "interrupted"}
Answers(r) == {m \in messages : m.run = r /\ m.role = "assistant"}

\* The events of a run carry its id.
EventIdsOK == \A e \in events : \E n \in 0 .. MaxEvents : e.id = <<e.run, n>>

\* While a thread works on a run, the stored row is open and of the request's
\* session, a row about to be written back has the place of the stored one, and
\* there is no answer yet.  What the thread has written it was able to write.
HeldOK(r, t) ==
  /\ th[t].at \in {"complete", "summarize"} \/ ~Idle(t) => persisted[r]
  /\ Answers(r) # {} => th[t].at \in {"complete", "summarize"}
  /\ runs[r] # Nil =>
       /\ runs[r].session = th[t].session
       /\ IF th[t].at = "summarize" THEN runs[r].status = th[t].status
                                    ELSE runs[r].status \in OpenStatus
       /\ ~Idle(t) /\ call[t].op = "update" =>
            /\ call[t].row.session = runs[r].session
            /\ call[t].row.question = runs[r].question

\* While a run waits it has no answer, and its row is open.
WaitOK(r, p) ==
  /\ Answers(r) = {}
  /\ runs[r] # Nil =>
       /\ runs[r].session = pending[p][r].session
       /\ runs[r].status \in OpenStatus

\* Question, events, answer.
OrderOK(r) ==
  /\ \A m \in Answers(r) : runs[r].question.seq < m.seq
  /\ \A e \in events : e.run = r =>
       /\ runs[r].question.seq < e.seq
       /\ \A m \in Answers(r) : e.seq < m.seq

\* What is stored of a run: at most one answer, its question, the timeline in
\* order, and every event as long as no write of it failed.
StoredOK(r) ==
  /\ r \notin issued => emitted[r] = 0 /\ Answers(r) = {}
  /\ \A m, n \in Answers(r) : m = n
  /\ runs[r] # Nil =>
       /\ runs[r].question \in messages
       /\ runs[r].question.session = runs[r].session
       /\ OrderOK(r)
  /\ persisted[r] /\ runs[r] # Nil =>
       \A n \in 1 .. emitted[r] : \E e \in events : e.id = <<r, n>>

\* A result that says so was stored.
EndedOK(r) ==
  outcome[r] # Nil /\ outcome[r].kept =>
    /\ persisted[r]
    /\ runs[r] # Nil => runs[r].status = outcome[r].status

TurnOK(r) ==
  /\ \A t \in Holders(r) : HeldOK(r, t)
  /\ \A p \in Keepers(r) : WaitOK(r, p)
  /\ StoredOK(r)
  /\ EndedOK(r)

TurnInv ==
  /\ RuntimeTyped
  /\ OwnerInv
  /\ StoreInv
  /\ CallsOK
  /\ EventIdsOK
  /\ \A r \in Runs : TurnOK(r)

-----------------------------------------------------------------------------
(* What a step may do to a run it is not about *)

\* The store keeps what it has of r, marks it interrupted or deletes it.
StoreKeeps(r) ==
  /\ r \in issued <=> r \in issued'
  /\ runs'[r] \in {Nil, runs[r], Interrupted(runs[r])}
  /\ Answers(r)' \subseteq Answers(r)
  /\ runs'[r] # Nil =>
       /\ \A m \in messages : m.session = runs[r].session => m \in messages'
       /\ \A e \in events \cup events' : e.run = r => e \in events /\ e \in events'

Untouched(r) ==
  /\ StoreKeeps(r)
  /\ \A t \in Holders(r)' : t \in Holders(r) /\ th'[t] = th[t] /\ call'[t] \in {call[t], Nil}
  /\ \A p \in Keepers(r)' : p \in Keepers(r) /\ pending'[p][r] = pending[p][r]
  /\ persisted'[r] = persisted[r]
  /\ emitted'[r] = emitted[r]
  /\ outcome'[r] = outcome[r]

\* An interruption leaves a row that has ended alone, and an open one open.
LEMMA InterruptedRow ==
  ASSUME StoreTypeOK, NEW r \in Runs, runs[r] # Nil
  PROVE  /\ Interrupted(runs[r]) # Nil
         /\ Interrupted(runs[r]).session = runs[r].session
         /\ Interrupted(runs[r]).question = runs[r].question
         /\ runs[r].status \notin ActiveStatus => Interrupted(runs[r]).status = runs[r].status
         /\ runs[r].status \in OpenStatus => Interrupted(runs[r]).status \in OpenStatus
<1>1. runs[r] \in RunRow
  BY DEF StoreTypeOK
<1>2. CASE runs[r].status \notin ActiveStatus
  BY <1>2 DEF Interrupted
<1>3. CASE runs[r].status \in ActiveStatus
  <2>1. /\ Interrupted(runs[r]) = [runs[r] EXCEPT !.status = "interrupted"]
        /\ Interrupted(runs[r]) \in RunRow
    BY <1>1, <1>3 DEF Interrupted, RunRow, RunStatus
  <2> QED BY <1>1, <1>3, <2>1, NilAssumption DEF RunRow, OpenStatus
<1> QED BY <1>2, <1>3

\* A run that a step is not about stays as it should be.
LEMMA UntouchedStep ==
  ASSUME TurnInv, NEW r \in Runs, Untouched(r)
  PROVE  TurnOK(r)'
<1> USE DEF TurnInv
<1>0. TurnOK(r) /\ OwnerOK(r) /\ StoreTypeOK
  BY DEF OwnerInv, StoreInv
<1>1. Answers(r)' \subseteq Answers(r)
  BY DEF Untouched, StoreKeeps
<1>2. ASSUME runs'[r] # Nil
      PROVE  /\ runs[r] # Nil
             /\ runs'[r].session = runs[r].session
             /\ runs'[r].question = runs[r].question
             /\ runs[r].status \notin ActiveStatus => runs'[r].status = runs[r].status
             /\ runs[r].status \in OpenStatus => runs'[r].status \in OpenStatus
  <2>1. runs[r] # Nil
    BY <1>2 DEF Untouched, StoreKeeps, Interrupted
  <2> QED BY <1>0, <1>2, <2>1, InterruptedRow DEF Untouched, StoreKeeps
<1>3. ASSUME NEW t \in Holders(r)'
      PROVE  HeldOK(r, t)'
  <2>1. /\ HeldOK(r, t) /\ th'[t] = th[t] /\ call'[t] \in {call[t], Nil}
        /\ th[t] # Nil /\ persisted'[r] = persisted[r]
    BY <1>0, <1>3 DEF Untouched, TurnOK, Holders
  <2>2. th[t].at = "summarize" => th[t].status \notin ActiveStatus
    BY <1>3, <2>1 DEF Holders, RuntimeTyped, ThreadsOK, RequestOK, Ending
  <2> QED BY <1>1, <1>2, <2>1, <2>2 DEF HeldOK, Idle
<1>4. ASSUME NEW p \in Keepers(r)'
      PROVE  WaitOK(r, p)'
  <2>1. WaitOK(r, p) /\ pending'[p][r] = pending[p][r]
    BY <1>0, <1>4 DEF Untouched, TurnOK
  <2> QED BY <1>1, <1>2, <2>1 DEF WaitOK
<1>5. StoredOK(r)'
  <2>1. StoredOK(r)
    BY <1>0 DEF TurnOK
  <2>2. r \notin issued' => emitted'[r] = 0 /\ Answers(r)' = {}
    BY <1>1, <2>1 DEF StoredOK, Untouched, StoreKeeps
  <2>3. \A m, n \in Answers(r)' : m = n
    BY <1>1, <2>1 DEF StoredOK
  <2>4. ASSUME runs'[r] # Nil
        PROVE  runs'[r].question \in messages' /\ runs'[r].question.session = runs'[r].session
    BY <1>2, <2>1, <2>4 DEF StoredOK, Untouched, StoreKeeps
  <2>5. ASSUME runs'[r] # Nil
        PROVE  OrderOK(r)'
    BY <1>1, <1>2, <2>1, <2>5 DEF StoredOK, OrderOK, Untouched, StoreKeeps
  <2>6. ASSUME persisted'[r], runs'[r] # Nil, NEW n \in 1 .. emitted'[r]
        PROVE  \E e \in events' : e.id = <<r, n>>
    <3>1. PICK e \in events : e.id = <<r, n>>
      BY <1>2, <2>1, <2>6 DEF StoredOK, Untouched
    <3>2. e.run = r
      BY <3>1 DEF EventIdsOK
    <3> QED BY <2>6, <3>1, <3>2 DEF Untouched, StoreKeeps
  <2> QED BY <2>2, <2>3, <2>4, <2>5, <2>6 DEF StoredOK
<1>6. EndedOK(r)'
  <2>1. EndedOK(r) /\ (outcome[r] # Nil => outcome[r].status \notin ActiveStatus)
    BY <1>0 DEF TurnOK, OwnerOK
  <2> QED BY <1>2, <2>1 DEF EndedOK, Untouched
<1> QED BY <1>3, <1>4, <1>5, <1>6 DEF TurnOK

\* A step that writes nothing.
LEMMA KeepsAll ==
  ASSUME NEW r \in Runs, UNCHANGED <<tables, issued>>
  PROVE  StoreKeeps(r)
BY DEF StoreKeeps, Answers, tables

\* A new run id is no other run's.
LEMMA KeepsIssue ==
  ASSUME NEW r \in Runs, NEW c \in Clients, NEW q \in Runs, q # r, IssueRunId(c, q)
  PROVE  StoreKeeps(r)
BY DEF StoreKeeps, Answers, tables, IssueRunId

\* Nor is a new turn.
LEMMA KeepsTurn ==
  ASSUME StoreTypeOK, NEW r \in Runs, NEW c \in Clients, NEW s \in Sessions, NEW q \in Runs, q # r,
         CreateUserTurn(c, s, q)
  PROVE  StoreKeeps(r)
<1>1. runs'[r] = runs[r] /\ (r \in issued <=> r \in issued') /\ UNCHANGED events
  BY DEF CreateUserTurn, StoreTypeOK
<1>2. messages \subseteq messages' /\ Answers(r)' = Answers(r)
  BY DEF CreateUserTurn, Answers, Question
<1> QED BY <1>1, <1>2 DEF StoreKeeps

\* Nor is an event of another run.
LEMMA KeepsEvent ==
  ASSUME StoreTypeOK, NEW r \in Runs, NEW c \in Clients, NEW s \in Sessions, NEW q \in Runs, q # r,
         NEW e \in EventIds, InsertEvent(c, s, q, e)
  PROVE  StoreKeeps(r)
<1>1. UNCHANGED <<runs, issued, messages>>
  BY DEF InsertEvent
<1>2. \A x \in events \cup events' : x.run = r => x \in events /\ x \in events'
  BY DEF InsertEvent
<1> QED BY <1>1, <1>2 DEF StoreKeeps, Answers

\* Nor is the answer of another run.
LEMMA KeepsAnswer ==
  ASSUME StoreTypeOK, NEW r \in Runs, NEW c \in Clients, InsertMessage(c), call[c].run # r
  PROVE  StoreKeeps(r)
<1>1. UNCHANGED <<runs, issued, events>>
  BY DEF InsertMessage
<1>2. messages \subseteq messages' /\ Answers(r)' = Answers(r)
  BY DEF InsertMessage, Answers, Answer
<1> QED BY <1>1, <1>2 DEF StoreKeeps

\* Nor is the row of another run.
LEMMA KeepsUpdate ==
  ASSUME StoreTypeOK, NEW r \in Runs, NEW c \in Clients, UpdateRun(c), call[c].run # r
  PROVE  StoreKeeps(r)
<1>1. UNCHANGED <<messages, issued, events>> /\ runs'[r] = runs[r]
  BY DEF UpdateRun, StoreTypeOK
<1> QED BY <1>1 DEF StoreKeeps, Answers

\* The deletion of a session takes all of a run or nothing.
LEMMA KeepsDelete ==
  ASSUME StoreTypeOK, NoOrphanRows, NEW r \in Runs, NEW c \in Clients, NEW s \in Sessions,
         DeleteSession(c, s)
  PROVE  StoreKeeps(r)
<1>1. UNCHANGED issued /\ messages' = {m \in messages : m.session # s}
  BY DEF DeleteSession
<1>2. Answers(r)' \subseteq Answers(r)
  BY <1>1 DEF Answers
<1>3. runs'[r] = IF runs[r] # Nil /\ runs[r].session = s THEN Nil ELSE runs[r]
  BY DEF DeleteSession
<1>4. ASSUME runs'[r] # Nil
      PROVE  /\ \A m \in messages : m.session = runs[r].session => m \in messages'
             /\ \A e \in events \cup events' : e.run = r => e \in events /\ e \in events'
  <2>1. runs[r] # Nil /\ runs[r].session # s
    BY <1>3, <1>4
  <2>2. events' = {e \in events : e.session # s /\ runs'[e.run] # Nil}
    BY DEF DeleteSession
  <2>3. \A e \in events : e.run = r => e.session = runs[r].session
    BY DEF NoOrphanRows
  <2> QED BY <1>1, <1>4, <2>1, <2>2, <2>3
<1> QED BY <1>1, <1>2, <1>3, <1>4 DEF StoreKeeps

\* A restart marks rows.
LEMMA KeepsMark ==
  ASSUME NEW r \in Runs, NEW c \in Clients, MarkInterruptedRuns(c)
  PROVE  StoreKeeps(r)
BY DEF StoreKeeps, Answers, MarkInterruptedRuns

\* The store stays sound.
LEMMA StoreSound ==
  ASSUME RuntimeTyped, StoreInv, [Next]_vars
  PROVE  StoreInv'
<1>1. [StoreNext]_storeVars
  BY NextIsStoreStep DEF vars
<1> QED BY <1>1, TypeStep, SeqStep, IssuedStep, InsertStep, UpdateStep, OrphanStep, AnswerStep
        DEF StoreInv

\* Events are stored under the id of their run.
LEMMA EventIdsStep ==
  ASSUME RuntimeTyped, EventIdsOK, [Next]_vars
  PROVE  EventIdsOK'
<1>1. ASSUME events' \subseteq events
      PROVE  EventIdsOK'
  BY <1>1 DEF EventIdsOK
<1>2. ASSUME NEW t \in Clients, NEW n \in 0 .. MaxEvents, RecordEvent(t, n)
      PROVE  EventIdsOK'
  BY <1>1, <1>2 DEF RecordEvent, InsertEvent, EventIdsOK, storeVars, tables
<1> USE DEF storeVars, tables
<1>3. ASSUME NEW t \in Clients, AgentStep(t)
      PROVE  EventIdsOK'
  <2>1. CASE EmitEvent(t)
    <3>1. th[t].run \in Runs
      BY <1>3, AgentEffect
    <3>2. emitted[th[t].run] + 1 \in 0 .. MaxEvents
      BY <2>1, <3>1, RuntimeAssumption DEF EmitEvent, RuntimeTyped, RuntimeTypeOK
    <3> QED BY <1>2, <2>1, <3>2 DEF EmitEvent
  <2> QED BY <1>1, <1>3, <2>1, AgentEffect
<1>4. ASSUME NEW t \in Clients, RuntimeStep(t)
      PROVE  EventIdsOK'
  <2>1. CASE CancelNotice(t)
    BY <1>2, <2>1, RuntimeAssumption DEF CancelNotice
  <2> QED BY <1>1, <1>4, <2>1
    DEF RuntimeStep, BuildContext, BuildContextFails, IssueRunId, RegisterWait, AnswerChecked,
        BeginAppend, AnswerStored, InsertMessage, CompletionLoaded, BeginCompleteRun, FailureLoaded,
        BeginFailRun, RunWritten, UpdateRun, FinalizeFails, AbandonCalls, FinalizeUnstored,
        Summarize, ClearPending
<1>5. ASSUME NEW t \in Clients, UserCall(t)
      PROVE  EventIdsOK'
  BY <1>1, <1>5
  DEF UserCall, BeginTurn, CreateUserTurn, BeginTurnUnstored, IssueRunId, Resume, ResumeExpired,
      Cancel, DeleteStored, DeleteSession
<1> QED BY <1>1, <1>3, <1>4, <1>5
        DEF Next, Crash, AbandonCalls, Restart, MarkInterruptedRuns, ClockTicks, vars

-----------------------------------------------------------------------------
(* The run a step is about *)

\* The thread at work on a run is the only one that has it.
LEMMA Alone ==
  ASSUME TurnInv, NEW t \in Clients, th[t] # Nil, th[t].run \in Runs
  PROVE  LET r == th[t].run IN
           /\ Holders(r) = {t} /\ Keepers(r) = {}
           /\ r \in issued /\ outcome[r] = Nil
           /\ HeldOK(r, t) /\ StoredOK(r) /\ TurnOK(r)
<1> DEFINE r == th[t].run
<1>1. OwnerOK(r) /\ TurnOK(r) /\ t \in Holders(r)
  BY DEF TurnInv, OwnerInv, Holders
<1> QED BY <1>1 DEF OwnerOK, Owned, TurnOK

\* So is the registry in which it waits.
LEMMA AloneKept ==
  ASSUME TurnInv, NEW p \in Procs, NEW r \in Runs, pending[p][r] # Nil
  PROVE  /\ Holders(r) = {} /\ Keepers(r) = {p}
         /\ r \in issued /\ outcome[r] = Nil
         /\ WaitOK(r, p) /\ StoredOK(r) /\ TurnOK(r)
<1>1. OwnerOK(r) /\ TurnOK(r) /\ p \in Keepers(r)
  BY DEF TurnInv, OwnerInv, Keepers
<1> QED BY <1>1 DEF OwnerOK, Owned, TurnOK

\* A run that nobody has been given is nowhere.
LEMMA Unissued ==
  ASSUME TurnInv, NEW r \in Runs, r \notin issued
  PROVE  /\ Holders(r) = {} /\ Keepers(r) = {} /\ outcome[r] = Nil /\ runs[r] = Nil
         /\ Answers(r) = {} /\ emitted[r] = 0 /\ \A e \in events : e.run # r
<1>1. OwnerOK(r) /\ StoredOK(r)
  BY DEF TurnInv, OwnerInv, TurnOK
<1>2. runs[r] = Nil
  BY DEF TurnInv, StoreInv, RunsIssued
<1> QED BY <1>1, <1>2 DEF OwnerOK, Owned, StoredOK, TurnInv, StoreInv, NoOrphanRows

\* After a step the thread at work still has the run, and nobody else.
LEMMA StillHeld ==
  ASSUME TurnInv, NEW t \in Clients, NEW r \in Runs, Holders(r) \subseteq {t}, Keepers(r)' = {},
         \A u \in Clients : u # t => th'[u] = th[u],
         outcome'[r] = Nil, StoredOK(r)',
         th'[t] # Nil /\ th'[t].run = r => HeldOK(r, t)'
  PROVE  TurnOK(r)'
<1>1. Holders(r)' \subseteq {t} /\ Keepers(r)' = {}
  BY DEF Holders, Keepers
<1>2. \A u \in Holders(r)' : u = t /\ th'[t] # Nil /\ th'[t].run = r
  BY <1>1 DEF Holders
<1> QED BY <1>1, <1>2 DEF TurnOK, EndedOK

\* What is stored of a run stays in order while nothing of it is written.
LEMMA StoredSame ==
  ASSUME NEW r \in Runs, StoredOK(r), UNCHANGED <<tables, issued>>,
         persisted'[r] => persisted[r], emitted'[r] = emitted[r]
  PROVE  StoredOK(r)' /\ Answers(r)' = Answers(r)
BY DEF StoredOK, OrderOK, Answers, tables

\* The next number of a run's session is above all that is stored of the run.
LEMMA NextIsLast ==
  ASSUME TurnInv, NEW r \in Runs, runs[r] # Nil
  PROVE  /\ runs[r].question.seq < NextSeq(runs[r].session)
         /\ \A e \in events : e.run = r => e.seq < NextSeq(runs[r].session)
         /\ \A m \in messages : m.session = runs[r].session => m.seq < NextSeq(runs[r].session)
<1> DEFINE s == runs[r].session
<1>1. s \in Sessions /\ sessions[s] # Nil
  BY DEF TurnInv, RuntimeTyped, RuntimeTypeOK, StoreTypeOK, RunRow, StoreInv, NoOrphanRows
<1>2. \A x \in messages \cup events : x.session = s => x.seq < NextSeq(s)
  BY <1>1 DEF TurnInv, StoreInv, SeqBelowNext, Timeline, NextSeq
<1>3. \A e \in events : e.run = r => e.session = s
  BY DEF TurnInv, StoreInv, NoOrphanRows
<1>4. runs[r].question \in messages /\ runs[r].question.session = s
  BY DEF TurnInv, TurnOK, StoredOK
<1> QED BY <1>2, <1>3, <1>4

\* An event of a turn that goes on comes after the question, and before the
\* answer, which is not there yet; the turn is stored as long as its events are.
LEMMA RecordOwn ==
  ASSUME TurnInv, NEW t \in Clients, NEW r \in Runs, th[t] # Nil, th[t].run = r,
         th[t].at \in {"agent", "notice"}, NEW n \in 0 .. MaxEvents, RecordEvent(t, n),
         emitted[r] \in Nat,
         \/ emitted'[r] = emitted[r]
         \/ emitted'[r] = emitted[r] + 1 /\ n = emitted[r] + 1
  PROVE  StoredOK(r)' /\ Answers(r)' = {}
<1> DEFINE s == th[t].session
<1>1. /\ r \in issued /\ HeldOK(r, t) /\ StoredOK(r)
      /\ persisted \in [Runs -> BOOLEAN]
  BY Alone DEF TurnInv, RuntimeTyped, RuntimeTypeOK
<1>2. Answers(r) = {}
  BY <1>1 DEF HeldOK
<1>3. UNCHANGED <<messages, runs, issued>>
  BY DEF RecordEvent, InsertEvent, storeVars, tables
<1>4. Answers(r)' = {}
  BY <1>2, <1>3 DEF Answers
<1>5. CASE InsertEvent(t, s, r, <<r, n>>) /\ persisted' = persisted
  <2>1. runs[r] # Nil /\ runs[r].session = s
    BY <1>5 DEF InsertEvent, CanInsertEvent
  <2>2. /\ events \subseteq events'
        /\ \A e \in events' : e \in events \/ (e.run = r /\ e.seq = NextSeq(s))
        /\ \E e \in events' : e.id = <<r, n>>
    <3>1. CASE \E x \in events : x.id = <<r, n>>
      <4>1. UNCHANGED events
        BY <1>5, <3>1 DEF InsertEvent
      <4> QED BY <3>1, <4>1
    <3>2. CASE ~\E x \in events : x.id = <<r, n>>
      <4> DEFINE x == [id |-> <<r, n>>, session |-> s, run |-> r, seq |-> NextSeq(s)]
      <4>1. events' = events \cup {x}
        BY <1>5, <3>2 DEF InsertEvent
      <4>2. x.run = r /\ x.seq = NextSeq(s) /\ x.id = <<r, n>>
        OBVIOUS
      <4> HIDE DEF x
      <4> QED BY <4>1, <4>2
    <3> QED BY <3>1, <3>2
  <2>3. runs[r].question.seq < NextSeq(s)
    BY <2>1, NextIsLast
  <2>4. OrderOK(r)'
    BY <1>1, <1>3, <1>4, <2>1, <2>2, <2>3 DEF StoredOK, OrderOK
  <2>5. ASSUME persisted[r], NEW k \in 1 .. emitted'[r]
        PROVE  \E e \in events' : e.id = <<r, k>>
    <3>1. CASE k \in 1 .. emitted[r]
      BY <1>1, <2>1, <2>2, <2>5, <3>1 DEF StoredOK
    <3>2. CASE k = n
      BY <2>2, <3>2
    <3> QED BY <2>5, <3>1, <3>2
  <2> QED BY <1>1, <1>3, <1>4, <1>5, <2>4, <2>5 DEF StoredOK
<1>6. CASE ~persisted'[r] /\ UNCHANGED storeVars
  BY <1>1, <1>3, <1>4, <1>6 DEF StoredOK, OrderOK, storeVars, tables
<1>7. \/ InsertEvent(t, s, r, <<r, n>>) /\ persisted' = persisted
      \/ ~persisted'[r] /\ UNCHANGED storeVars
  BY <1>1 DEF RecordEvent, LosePersistence
<1> QED BY <1>4, <1>5, <1>6, <1>7

\* The turns of other threads are untouched by a thread's step.
LEMMA OtherTurn ==
  ASSUME TurnInv, NEW t \in Clients, UserCall(t) \/ AgentStep(t) \/ RuntimeStep(t), NEW r \in Runs,
         th'[t] # Nil => th'[t].run # r,
         \A p \in Procs : pending'[p][r] # Nil => pending'[p][r] = pending[p][r],
         StoreKeeps(r),
         persisted'[r] = persisted[r], emitted'[r] = emitted[r], outcome'[r] = outcome[r]
  PROVE  TurnOK(r)'
<1>1. \A u \in Holders(r)' : u # t /\ u \in Holders(r) /\ th'[u] = th[u] /\ call'[u] = call[u]
  BY OthersKeep DEF TurnInv, Holders
<1>2. \A p \in Keepers(r)' : p \in Keepers(r) /\ pending'[p][r] = pending[p][r]
  BY DEF Keepers
<1>3. Untouched(r)
  BY <1>1, <1>2 DEF Untouched
<1> QED BY <1>3, UntouchedStep

\* record_event is about the run of its turn only.
LEMMA RecordOther ==
  ASSUME TurnInv, NEW t \in Clients, th[t] # Nil, th[t] \in Request, th[t].run \in Runs,
         NEW n \in 0 .. MaxEvents, RecordEvent(t, n), NEW r \in Runs, r # th[t].run
  PROVE  StoreKeeps(r) /\ persisted'[r] = persisted[r]
<1>1. /\ persisted \in [Runs -> BOOLEAN] /\ StoreTypeOK /\ th[t].session \in Sessions
      /\ <<th[t].run, n>> \in EventIds
  BY RuntimeAssumption DEF TurnInv, RuntimeTyped, RuntimeTypeOK, Request
<1>2. \/ InsertEvent(t, th[t].session, th[t].run, <<th[t].run, n>>)
      \/ UNCHANGED storeVars
  BY DEF RecordEvent
<1>3. StoreKeeps(r)
  BY <1>1, <1>2, KeepsEvent, KeepsAll DEF storeVars
<1> QED BY <1>1, <1>3 DEF RecordEvent, LosePersistence

\* A step of the agent keeps every turn as it should be.
LEMMA TurnAgent ==
  ASSUME TurnInv, NEW t \in Clients, AgentStep(t), NEW r \in Runs
  PROVE  TurnOK(r)'
<1>1. /\ At(t, "agent") /\ th[t].run \in Runs /\ th[t] \in Request
      /\ UNCHANGED <<messages, runs, issued, call, pending, outcome>>
      /\ \A u \in Clients : u # t => th'[u] = th[u]
      /\ Idle(t)
  BY AgentEffect, FreeIsIdle DEF TurnInv, At, Ending, RuntimeTyped, ThreadsOK
<1>2. ASSUME EmitEvent(t)
      PROVE  /\ UNCHANGED th
             /\ RecordEvent(t, emitted[th[t].run] + 1)
             /\ emitted[th[t].run] + 1 \in 0 .. MaxEvents
             /\ emitted \in [Runs -> 0 .. MaxEvents]
             /\ emitted' = [emitted EXCEPT ![th[t].run] = @ + 1]
  BY <1>1, <1>2, RuntimeAssumption DEF EmitEvent, TurnInv, RuntimeTyped, RuntimeTypeOK
<1>3. th'[t] # Nil => /\ th'[t].run = th[t].run /\ th'[t].session = th[t].session
                      /\ th'[t].at \in {"agent", "append", "register", "fail"}
  <2>1. CASE EmitEvent(t)
    BY <1>1, <1>2, <2>1 DEF At
  <2>2. CASE ~EmitEvent(t)
    <3>1. PICK stage \in {"append", "register", "fail"}, status \in RunStatus :
            th'[t] = [th[t] EXCEPT !.at = stage, !.status = status]
      BY <2>2, AgentEffect DEF TurnInv
    <3> QED BY <1>1, <3>1 DEF Request
  <2> QED BY <2>1, <2>2
<1>4. CASE r # th[t].run
  <2>1. StoreKeeps(r) /\ persisted'[r] = persisted[r] /\ emitted'[r] = emitted[r]
    <3>1. CASE EmitEvent(t)
      BY <1>1, <1>2, <1>4, <3>1, RecordOther DEF At
    <3>2. CASE ~EmitEvent(t)
      BY <3>2, AgentEffect, KeepsAll DEF TurnInv, storeVars
    <3> QED BY <3>1, <3>2
  <2> QED BY <1>1, <1>3, <1>4, <2>1, OtherTurn
<1>5. CASE r = th[t].run
  <2>1. Holders(r) = {t} /\ Keepers(r) = {} /\ outcome[r] = Nil /\ HeldOK(r, t) /\ StoredOK(r)
    BY <1>1, <1>5, Alone DEF At
  <2>2. StoredOK(r)' /\ Answers(r)' = {}
    <3>1. CASE EmitEvent(t)
      BY <1>1, <1>2, <1>5, <3>1, RecordOwn DEF At
    <3>2. CASE ~EmitEvent(t)
      BY <1>1, <2>1, <3>2, AgentEffect, StoredSame DEF TurnInv, storeVars, HeldOK, At
    <3> QED BY <3>1, <3>2
  <2>3. th'[t] # Nil => HeldOK(r, t)'
    BY <1>1, <1>3, <2>1, <2>2 DEF HeldOK, Idle, At
  <2>4. Keepers(r)' = {}
    BY <1>1, <2>1 DEF Keepers
  <2> QED BY <1>1, <2>1, <2>2, <2>3, <2>4, StillHeld
<1> QED BY <1>4, <1>5

\* A new turn is stored with its question, or not stored at all.
LEMMA TurnBegins ==
  ASSUME TurnInv, NEW t \in Clients, NEW s \in Sessions, NEW q \in Runs,
         BeginTurn(t, s, q) \/ BeginTurnUnstored(t, s, q), NEW r \in Runs
  PROVE  TurnOK(r)'
<1> USE DEF turnVars, registryVars, budget
<1>1. /\ Free(t) /\ q \notin issued /\ Idle(t)
      /\ UNCHANGED <<call, pending, emitted, outcome, events>>
      /\ UserCall(t)
  BY DEF BeginTurn, CreateUserTurn, BeginTurnUnstored, IssueRunId, UserCall, tables
<1>2. /\ th'[t].run = q /\ th'[t].session = s /\ th'[t].at \in {"context", "agent"}
      /\ \A u \in Clients : u # t => th'[u] = th[u]
  BY DEF BeginTurn, BeginTurnUnstored, NewRequest, TurnInv, RuntimeTyped, ThreadsOK
<1>3. CASE r # q
  <2>1. StoreKeeps(r)
    BY <1>3, KeepsTurn, KeepsIssue
    DEF BeginTurn, BeginTurnUnstored, TurnInv, RuntimeTyped, RuntimeTypeOK
  <2>2. persisted'[r] = persisted[r]
    BY <1>3 DEF BeginTurn, BeginTurnUnstored, TurnInv, RuntimeTyped, RuntimeTypeOK
  <2> QED BY <1>1, <1>2, <1>3, <2>1, <2>2, OtherTurn
<1>4. CASE r = q
  <2>1. /\ Holders(r) = {} /\ Keepers(r)' = {} /\ outcome'[r] = Nil /\ runs[r] = Nil
        /\ Answers(r) = {} /\ emitted'[r] = 0 /\ \A e \in events' : e.run # r
    BY <1>1, <1>4, Unissued DEF Keepers
  <2>2. CASE BeginTurn(t, s, q)
    <3>1. /\ runs'[r] = [session |-> s, question |-> Question(s, r), status |-> "running",
                         final |-> Nil]
          /\ messages' = messages \cup {Question(s, r)}
          /\ r \in issued'
      BY <1>4, <2>2 DEF BeginTurn, CreateUserTurn, TurnInv, RuntimeTyped, RuntimeTypeOK, StoreTypeOK
    <3>2. Answers(r)' = {}
      BY <2>1, <3>1 DEF Answers, Question
    <3>3. Question(s, r).session = s
      BY DEF Question
    <3>4. StoredOK(r)'
      BY <2>1, <3>1, <3>2, <3>3 DEF StoredOK, OrderOK
    <3>5. HeldOK(r, t)'
      BY <1>1, <1>2, <3>1, <3>2 DEF HeldOK, Idle, OpenStatus
    <3> QED BY <1>2, <2>1, <3>4, <3>5, StillHeld
  <2>3. CASE BeginTurnUnstored(t, s, q)
    <3>1. runs'[r] = Nil /\ Answers(r)' = {} /\ r \in issued'
      BY <1>4, <2>1, <2>3 DEF BeginTurnUnstored, IssueRunId, tables, Answers
    <3>2. StoredOK(r)'
      BY <2>1, <3>1 DEF StoredOK
    <3>3. HeldOK(r, t)'
      BY <1>1, <1>2, <3>1 DEF HeldOK, Idle
    <3> QED BY <1>2, <2>1, <3>2, <3>3, StillHeld
  <2> QED BY <2>2, <2>3
<1> QED BY <1>3, <1>4

\* A run that is taken up is as it was while it waited.
LEMMA TurnTakenUp ==
  ASSUME TurnInv, NEW t \in Clients, NEW q \in Runs, UserCall(t), Free(t),
         pending[ProcOf[t]][q] # Nil, pending' = [pending EXCEPT ![ProcOf[t]][q] = Nil],
         UNCHANGED <<storeVars, persisted, emitted, outcome>>,
         th'[t].run = q, th'[t].session = pending[ProcOf[t]][q].session,
         th'[t].at \in {"fail", "agent", "notice"}, NEW r \in Runs
  PROVE  TurnOK(r)'
<1>1. /\ ProcOf[t] \in Procs
      /\ \A p \in Procs, x \in Runs :
           pending'[p][x] = IF p = ProcOf[t] /\ x = q THEN Nil ELSE pending[p][x]
  BY RuntimeAssumption DEF TurnInv, RuntimeTyped, RuntimeTypeOK, RegistryTypeOK
<1>2. Idle(t) /\ \A u \in Clients : u # t => th'[u] = th[u]
  BY FreeIsIdle, OthersKeep DEF TurnInv, Free
<1>3. CASE r # q
  BY <1>1, <1>3, KeepsAll, OtherTurn DEF storeVars
<1>4. CASE r = q
  <2>1. /\ Holders(r) = {} /\ Keepers(r) = {ProcOf[t]} /\ outcome[r] = Nil
        /\ WaitOK(r, ProcOf[t]) /\ StoredOK(r)
    BY <1>1, <1>4, AloneKept
  <2>2. Keepers(r)' = {}
    BY <1>1, <1>4, <2>1 DEF Keepers
  <2>3. StoredOK(r)' /\ Answers(r)' = {}
    BY <2>1, StoredSame DEF storeVars, WaitOK
  <2>4. HeldOK(r, t)'
    BY <1>2, <1>4, <2>1, <2>3 DEF HeldOK, WaitOK, Idle, storeVars, tables
  <2> QED BY <1>2, <2>1, <2>2, <2>3, <2>4, StillHeld
<1> QED BY <1>3, <1>4

\* A user's call keeps every turn as it should be.
LEMMA TurnUser ==
  ASSUME TurnInv, NEW t \in Clients, UserCall(t), NEW r \in Runs
  PROVE  TurnOK(r)'
<1> USE DEF turnVars, registryVars, budget
<1>0. th \in [Clients -> Request \cup {Nil}]
  BY DEF TurnInv, RuntimeTyped, ThreadsOK
<1>1. ASSUME NEW q \in Runs, NEW approved \in BOOLEAN, NEW k \in 0 .. MaxTickets,
             Resume(t, q, approved, k)
      PROVE  TurnOK(r)'
  <2>1. /\ Free(t) /\ pending[ProcOf[t]][q] # Nil
        /\ pending' = [pending EXCEPT ![ProcOf[t]][q] = Nil]
        /\ UNCHANGED <<storeVars, persisted, emitted, outcome>>
    BY <1>1 DEF Resume, Pop
  <2>2. PICK a \in {"fail", "agent"}, status \in {"failed", "running"} : Taken(t, q, a, status)
    BY <1>1 DEF Resume
  <2>3. /\ th'[t].run = q /\ th'[t].session = pending[ProcOf[t]][q].session
        /\ th'[t].at \in {"fail", "agent", "notice"}
    BY <1>0, <2>2 DEF Taken, NewRequest
  <2> QED BY <2>1, <2>3, TurnTakenUp
<1>2. ASSUME NEW q \in Runs, Cancel(t, q)
      PROVE  TurnOK(r)'
  <2>1. /\ Free(t) /\ pending[ProcOf[t]][q] # Nil
        /\ pending' = [pending EXCEPT ![ProcOf[t]][q] = Nil]
        /\ UNCHANGED <<storeVars, persisted, emitted, outcome>>
    BY <1>2 DEF Cancel, Pop
  <2>3. /\ th'[t].run = q /\ th'[t].session = pending[ProcOf[t]][q].session
        /\ th'[t].at \in {"fail", "agent", "notice"}
    BY <1>0, <1>2 DEF Cancel, NewRequest
  <2> QED BY <2>1, <2>3, TurnTakenUp
<1>3. ASSUME NEW q \in Runs, ResumeExpired(t, q)
      PROVE  TurnOK(r)'
  <2>1. /\ th'[t] = Nil /\ UNCHANGED <<storeVars, persisted, emitted, outcome>>
        /\ pending' = [pending EXCEPT ![ProcOf[t]][q] = Nil]
    BY <1>3 DEF ResumeExpired, DropExpired, Free
  <2>2. \A p \in Procs : pending'[p][r] # Nil => pending'[p][r] = pending[p][r]
    BY <2>1, RuntimeAssumption DEF TurnInv, RuntimeTyped, RuntimeTypeOK, RegistryTypeOK
  <2> QED BY <2>1, <2>2, KeepsAll, OtherTurn DEF storeVars
<1>4. ASSUME NEW s \in Sessions, DeleteStored(t, s)
      PROVE  TurnOK(r)'
  <2>1. th'[t].run = Nil
    BY <1>0, <1>4 DEF DeleteStored, NewRequest
  <2>2. UNCHANGED <<pending, persisted, emitted, outcome>>
    BY <1>4 DEF DeleteStored
  <2>3. StoreKeeps(r)
    BY <1>4, KeepsDelete DEF DeleteStored, TurnInv, RuntimeTyped, RuntimeTypeOK, StoreInv
  <2> QED BY <2>1, <2>2, <2>3, NilAssumption, OtherTurn
<1> QED BY <1>1, <1>2, <1>3, <1>4, TurnBegins DEF UserCall

\* A turn that loses its store before it reached the agent: its stored run is
\* left behind, and it goes on under a new id.
LEMMA TurnGoesOnUnstored ==
  ASSUME TurnInv, NEW t \in Clients, NEW q \in Runs, BuildContextFails(t, q), NEW r \in Runs
  PROVE  TurnOK(r)'
<1> USE DEF turnVars, registryVars, budget
<1>1. /\ th[t] # Nil /\ th[t].at = "context" /\ th[t].run \in Runs /\ Idle(t)
      /\ q \notin issued /\ q \in issued' /\ UNCHANGED <<tables, call, pending, emitted, outcome>>
      /\ th' = [th EXCEPT ![t] = NewRequest("agent", th[t].session, q, FALSE, "running")]
      /\ RuntimeStep(t)
  BY DEF BuildContextFails, IssueRunId, At, RuntimeStep, TurnInv, RuntimeTyped, ThreadsOK, RequestOK
<1>2. /\ th'[t].run = q /\ th'[t].at = "agent"
      /\ \A u \in Clients : u # t => th'[u] = th[u]
  BY <1>1 DEF NewRequest, TurnInv, RuntimeTyped, ThreadsOK
<1>3. th[t].run # q
  BY <1>1, Alone
<1>4. \A x \in Runs : persisted'[x] = IF x = th[t].run THEN FALSE ELSE persisted[x]
  BY <1>1 DEF BuildContextFails, LosePersistence, TurnInv, RuntimeTyped, RuntimeTypeOK
<1>5. CASE r = q
  <2>1. /\ Holders(r) = {} /\ Keepers(r)' = {} /\ outcome'[r] = Nil /\ runs'[r] = Nil
        /\ Answers(r)' = {} /\ emitted'[r] = 0
    BY <1>1, <1>5, Unissued DEF Keepers, Answers, tables
  <2>2. StoredOK(r)' /\ HeldOK(r, t)'
    BY <1>1, <1>2, <2>1 DEF StoredOK, HeldOK, Idle
  <2> QED BY <1>2, <2>1, <2>2, StillHeld
<1>6. CASE r = th[t].run
  <2>1. Holders(r) = {t} /\ Keepers(r)' = {} /\ outcome'[r] = Nil /\ StoredOK(r) /\ r \in issued
    BY <1>1, <1>6, Alone DEF Keepers
  <2>2. StoredOK(r)'
    BY <1>1, <1>4, <1>6, <2>1 DEF StoredOK, OrderOK, Answers, tables, BuildContextFails, IssueRunId
  <2> QED BY <1>2, <1>3, <1>6, <2>1, <2>2, StillHeld
<1>7. CASE r # q /\ r # th[t].run
  <2>1. StoreKeeps(r)
    BY <1>7, KeepsIssue DEF BuildContextFails
  <2> QED BY <1>1, <1>2, <1>4, <1>7, <2>1, OtherTurn
<1> QED BY <1>5, <1>6, <1>7

\* A turn that waits hands its run to the registry as it is.
LEMMA TurnWaits ==
  ASSUME TurnInv, NEW t \in Clients, RegisterWait(t), NEW r \in Runs
  PROVE  TurnOK(r)'
<1> USE DEF turnVars, storeVars
<1> DEFINE q == th[t].run
           p0 == ProcOf[t]
           rec == [session |-> th[t].session, ticket |-> asked[q], expires |-> clock + Ttl]
<1>1. /\ th[t] # Nil /\ th[t].at = "register" /\ q \in Runs
      /\ UNCHANGED <<tables, issued, call, persisted, emitted, outcome>>
      /\ th' = [th EXCEPT ![t] = Nil]
      /\ pending' = [pending EXCEPT ![p0] = [Unexpired(pending[p0]) EXCEPT ![q] = rec]]
      /\ RuntimeStep(t)
  BY DEF RegisterWait, Register, At, RuntimeStep, TurnInv, RuntimeTyped, ThreadsOK, RequestOK
<1>2. /\ p0 \in Procs /\ pending \in [Procs -> [Runs -> PendingRecord \cup {Nil}]]
      /\ th'[t] = Nil /\ \A u \in Clients : u # t => th'[u] = th[u]
  BY <1>1, RuntimeAssumption DEF TurnInv, RuntimeTyped, RuntimeTypeOK, RegistryTypeOK, ThreadsOK
<1>3. /\ \A p \in Procs, x \in Runs : x # q /\ pending'[p][x] # Nil => pending'[p][x] = pending[p][x]
      /\ \A p \in Procs : p # p0 => pending'[p][q] = pending[p][q]
      /\ pending'[p0][q] = rec
  BY <1>1, <1>2 DEF Unexpired
<1>4. CASE r # q
  BY <1>1, <1>2, <1>3, <1>4, KeepsAll, OtherTurn
<1>5. CASE r = q
  <2>1. /\ Holders(r) = {t} /\ Keepers(r) = {} /\ outcome[r] = Nil
        /\ HeldOK(r, t) /\ StoredOK(r)
    BY <1>1, <1>5, Alone
  <2>2. Holders(r)' = {} /\ Keepers(r)' \subseteq {p0}
    BY <1>2, <1>3, <1>5, <2>1 DEF Holders, Keepers
  <2>3. StoredOK(r)' /\ Answers(r)' = {}
    BY <1>1, <2>1, StoredSame DEF HeldOK
  <2>4. pending'[p0][r].session = th[t].session
    BY <1>3, <1>5
  <2>5. WaitOK(r, p0)'
    BY <1>1, <2>1, <2>3, <2>4 DEF HeldOK, WaitOK, tables
  <2>6. EndedOK(r)'
    BY <1>1, <2>1 DEF EndedOK
  <2> HIDE DEF p0
  <2>7. \A p \in Keepers(r)' : WaitOK(r, p)'
    BY <2>2, <2>5
  <2> QED BY <2>2, <2>3, <2>6, <2>7 DEF TurnOK
<1> QED BY <1>4, <1>5

\* A turn that ends: with its store lost, or stored as it says.
LEMMA TurnEnds ==
  ASSUME TurnInv, NEW t \in Clients, FinalizeFails(t) \/ FinalizeUnstored(t) \/ Summarize(t),
         NEW r \in Runs
  PROVE  TurnOK(r)'
<1> USE DEF registryVars, storeVars, Finalizing
<1> DEFINE q == th[t].run
<1>1. /\ th[t] # Nil /\ q \in Runs /\ th[t].status \in RunStatus
      /\ UNCHANGED <<tables, issued, pending, emitted>>
      /\ RuntimeStep(t)
  <2>1. th[t] # Nil /\ th[t].at # "clear" /\ UNCHANGED <<tables, issued, pending, emitted>>
    BY DEF FinalizeFails, AbandonCalls, FinalizeUnstored, Summarize, At
  <2>2. th[t] \in Request /\ q \in Runs
    BY <2>1 DEF TurnInv, RuntimeTyped, ThreadsOK, RequestOK
  <2> QED BY <2>1, <2>2 DEF RuntimeStep, Request
<1>2. PICK kept \in BOOLEAN : /\ Finish(t, th[t].status, kept)
                              /\ kept => Summarize(t)
  BY DEF FinalizeFails, FinalizeUnstored, Summarize
<1>3. /\ th'[t] = Nil /\ \A u \in Clients : u # t => th'[u] = th[u]
      /\ \A x \in Runs : outcome'[x] = IF x = q THEN [status |-> th[t].status, kept |-> kept]
                                                ELSE outcome[x]
  BY <1>1, <1>2 DEF Finish, TurnInv, RuntimeTyped, RuntimeTypeOK, ThreadsOK
<1>4. \A x \in Runs : persisted'[x] = persisted[x] \/ (x = q /\ persisted'[x] = FALSE)
  BY <1>1 DEF FinalizeFails, FinalizeUnstored, Summarize, LosePersistence, TurnInv, RuntimeTyped,
              RuntimeTypeOK
<1>5. CASE r # q
  BY <1>1, <1>3, <1>4, <1>5, KeepsAll, OtherTurn
<1>6. CASE r = q
  <2>1. /\ Holders(r) = {t} /\ Keepers(r) = {} /\ HeldOK(r, t) /\ StoredOK(r)
    BY <1>1, <1>6, Alone
  <2>2. Holders(r)' = {} /\ Keepers(r)' = {}
    BY <1>1, <1>3, <2>1 DEF Holders, Keepers
  <2>3. StoredOK(r)'
    BY <1>1, <1>4, <2>1, StoredSame
  <2>4. CASE kept
    <3>1. th[t].at = "summarize" /\ UNCHANGED persisted
      BY <1>2, <2>4 DEF Summarize, At
    <3> QED BY <1>1, <1>3, <1>6, <2>1, <2>2, <2>3, <2>4, <3>1 DEF TurnOK, EndedOK, HeldOK, tables
  <2>5. CASE ~kept
    BY <1>3, <1>6, <2>2, <2>3, <2>5 DEF TurnOK, EndedOK
  <2> QED BY <2>4, <2>5
<1> QED BY <1>5, <1>6

\* The steps that store the end of a turn write what it is: the answer as the
\* last entry of the run, and the status over a row of the same run.
LEMMA TurnStored ==
  ASSUME TurnInv, NEW t \in Clients,
         \/ AnswerChecked(t) \/ AnswerStored(t) \/ CompletionLoaded(t)
         \/ FailureLoaded(t) \/ RunWritten(t), NEW r \in Runs
  PROVE  TurnOK(r)'
<1> USE DEF registryVars, Finalizing
<1> DEFINE q == th[t].run
<1>1. /\ th[t] # Nil /\ q \in Runs /\ th[t] \in Request /\ RuntimeStep(t)
      /\ UNCHANGED <<pending, persisted, emitted, outcome, issued, events>>
  <2>1. /\ th[t] # Nil /\ th[t].at # "clear"
        /\ UNCHANGED <<pending, persisted, emitted, outcome, issued, events>>
    BY DEF AnswerChecked, AnswerStored, CompletionLoaded, FailureLoaded, RunWritten, At, BeginAppend,
           InsertMessage, BeginCompleteRun, BeginFailRun, UpdateRun, tables
  <2> QED BY <2>1 DEF TurnInv, RuntimeTyped, ThreadsOK, RequestOK, RuntimeStep
<1>2. /\ StoreTypeOK /\ call \in [Clients -> Call \cup {Nil}] /\ runs \in [Runs -> RunRow \cup {Nil}]
      /\ th \in [Clients -> Request \cup {Nil}] /\ CallOK(t)
  BY DEF TurnInv, RuntimeTyped, RuntimeTypeOK, StoreTypeOK, CallsOK
<1>3. /\ \A u \in Clients : u # t => th'[u] = th[u]
      /\ th'[t].run = q /\ th'[t].session = th[t].session /\ th'[t].status = th[t].status
      /\ th'[t].at = IF AnswerStored(t) THEN "complete"
                     ELSE IF RunWritten(t) THEN "summarize" ELSE th[t].at
  <2>1. CASE AnswerStored(t)
    BY <1>1, <1>2, <2>1 DEF AnswerStored, Request
  <2>2. CASE RunWritten(t)
    <3>1. ~AnswerStored(t)
      BY <2>2 DEF AnswerStored, RunWritten, At
    <3> QED BY <1>1, <1>2, <2>2, <3>1 DEF RunWritten, Move, Request
  <2>3. CASE UNCHANGED th /\ ~AnswerStored(t) /\ ~RunWritten(t)
    BY <2>3
  <2>4. AnswerChecked(t) \/ CompletionLoaded(t) \/ FailureLoaded(t) => UNCHANGED th
    BY DEF AnswerChecked, CompletionLoaded, FailureLoaded
  <2> QED BY <2>1, <2>2, <2>3, <2>4
<1>4. CASE r # q
  <2>1. CASE AnswerStored(t) \/ RunWritten(t)
    <3>1. call[t].run = q
      BY <1>2, <2>1 DEF CallOK, AnswerStored, InsertMessage, RunWritten, UpdateRun
    <3> QED BY <1>1, <1>2, <1>3, <1>4, <2>1, <3>1, KeepsAnswer, KeepsUpdate, OtherTurn
            DEF AnswerStored, RunWritten
  <2>2. CASE AnswerChecked(t) \/ CompletionLoaded(t) \/ FailureLoaded(t)
    <3>1. UNCHANGED <<tables, issued>>
      BY <2>2 DEF AnswerChecked, CompletionLoaded, FailureLoaded, BeginAppend, BeginCompleteRun,
                  BeginFailRun
    <3> QED BY <1>1, <1>3, <1>4, <3>1, KeepsAll, OtherTurn
  <2> QED BY <2>1, <2>2
<1>5. CASE r = q
  <2>1. /\ Holders(r) = {t} /\ Keepers(r)' = {} /\ outcome'[r] = Nil
        /\ HeldOK(r, t) /\ StoredOK(r) /\ r \in issued
    BY <1>1, <1>5, Alone DEF Keepers
  <2>2. ASSUME StoredOK(r)', HeldOK(r, t)'
        PROVE  TurnOK(r)'
    BY <1>3, <2>1, <2>2, StillHeld
  <2>3. CASE AnswerChecked(t)
    <3>1. /\ UNCHANGED <<tables, issued>> /\ persisted[r] /\ th[t].at = "append" /\ UNCHANGED th
          /\ call'[t] = [op |-> "append", session |-> th[t].session, run |-> q]
      BY <1>2, <1>5, <2>3 DEF AnswerChecked, BeginAppend, At
    <3>2. StoredOK(r)' /\ Answers(r)' = Answers(r)
      BY <1>1, <2>1, <3>1, StoredSame
    <3>3. HeldOK(r, t)'
      BY <1>1, <2>1, <3>1, <3>2 DEF HeldOK, tables
    <3> QED BY <2>2, <3>2, <3>3
  <2>4. CASE AnswerStored(t)
    <3>1. /\ th[t].at = "append" /\ ~Idle(t) /\ call[t].op = "append"
          /\ call[t].session = th[t].session /\ call[t].run = q
      BY <1>2, <2>4 DEF AnswerStored, InsertMessage, CallOK, At
    <3> DEFINE a == Answer(th[t].session, q)
    <3>2. messages' = messages \cup {a} /\ UNCHANGED runs /\ call'[t] = Nil
      BY <1>2, <2>4, <3>1 DEF AnswerStored, InsertMessage, Return
    <3>3. a.run = q /\ a.role = "assistant" /\ a.seq = NextSeq(th[t].session)
      BY DEF Answer
    <3>4. Answers(r) = {}
      BY <2>1, <3>1 DEF HeldOK
    <3> HIDE DEF a
    <3>5. \A m \in Answers(r)' : m = a
      BY <3>2, <3>4 DEF Answers
    <3>6. ASSUME runs[r] # Nil
          PROVE  OrderOK(r)'
      <4>1. runs[r].session = th[t].session
        BY <2>1, <3>6 DEF HeldOK
      <4>2. /\ runs[r].question.seq < a.seq
            /\ \A e \in events : e.run = r => e.seq < a.seq
        BY <3>3, <3>6, <4>1, NextIsLast
      <4>3. OrderOK(r)
        BY <2>1, <3>6 DEF StoredOK
      <4> QED BY <1>1, <3>2, <3>5, <4>2, <4>3 DEF OrderOK
    <3>7. StoredOK(r)'
      BY <1>1, <2>1, <3>2, <3>5, <3>6 DEF StoredOK
    <3>8. HeldOK(r, t)'
      BY <1>1, <1>3, <2>1, <2>4, <3>1, <3>2 DEF HeldOK, Idle
    <3> QED BY <2>2, <3>7, <3>8
  <2>5. ASSUME UNCHANGED <<tables, issued, th>>, persisted[r], th[t].at \in {"complete", "fail"},
               runs[r] # Nil => /\ call'[t].row.session = runs[r].session
                                /\ call'[t].row.question = runs[r].question
        PROVE  TurnOK(r)'
    <3>1. StoredOK(r)' /\ Answers(r)' = Answers(r)
      BY <1>1, <2>1, <2>5, StoredSame
    <3>2. HeldOK(r, t)'
      BY <1>1, <2>1, <2>5, <3>1 DEF HeldOK, tables
    <3> QED BY <2>2, <3>1, <3>2
  <2>6. CASE CompletionLoaded(t)
    <3>1. /\ UNCHANGED <<tables, issued, th>> /\ th[t].at = "complete" /\ runs[r] # Nil
          /\ call'[t] = [op |-> "update", run |-> q, row |-> Completed(runs[q], th[t].answer)]
      BY <1>2, <1>5, <2>6 DEF CompletionLoaded, BeginCompleteRun, At
    <3>2. call'[t].row = Completed(runs[r], th[t].answer) /\ runs[r] \in RunRow
      BY <1>2, <1>5, <3>1
    <3>3. /\ call'[t].row.session = runs[r].session
          /\ call'[t].row.question = runs[r].question
      BY <3>2, CompletedRow
    <3> QED BY <2>1, <2>5, <3>1, <3>3 DEF HeldOK
  <2>7. CASE FailureLoaded(t)
    <3>1. /\ UNCHANGED <<tables, issued, th>> /\ th[t].at = "fail" /\ runs[r] # Nil /\ persisted[r]
          /\ call'[t] = [op |-> "update", run |-> q, row |-> [runs[q] EXCEPT !.status = th[t].status]]
      BY <1>2, <1>5, <2>7 DEF FailureLoaded, BeginFailRun, At
    <3>2. /\ call'[t].row.session = runs[r].session
          /\ call'[t].row.question = runs[r].question
      BY <1>2, <1>5, <3>1 DEF RunRow
    <3> QED BY <2>5, <3>1, <3>2
  <2>8. CASE RunWritten(t)
    <3>1. /\ ~Idle(t) /\ call[t].op = "update" /\ call[t].run = r /\ call[t].row.status = th[t].status
          /\ UNCHANGED messages /\ call'[t] = Nil
      BY <1>2, <1>5, <2>8 DEF RunWritten, UpdateRun, Return, CallOK, Idle
    <3>2. runs'[r] = IF runs[r] = Nil THEN Nil ELSE call[t].row
      BY <1>2, <2>8, <3>1 DEF RunWritten, UpdateRun
    <3>3. persisted[r] /\ Answers(r)' = Answers(r)
      BY <2>1, <3>1 DEF HeldOK, Answers
    <3>4. ASSUME runs'[r] # Nil
          PROVE  /\ runs[r] # Nil
                 /\ runs'[r].session = runs[r].session /\ runs'[r].question = runs[r].question
                 /\ runs'[r].session = th[t].session /\ runs'[r].status = th[t].status
      BY <2>1, <3>1, <3>2, <3>4 DEF HeldOK
    <3>5. StoredOK(r)'
      BY <1>1, <2>1, <3>1, <3>3, <3>4 DEF StoredOK, OrderOK
    <3>6. th'[t].at = "summarize"
      BY <1>3, <2>8 DEF RunWritten, AnswerStored, At
    <3>7. HeldOK(r, t)'
      BY <1>1, <1>3, <3>1, <3>3, <3>4, <3>6 DEF HeldOK, Idle
    <3> QED BY <2>2, <3>5, <3>7
  <2> QED BY <2>3, <2>4, <2>6, <2>7, <2>8
<1> QED BY <1>4, <1>5

\* The steps before the agent's, and the clearing of a deleted session's waits.
LEMMA TurnPrepared ==
  ASSUME TurnInv, NEW t \in Clients, BuildContext(t) \/ CancelNotice(t) \/ ClearPending(t),
         NEW r \in Runs
  PROVE  TurnOK(r)'
<1> USE DEF registryVars, turnVars, storeVars
<1>0. th \in [Clients -> Request \cup {Nil}] /\ emitted \in [Runs -> 0 .. MaxEvents]
  BY DEF TurnInv, RuntimeTyped, RuntimeTypeOK, ThreadsOK
<1>1. CASE ClearPending(t)
  <2>1. /\ th'[t] = Nil /\ UNCHANGED <<tables, issued, persisted, emitted, outcome>>
        /\ RuntimeStep(t)
    BY <1>0, <1>1 DEF ClearPending, RuntimeStep
  <2>2. \A p \in Procs : pending'[p][r] # Nil => pending'[p][r] = pending[p][r]
    BY <1>1, RuntimeAssumption
    DEF ClearPending, ClearSession, Unexpired, TurnInv, RuntimeTyped, RuntimeTypeOK, RegistryTypeOK
  <2> QED BY <2>1, <2>2, KeepsAll, OtherTurn
<1>2. ASSUME th[t] # Nil, th[t].at \in {"context", "notice"}, NEW stage \in {"agent", "fail"},
             Move(t, stage), UNCHANGED <<call, pending, emitted, outcome, runs>>, RuntimeStep(t),
             r # th[t].run => StoreKeeps(r) /\ persisted'[r] = persisted[r],
             r = th[t].run => StoredOK(r)' /\ Answers(r)' = {}
      PROVE  TurnOK(r)'
  <2>1. /\ th[t] \in Request /\ th[t].run \in Runs /\ Idle(t)
    BY <1>2, FreeIsIdle DEF TurnInv, RuntimeTyped, ThreadsOK, RequestOK, Ending
  <2>2. /\ th'[t].run = th[t].run /\ th'[t].session = th[t].session /\ th'[t].at = stage
        /\ \A u \in Clients : u # t => th'[u] = th[u]
    BY <1>0, <1>2, <2>1 DEF Move, Request
  <2>3. CASE r # th[t].run
    BY <1>2, <2>2, <2>3, OtherTurn
  <2>4. CASE r = th[t].run
    <3>1. /\ Holders(r) = {t} /\ Keepers(r)' = {} /\ outcome'[r] = Nil /\ HeldOK(r, t)
      BY <1>2, <2>1, <2>4, Alone DEF Keepers
    <3>2. HeldOK(r, t)'
      BY <1>2, <2>1, <2>2, <2>4, <3>1 DEF HeldOK, Idle
    <3> QED BY <1>2, <2>2, <2>4, <3>1, <3>2, StillHeld
  <2> QED BY <2>3, <2>4
<1>3. CASE BuildContext(t)
  <2>1. /\ th[t] # Nil /\ th[t].at = "context" /\ Move(t, "agent") /\ RuntimeStep(t)
        /\ UNCHANGED <<tables, issued, call, pending, emitted, outcome, persisted>>
    BY <1>3 DEF BuildContext, At, RuntimeStep
  <2>2. ASSUME r = th[t].run
        PROVE  StoredOK(r)' /\ Answers(r)' = {}
    <3>1. StoredOK(r) /\ HeldOK(r, t)
      BY <2>1, <2>2, Alone
    <3>2. StoredOK(r)' /\ Answers(r)' = Answers(r)
      BY <2>1, <3>1, StoredSame
    <3> QED BY <2>1, <3>1, <3>2 DEF HeldOK
  <2> QED BY <1>2, <2>1, <2>2, KeepsAll DEF tables
<1>4. CASE CancelNotice(t)
  <2> DEFINE stage == IF asked[th[t].run] = 0 THEN "fail" ELSE "agent"
  <2>1. /\ th[t] # Nil /\ th[t].at = "notice" /\ Move(t, stage) /\ RuntimeStep(t)
        /\ RecordEvent(t, 0) /\ UNCHANGED <<call, pending, emitted, outcome, runs>>
    BY <1>4 DEF CancelNotice, RecordEvent, InsertEvent, At, RuntimeStep, tables
  <2>2. stage \in {"agent", "fail"} /\ 0 \in 0 .. MaxEvents
    BY RuntimeAssumption
  <2>3. th[t] \in Request /\ th[t].run \in Runs
    BY <2>1 DEF TurnInv, RuntimeTyped, ThreadsOK, RequestOK
  <2> HIDE DEF stage
  <2>4. r # th[t].run => StoreKeeps(r) /\ persisted'[r] = persisted[r]
    BY <2>1, <2>2, <2>3, RecordOther
  <2>5. ASSUME r = th[t].run
        PROVE  StoredOK(r)' /\ Answers(r)' = {}
    <3>1. emitted[r] \in Nat /\ emitted'[r] = emitted[r]
      BY <1>0, <2>1, RuntimeAssumption
    <3> QED BY <2>1, <2>2, <2>5, <3>1, RecordOwn
  <2> QED BY <1>2, <2>1, <2>2, <2>4, <2>5
<1> QED BY <1>1, <1>3, <1>4

\* Every step keeps every turn as it should be.
LEMMA TurnStep ==
  ASSUME TurnInv, [Next]_vars
  PROVE  TurnInv'
<1>1. RuntimeTyped' /\ OwnerInv' /\ StoreInv' /\ EventIdsOK'
  BY RuntimeTypeStep, OwnerStep, StoreSound, EventIdsStep DEF TurnInv
<1>2. ASSUME NEW t \in Clients, FinalizeUnstored(t)
      PROVE  Idle(t)
  <2>1. th[t] # Nil /\ th[t].run \in Runs /\ ~persisted[th[t].run]
    BY <1>2 DEF FinalizeUnstored, At, TurnInv, RuntimeTyped, ThreadsOK, RequestOK
  <2> QED BY <2>1, Alone DEF HeldOK
<1>3. CallsOK'
  BY <1>2, CallsStep DEF TurnInv
<1>4. ASSUME NEW r \in Runs
      PROVE  TurnOK(r)'
  <2>1. ASSUME NEW t \in Clients, RuntimeStep(t)
        PROVE  TurnOK(r)'
    BY <2>1, TurnGoesOnUnstored, TurnWaits, TurnEnds, TurnStored, TurnPrepared DEF RuntimeStep
  <2>2. ASSUME NEW p \in Procs, Crash(p)
        PROVE  TurnOK(r)'
    <3>1. /\ UNCHANGED <<tables, issued, persisted, emitted, outcome>>
          /\ \A t \in Clients : th'[t] # Nil => th'[t] = th[t]
          /\ \A t \in Clients : call'[t] \in {call[t], Nil}
      BY <2>2 DEF Crash, AbandonCalls, turnVars
    <3>2. \A q \in Procs : pending'[q][r] # Nil => pending'[q][r] = pending[q][r]
      BY <2>2 DEF Crash, Clear, TurnInv, RuntimeTyped, RuntimeTypeOK, RegistryTypeOK
    <3>3. Untouched(r)
      BY <3>1, <3>2, KeepsAll DEF Untouched, Holders, Keepers
    <3> QED BY <3>3, UntouchedStep
  <2>3. ASSUME StoreKeeps(r), UNCHANGED <<th, call, pending, persisted, emitted, outcome>>
        PROVE  TurnOK(r)'
    <3>1. Untouched(r)
      BY <2>3 DEF Untouched, Holders, Keepers
    <3> QED BY <3>1, UntouchedStep
  <2>4. ASSUME NEW p \in Procs, Restart(p)
        PROVE  TurnOK(r)'
    <3>1. PICK t \in Clients : MarkInterruptedRuns(t)
      BY <2>4 DEF Restart, ThreadsOf
    <3>2. UNCHANGED <<th, call, pending, persisted, emitted, outcome>>
      BY <2>4, <3>1 DEF Restart, MarkInterruptedRuns, registryVars, turnVars
    <3> QED BY <2>3, <3>1, <3>2, KeepsMark
  <2>5. ASSUME ClockTicks \/ UNCHANGED vars
        PROVE  TurnOK(r)'
    BY <2>3, <2>5, KeepsAll DEF ClockTicks, vars, storeVars, registryVars, turnVars
  <2> QED BY <2>1, <2>2, <2>4, <2>5, TurnUser, TurnAgent DEF Next
<1> QED BY <1>1, <1>3, <1>4 DEF TurnInv

\* Before the first request there is nothing to be wrong.
LEMMA TurnInit == Init => TurnInv
<1> SUFFICES ASSUME Init PROVE TurnInv
  OBVIOUS
<1>1. RuntimeTyped /\ OwnerInv /\ StoreInv
  BY RuntimeInit, OwnerInit, InvInit DEF Init
<1>2. CallsOK /\ EventIdsOK
  BY DEF Init, StoreInit, CallsOK, CallOK, EventIdsOK, Idle
<1>3. ASSUME NEW r \in Runs
      PROVE  TurnOK(r)
  <2>1. /\ Holders(r) = {} /\ Keepers(r) = {} /\ outcome[r] = Nil /\ runs[r] = Nil
        /\ Answers(r) = {} /\ emitted[r] = 0
    BY DEF Init, StoreInit, RegistryInit, Holders, Keepers, Answers
  <2> QED BY <2>1 DEF TurnOK, StoredOK, EndedOK
<1> QED BY <1>1, <1>2, <1>3 DEF TurnInv

-----------------------------------------------------------------------------
(* Theorems *)

\* The invariant that the next theorems rest on.
THEOREM RuntimeTurns == Spec => []TurnInv
<1>1. TurnInv /\ [Next]_vars => TurnInv'
  BY TurnStep
<1> QED BY TurnInit, <1>1, PTL DEF Spec

\* A run that can be resumed has not ended: whoever resumes or cancels it finds
\* its row open (if it is stored), and no final result of it was ever returned.
THEOREM RuntimeResumableIsOpen == Spec => []ResumableIsOpen
<1>1. TurnInv => ResumableIsOpen
  BY AloneKept DEF ResumableIsOpen, WaitOK, OpenStatus
<1> QED BY RuntimeTurns, <1>1, PTL

\* A result that says its turn was stored tells the truth, with every event of
\* the run, until the session is deleted; later turns, restarts and stale writes
\* do not change that.
THEOREM RuntimeKeptMeansStored == Spec => []KeptMeansStored
<1>1. TurnInv => KeptMeansStored
  BY DEF TurnInv, TurnOK, EndedOK, StoredOK, KeptMeansStored
<1> QED BY RuntimeTurns, <1>1, PTL

\* The timeline of a stored run reads question, events, answer, and there is
\* one answer, whatever is written to the session in between.
THEOREM RuntimeTurnInOrder == Spec => []TurnInOrder
<1>1. TurnInv => TurnInOrder
  BY DEF TurnInv, TurnOK, StoredOK, OrderOK, Answers, TurnInOrder
<1> QED BY RuntimeTurns, <1>1, PTL
-----------------------------------------------------------------------------
(* An open run has an owner *)

\* Why an open run may be without one after a step.
GivenUp(r) ==
  \/ ~persisted[r]'
  \/ \E p \in Procs :
       \/ up[p] /\ ~up'[p]
       \/ pending[p][r] # Nil /\ Expired(pending[p][r])
  \/ \E t \in Clients : At(t, "clear") /\ th[t].session = runs[r].session

\* A run is opened only by the step that issues it, which gives it an owner.
LEMMA OpenedIsOwned ==
  ASSUME TurnInv, [Next]_vars, NEW r \in Runs, ~Owned(r), Open(r)', ~Open(r)
  PROVE  Owned(r)'
<1>1. StoreTypeOK /\ [StoreNext]_storeVars
  BY NextIsStoreStep DEF vars, TurnInv, StoreInv
<1>2. CASE runs'[r] = runs[r] \/ runs'[r] = Nil
  BY <1>2 DEF Open
<1>3. CASE MarkInterrupted(r)
  <2>1. CASE runs[r] # Nil /\ runs[r].status \in ActiveStatus
    BY <2>1 DEF Open
  <2>2. CASE ~(runs[r] # Nil /\ runs[r].status \in ActiveStatus)
    BY <1>3, <2>2 DEF MarkInterrupted, Interrupted, Open
  <2> QED BY <2>1, <2>2
<1>4. ASSUME NEW c \in Clients, UpdateRun(c) \/ InsertRun(c), call[c].run = r
      PROVE  FALSE
  <2>1. th[c] # Nil /\ th[c].run = r
    BY <1>4 DEF TurnInv, CallsOK, CallOK, UpdateRun, InsertRun
  <2> QED BY <2>1 DEF Owned, Holders
<1>5. ASSUME NEW c \in Clients, NEW s \in Sessions, CreateUserTurn(c, s, r)
      PROVE  Owned(r)'
  <2>1. r \in issued' \ issued
    BY <1>5 DEF CreateUserTurn
  <2> QED BY <2>1, IssuedIsHeld DEF TurnInv, Owned
<1> QED BY <1>1, <1>2, <1>3, <1>4, <1>5, RowStep

\* A thread lets go of its run only when the turn is not stored any more, hands
\* it on or has ended it.
LEMMA ReleaseStep ==
  ASSUME TurnInv, NEW t \in Clients, RuntimeStep(t), NEW r \in Runs, t \in Holders(r), Open(r)'
  PROVE  Owned(r)' \/ GivenUp(r)
<1> USE DEF registryVars, turnVars, storeVars
<1>0. /\ th[t] # Nil /\ th[t].run = r /\ th[t] \in Request /\ RequestOK(th[t])
      /\ th \in [Clients -> Request \cup {Nil}] /\ persisted \in [Runs -> BOOLEAN]
      /\ HeldOK(r, t)
  BY Alone DEF TurnInv, RuntimeTyped, RuntimeTypeOK, ThreadsOK, Holders
<1>1. ASSUME th'[t] # Nil, th'[t].run = r
      PROVE  Owned(r)'
  BY <1>1 DEF Owned, Holders
<1>2. ASSUME UNCHANGED th
      PROVE  Owned(r)'
  BY <1>0, <1>1, <1>2
<1>3. ASSUME NEW stage \in Stage, Move(t, stage)
      PROVE  Owned(r)'
  <2>1. th'[t] = [th[t] EXCEPT !.at = stage]
    BY <1>0, <1>3 DEF Move
  <2>2. th'[t] \in Request /\ th'[t].run = r
    BY <1>0, <2>1 DEF Request
  <2> QED BY <1>1, <2>2, RuntimeNilAssumption
<1>4. CASE AnswerStored(t)
  <2>1. th'[t] = [th[t] EXCEPT !.at = "complete", !.answer = Answer(th[t].session, r)]
    BY <1>0, <1>4 DEF AnswerStored
  <2>2. Answer(th[t].session, r) \in Message
    BY <1>0, QuestionType DEF Request, TurnInv, StoreInv
  <2>3. th'[t] \in Request /\ th'[t].run = r
    BY <1>0, <2>1, <2>2 DEF Request, Stage
  <2> QED BY <1>1, <2>3, RuntimeNilAssumption
<1>5. CASE \/ BuildContext(t) \/ CancelNotice(t) \/ RunWritten(t)
  <2>1. \E stage \in Stage : Move(t, stage)
    BY <1>5 DEF BuildContext, CancelNotice, RunWritten, Stage
  <2> QED BY <1>3, <2>1
<1>6. CASE AnswerChecked(t) \/ CompletionLoaded(t) \/ FailureLoaded(t)
  BY <1>2, <1>6 DEF AnswerChecked, CompletionLoaded, FailureLoaded
<1>7. ASSUME NEW q \in Runs, BuildContextFails(t, q)
      PROVE  GivenUp(r)
  BY <1>0, <1>7 DEF BuildContextFails, LosePersistence, GivenUp
<1>8. CASE RegisterWait(t)
  <2>1. asked[r] \in Nat /\ clock + Ttl \in Nat /\ ProcOf[t] \in Procs
    BY RuntimeAssumption, RegistryAssumption
    DEF TurnInv, RuntimeTyped, RuntimeTypeOK, RegistryTypeOK
  <2> DEFINE rec == [session |-> th[t].session, ticket |-> asked[r], expires |-> clock + Ttl]
  <2>2. rec # Nil
    BY <1>0, <2>1, RegistryNilAssumption DEF PendingRecord, Request
  <2>3. pending'[ProcOf[t]][r] = rec
    BY <1>0, <1>8, <2>1 DEF RegisterWait, Register, Unexpired, TurnInv, RuntimeTyped, RuntimeTypeOK,
                            RegistryTypeOK
  <2> HIDE DEF rec
  <2> QED BY <2>1, <2>2, <2>3 DEF Owned, Keepers
<1>9. CASE FinalizeFails(t) \/ FinalizeUnstored(t)
  BY <1>0, <1>9 DEF FinalizeFails, FinalizeUnstored, LosePersistence, GivenUp
<1>10. CASE Summarize(t)
  <2>1. th[t].at = "summarize" /\ UNCHANGED runs
    BY <1>10 DEF Summarize, At, tables
  <2>2. runs[r] # Nil => runs[r].status \notin ActiveStatus
    BY <1>0, <2>1 DEF HeldOK, RequestOK, Ending
  <2> QED BY <2>1, <2>2 DEF Open
<1>11. CASE ClearPending(t)
  <2>1. th[t].at = "clear" /\ UNCHANGED runs
    BY <1>11 DEF ClearPending, At, tables
  <2>2. runs[r].session = th[t].session
    BY <1>0, <2>1 DEF HeldOK, Open
  <2> QED BY <1>0, <2>1, <2>2 DEF GivenUp, At
<1> QED BY <1>4, <1>5, <1>6, <1>7, <1>8, <1>9, <1>10, <1>11 DEF RuntimeStep

\* Whoever takes a run from the registry works on it from the same step on.
LEMMA TakenIsHeld ==
  ASSUME TurnInv, NEW t \in Clients, UserCall(t), NEW r \in Runs, NEW p \in Procs,
         pending[p][r] # Nil, pending'[p][r] = Nil
  PROVE  Owned(r)' \/ GivenUp(r)
<1> USE DEF registryVars, turnVars
<1>0. /\ pending \in [Procs -> [Runs -> PendingRecord \cup {Nil}]]
      /\ th \in [Clients -> Request \cup {Nil}] /\ ProcOf[t] \in Procs
      /\ RuntimeTyped
  BY RuntimeAssumption DEF TurnInv, RuntimeTyped, RuntimeTypeOK, RegistryTypeOK
<1>1. ASSUME NEW q \in Runs, pending' = [pending EXCEPT ![ProcOf[t]][q] = Nil]
      PROVE  p = ProcOf[t] /\ q = r
  BY <1>0, <1>1
<1>2. ASSUME NEW stage \in Stage, NEW cancel \in BOOLEAN, NEW status \in RunStatus,
             th' = [th EXCEPT ![t] = NewRequest(stage, pending[p][r].session, r, cancel, status)]
      PROVE  Owned(r)'
  <2>1. pending[p][r].session \in Sessions
    BY <1>0 DEF PendingRecord
  <2>2. NewRequest(stage, pending[p][r].session, r, cancel, status) # Nil
    BY <2>1, NewRequestTyped, RuntimeNilAssumption
  <2>3. t \in Holders(r)'
    BY <1>0, <1>2, <2>2 DEF Holders, NewRequest
  <2> QED BY <2>3 DEF Owned
<1>3. ASSUME NEW q \in Runs, NEW approved \in BOOLEAN, NEW k \in 0 .. MaxTickets,
             Resume(t, q, approved, k)
      PROVE  Owned(r)'
  <2>1. p = ProcOf[t] /\ q = r
    BY <1>1, <1>3 DEF Resume, Pop
  <2>2. PICK stage \in {"fail", "agent"}, status \in {"failed", "running"} : Taken(t, q, stage, status)
    BY <1>3 DEF Resume
  <2>3. stage \in Stage /\ status \in RunStatus
    BY RuntimeAssumption DEF Stage, RunStatus, ActiveStatus
  <2> QED BY <1>2, <2>1, <2>2, <2>3 DEF Taken
<1>4. ASSUME NEW q \in Runs, Cancel(t, q)
      PROVE  Owned(r)'
  <2>1. p = ProcOf[t] /\ q = r
    BY <1>1, <1>4 DEF Cancel, Pop
  <2>2. "notice" \in Stage /\ "cancelled" \in RunStatus
    BY RuntimeAssumption DEF Stage, RunStatus
  <2> QED BY <1>2, <1>4, <2>1, <2>2 DEF Cancel
<1>5. ASSUME NEW q \in Runs, ResumeExpired(t, q)
      PROVE  GivenUp(r)
  <2>1. p = ProcOf[t] /\ q = r
    BY <1>1, <1>5 DEF ResumeExpired, DropExpired
  <2> QED BY <1>5, <2>1 DEF ResumeExpired, DropExpired, GivenUp
<1>6. ASSUME UNCHANGED pending
      PROVE  FALSE
  BY <1>6
<1> QED BY <1>3, <1>4, <1>5, <1>6 DEF UserCall, BeginTurn, BeginTurnUnstored, DeleteStored

\* A registry lets go of a run by itself when its time is up, or when the
\* session of the run is cleared.
LEMMA ClearedStep ==
  ASSUME TurnInv, NEW t \in Clients, RuntimeStep(t), NEW r \in Runs, NEW p \in Procs,
         pending[p][r] # Nil, pending'[p][r] = Nil, Open(r)'
  PROVE  Owned(r)' \/ GivenUp(r)
<1>0. /\ pending \in [Procs -> [Runs -> PendingRecord \cup {Nil}]] /\ ProcOf[t] \in Procs
      /\ RuntimeTyped
  BY RuntimeAssumption DEF TurnInv, RuntimeTyped, RuntimeTypeOK, RegistryTypeOK
<1>1. CASE RegisterWait(t)
  <2>1. CASE th[t].run = r
    BY <1>1, <2>1, Alone DEF RegisterWait, At, Keepers
  <2>2. CASE th[t].run # r
    <3>1. pending[p][r] # Nil /\ Expired(pending[p][r])
      BY <1>0, <1>1, <2>2 DEF RegisterWait, Register, Unexpired
    <3> QED BY <3>1 DEF GivenUp
  <2> QED BY <2>1, <2>2
<1>2. CASE ClearPending(t)
  <2>1. At(t, "clear") /\ UNCHANGED runs
    BY <1>2 DEF ClearPending, storeVars, tables
  <2>2. \/ pending[p][r].session = th[t].session
        \/ Expired(pending[p][r])
    BY <1>0, <1>2 DEF ClearPending, ClearSession, Unexpired
  <2>3. runs[r].session = pending[p][r].session
    BY <2>1, AloneKept DEF WaitOK, Open
  <2> QED BY <2>1, <2>2, <2>3 DEF GivenUp
<1>3. CASE UNCHANGED pending
  BY <1>3
<1> QED BY <1>1, <1>2, <1>3
    DEF RuntimeStep, BuildContext, BuildContextFails, CancelNotice, AnswerChecked, AnswerStored,
        CompletionLoaded, FailureLoaded, RunWritten, FinalizeFails, FinalizeUnstored, Summarize,
        Finalizing, registryVars

\* An open run that loses its owner is given up.
LEMMA OwnedIsKept ==
  ASSUME TurnInv, [Next]_vars, NEW r \in Runs, Owned(r), Open(r)'
  PROVE  Owned(r)' \/ GivenUp(r)
<1>0. RuntimeTyped /\ th \in [Clients -> Request \cup {Nil}]
  BY DEF TurnInv, RuntimeTyped, RuntimeTypeOK
<1>1. ASSUME NEW p \in Procs, Crash(p)
      PROVE  Owned(r)' \/ GivenUp(r)
  BY <1>1 DEF Crash, GivenUp, TurnInv, RuntimeTyped, RuntimeTypeOK
<1>2. CASE UNCHANGED <<th, pending>>
  BY <1>2 DEF Owned, Holders, Keepers
<1>3. ASSUME NEW t \in Clients, UserCall(t) \/ AgentStep(t) \/ RuntimeStep(t)
      PROVE  Owned(r)' \/ GivenUp(r)
  <2>1. ASSUME NEW u \in Holders(r), u # t
        PROVE  Owned(r)'
    <3>1. th'[u] = th[u]
      BY <1>0, <1>3, <2>1, OthersKeep DEF Holders
    <3> QED BY <3>1 DEF Owned, Holders
  <2>2. CASE t \in Holders(r)
    <3>1. CASE UserCall(t)
      BY <2>2, <3>1 DEF Holders, UserCall, BeginTurn, BeginTurnUnstored, Resume, ResumeExpired, Cancel,
                        DeleteStored, Free
    <3>2. CASE AgentStep(t)
      <4>1. th[t] # Nil /\ th[t] \in Request /\ th[t].run = r
        BY <1>0, <2>2 DEF Holders
      <4>2. CASE UNCHANGED th
        BY <2>2, <4>2 DEF Owned, Holders
      <4>3. CASE ~EmitEvent(t)
        <5>1. PICK stage \in {"append", "register", "fail"}, status \in RunStatus :
                th'[t] = [th[t] EXCEPT !.at = stage, !.status = status]
          BY <1>0, <3>2, <4>3, AgentEffect
        <5>2. th'[t] \in Request /\ th'[t].run = r
          BY <4>1, <5>1 DEF Request, Stage
        <5> QED BY <5>2, RuntimeNilAssumption DEF Owned, Holders
      <4> QED BY <1>0, <3>2, <4>2, <4>3, AgentEffect
    <3>3. CASE RuntimeStep(t)
      BY <2>2, <3>3, ReleaseStep
    <3> QED BY <1>3, <3>1, <3>2, <3>3
  <2>3. ASSUME NEW p \in Keepers(r)
        PROVE  Owned(r)' \/ GivenUp(r)
    <3>1. CASE pending'[p][r] # Nil
      BY <2>3, <3>1 DEF Owned, Keepers
    <3>2. CASE pending'[p][r] = Nil
      <4>1. p \in Procs /\ pending[p][r] # Nil
        BY <2>3 DEF Keepers
      <4>2. CASE AgentStep(t)
        BY <1>0, <3>2, <4>1, <4>2, AgentEffect
      <4> QED BY <1>3, <3>2, <4>1, <4>2, TakenIsHeld, ClearedStep
    <3> QED BY <3>1, <3>2
  <2> QED BY <2>1, <2>2, <2>3 DEF Owned
<1> QED BY <1>1, <1>2, <1>3 DEF Next, Restart, ClockTicks, registryVars, vars

\* A stored run that is open is worked on or waits for its user, until its turn
\* stops being stored, its wait expires, its process dies or its session id is
\* deleted: no interleaving of run, resume, cancel and delete_session leaves a
\* row open that nobody is going to touch again.
THEOREM RuntimeOpenRunOwned == Spec => OpenRunOwned
<1>1. ASSUME TurnInv, [Next]_vars, NEW r \in Runs, Open(r)', ~Owned(r)', ~Open(r) \/ Owned(r)
      PROVE  GivenUp(r)
  BY <1>1, OpenedIsOwned, OwnedIsKept
<1>2. TurnInv /\ [Next]_vars =>
        [\A r \in Runs : Open(r)' /\ ~Owned(r)' /\ (~Open(r) \/ Owned(r)) =>
           \/ ~persisted[r]'
           \/ \E p \in Procs :
                \/ up[p] /\ ~up'[p]
                \/ pending[p][r] # Nil /\ Expired(pending[p][r])
           \/ \E t \in Clients : At(t, "clear") /\ th[t].session = runs[r].session]_vars
  BY <1>1 DEF GivenUp
<1> QED BY RuntimeTurns, <1>2, PTL DEF Spec, OpenRunOwned
=============================================================================
