---------------------------- MODULE SessionStore ----------------------------
(***************************************************************************)
(* The SQLite session store: SQLiteSessionRepository (src/memory/          *)
(* storage.py) behind SessionManager (src/memory/session_manager.py).      *)
(*                                                                         *)
(* Tables are the shared state.  Each `with self._transaction()` block is  *)
(* one atomic step: BEGIN is deferred, a reader that then writes while     *)
(* another connection writes gets SQLITE_BUSY and rolls back, so a         *)
(* transaction commits as a whole or leaves the tables alone.  A manager   *)
(* operation that reads in one connection and writes in a later one is two *)
(* steps, and what it read is kept in call[c] in between: append_message   *)
(* checks and then inserts, complete_run and fail_run load a row and then  *)
(* write the whole row back, create_run checks and then inserts.           *)
(*                                                                         *)
(* A row that does not exist is Nil.  Titles, contents, timestamps and     *)
(* metadata are left out: no property is about them.                       *)
(***************************************************************************)
EXTENDS RuntimeIds, Naturals, FiniteSets

CONSTANTS
  EventIds,    \* ids of execution events; the same event may arrive again
  Clients,     \* threads that call the store
  FailStatus,  \* statuses a run that did not complete may be given
  MaxSeq       \* bound: a session's timeline never grows past MaxSeq

ASSUME StoreAssumption ==
  /\ MaxSeq \in Nat
  /\ FailStatus \subseteq {"failed", "blocked", "cancelled", "request_replan", "interrupted"}

VARIABLES
  sessions,    \* table sessions
  messages,    \* table messages
  runs,        \* table agent_runs
  events,      \* table execution_events
  issued,      \* run ids generated so far (the memory of uuid4)
  call         \* what a client has read and not yet written

tables == <<sessions, messages, runs, events>>
storeVars == <<tables, issued, call>>

-----------------------------------------------------------------------------
(* Rows *)

ActiveStatus == {"pending", "running", "waiting_user"}
RunStatus == ActiveStatus \cup FailStatus \cup {"completed", "interrupted"}

SessionRow == [next : Nat \ {0}, lastRun : Runs \cup {Nil}]
Message == [session : Sessions, run : Runs, role : {"user", "assistant"}, seq : Nat \ {0}]
RunRow == [session : Sessions, question : Message, status : RunStatus, final : Message \cup {Nil}]
Event == [id : EventIds, session : Sessions, run : Runs, seq : Nat \ {0}]

Call == [op : {"append"}, session : Sessions, run : Runs]
          \cup [op : {"update", "insert_run"}, run : Runs, row : RunRow]

\* Nil is none of the rows and no run id.
ASSUME NilAssumption ==
  /\ Nil \notin Runs
  /\ Nil \notin SessionRow
  /\ Nil \notin RunRow
  /\ Nil \notin Call
  /\ Nil \notin Message

Timeline(s) == {x \in messages \cup events : x.session = s}
NextSeq(s) == IF sessions[s] = Nil THEN 1 ELSE sessions[s].next

StoreTypeOK ==
  /\ sessions \in [Sessions -> SessionRow \cup {Nil}]
  /\ messages \subseteq Message
  /\ runs \in [Runs -> RunRow \cup {Nil}]
  /\ events \subseteq Event
  /\ issued \subseteq Runs
  /\ call \in [Clients -> Call \cup {Nil}]

StoreInit ==
  /\ sessions = [s \in Sessions |-> Nil]
  /\ messages = {}
  /\ runs = [r \in Runs |-> Nil]
  /\ events = {}
  /\ issued = {}
  /\ call = [c \in Clients |-> Nil]

-----------------------------------------------------------------------------
(* Parts of a transaction *)

\* Mutant: the sequence counter is advanced for messages but not for events.
SequencedNoBump(s, last) ==
  [sessions EXCEPT ![s] = [next |-> NextSeq(s), lastRun |-> last]]

\* _reserve_next_timeline_seq and _touch_session: take the session's next
\* number and leave the counter one past it; lastRun Nil keeps the old value.
Sequenced(s, last) ==
  [sessions EXCEPT ![s] = [next |-> NextSeq(s) + 1, lastRun |-> last]]

LastRun(s) == IF sessions[s] = Nil THEN Nil ELSE sessions[s].lastRun

\* The trailing _touch_session(last_run_id): an UPDATE of zero rows when the
\* session has gone, and of whichever session now has that id otherwise.
Touched(s, last) ==
  IF sessions[s] = Nil THEN sessions
  ELSE [sessions EXCEPT ![s].lastRun = last]

HasRoom(s) == NextSeq(s) <= MaxSeq

Idle(c) == call[c] = Nil
Return(c) == call' = [call EXCEPT ![c] = Nil]

-----------------------------------------------------------------------------
(* Operations of one transaction *)

\* create_session: a second creation of the same session changes nothing.
CreateSession(c, s) ==
  /\ Idle(c)
  /\ sessions' = IF sessions[s] # Nil THEN sessions
                 ELSE [sessions EXCEPT ![s] = [next |-> 1, lastRun |-> Nil]]
  /\ UNCHANGED <<messages, runs, events, issued, call>>

Question(s, r) == [session |-> s, run |-> r, role |-> "user", seq |-> NextSeq(s)]

\* create_user_turn: the session (if new), the user message, the running run
\* and last_run_id, all in one transaction.
CreateUserTurn(c, s, r) ==
  /\ Idle(c)
  /\ r \notin issued
  /\ HasRoom(s)
  /\ sessions' = Sequenced(s, r)
  /\ messages' = messages \cup {Question(s, r)}
  /\ runs' = [runs EXCEPT ![r] = [session |-> s, question |-> Question(s, r),
                                  status |-> "running", final |-> Nil]]
  /\ issued' = issued \cup {r}
  /\ UNCHANGED <<events, call>>

\* append_execution_event + insert_execution_event.  The manager's checks and
\* the transaction are one step: whatever happens between them, the insert
\* succeeds exactly when the run still exists then (the FOREIGN KEY on run_id,
\* and the cascade that removes a session's runs with it).
CanInsertEvent(s, r) == runs[r] # Nil /\ runs[r].session = s

\* Mutant: an event that arrives again replaces its row.
ReplaceEvent(c, s, r, e) ==
  /\ Idle(c)
  /\ CanInsertEvent(s, r)
  /\ HasRoom(s)
  /\ sessions' = Sequenced(s, LastRun(s))
  /\ events' = {x \in events : x.id # e}
                 \cup {[id |-> e, session |-> s, run |-> r, seq |-> NextSeq(s)]}
  /\ UNCHANGED <<messages, runs, issued, call>>

InsertEvent(c, s, r, e) ==
  /\ Idle(c)
  /\ CanInsertEvent(s, r)
  /\ IF \E x \in events : x.id = e
     THEN UNCHANGED <<sessions, events>>
     ELSE /\ HasRoom(s)
          /\ sessions' = Sequenced(s, LastRun(s))
          /\ events' = events \cup {[id |-> e, session |-> s, run |-> r, seq |-> NextSeq(s)]}
  /\ UNCHANGED <<messages, runs, issued, call>>

\* delete_session: ON DELETE CASCADE takes the messages, runs and events.
DeleteSession(c, s) ==
  /\ Idle(c)
  /\ sessions' = [sessions EXCEPT ![s] = Nil]
  /\ messages' = {m \in messages : m.session # s}
  /\ runs' = [r \in Runs |-> IF runs[r] # Nil /\ runs[r].session = s THEN Nil ELSE runs[r]]
  /\ events' = {e \in events : e.session # s /\ runs'[e.run] # Nil}
  /\ UNCHANGED <<issued, call>>

\* mark_interrupted_runs: every active row, whichever process is running it.
Interrupted(row) ==
  IF row # Nil /\ row.status \in ActiveStatus
  THEN [row EXCEPT !.status = "interrupted"] ELSE row

MarkInterruptedRuns(c) ==
  /\ Idle(c)
  /\ runs' = [r \in Runs |-> Interrupted(runs[r])]
  /\ UNCHANGED <<sessions, messages, events, issued, call>>

-----------------------------------------------------------------------------
(* Operations that read in one transaction and write in a later one *)

\* append_message, first half: the session and the run exist and belong
\* together (the run row's cascade makes the first check follow from the second).
BeginAppend(c, s, r) ==
  /\ Idle(c)
  /\ runs[r] # Nil
  /\ runs[r].session = s
  /\ call' = [call EXCEPT ![c] = [op |-> "append", session |-> s, run |-> r]]
  /\ UNCHANGED <<tables, issued>>

\* insert_message: messages.run_id has no FOREIGN KEY, so only the session has
\* to be there (again); the run may have been deleted with an earlier session.
Answer(s, r) == [session |-> s, run |-> r, role |-> "assistant", seq |-> NextSeq(s)]

InsertMessage(c) ==
  /\ ~Idle(c)
  /\ call[c].op = "append"
  /\ LET s == call[c].session
         r == call[c].run
     IN /\ sessions[s] # Nil
        /\ HasRoom(s)
        /\ sessions' = Sequenced(s, LastRun(s))
        /\ messages' = messages \cup {Answer(s, r)}
  /\ Return(c)
  /\ UNCHANGED <<runs, events, issued>>

\* complete_run, up to repo.complete_run's load_run: the final message is an
\* assistant message of this run.  The row is changed in memory.
\* Mutant: the run is completed before its final message is known.
CompletedNoAnswer(row, m) == [row EXCEPT !.status = "completed"]

Completed(row, m) == [row EXCEPT !.status = "completed", !.final = m]

BeginCompleteRun(c, r, m) ==
  /\ Idle(c)
  /\ runs[r] # Nil
  /\ m \in messages
  /\ m.session = runs[r].session
  /\ m.role = "assistant"
  /\ m.run = r
  /\ call' = [call EXCEPT ![c] = [op |-> "update", run |-> r, row |-> Completed(runs[r], m)]]
  /\ UNCHANGED <<tables, issued>>

\* fail_run, up to repo.fail_run's load_run; the caller names the status.
BeginFailRun(c, r, status) ==
  /\ Idle(c)
  /\ runs[r] # Nil
  /\ call' = [call EXCEPT ![c] = [op |-> "update", run |-> r,
                                  row |-> [runs[r] EXCEPT !.status = status]]]
  /\ UNCHANGED <<tables, issued>>

\* Mutant: the row comes back even when it has been deleted meanwhile.
UpsertRun(c) ==
  /\ ~Idle(c)
  /\ call[c].op = "update"
  /\ LET r == call[c].run IN
       /\ runs' = [runs EXCEPT ![r] = call[c].row]
       /\ sessions' = Touched(call[c].row.session, r)
  /\ Return(c)
  /\ UNCHANGED <<messages, events, issued>>

\* update_run: writes every column of the row as it was loaded, with no check
\* of its present status; UPDATE of zero rows when it has been deleted.
UpdateRun(c) ==
  /\ ~Idle(c)
  /\ call[c].op = "update"
  /\ LET r == call[c].run IN
       /\ runs' = IF runs[r] = Nil THEN runs ELSE [runs EXCEPT ![r] = call[c].row]
       /\ sessions' = Touched(call[c].row.session, r)
  /\ Return(c)
  /\ UNCHANGED <<messages, events, issued>>

\* create_run, first half: the question is a user message of this session.
BeginCreateRun(c, r, m) ==
  /\ Idle(c)
  /\ r \notin issued
  /\ m \in messages
  /\ m.role = "user"
  /\ sessions[m.session] # Nil
  /\ issued' = issued \cup {r}
  /\ call' = [call EXCEPT ![c] =
       [op |-> "insert_run", run |-> r,
        row |-> [session |-> m.session, question |-> m, status |-> "running", final |-> Nil]]]
  /\ UNCHANGED tables

\* insert_run: only session_id has a FOREIGN KEY, user_message_id has none.
InsertRun(c) ==
  /\ ~Idle(c)
  /\ call[c].op = "insert_run"
  /\ LET r == call[c].run
         s == call[c].row.session
     IN /\ sessions[s] # Nil
        /\ runs' = IF runs[r] # Nil THEN runs ELSE [runs EXCEPT ![r] = call[c].row]
        /\ sessions' = IF runs[r] # Nil THEN sessions ELSE Touched(s, r)
  /\ Return(c)
  /\ UNCHANGED <<messages, events, issued>>

\* A run id is generated for a turn that will not be stored (new_run_id).
IssueRunId(c, r) ==
  /\ Idle(c)
  /\ r \notin issued
  /\ issued' = issued \cup {r}
  /\ UNCHANGED <<tables, call>>

\* The writes of clients C fail (their session has gone, the database is locked
\* or full), or the clients die between the two halves: the tables keep what
\* they had.
AbandonCalls(C) ==
  /\ call' = [c \in Clients |-> IF c \in C THEN Nil ELSE call[c]]
  /\ UNCHANGED <<tables, issued>>

-----------------------------------------------------------------------------

StoreStep(c) ==
  \/ \E s \in Sessions : CreateSession(c, s) \/ DeleteSession(c, s)
  \/ \E s \in Sessions, r \in Runs : CreateUserTurn(c, s, r) \/ BeginAppend(c, s, r)
  \/ \E r \in Runs : IssueRunId(c, r)
  \/ \E s \in Sessions, r \in Runs, e \in EventIds : InsertEvent(c, s, r, e)
  \/ \E r \in Runs, m \in messages : BeginCompleteRun(c, r, m) \/ BeginCreateRun(c, r, m)
  \/ \E r \in Runs, status \in FailStatus : BeginFailRun(c, r, status)
  \/ InsertMessage(c)
  \/ UpdateRun(c)
  \/ InsertRun(c)
  \/ MarkInterruptedRuns(c)

StoreNext ==
  \/ \E c \in Clients : StoreStep(c)
  \/ \E C \in SUBSET Clients : AbandonCalls(C)

StoreSpec == StoreInit /\ [][StoreNext]_storeVars

-----------------------------------------------------------------------------
(* Properties *)

\* Messages and events of a session share one sequence: no two entries of its
\* timeline have the same number, although UNIQUE(session_id, timeline_seq) is
\* declared on each table separately and numbers are taken by many threads.
TimelineSeqUnique ==
  \A s \in Sessions : \A x, y \in Timeline(s) : x.seq = y.seq => x = y

\* Every entry is below the session's counter, so the next number is free.
SeqBelowNext ==
  \A s \in Sessions : \A x \in Timeline(s) : sessions[s] # Nil /\ x.seq < sessions[s].next

\* A deleted session leaves nothing behind: what is in the tables belongs to a
\* session that exists, and an event to a run of the same session, also when
\* a stale write of a deleted run or session comes in afterwards.
NoOrphanRows ==
  /\ \A r \in Runs : runs[r] # Nil => sessions[runs[r].session] # Nil
  /\ \A e \in events : runs[e.run] # Nil /\ runs[e.run].session = e.session

\* A completed run names its answer: an assistant message of that run in that
\* session, which is in the table, whatever reads and writes interleaved.
CompletedHasAnswer ==
  \A r \in Runs : runs[r] # Nil /\ runs[r].status = "completed" =>
    /\ runs[r].final \in messages
    /\ runs[r].final.run = r
    /\ runs[r].final.role = "assistant"
    /\ runs[r].final.session = runs[r].session

\* The timeline is append-only: an entry keeps its number and its place until
\* its whole session is deleted, and a session's counter never goes back.
TimelineAppendOnly ==
  [][\A s \in Sessions : sessions[s] # Nil /\ sessions'[s] # Nil =>
       /\ Timeline(s) \subseteq Timeline(s)'
       /\ sessions[s].next <= sessions'[s].next]_storeVars
=============================================================================
