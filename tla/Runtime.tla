------------------------------ MODULE Runtime ------------------------------
(***************************************************************************)
(* The Runtime facade (src/app/runtime/core.py) with its memory adapter    *)
(* (src/memory/runtime_adapter.py): run, resume, cancel and delete_session *)
(* called by the threads of one or more processes over one database.       *)
(*                                                                         *)
(* A thread carries one request from start to end.  Its steps are those    *)
(* another thread or a crash can come between: each database transaction,  *)
(* each call of the registry, each event of the agent and the agent's      *)
(* return.  What the agent does is a nondeterministic choice; how the      *)
(* Runtime takes it up is the code's.                                      *)
(*                                                                         *)
(* persisted[r] is turn.persistence_available: false from the first write  *)
(* of the turn that failed, after which the turn writes nothing more.      *)
(***************************************************************************)
EXTENDS SessionStore, PendingRuns

CONSTANTS
  ProcOf,      \* the process of a thread
  MaxEvents,   \* bound: events the agent emits in a run
  MaxTickets,  \* bound: confirmations the agent asks for in a run
  Spare,       \* bound: run ids kept for turns that lose their store
  MaxFaults,   \* bound: database failures
  MaxCrashes   \* bound: process crashes

ASSUME RuntimeAssumption ==
  /\ ProcOf \in [Clients -> Procs]
  /\ EventIds = Runs \X (0 .. MaxEvents)
  /\ {"failed", "cancelled"} \subseteq FailStatus
  /\ {MaxEvents, MaxTickets, Spare, MaxFaults, MaxCrashes} \subseteq Nat

VARIABLES
  up,          \* is the process running?
  th,          \* the request a thread carries, or Nil
  persisted,   \* turn.persistence_available of a run's turn
  emitted,     \* events the run has emitted (the coordinator's sequence)
  tickets,     \* confirmations the run has asked for
  asked,       \* the executor context's pending confirmation, 0 for none
  granted,     \* history: tickets the user approved in some request
  dispatched,  \* history: how often each ticket's action was carried out
  refused,     \* history: tickets that were rejected or cancelled
  outcome,     \* the final RuntimeResult of a run
  faults, crashes

turnVars == <<persisted, emitted, tickets, asked>>
historyVars == <<granted, dispatched, refused>>
budget == <<faults, crashes>>
vars == <<storeVars, registryVars, up, th, turnVars, historyVars, outcome, budget>>

\* Where a request is: building the context, in the agent, emitting the
\* cancellation notice, registering a wait, appending the answer, completing
\* or failing the run, summarising, clearing the registry after a delete.
Stage == {"context", "agent", "notice", "register", "append", "complete", "fail",
          "summarize", "clear"}

Request == [at : Stage, session : Sessions, run : Runs \cup {Nil}, cancel : BOOLEAN,
            status : RunStatus, answer : Message \cup {Nil}]

Outcome == [status : RunStatus, kept : BOOLEAN]

ASSUME RuntimeNilAssumption == Nil \notin Request /\ Nil \notin Outcome

RuntimeTypeOK ==
  /\ StoreTypeOK
  /\ RegistryTypeOK
  /\ up \in [Procs -> BOOLEAN]
  /\ th \in [Clients -> Request \cup {Nil}]
  /\ persisted \in [Runs -> BOOLEAN]
  /\ emitted \in [Runs -> 0 .. MaxEvents]
  /\ tickets \in [Runs -> 0 .. MaxTickets]
  /\ asked \in [Runs -> 0 .. MaxTickets]
  /\ granted \in [Runs -> SUBSET (1 .. MaxTickets)]
  /\ dispatched \in [Runs -> [1 .. MaxTickets -> Nat]]
  /\ refused \in [Runs -> SUBSET (1 .. MaxTickets)]
  /\ outcome \in [Runs -> Outcome \cup {Nil}]
  /\ faults \in 0 .. MaxFaults
  /\ crashes \in 0 .. MaxCrashes

Init ==
  /\ StoreInit
  /\ RegistryInit
  /\ up = [p \in Procs |-> TRUE]
  /\ th = [t \in Clients |-> Nil]
  /\ persisted = [r \in Runs |-> FALSE]
  /\ emitted = [r \in Runs |-> 0]
  /\ tickets = [r \in Runs |-> 0]
  /\ asked = [r \in Runs |-> 0]
  /\ granted = [r \in Runs |-> {}]
  /\ dispatched = [r \in Runs |-> [k \in 1 .. MaxTickets |-> 0]]
  /\ refused = [r \in Runs |-> {}]
  /\ outcome = [r \in Runs |-> Nil]
  /\ faults = 0
  /\ crashes = 0

-----------------------------------------------------------------------------

Free(t) == up[ProcOf[t]] /\ th[t] = Nil
At(t, stage) == th[t] # Nil /\ th[t].at = stage
Move(t, stage) == th' = [th EXCEPT ![t].at = stage]

NewRequest(stage, s, r, cancel, status) ==
  [at |-> stage, session |-> s, run |-> r, cancel |-> cancel, status |-> status, answer |-> Nil]

\* The request is answered with a final result for its run.
Finish(t, status, kept) ==
  /\ outcome' = [outcome EXCEPT ![th[t].run] = [status |-> status, kept |-> kept]]
  /\ th' = [th EXCEPT ![t] = Nil]

\* A failure of the database itself (locked, full, unreadable).
DatabaseFault == faults < MaxFaults /\ faults' = faults + 1

\* _mark_persistence_failure
LosePersistence(r) == persisted' = [persisted EXCEPT ![r] = FALSE]

-----------------------------------------------------------------------------
(* run: begin_turn *)

\* Bound: a new turn leaves Spare ids to those that need a second one.
HasRunId == Cardinality(Runs \ issued) > Spare

\* create_user_turn commits the question and the running run.
BeginTurn(t, s, r) ==
  /\ Free(t)
  /\ HasRunId
  /\ CreateUserTurn(t, s, r)
  /\ persisted' = [persisted EXCEPT ![r] = TRUE]
  /\ th' = [th EXCEPT ![t] = NewRequest("context", s, r, FALSE, "running")]
  /\ UNCHANGED <<registryVars, up, emitted, tickets, asked, historyVars, outcome, budget>>

\* create_user_turn fails: the turn goes on with a run id of its own and is
\* never stored (_build_ephemeral_turn).
BeginTurnUnstored(t, s, r) ==
  /\ Free(t)
  /\ HasRunId
  /\ DatabaseFault
  /\ IssueRunId(t, r)
  /\ persisted' = [persisted EXCEPT ![r] = FALSE]
  /\ th' = [th EXCEPT ![t] = NewRequest("agent", s, r, FALSE, "running")]
  /\ UNCHANGED <<registryVars, up, emitted, tickets, asked, historyVars, outcome, crashes>>

\* load_session and ContextBuilder.build, in connections of their own.
BuildContext(t) ==
  /\ At(t, "context")
  /\ sessions[th[t].session] # Nil
  /\ Move(t, "agent")
  /\ UNCHANGED <<storeVars, registryVars, up, turnVars, historyVars, outcome, budget>>

\* They fail (the session was deleted, or the database fails): the turn
\* becomes one that is not stored, under a new run id; the stored run stays.
BuildContextFails(t, r) ==
  /\ At(t, "context")
  /\ \/ sessions[th[t].session] = Nil /\ UNCHANGED faults
     \/ DatabaseFault
  /\ IssueRunId(t, r)
  /\ LosePersistence(th[t].run)
  /\ th' = [th EXCEPT ![t] = NewRequest("agent", th[t].session, r, FALSE, "running")]
  /\ UNCHANGED <<registryVars, up, emitted, tickets, asked, historyVars, outcome, crashes>>

-----------------------------------------------------------------------------
(* The agent, and the events it emits *)

\* Mutant: an event that cannot be stored is skipped and the turn goes on.
RecordEventQuietly(t, n) ==
  LET r == th[t].run
      s == th[t].session
  IN \/ /\ persisted[r]
        /\ InsertEvent(t, s, r, <<r, n>>)
        /\ UNCHANGED <<persisted, faults>>
     \/ /\ DatabaseFault
        /\ UNCHANGED <<storeVars, persisted>>
     \/ /\ ~persisted[r] \/ ~CanInsertEvent(s, r)
        /\ UNCHANGED <<storeVars, persisted, faults>>

\* _process_execution_event: record_event stores the event, unless a write of
\* the turn has failed before; if this one fails, nothing more is stored.
RecordEvent(t, n) ==
  LET r == th[t].run
      s == th[t].session
  IN \/ /\ persisted[r]
        /\ InsertEvent(t, s, r, <<r, n>>)
        /\ UNCHANGED <<persisted, faults>>
     \/ /\ persisted[r]
        /\ \/ ~CanInsertEvent(s, r) /\ UNCHANGED faults
           \/ DatabaseFault
        /\ LosePersistence(r)
        /\ UNCHANGED storeVars
     \/ /\ ~persisted[r]
        /\ UNCHANGED <<storeVars, persisted, faults>>

EmitEvent(t) ==
  /\ At(t, "agent")
  /\ LET r == th[t].run IN
       /\ emitted[r] < MaxEvents
       /\ emitted' = [emitted EXCEPT ![r] = @ + 1]
       /\ RecordEvent(t, emitted[r] + 1)
  /\ UNCHANGED <<registryVars, up, th, tickets, asked, historyVars, outcome, crashes>>

\* Where the Runtime takes a returned request: a cancelled one is always
\* failed as cancelled, whatever the agent went on to do.
AfterAgent(t, stage, status) ==
  th' = [th EXCEPT ![t].at = IF th[t].cancel THEN "fail" ELSE stage,
                   ![t].status = IF th[t].cancel THEN "cancelled" ELSE status]

AgentCompletes(t) ==
  /\ At(t, "agent")
  /\ AfterAgent(t, "append", "completed")
  /\ UNCHANGED <<storeVars, registryVars, up, turnVars, historyVars, outcome, budget>>

\* It raises, or returns failed, partial_failed, blocked, request_replan, ...
AgentFails(t, status) ==
  /\ At(t, "agent")
  /\ AfterAgent(t, "fail", status)
  /\ UNCHANGED <<storeVars, registryVars, up, turnVars, historyVars, outcome, budget>>

\* waiting_user with a new confirmation, kept in the executor's context.
AgentAsks(t) ==
  /\ At(t, "agent")
  /\ LET r == th[t].run IN
       /\ tickets[r] < MaxTickets
       /\ tickets' = [tickets EXCEPT ![r] = @ + 1]
       /\ asked' = [asked EXCEPT ![r] = tickets[r] + 1]
  /\ AfterAgent(t, "register", "waiting_user")
  /\ UNCHANGED <<storeVars, registryVars, up, persisted, emitted, historyVars, outcome, budget>>

\* waiting_user for a clarification: nothing to confirm.
AgentAsksInput(t) ==
  /\ At(t, "agent")
  /\ AfterAgent(t, "register", "waiting_user")
  /\ UNCHANGED <<storeVars, registryVars, up, turnVars, historyVars, outcome, budget>>

\* _register_pending_run; the stored run stays running.
RegisterWait(t) ==
  /\ At(t, "register")
  /\ Register(ProcOf[t], th[t].run, th[t].session, asked[th[t].run])
  /\ th' = [th EXCEPT ![t] = Nil]
  /\ UNCHANGED <<storeVars, clock, up, turnVars, historyVars, outcome, budget>>
-----------------------------------------------------------------------------
(* complete_turn and fail_turn *)

\* What is common to the steps that store the end of a turn.
Finalizing == UNCHANGED <<registryVars, up, emitted, tickets, asked, historyVars, crashes>>

\* append_message, its checks and then its transaction.
AnswerChecked(t) ==
  /\ At(t, "append")
  /\ persisted[th[t].run]
  /\ BeginAppend(t, th[t].session, th[t].run)
  /\ UNCHANGED <<th, persisted, outcome, faults>>
  /\ Finalizing

AnswerStored(t) ==
  /\ At(t, "append")
  /\ th' = [th EXCEPT ![t].at = "complete",
                      ![t].answer = Answer(th[t].session, th[t].run)]
  /\ InsertMessage(t)
  /\ UNCHANGED <<persisted, outcome, faults>>
  /\ Finalizing

\* complete_run and fail_run load the row ...
CompletionLoaded(t) ==
  /\ At(t, "complete")
  /\ BeginCompleteRun(t, th[t].run, th[t].answer)
  /\ UNCHANGED <<th, persisted, outcome, faults>>
  /\ Finalizing

\* Mutant: a failed turn is reported and its run left alone.
FailureSkipped(t) ==
  /\ At(t, "fail")
  /\ persisted[th[t].run]
  /\ Move(t, "summarize")
  /\ UNCHANGED <<storeVars, persisted, outcome, faults>>
  /\ Finalizing

FailureLoaded(t) ==
  /\ At(t, "fail")
  /\ persisted[th[t].run]
  /\ BeginFailRun(t, th[t].run, th[t].status)
  /\ UNCHANGED <<th, persisted, outcome, faults>>
  /\ Finalizing

\* ... and write it back.
RunWritten(t) ==
  /\ At(t, "complete") \/ At(t, "fail")
  /\ UpdateRun(t)
  /\ Move(t, "summarize")
  /\ UNCHANGED <<persisted, outcome, faults>>
  /\ Finalizing

\* Mutant: complete_run goes on without the row it was to complete.
RowGoneButCompletion(t) ==
  LET s == th[t].session
      r == th[t].run
  IN \/ At(t, "append") /\ Idle(t) /\ runs[r] = Nil
     \/ At(t, "append") /\ ~Idle(t) /\ sessions[s] = Nil
     \/ At(t, "fail") /\ Idle(t) /\ runs[r] = Nil
     \/ At(t, "summarize") /\ sessions[s] = Nil

\* A read finds its row gone, or a write its session.
RowGone(t) ==
  LET s == th[t].session
      r == th[t].run
  IN \/ At(t, "append") /\ Idle(t) /\ runs[r] = Nil
     \/ At(t, "append") /\ ~Idle(t) /\ sessions[s] = Nil
     \/ At(t, "complete") /\ Idle(t) /\ (runs[r] = Nil \/ th[t].answer \notin messages)
     \/ At(t, "fail") /\ Idle(t) /\ runs[r] = Nil
     \/ At(t, "summarize") /\ sessions[s] = Nil

\* Mutant: a failed complete_run is retried from the answer on.
RetryAnswer(t) ==
  /\ At(t, "complete")
  /\ DatabaseFault
  /\ AbandonCalls({t})
  /\ Move(t, "append")
  /\ UNCHANGED <<persisted, outcome>>
  /\ Finalizing

\* The first such failure ends the storing of the turn; the user still gets
\* the result, with persistence_available = False.
FinalizeFails(t) ==
  /\ \E stage \in {"append", "complete", "fail", "summarize"} : At(t, stage)
  /\ persisted[th[t].run]
  /\ \/ RowGone(t) /\ UNCHANGED faults
     \/ DatabaseFault
  /\ AbandonCalls({t})
  /\ LosePersistence(th[t].run)
  /\ Finish(t, th[t].status, FALSE)
  /\ Finalizing

\* A turn that is not stored any more is only answered.
FinalizeUnstored(t) ==
  /\ At(t, "append") \/ At(t, "fail")
  /\ ~persisted[th[t].run]
  /\ Finish(t, th[t].status, FALSE)
  /\ UNCHANGED <<storeVars, persisted, faults>>
  /\ Finalizing

\* maybe_auto_summarize and get_session_timeline find the session; the turn is
\* stored and the result returned.
Summarize(t) ==
  /\ At(t, "summarize")
  /\ sessions[th[t].session] # Nil
  /\ Finish(t, th[t].status, TRUE)
  /\ UNCHANGED <<storeVars, persisted, faults>>
  /\ Finalizing

-----------------------------------------------------------------------------
(* resume and cancel *)

\* Mutant: an approval is taken for whatever the run is waiting for.
NeverMismatched(r, k) == FALSE

\* _confirmation_response_mismatch: a supplied confirmation_id has to be that
\* of the pending confirmation; a request may leave it out (k = 0).
Mismatched(r, k) == k # 0 /\ k # asked[r]

\* Mutant: a run that is not resumed is answered with an error and not failed.
TakenAndDropped(t, r, stage, status) ==
  th' = IF stage = "fail" THEN th
        ELSE [th EXCEPT ![t] = NewRequest(stage, pending[ProcOf[t]][r].session, r, FALSE, status)]

Taken(t, r, stage, status) ==
  th' = [th EXCEPT ![t] = NewRequest(stage, pending[ProcOf[t]][r].session, r, FALSE, status)]

Grant(r, approved, k) ==
  granted' = IF ~approved THEN granted
             ELSE [granted EXCEPT ![r] = @ \cup ({IF k = 0 THEN asked[r] ELSE k} \ {0})]

\* resume with confirmation_id k: the record is popped first.  What follows
\* uses only the context it held, so it belongs to the same step: no pending
\* confirmation or a mismatch fails the run and leaves the context as it is;
\* a rejection clears the confirmation and the loop goes on with the other
\* steps; an approval dispatches the confirmed action and goes on, or only goes
\* on (to fail, or a plan was confirmed): the action can no longer be built, its
\* preview has changed, or the confirmation was of the plan.
Resume(t, r, approved, k) ==
  /\ Free(t)
  /\ pending[ProcOf[t]][r] # Nil
  /\ Pop(ProcOf[t], r, pending[ProcOf[t]][r].session)
  /\ Grant(r, approved, k)
  /\ \/ /\ asked[r] = 0 \/ Mismatched(r, k)
        /\ Taken(t, r, "fail", "failed")
        /\ UNCHANGED <<asked, dispatched, refused>>
     \/ /\ asked[r] # 0
        /\ ~Mismatched(r, k)
        /\ asked' = [asked EXCEPT ![r] = 0]
        /\ Taken(t, r, "agent", "running")
        /\ \/ /\ approved
              /\ dispatched' = [dispatched EXCEPT ![r][asked[r]] = @ + 1]
              /\ UNCHANGED refused
           \/ /\ approved
              /\ UNCHANGED <<dispatched, refused>>
           \/ /\ ~approved
              /\ refused' = [refused EXCEPT ![r] = @ \cup {asked[r]}]
              /\ UNCHANGED dispatched
  /\ UNCHANGED <<storeVars, clock, up, persisted, emitted, tickets, outcome, budget>>

\* resume or cancel of a run whose record has expired: run_not_found.
ResumeExpired(t, r) ==
  /\ Free(t)
  /\ DropExpired(ProcOf[t], r)
  /\ UNCHANGED <<storeVars, clock, up, th, turnVars, historyVars, outcome, budget>>

\* cancel: the record is popped, ...
Cancel(t, r) ==
  /\ Free(t)
  /\ pending[ProcOf[t]][r] # Nil
  /\ Pop(ProcOf[t], r, pending[ProcOf[t]][r].session)
  /\ th' = [th EXCEPT ![t] =
       NewRequest("notice", pending[ProcOf[t]][r].session, r, TRUE, "cancelled")]
  /\ UNCHANGED <<storeVars, clock, up, turnVars, historyVars, outcome, budget>>

\* ... the cancellation is recorded as an event, and the confirmation is
\* rejected: the loop goes on with the steps that do not depend on it.
CancelNotice(t) ==
  /\ At(t, "notice")
  /\ RecordEvent(t, 0)
  /\ LET r == th[t].run IN
       /\ Move(t, IF asked[r] = 0 THEN "fail" ELSE "agent")
       /\ refused' = [refused EXCEPT ![r] = @ \cup ({asked[r]} \ {0})]
       /\ asked' = [asked EXCEPT ![r] = 0]
  /\ UNCHANGED <<registryVars, up, emitted, tickets, granted, dispatched, outcome, crashes>>

-----------------------------------------------------------------------------
(* delete_session *)

\* SessionManager.delete_session first, the registry after it.
DeleteStored(t, s) ==
  /\ Free(t)
  /\ sessions[s] # Nil
  /\ DeleteSession(t, s)
  /\ th' = [th EXCEPT ![t] = NewRequest("clear", s, Nil, FALSE, "running")]
  /\ UNCHANGED <<registryVars, up, turnVars, historyVars, outcome, budget>>

ClearPending(t) ==
  /\ At(t, "clear")
  /\ ClearSession(ProcOf[t], th[t].session)
  /\ th' = [th EXCEPT ![t] = Nil]
  /\ UNCHANGED <<storeVars, clock, up, turnVars, historyVars, outcome, budget>>

-----------------------------------------------------------------------------
(* Processes *)

ThreadsOf(p) == {t \in Clients : ProcOf[t] = p}

Crash(p) ==
  /\ up[p]
  /\ crashes < MaxCrashes
  /\ crashes' = crashes + 1
  /\ up' = [up EXCEPT ![p] = FALSE]
  /\ th' = [t \in Clients |-> IF t \in ThreadsOf(p) THEN Nil ELSE th[t]]
  /\ AbandonCalls(ThreadsOf(p))
  /\ Clear(p)
  /\ UNCHANGED <<clock, turnVars, historyVars, outcome, faults>>

\* A new Runtime over the same database: _recover_interrupted_runs.
Restart(p) ==
  /\ ~up[p]
  /\ up' = [up EXCEPT ![p] = TRUE]
  /\ \E t \in ThreadsOf(p) : MarkInterruptedRuns(t)
  /\ UNCHANGED <<registryVars, th, turnVars, historyVars, outcome, budget>>

ClockTicks == Tick /\ UNCHANGED <<storeVars, pending, up, th, turnVars, historyVars, outcome, budget>>

-----------------------------------------------------------------------------

\* A user's call that starts a request, and the steps that carry it on.
UserCall(t) ==
  \/ \E s \in Sessions, r \in Runs : BeginTurn(t, s, r) \/ BeginTurnUnstored(t, s, r)
  \/ \E r \in Runs, approved \in BOOLEAN, k \in 0 .. MaxTickets :
       /\ k <= tickets[r]
       /\ Resume(t, r, approved, k)
  \/ \E r \in Runs : ResumeExpired(t, r) \/ Cancel(t, r)
  \/ \E s \in Sessions : DeleteStored(t, s)

AgentStep(t) ==
  \/ EmitEvent(t)
  \/ AgentCompletes(t)
  \/ \E status \in FailStatus : AgentFails(t, status)
  \/ AgentAsks(t)
  \/ AgentAsksInput(t)

RuntimeStep(t) ==
  \/ BuildContext(t)
  \/ \E r \in Runs : BuildContextFails(t, r)
  \/ CancelNotice(t)
  \/ RegisterWait(t)
  \/ AnswerChecked(t) \/ AnswerStored(t)
  \/ CompletionLoaded(t) \/ FailureLoaded(t) \/ RunWritten(t)
  \/ FinalizeFails(t) \/ FinalizeUnstored(t)
  \/ Summarize(t)
  \/ ClearPending(t)

Next ==
  \/ \E t \in Clients : UserCall(t) \/ AgentStep(t) \/ RuntimeStep(t)
  \/ \E p \in Procs : Crash(p) \/ Restart(p)
  \/ ClockTicks

Spec == Init /\ [][Next]_vars
-----------------------------------------------------------------------------
(* Safety *)

Holders(r) == {t \in Clients : th[t] # Nil /\ th[t].run = r}
Keepers(r) == {p \in Procs : pending[p][r] # Nil}

\* A run is in one place: at most one thread works on it or one registry keeps
\* it, never both, however resume, cancel, register and crashes interleave.
SoleOwner ==
  \A r \in Runs :
    /\ \A t, u \in Holders(r) : t = u
    /\ \A p, q \in Keepers(r) : p = q
    /\ Holders(r) = {} \/ Keepers(r) = {}

\* register never meets a record of the same run, so its SESSION_CONFLICT,
\* which would leave run() as an exception, cannot happen.
RegisterNeverConflicts ==
  \A t \in Clients : At(t, "register") => CanRegister(ProcOf[t], th[t].run)

\* A run that can be resumed has not ended: its stored row, if any, is running
\* (or interrupted by the start of another Runtime), and no final result of it
\* has been returned.
ResumableIsOpen ==
  \A p \in Procs, r \in Runs : pending[p][r] # Nil =>
    /\ outcome[r] = Nil
    /\ runs[r] # Nil => runs[r].status \in {"running", "interrupted"}

\* A confirmed action is carried out at most once, only if the user approved
\* that very confirmation (or left its id out while it was the pending one),
\* and never after it was rejected or cancelled.
ConfirmedActionOnce ==
  \A r \in Runs, k \in 1 .. MaxTickets :
    /\ dispatched[r][k] <= 1
    /\ dispatched[r][k] = 1 => k \in granted[r]
    /\ k \in refused[r] => dispatched[r][k] = 0

\* A result that says its turn was stored tells the truth: until its session
\* is deleted the run is stored with that status, with all its events.
KeptMeansStored ==
  \A r \in Runs : outcome[r] # Nil /\ outcome[r].kept /\ runs[r] # Nil =>
    /\ runs[r].status = outcome[r].status
    /\ \A n \in 1 .. emitted[r] : \E e \in events : e.id = <<r, n>>

\* In the timeline a run reads question, events, answer; it has one answer.
TurnInOrder ==
  \A r \in Runs : runs[r] # Nil =>
    LET answers == {m \in messages : m.run = r /\ m.role = "assistant"} IN
    /\ \A m, n \in answers : m = n
    /\ \A m \in answers : runs[r].question.seq < m.seq
    /\ \A e \in events : e.run = r =>
         /\ runs[r].question.seq < e.seq
         /\ \A m \in answers : e.seq < m.seq

Open(r) == runs[r] # Nil /\ runs[r].status \in ActiveStatus
Owned(r) == Holders(r) \cup Keepers(r) # {}

\* A stored run that is open is worked on or waits for its user.  It is given
\* up only when its turn stops being stored, its wait expires, its process
\* dies, or a delete_session of its session id clears the registry.  The last
\* may hit a new session: the rows go first, another thread creates the
\* session again under its old id and waits, and then the registry is cleared.
OpenRunOwned ==
  [][\A r \in Runs : Open(r)' /\ ~Owned(r)' /\ (~Open(r) \/ Owned(r)) =>
       \/ ~persisted[r]'
       \/ \E p \in Procs :
            \/ up[p] /\ ~up'[p]
            \/ pending[p][r] # Nil /\ Expired(pending[p][r])
       \/ \E t \in Clients : At(t, "clear") /\ th[t].session = runs[r].session]_vars

-----------------------------------------------------------------------------
(* The Runtime implements the life cycle of a run *)

Life == [r \in Runs |->
  CASE outcome[r] # Nil -> outcome[r].status
    [] outcome[r] = Nil /\ Holders(r) # {} -> "working"
    [] outcome[r] = Nil /\ Holders(r) = {} /\ Keepers(r) # {} -> "waiting"
    [] outcome[r] = Nil /\ ~Owned(r) /\ r \in issued -> "dropped"
    [] outcome[r] = Nil /\ ~Owned(r) /\ r \notin issued -> "new"]

Lifecycle == INSTANCE RunLifecycle WITH life <- Life, Results <- RunStatus \ ActiveStatus

\* A run is worked on and waits by turns, ends once, and one that was dropped
\* is never taken up again: every step of run, resume, cancel, delete_session,
\* of a crash and of a restart is a step of the abstract life cycle.
RunsFollowLifecycle == Lifecycle!Spec

-----------------------------------------------------------------------------
(* Progress *)

\* A thread that carries a request goes on, and not only by a database failure.
\* The agent returns: its loop has a limit of turns (MaxEvents here) and every
\* tool and model call a timeout.  Users owe nothing: no fairness on resume,
\* cancel, run or delete_session, and a process that crashed may stay down.
FairSpec ==
  /\ Spec
  /\ \A t \in Clients : WF_vars((AgentStep(t) \/ RuntimeStep(t)) /\ faults' = faults)

\* Every request is answered, also when its session is deleted under it.
RequestsEnd == \A t \in Clients : (th[t] # Nil) ~> (th[t] = Nil)

\* A stored run that is worked on ends, waits for its user or is deleted, if it
\* can still be stored: its row is not left running when nobody is going to
\* touch it again, unless its process dies.
HeldRunsSettle ==
  \A r \in Runs :
    (Open(r) /\ Holders(r) # {})
      ~> (~Open(r) \/ Keepers(r) # {} \/ ~persisted[r] \/ \E p \in Procs : ~up[p])

=============================================================================
