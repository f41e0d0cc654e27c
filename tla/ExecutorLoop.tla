---------------------------- MODULE ExecutorLoop ----------------------------
(***************************************************************************)
(* One execution of a plan by the ReAct executor: the check of the plan,   *)
(* the loop over task units and their steps, the turns of a step (ask the  *)
(* model for an action, perform it, let the rule checker judge what was    *)
(* observed), retries and fallbacks, and the answer of the user to a       *)
(* confirmation, which may take the execution up again.                    *)
(*                                                                         *)
(* The steps are 1..n in the order of the plan, and the units are          *)
(* contiguous.  The executor is one thread, so the request for an action   *)
(* and its dispatch are one step here, the judgement is the next one.      *)
(* What the model picks and what tools and models answer is open.          *)
(***************************************************************************)
EXTENDS Naturals, FiniteSets, FiniteSetsExt

CONSTANTS
  Plans,               \* the plans an execution may be given
  Packets,             \* what the model may pick: calls and control actions
  Failures,            \* how a call may fail
  MaxStepTurns,        \* config.max_step_turns
  MaxExecutionTurns    \* config.max_execution_turns

\* The safety policy lets a "call" through and wants the user's word on the others.
Asked == {"asked tool", "command", "asked model"}
Calls == {"call"} \cup Asked
Terminal == {"finish", "fail", "request_replan", "blocked", "cancel"}
Controls == Terminal \cup {"skip_step", "ask_user", "retry_step", "fallback_to_model"}

\* Classes of a failed call on which the rule checker must decide what to do.
Undecided == {"retryable", "unavailable", "dependency", "invalid"}
Ok == {"completed", "skipped"}
Ended == Ok \cup {"cancelled", "failed", "blocked"}

ASSUME LimitsAssumption ==
  /\ MaxStepTurns \in Nat \ {0} /\ MaxExecutionTurns \in Nat \ {0}
  /\ Packets \subseteq Calls \cup Controls
  /\ Failures \subseteq Undecided \cup {"blocked"}

(* A plan has a step; its units are 1, 2, ... in the order of the steps.   *)
ASSUME PlansAssumption ==
  \A p \in Plans : LET S == DOMAIN p.unit IN
    \E n \in S :
      /\ S = 1..n
      /\ p \in [mode : {"confirm", "run"}, unit : [S -> Nat \ {0}],
               dependsOn : [S -> SUBSET S], inputFrom : [S -> SUBSET S],
               onFailure : [S -> {"stop", "continue", "replan"}],
               fallback : [S -> {"none", "tool", "model"}], maxRetries : [S -> Nat],
               gate : [S -> Asked \cup {"none", "blocked"}]]
      /\ \A s, t \in S : s <= t => p.unit[s] <= p.unit[t]
      /\ \A u \in 1..p.unit[n] : \E s \in S : p.unit[s] = u

VARIABLES
  plan,
  status,       \* StepRuntimeState.status of every step
  attempts,     \* StepRuntimeState.attempts
  latest,       \* was the latest observation of the step a success?
  failedCall,   \* the latest failed call of the step: what a retry repeats
  turn,         \* loop_state.execution_turn
  seen,         \* number of observations in the store
  pending,      \* context.pending_confirmation
  replan,       \* context.request_replan
  pc, cur, at,  \* what the thread does next, in which unit, at which step
  round,        \* turn of the step loop
  depth,        \* decision_depth
  obs,          \* the observation the checker is about to judge
  resume,       \* inside resume_after_confirmation: in its own action or in its loop
  result

loop == <<pc, cur, at, round, depth, resume, result>>
memory == <<attempts, latest, failedCall, seen>>
vars == <<plan, status, attempts, latest, failedCall, turn, seen, pending, replan,
          pc, cur, at, round, depth, obs, resume, result>>

Steps == DOMAIN plan.unit
UnitSteps(u) == {s \in Steps : plan.unit[s] = u}
LastUnit == Max({plan.unit[s] : s \in Steps})
Needs(s) == plan.dependsOn[s] \cup plan.inputFrom[s]
\* The step on which the check of the plan asks the user before the loop starts.
AskedAhead(s) ==
  plan.mode = "run" /\ plan.gate[s] # "none" /\ \A t \in Steps : t < s => plan.gate[t] = "none"

NoPending == [kind |-> "none", step |-> 0, call |-> "none"]
Pending(kind, s, call) == [kind |-> kind, step |-> s, call |-> call]
NoCall == [call |-> "none", class |-> "none"]
\* An observation: action type, the call it made, its class, fallback_used.
Seen(type, call, class, used) ==
  [type |-> type, call |-> call, class |-> class, used |-> used]
NoObs == Seen("none", "none", "none", FALSE)

-----------------------------------------------------------------------------
(* What the executor remembers of an observation.                          *)

Record(s, o, attempt) ==
  /\ obs' = o
  /\ seen' = seen + 1
  /\ attempts' = [attempts EXCEPT ![s] = Max({@, attempt})]
  /\ latest' = [latest EXCEPT ![s] = IF o.class \in Ok THEN "ok" ELSE "failed"]
  /\ failedCall' = IF o.type = "call" /\ o.class \notin Ok
                     THEN [failedCall EXCEPT ![s] = [call |-> o.call, class |-> o.class]]
                     ELSE failedCall

(* What may come of a call.  The tools are outside: a tool that wants a    *)
(* confirmation runs only with the ticket of a preview, and asks otherwise.*)
CallClasses(c, confirmed, ticket) ==
  Failures \cup
  CASE c = "call" -> {"completed"}
    [] c \in Asked /\ ~confirmed -> {"ask_user"}
    [] c = "asked model" /\ confirmed -> {"completed"}
    [] c = "asked tool" /\ confirmed -> {"completed", IF ticket THEN "conflict" ELSE "ask_user"}
    [] c = "command" /\ confirmed -> IF ticket THEN {"completed", "conflict"} ELSE {"ask_user"}

(* dispatch_action of an unconfirmed call: the user may have to be asked.    *)
Dispatch(s, c, class, attempt, used, before) ==
  /\ Record(s, Seen("call", c, class, used), attempt)
  /\ IF c \in Asked /\ class = "ask_user"
       THEN /\ pending' = Pending("action", s, c)
            /\ status' = [status EXCEPT ![s] = "waiting_user"]
       ELSE /\ status' = [status EXCEPT ![s] = before]
            /\ UNCHANGED pending

-----------------------------------------------------------------------------
(* The rule checker.  count is the turn of the execution, or the number of *)
(* observations where the caller does not pass the turn.                   *)

CanRetry(s, class) == class = "retryable" /\ attempts[s] <= plan.maxRetries[s]

AfterFailure(s, class) ==
  IF class = "dependency"
    THEN IF plan.onFailure[s] = "replan" THEN "request_replan" ELSE "failed"
  ELSE IF plan.onFailure[s] = "continue" THEN "continue"
  ELSE IF CanRetry(s, class) THEN "retry"
  ELSE IF plan.fallback[s] # "none" THEN "fallback"
  ELSE IF plan.onFailure[s] = "replan" \/ class = "unavailable" THEN "request_replan"
  ELSE "failed"

Verdict(s, class, count) ==
  IF count >= MaxExecutionTurns /\ class \notin Ok THEN "failed"
  ELSE IF class \notin Undecided THEN class
  ELSE IF attempts[s] >= MaxStepTurns THEN "failed"
  ELSE AfterFailure(s, class)

-----------------------------------------------------------------------------
(* Leaving the loop.                                                       *)

Statuses(S, st) == {st[s] : s \in S}

\* Mutant: the last unit speaks for all.
AggregateLast(st, wantsReplan, lastResult) == lastResult

Aggregate(st, wantsReplan, lastResult) ==
  LET all == Statuses(Steps, st) IN
  IF all \subseteq Ok THEN "completed"
  ELSE IF "waiting_user" \in all \/ wantsReplan THEN lastResult
  ELSE IF "blocked" \in all THEN "blocked"
  ELSE IF "failed" \in all
    THEN IF "completed" \in all THEN "partial_failed" ELSE "failed"
  ELSE IF "cancelled" \in all THEN "cancelled"
  ELSE IF "running" \in all THEN "blocked" ELSE "failed"

\* A resumed execution reports a failure after a wish to replan as that wish.
Return(r, wantsReplan) ==
  /\ pc' = "returned" /\ resume' = "no"
  /\ result' = IF resume = "looping" /\ wantsReplan /\ r = "failed" THEN "request_replan" ELSE r
  /\ replan' = (wantsReplan \/ r = "request_replan")
  /\ cur' = 0 /\ at' = 0 /\ round' = 0 /\ depth' = 0

Go(where, u, s, wantsReplan) ==
  /\ pc' = where /\ cur' = u /\ at' = s /\ round' = 0 /\ depth' = 0
  /\ replan' = wantsReplan
  /\ UNCHANGED <<resume, result>>

EnterLoop(how, wantsReplan) ==
  /\ pc' = "unit" /\ cur' = 1 /\ at' = 1 /\ round' = 0 /\ depth' = 0
  /\ replan' = wantsReplan
  /\ resume' = how /\ result' = "none"

(* Result r of unit u ends the execution.                                  *)
Stops(u, r, st) ==
  /\ r \in {"waiting_user", "request_replan", "blocked", "failed", "cancelled"}
  /\ ~(r = "failed" /\ Statuses(UnitSteps(u), st) \subseteq {"completed", "failed", "skipped"})

(* The unit is done with result r: the execution ends there, goes on with  *)
(* the next unit, or is over with all its units.                           *)
LeaveUnit(r, st, wantsReplan) ==
  IF Stops(cur, r, st) THEN Return(r, wantsReplan)
  ELSE IF cur < LastUnit THEN Go("unit", cur + 1, Min(UnitSteps(cur + 1)), wantsReplan)
  ELSE Return(Aggregate(st, wantsReplan, r), wantsReplan)

(* A failed step blocks the later steps of its unit that need it, or need  *)
(* a step that is blocked so.                                              *)
BlockDependents(st, s) ==
  LET later == {t \in UnitSteps(plan.unit[s]) : t > s /\ st[t] \in {"pending", "running"}}
      blocked[t \in Steps] ==
        t \in later /\ \E n \in Needs(t) : n = s \/ (n < t /\ blocked[n])
  IN [t \in Steps |-> IF t \in later /\ blocked[t] THEN "blocked" ELSE st[t]]

(* The step at which the thread is has come to r, the statuses to st.      *)
StepDone(r, terminal, st, wantsReplan) ==
  IF resume = "acting" THEN
    /\ status' = st
    /\ IF r = "waiting_user" THEN Return(r, wantsReplan) ELSE EnterLoop("looping", wantsReplan)
  ELSE IF terminal THEN status' = st /\ Return(r, wantsReplan)
  ELSE IF r = "completed" \/ (r \in {"failed", "blocked"} /\ plan.onFailure[at] = "continue")
    THEN status' = st /\ Go("unit", cur, at + 1, wantsReplan)
  ELSE /\ status' = IF r \in {"failed", "blocked"} THEN BlockDependents(st, at) ELSE st
       /\ LeaveUnit(r, status', wantsReplan)

-----------------------------------------------------------------------------
Init ==
  /\ plan \in Plans
  /\ status = [s \in Steps |-> "pending"]
  /\ attempts = [s \in Steps |-> 0]
  /\ latest = [s \in Steps |-> "none"]
  /\ failedCall = [s \in Steps |-> NoCall]
  /\ turn = 0 /\ seen = 0
  /\ pending = NoPending /\ replan = FALSE
  /\ pc = "start" /\ cur = 0 /\ at = 0 /\ round = 0 /\ depth = 0
  /\ obs = NoObs /\ resume = "no" /\ result = "none"

(* The plan as a whole must be confirmed: every step waits.                *)
ConfirmPlan ==
  /\ pc = "start" /\ plan.mode = "confirm"
  /\ status' = [s \in Steps |-> "waiting_user"]
  /\ pending' = Pending("plan", 1, "none")
  /\ Return("waiting_user", replan)
  /\ UNCHANGED <<plan, memory, turn, obs>>

(* The first step whose planned tool is not simply allowed decides.        *)
CheckPlan ==
  /\ pc = "start" /\ plan.mode = "run"
  /\ LET gated == {s \in Steps : plan.gate[s] # "none"}
         first == Min(gated)
     IN IF gated = {} THEN EnterLoop("no", replan) /\ UNCHANGED <<status, pending>>
        ELSE IF plan.gate[first] = "blocked"
          THEN /\ status' = [status EXCEPT ![first] = "blocked"]
               /\ Return("blocked", replan)
               /\ UNCHANGED pending
          ELSE /\ status' = [status EXCEPT ![first] = "waiting_user"]
               /\ pending' = Pending("plan safety", first, plan.gate[first])
               /\ Return("waiting_user", replan)
  /\ UNCHANGED <<plan, memory, turn, obs>>

-----------------------------------------------------------------------------
(* The loop over units and steps.                                          *)

InUnit == at \in Steps /\ plan.unit[at] = cur

\* Mutant: only the steps whose output is used are looked at.
InputIssue(s) == \E d \in plan.inputFrom[s] : latest[d] # "ok"

DependencyIssue(s) ==
  \/ \E d \in plan.dependsOn[s] : status[d] \notin Ok
  \/ \E d \in plan.inputFrom[s] : latest[d] # "ok"

SkipEndedStep ==
  /\ pc = "unit" /\ InUnit /\ status[at] \in Ended
  /\ Go("unit", cur, at + 1, replan)
  /\ UNCHANGED <<plan, status, memory, turn, pending, obs>>

\* Mutant: a step that cannot run yet is looked at again.
BlockStepWaits ==
  /\ pc = "unit" /\ InUnit /\ status[at] \notin Ended /\ DependencyIssue(at)
  /\ Go("unit", cur, at, replan)
  /\ UNCHANGED <<plan, status, memory, turn, pending, obs>>

BlockStep ==
  /\ pc = "unit" /\ InUnit /\ status[at] \notin Ended /\ DependencyIssue(at)
  /\ IF plan.onFailure[at] = "continue"
       THEN status' = [status EXCEPT ![at] = "skipped"] /\ Go("unit", cur, at + 1, replan)
       ELSE status' = [status EXCEPT ![at] = "blocked"] /\ Return("blocked", replan)
  /\ UNCHANGED <<plan, memory, turn, pending, obs>>

BeginStep ==
  /\ pc = "unit" /\ InUnit /\ status[at] \notin Ended /\ ~DependencyIssue(at)
  /\ status' = [status EXCEPT ![at] = "running"]
  /\ pc' = "ask" /\ round' = 1
  /\ UNCHANGED <<plan, memory, turn, pending, replan, cur, at, depth, obs, resume, result>>

\* What the statuses of its steps make of a unit.
UnitResult(u, st) ==
  LET ss == Statuses(UnitSteps(u), st) IN
  IF ss \subseteq Ok THEN "completed"
  ELSE IF "waiting_user" \in ss THEN "waiting_user"
  ELSE IF "blocked" \in ss THEN "blocked"
  ELSE IF "failed" \in ss THEN "failed"
  ELSE st[Max(UnitSteps(u))]

EndUnit ==
  /\ pc = "unit" /\ ~InUnit
  /\ LeaveUnit(UnitResult(cur, status), status, replan)
  /\ UNCHANGED <<plan, status, memory, turn, pending, obs>>

-----------------------------------------------------------------------------
(* A turn of a step: the model picks an action, which is performed.        *)

StartTurn ==
  /\ pc = "ask"
  /\ turn' = turn + 1
  /\ pc' = "check" /\ depth' = 0
  /\ UNCHANGED <<plan, cur, at, round, resume, result>>

CallTurn(c) ==
  /\ StartTurn
  /\ \E class \in CallClasses(c, FALSE, FALSE) :
       Dispatch(at, c, class, attempts[at] + 1, FALSE, "running")
  /\ UNCHANGED replan

ControlTurn(type) ==
  /\ StartTurn
  /\ LET class == CASE type = "skip_step" -> "skipped"
                    [] type = "finish" -> "completed"
                    [] type = "fail" -> "failed"
                    [] type = "cancel" -> "cancelled"
                    [] OTHER -> type
     IN Record(at, Seen(type, "none", class, FALSE), attempts[at] + 1)
  /\ pending' = IF type = "ask_user" THEN Pending("action", at, "ask_user") ELSE pending
  /\ status' = IF type = "ask_user" THEN [status EXCEPT ![at] = "waiting_user"] ELSE status
  /\ replan' = (replan \/ type = "request_replan")

(* The model does not answer, or its last repaired packet is still no      *)
(* valid one: the observation carries the action type of that packet, and  *)
(* "fail" if there is none.                                                *)
InvalidTurn(type) ==
  /\ StartTurn
  /\ Record(at, Seen(type, "none", "failed", FALSE), attempts[at] + 1)
  /\ UNCHANGED <<status, pending, replan>>

\* Mutant: whatever is retried counts as confirmed.
RetryConfirmed(s) ==
  IF failedCall[s] # NoCall /\ Verdict(s, failedCall[s].class, seen) = "retry"
    THEN \E class \in CallClasses(failedCall[s].call, TRUE, FALSE) :
           Dispatch(s, failedCall[s].call, class, attempts[s] + 1, FALSE, "retrying")
    ELSE /\ Record(s, Seen("retry_step", "none", "retryable", FALSE), attempts[s] + 1)
         /\ UNCHANGED <<status, pending>>

(* retry_step, from the model or from the checker: the failed call of the  *)
(* step again, if the checker, asked once more, still says so.  A command  *)
(* counts as confirmed, but its ticket is not passed on.                   *)
RetryStep(s) ==
  IF failedCall[s] # NoCall /\ Verdict(s, failedCall[s].class, seen) = "retry"
    THEN LET c == failedCall[s].call IN
         \E class \in CallClasses(c, c = "command", FALSE) :
            IF c = "command"
              THEN /\ Record(s, Seen("call", c, class, FALSE), attempts[s] + 1)
                   /\ status' = [status EXCEPT ![s] = "retrying"]
                   /\ UNCHANGED pending
              ELSE Dispatch(s, c, class, attempts[s] + 1, FALSE, "retrying")
    ELSE /\ Record(s, Seen("retry_step", "none", "retryable", FALSE), attempts[s] + 1)
         /\ UNCHANGED <<status, pending>>

(* A fallback in the place of the failed call of the step.                 *)
Fallback(s, kind) ==
  \/ /\ failedCall[s] # NoCall
     /\ \E c \in {"call"} \cup IF kind = "tool" THEN {"asked tool"} ELSE {} :
        \E class \in CallClasses(c, FALSE, FALSE) :
          Dispatch(s, c, class, attempts[s] + 1, TRUE, status[s])
  \/ /\ kind = "tool" \/ failedCall[s] = NoCall
     /\ Record(s, Seen("fallback", "none", "retryable", FALSE), attempts[s] + 1)
     /\ UNCHANGED <<status, pending>>

RetryTurn ==
  /\ "retry_step" \in Packets /\ attempts[at] < plan.maxRetries[at]
  /\ StartTurn /\ RetryStep(at)
  /\ UNCHANGED replan

FallbackTurn ==
  /\ "fallback_to_model" \in Packets
  /\ StartTurn /\ Fallback(at, "model")
  /\ UNCHANGED replan

Turn ==
  /\ pc = "ask"
  /\ \/ \E c \in Packets \cap Calls : CallTurn(c)
     \/ \E type \in Packets \cap (Terminal \cup {"skip_step", "ask_user"}) : ControlTurn(type)
     \/ \E type \in (Packets \cap Controls) \cup {"call", "fail"} : InvalidTurn(type)
     \/ RetryTurn
     \/ FallbackTurn

-----------------------------------------------------------------------------
(* The judgement, and what it does.                                        *)

\* Mutant: the steps that are left over are skipped whatever they came to.
EndExecutionAll ==
  LET own == IF obs.type = "finish" THEN "completed"
             ELSE IF obs.type = "cancel" THEN "cancelled" ELSE "failed"
  IN StepDone(own, TRUE, [t \in Steps |-> IF t = at THEN own ELSE "skipped"], replan)

(* finish, fail, request_replan, blocked and cancel end the execution,     *)
(* whatever the checker said of their observation.                         *)
EndExecution ==
  LET own == CASE obs.type = "finish" -> "completed"
               [] obs.type \in {"fail", "request_replan"} -> "failed"
               [] obs.type = "blocked" -> "blocked"
               [] obs.type = "cancel" -> "cancelled"
      r == IF obs.type = "request_replan" THEN "request_replan" ELSE own
      st == [t \in Steps |-> IF t = at THEN own
                             ELSE IF t > at /\ status[t] \in {"pending", "running"} THEN "skipped"
                             ELSE status[t]]
  IN StepDone(r, TRUE, st, replan \/ r = "request_replan")

EndStep(st, r) ==
  StepDone(r, FALSE, [status EXCEPT ![at] = st], replan \/ r = "request_replan")

AnotherRound ==
  IF resume = "acting" THEN StepDone("continue", FALSE, status, replan)
  ELSE IF round < MaxStepTurns
    THEN /\ pc' = "ask" /\ round' = round + 1 /\ depth' = 0
         /\ UNCHANGED <<status, replan, cur, at, resume, result>>
    ELSE EndStep("failed", "failed")

Redo(how) ==
  /\ pc' = how /\ depth' = depth + 1
  /\ UNCHANGED <<status, replan, cur, at, round, resume, result>>

Check ==
  /\ pc = "check"
  /\ LET v == Verdict(at, obs.class, turn) IN
     IF depth >= MaxStepTurns THEN EndStep("failed", "failed")
     ELSE IF obs.type \in Terminal THEN EndExecution
     ELSE CASE v = "continue" -> AnotherRound
            [] v = "completed" -> EndStep("completed", "completed")
            [] v = "skipped" -> EndStep("skipped", "completed")
            [] v = "ask_user" -> EndStep("waiting_user", "waiting_user")
            [] v = "request_replan" -> EndStep("failed", "request_replan")
            [] v = "retry" -> IF obs.type = "call" /\ ~obs.used
                                THEN Redo("retry") ELSE EndStep("failed", "failed")
            [] v = "fallback" -> IF ~obs.used /\ obs.type # "fallback"
                                   THEN Redo("fallback") ELSE EndStep("failed", "failed")
            [] v = "blocked" -> EndStep("blocked", "blocked")
            [] v = "failed" -> EndStep("failed", "failed")
  /\ obs' = NoObs
  /\ UNCHANGED <<plan, memory, turn, pending>>

RetryDecided ==
  /\ pc = "retry" /\ RetryStep(at)
  /\ pc' = "check"
  /\ UNCHANGED <<plan, turn, replan, cur, at, round, depth, resume, result>>

FallbackDecided ==
  /\ pc = "fallback" /\ Fallback(at, plan.fallback[at])
  /\ pc' = "check"
  /\ UNCHANGED <<plan, turn, replan, cur, at, round, depth, resume, result>>

-----------------------------------------------------------------------------
(* The answer of the user, resume_after_confirmation.                      *)

Waiting == pc = "returned" /\ result = "waiting_user" /\ pending # NoPending

ApprovePlan ==
  /\ Waiting /\ pending.kind = "plan"
  /\ pending' = NoPending
  /\ EnterLoop("no", replan)
  /\ UNCHANGED <<plan, status, memory, turn, obs>>

(* The pending call is dispatched, without another look at what its step   *)
(* depends on; only a pending action of the loop has a ticket.             *)
ApproveCall ==
  /\ Waiting /\ pending.call \in Calls
  /\ LET s == pending.step IN
     \E class \in CallClasses(pending.call, TRUE, pending.kind = "action") :
        /\ Record(s, Seen("call", pending.call, class, FALSE), Max({attempts[s], 1}))
        /\ IF class = "conflict"
             THEN status' = [status EXCEPT ![s] = "failed"] /\ Return("failed", replan)
             ELSE /\ status' = [status EXCEPT ![s] = "running"]
                  /\ pc' = "check" /\ resume' = "acting" /\ result' = "none"
                  /\ at' = s /\ cur' = plan.unit[s] /\ round' = 0 /\ depth' = 0
                  /\ UNCHANGED replan
  /\ turn' = turn + 1
  /\ pending' = NoPending
  /\ UNCHANGED plan

\* Mutant: the answer takes the question off the table.
ApproveQuestionOnce ==
  /\ Waiting /\ pending.call = "ask_user"
  /\ LET s == pending.step IN
     /\ Record(s, Seen("ask_user", "none", "ask_user", FALSE), Max({attempts[s], 1}))
     /\ at' = s /\ cur' = plan.unit[s] /\ round' = 0 /\ depth' = 0
  /\ pc' = "check" /\ resume' = "acting" /\ result' = "none"
  /\ turn' = turn + 1 /\ pending' = NoPending
  /\ UNCHANGED <<plan, status, replan>>

(* The answer to a question is a yes too: the question is put again.       *)
ApproveQuestion ==
  /\ Waiting /\ pending.call = "ask_user"
  /\ LET s == pending.step IN
     /\ Record(s, Seen("ask_user", "none", "ask_user", FALSE), Max({attempts[s], 1}))
     /\ at' = s /\ cur' = plan.unit[s] /\ round' = 0 /\ depth' = 0
  /\ pc' = "check" /\ resume' = "acting" /\ result' = "none"
  /\ turn' = turn + 1
  /\ UNCHANGED <<plan, status, pending, replan>>

Reject ==
  /\ Waiting
  /\ LET s == pending.step IN
     /\ status' = [t \in Steps |-> IF t = s THEN "cancelled"
                                   ELSE IF s \in Needs(t) THEN "skipped" ELSE status[t]]
     /\ seen' = seen + 1
     /\ latest' = [latest EXCEPT ![s] = "failed"]
     /\ attempts' = [attempts EXCEPT ![s] = Max({@, 1})]
  /\ pending' = NoPending
  /\ EnterLoop("no", replan)
  /\ UNCHANGED <<plan, failedCall, turn, obs>>

(* An answer that names another confirmation or preview ends the execution.*)
AnswerMismatch ==
  /\ Waiting
  /\ LET s == pending.step IN
     /\ seen' = seen + 1
     /\ latest' = [latest EXCEPT ![s] = "failed"]
     /\ attempts' = [attempts EXCEPT ![s] = Max({@, 1})]
  /\ result' = "failed"
  /\ UNCHANGED <<plan, status, failedCall, turn, pending, replan, pc, cur, at, round,
                 depth, obs, resume>>

Work ==
  \/ ConfirmPlan \/ CheckPlan
  \/ SkipEndedStep \/ BlockStep \/ BeginStep \/ EndUnit
  \/ Turn \/ Check \/ RetryDecided \/ FallbackDecided

Answer == ApprovePlan \/ ApproveCall \/ ApproveQuestion \/ Reject \/ AnswerMismatch

Next == Work \/ Answer

Spec == Init /\ [][Next]_vars
FairSpec == Spec /\ WF_vars(Work)

-----------------------------------------------------------------------------
(* A call that needs the user's word succeeds only in the very step in     *)
(* which the user approves that call of that step: not by a retry, a       *)
(* fallback or a later round of a step that was approved once              *)
(* (dispatch_action, _handle_retry, resume_after_confirmation).            *)
AskedRunsOnlyOnApproval ==
  [][seen' > seen /\ obs'.call \in Asked /\ obs'.class = "completed"
       => pc = "returned" /\ pending.step = at' /\ pending.call = obs'.call /\ pending' = NoPending]_vars

(* An ended step is not run again and keeps its end, whatever is answered  *)
(* later and however often the loop starts over. Only the rejection of a   *)
(* step it depends on rewrites it, to skipped, even when it was completed  *)
(* ahead of that step (status test in _execute_single_task_unit_loop,      *)
(* _mark_rejected_confirmation_states).                                    *)
StepsEndOnce ==
  [][\A s \in Steps : status[s] \in Ended =>
       \/ status'[s] = status[s]
       \/ /\ status'[s] = "skipped" /\ pc = "returned" /\ pending.step \in Needs(s)
          /\ status'[pending.step] = "cancelled"]_vars

(* The result an execution comes back with agrees with its steps, unless   *)
(* the model ended it with finish, which is a success over failed steps, or*)
(* a replan was wished for, after which the last unit's result is taken.   *)
(* No step is left running, except one that was approved ahead of its turn,*)
(* failed and may: its turn had not come when another step ended the loop  *)
(* (_aggregate_execution_status, resume_after_confirmation).               *)
ResultMatchesSteps ==
  [][pc # "returned" /\ pc' = "returned" =>
       LET all == Statuses(Steps, status') IN
       /\ result' = "completed" /\ ~replan' /\ obs.type # "finish" => all \subseteq Ok
       /\ result' = "partial_failed" => {"failed", "completed"} \subseteq all /\ "blocked" \notin all
       /\ result' = "request_replan" => replan' /\ "failed" \in all
       /\ result' = "blocked" => "blocked" \in all
       /\ result' = "waiting_user" => "waiting_user" \in all
       /\ result' = "cancelled" => "cancelled" \in all
       /\ \A s \in Steps : status'[s] \in {"running", "retrying"} =>
            AskedAhead(s) /\ plan.onFailure[s] = "continue"]_vars

(* The user is asked about the step that waits; a waiting execution        *)
(* without a question is one whose tool wanted a ticket that the approval  *)
(* could not carry.                                                        *)
WaitingIsAnswerable ==
  pc = "returned" /\ result = "waiting_user" =>
    IF pending # NoPending THEN status[pending.step] = "waiting_user"
    ELSE \E s \in Steps : /\ status[s] = "waiting_user" /\ failedCall[s].class = "ask_user"
                          /\ failedCall[s].call \in {"asked tool", "command"}

(* A step that runs or has run found what it depends on done, unless the   *)
(* check of the plan had the user approve it before its turn.              *)
DependenciesFirst ==
  \A s \in Steps :
    ~AskedAhead(s) /\ status[s] \in {"running", "retrying", "completed"} =>
      \A d \in plan.dependsOn[s] : status[d] \in Ok

(* However the loop starts over, it comes back with a result.              *)
LoopReturns == pc # "returned" ~> pc = "returned"
=============================================================================
