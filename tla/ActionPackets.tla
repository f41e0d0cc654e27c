---------------------------- MODULE ActionPackets ----------------------------
(***************************************************************************)
(* What ExecutorLoop takes as one step, the turn of a step of the plan: ask *)
(* the model for an action (_request_action_packet), refuse and repair what *)
(* is no valid ActionPacket (react_executor_protocol.py), dispatch what is, *)
(* and carry it out (dispatch_action and its handlers), for a retry or a    *)
(* fallback by a second dispatch inside the first.                          *)
(*                                                                          *)
(* Other threads change the tool registry meanwhile.  The model may fill in *)
(* any field, also the ids the executor would set.  Judging observations,   *)
(* confirmations and the order of the steps are in ExecutorLoop; the safety *)
(* gate between validation and handler is left out here.                    *)
(***************************************************************************)
EXTENDS Naturals, Sequences, FiniteSets, SequencesExt, FiniteSetsExt

CONSTANTS
  Tools,           \* tool names a registry may hold
  None,            \* no target, no step, no action named
  ModelNames,      \* MODEL_FALLBACK_TOOL_ALIASES, as targets
  StepFallbacks,   \* fallback_tools of the steps and of their tools
  ModelAllowed,    \* may a failed step fall back to the model?
  LastStep,        \* the steps are 1..LastStep, in the order of the plan
  Offers,          \* the packets the model may write
  MaxRepairs,      \* config.max_action_packet_repair_attempts, at most 5
  MaxRetries,      \* step.max_retries
  MaxTurns,        \* bound: turns of the execution
  MaxChanges       \* bound: changes of the registry

Steps == 1..LastStep
Redoing == {"retry_step", "fallback_to_model", "fallback_to_tool"}
ActionTypes == {"call_tool", "call_model", "ask_user", "skip_step", "finish", "fail",
                "request_replan", "blocked", "cancel"} \cup Redoing

\* The payload of an ActionPacket.  whole: the texts its type requires are there;
\* stray: it has a final answer or a replan reason its type must not have; step: its
\* step_id; aim and action: the step and the packet its arguments point to; id: its
\* packet_id.  None is what the payload leaves out.
Payload ==
  [type : ActionTypes, target : Tools \cup ModelNames \cup {None}, whole : BOOLEAN,
   stray : BOOLEAN, step : Steps \cup {None}, aim : Steps \cup {None},
   action : Nat \cup {None}, id : Nat \cup {None}]

ASSUME RequestAssumption ==
  /\ MaxRepairs \in 0..5 /\ MaxRetries \in Nat
  /\ LastStep \in Nat \ {0} /\ MaxTurns \in Nat /\ MaxChanges \in Nat
  /\ StepFallbacks \subseteq Tools \cup ModelNames /\ ModelAllowed \in BOOLEAN
  /\ Offers \subseteq Payload

VARIABLES
  manager,        \* is there a model manager?
  tools,          \* what _available_tool_names finds now
  changes,        \* changes of the registry so far (for the bound)
  observations,   \* observation_store.observations
  attempts,       \* StepRuntimeState.attempts
  turns,          \* turns that are over
  fresh,          \* the next packet_id new_id gives
  phase,          \* where the turn stands
  cur,            \* its step
  attempt,        \* its attempt
  offered,        \* available_tools of the request
  repair,         \* repair_attempt
  open,           \* model steps started and not finished
  packet,         \* the packet that is dispatched
  how             \* "plain", or why it is dispatched inside another

book == <<observations, attempts, turns, fresh>>
request == <<offered, repair, open>>
vars == <<manager, tools, changes, book, phase, cur, attempt, request, packet, how>>

Init ==
  /\ manager \in BOOLEAN
  /\ tools = Tools /\ changes = 0
  /\ observations = <<>> /\ attempts = [s \in Steps |-> 0]
  /\ turns = 0 /\ fresh = 1
  /\ phase = "idle" /\ cur = 1 /\ attempt = 1
  /\ offered = {} /\ repair = 0 /\ open = 0
  /\ packet = None /\ how = "plain"

\* McpGateway, the command line or an embedding program, from another thread.
ChangeRegistry ==
  /\ changes < MaxChanges
  /\ \E t \in Tools : tools' = IF t \in tools THEN tools \ {t} ELSE tools \cup {t}
  /\ changes' = changes + 1
  /\ UNCHANGED <<manager, book, phase, cur, attempt, request, packet, how>>

-----------------------------------------------------------------------------
(* Observations *)

\* _observation_from_packet: the step and the id are those of the packet.
Observed(p, ok) ==
  [nr |-> Len(observations) + 1, step |-> p.step, id |-> p.id, type |-> p.type,
   target |-> p.target, ok |-> ok, attempt |-> attempt, turn |-> cur, how |-> how]

\* Mutant: an observation is stored as often as it is handed in.
AddedAgain(store, o) == Append(store, o)

\* _record_observation: an observation that is in the store stays there once.
Added(store, o) ==
  IF \E i \in DOMAIN store : store[i].nr = o.nr THEN store ELSE Append(store, o)

\* The turn ends with o.  The observation of a nested dispatch is recorded by both.
EndTurn(o) ==
  /\ observations' = IF how = "plain" THEN Added(observations, o)
                     ELSE Added(Added(observations, o), o)
  /\ attempts' = [attempts EXCEPT ![o.step] = Max({@, o.attempt})]
  /\ turns' = turns + 1
  /\ phase' = "idle" /\ packet' = None /\ how' = "plain"
  /\ offered' = {} /\ repair' = 0

Newest(S) == IF S = {} THEN None ELSE observations[Max(S)]

\* _recent_failed_action_ids: at most five of the step, newest first.
RecentFailed(s) ==
  LET failed == {i \in DOMAIN observations : observations[i].step = s /\ ~observations[i].ok}
      recent == {i \in failed : Cardinality({j \in failed : j > i}) < 5}
  IN {observations[i].id : i \in recent}

-----------------------------------------------------------------------------
(* The contract of a packet, validate_action_packet *)

Named(p, orElse) == IF p.aim # None THEN p.aim ELSE orElse

TargetErrors(p, available) ==
  IF p.target = None THEN {"requires action_target"}
  ELSE IF p.target \notin available THEN {"target is not available"} ELSE {}

\* used: retry_attempts; failed: recent_failed_action_ids, {} for none.
RetryErrors(p, failed, used) ==
  (IF used >= MaxRetries THEN {"exceeds max_retries"} ELSE {})
  \cup (IF Named(p, p.step) # cur THEN {"must target the current step"} ELSE {})
  \cup (IF p.action # None /\ failed # {} /\ p.action \notin failed
          THEN {"action id is not in recent failed actions"} ELSE {})

\* fallbacks = {}: the step has none, and none are asked for.
Errors(p, available, fallbacks, failed, used) ==
  (IF p.stray THEN {"only allowed for another type"} ELSE {})
  \cup (IF ~p.whole THEN {"a required text is missing"} ELSE {})
  \cup CASE p.type = "call_tool" -> TargetErrors(p, available)
         [] p.type = "retry_step" -> RetryErrors(p, failed, used)
         [] p.type = "fallback_to_tool" ->
              TargetErrors(p, IF fallbacks = {} THEN {p.target} ELSE fallbacks)
         [] OTHER -> {}

-----------------------------------------------------------------------------
(* The request *)

\* start_turn; what the answers are held against is read once, at the start.
BeginTurn(s) ==
  /\ phase = "idle" /\ manager /\ turns < MaxTurns
  /\ cur <= s
  /\ cur' = s /\ attempt' = attempts[s] + 1
  /\ offered' = tools
  /\ repair' = 0 /\ phase' = "ask"
  /\ UNCHANGED <<manager, tools, changes, book, open, packet, how>>

\* _failure_action_packet
Failure == [type |-> "fail", target |-> None, whole |-> TRUE, stray |-> FALSE,
            step |-> cur, aim |-> None, action |-> None, id |-> fresh]

\* Without a model manager no model step begins, and the turn has failed.
NoManager(s) ==
  /\ phase = "idle" /\ ~manager /\ turns < MaxTurns
  /\ cur = s
  /\ EndTurn([Observed(Failure, FALSE) EXCEPT !.attempt = attempts[s] + 1])
  /\ fresh' = fresh + 1
  /\ UNCHANGED <<manager, tools, changes, cur, attempt, open>>

\* Event model_step_started, and the call.
AskModel ==
  /\ phase = "ask"
  /\ open' = open + 1
  /\ phase' = "answer"
  /\ UNCHANGED <<manager, tools, changes, book, cur, attempt, offered, repair, packet, how>>

\* The call fails or raises: event model_step_finished, a failed observation.
ModelFails ==
  /\ phase = "answer"
  /\ open' = open - 1
  /\ EndTurn(Observed(Failure, FALSE))
  /\ fresh' = fresh + 1
  /\ UNCHANGED <<manager, tools, changes, cur, attempt>>

\* _action_packet_kwargs_from_payload: what the payload sets is kept.
Filled(p) ==
  [p EXCEPT !.step = IF @ = None THEN cur ELSE @, !.id = IF @ = None THEN fresh ELSE @]

\* What comes of an answer.  "broken": no JSON object, also as a structured
\* failure of the manager; "prose": an object inside other text, refused although
\* extract_action_packet_payload could read it; "malformed": an object that is no
\* ActionPacket; "packet": an object, bare or fenced.
Forms == {"broken", "prose", "malformed", "packet"}

AnswerErrors(form, p) ==
  IF form # "packet" THEN {form}
  ELSE Errors(p, offered, StepFallbacks, RecentFailed(cur), attempts[cur])

\* Mutant: the repairs are not counted.
AskAgainUncounted ==
  /\ phase' = "ask"
  /\ UNCHANGED <<book, offered, repair, packet, how>>

\* The repair prompt tells the errors; the model may write anything again.
AskAgain ==
  /\ phase' = "ask"
  /\ repair' = repair + 1
  /\ UNCHANGED <<book, offered, packet, how>>

\* The last repair is no packet either: the observation is that of the packet it
\* would have been, whatever its type.
GiveUp(form, p) ==
  /\ EndTurn(Observed(IF form = "packet" THEN p ELSE Failure, FALSE))
  /\ fresh' = fresh + 1

Accept(p) ==
  /\ packet' = p /\ how' = "plain"
  /\ fresh' = fresh + 1
  /\ phase' = "dispatch"
  /\ UNCHANGED <<observations, attempts, turns, offered, repair>>

TakeAnswer(form, payload) ==
  /\ phase = "answer"
  /\ open' = open - 1
  /\ LET p == Filled(payload)
         errors == AnswerErrors(form, p)
     IN IF errors = {} THEN Accept(p)
        ELSE IF repair < MaxRepairs THEN AskAgain
        ELSE GiveUp(form, p)
  /\ UNCHANGED <<manager, tools, changes, cur, attempt>>

-----------------------------------------------------------------------------
(* Dispatch *)

\* _dispatch_validation_errors: with the registry of now, without the failed ids.
\* A retry has been counted already where the checker decided on it.
DispatchErrors(p) ==
  Errors(p, tools, IF p.type = "fallback_to_tool" THEN {} ELSE StepFallbacks, {},
         IF p.type = "retry_step" THEN Max({attempts[cur] - 1, 0}) ELSE attempts[cur])

Dispatch ==
  /\ phase = "dispatch"
  /\ IF DispatchErrors(packet) = {}
       THEN /\ phase' = "perform"
            /\ UNCHANGED <<observations, attempts, turns, offered, repair, packet, how>>
       ELSE EndTurn(Observed(packet, FALSE))
  /\ UNCHANGED <<manager, tools, changes, fresh, cur, attempt, open>>

Performing(types) == phase = "perform" /\ packet.type \in types

\* Mutant: a tool that was there when the packet was checked is taken to be there.
ToolOutcomesUnseen == {TRUE, FALSE}

\* _handle_call_tool looks the tool up once more.
ToolOutcomes == IF packet.target \in tools THEN {TRUE, FALSE} ELSE {FALSE}

Call ==
  /\ Performing({"call_tool", "call_model"})
  /\ \E ok \in IF packet.type = "call_tool" THEN ToolOutcomes ELSE {TRUE, FALSE} :
       EndTurn(Observed(packet, ok))
  /\ UNCHANGED <<manager, tools, changes, fresh, cur, attempt, open>>

\* The control actions only leave an observation.
Control ==
  /\ Performing(ActionTypes \ ({"call_tool", "call_model"} \cup Redoing))
  /\ EndTurn(Observed(packet, packet.type \in {"finish", "skip_step"}))
  /\ UNCHANGED <<manager, tools, changes, fresh, cur, attempt, open>>

\* _find_retry_target_observation, _find_fallback_target_observation: the newest
\* observation with the named id, of whichever step, or the newest failed call of
\* the step.
FailedCall(o) == ~o.ok /\ o.type \in {"call_tool", "call_model"}

RedoTarget(p) ==
  LET named == {i \in DOMAIN observations : p.action # None /\ observations[i].id = p.action}
      failed == {i \in DOMAIN observations : /\ observations[i].step = Named(p, p.step)
                                             /\ FailedCall(observations[i])}
  IN IF named # {} THEN IF FailedCall(Newest(named)) THEN Newest(named) ELSE None
     ELSE Newest(failed)

\* The handler dispatches a packet of its own.
DispatchInside(o, type, target, why, next) ==
  /\ packet' = [type |-> type, target |-> target, whole |-> TRUE, stray |-> FALSE,
                step |-> o.step, aim |-> None, action |-> None, id |-> fresh]
  /\ how' = why /\ attempt' = next /\ fresh' = fresh + 1
  /\ phase' = "dispatch"
  /\ UNCHANGED <<observations, turns, offered, repair>>

RedoFails ==
  /\ EndTurn(Observed(packet, FALSE))
  /\ UNCHANGED <<fresh, attempt>>

\* Mutant: a scheduled retry is not booked on the step that retries.
ScheduledElsewhere(next) == attempts

Scheduled(next) == [attempts EXCEPT ![cur] = Max({@, next})]

\* _handle_retry.  Whether the checker, asked again, agrees is open here; the
\* policy (RetryPolicy.build_decision) counts for itself.
Retry ==
  /\ Performing({"retry_step"})
  /\ LET o == RedoTarget(packet)
         used == Max({o.attempt, attempts[cur]})
     IN \/ RedoFails
        \/ /\ o # None
           /\ used - 1 < MaxRetries
           /\ DispatchInside(o, o.type, o.target, "retry", used + 1)
           /\ attempts' = Scheduled(used + 1)
  /\ UNCHANGED <<manager, tools, changes, cur, open>>

\* FallbackPolicy.build_decision: the tool that is asked for, else the model where
\* the step or the packet lets it, else nothing.
FallbackFor(p, allowModel) ==
  IF p.type = "fallback_to_tool" /\ p.target \in tools \ ModelNames THEN p.target
  ELSE IF p.type = "fallback_to_model" \/ p.target \in ModelNames \/ ModelAllowed \/ allowModel
    THEN "model" ELSE None

\* _handle_fallback_to_model, _handle_fallback_to_tool.
Fallback ==
  /\ Performing({"fallback_to_model", "fallback_to_tool"})
  /\ \E allowModel \in BOOLEAN :
       LET o == RedoTarget(packet)
           to == FallbackFor(packet, allowModel)
       IN IF o = None \/ to = None THEN RedoFails
          ELSE /\ DispatchInside(o, IF to = "model" THEN "call_model" ELSE "call_tool",
                                 IF to = "model" THEN None ELSE to, "fallback",
                                 Max({o.attempt + 1, attempt}))
               /\ UNCHANGED attempts
  /\ UNCHANGED <<manager, tools, changes, cur, open>>

-----------------------------------------------------------------------------
Work ==
  \/ AskModel \/ ModelFails
  \/ \E form \in Forms, p \in Offers : TakeAnswer(form, p)
  \/ Dispatch \/ Call \/ Control \/ Retry \/ Fallback

Next ==
  \/ ChangeRegistry
  \/ \E s \in Steps : BeginTurn(s) \/ NoManager(s)
  \/ Work

Spec == Init /\ [][Next]_vars
FairSpec == Spec /\ WF_vars(Work)

-----------------------------------------------------------------------------
(* Properties *)

\* ExecutorLoop's turn: however an action was asked for, repaired, refused or
\* carried out by a dispatch inside a dispatch, a turn leaves one observation, and
\* each model step that was started is finished when the turn goes on
\* (_request_action_packet, dispatch_action, _record_observation).
TurnsAreAccounted ==
  /\ Len(observations) = turns
  /\ open = IF phase = "answer" THEN 1 ELSE 0

\* In the turns of a step the model gets no more retries than max_retries, also
\* when it books its actions on other steps or names failures of other steps
\* (validate_action_packet, _dispatch_validation_errors, RetryPolicy, _handle_retry
\* count apart).
RetriesBounded ==
  \A s \in Steps :
    Cardinality({i \in DOMAIN observations : /\ observations[i].turn = s
                                             /\ observations[i].how = "retry"}) <= MaxRetries

\* A tool that is called is registered at that moment, and one the model picked was
\* offered to it as well, although the registry changes between prompt, validation
\* and call (_request_action_packet, _dispatch_validation_errors, _handle_call_tool).
CalledToolsAreThere ==
  [][turns' > turns =>
       LET o == Last(observations') IN
       o.ok /\ o.type = "call_tool" =>
         o.target \in tools /\ (how = "plain" => o.target \in offered)]_vars

\* Whatever the model writes and however often, the turn ends (ModelCall: calls return).
TurnsEnd == phase # "idle" ~> phase = "idle"
=============================================================================
