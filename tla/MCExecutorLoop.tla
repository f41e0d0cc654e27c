--------------------------- MODULE MCExecutorLoop ---------------------------
(***************************************************************************)
(* Plans of three steps in two units that meet every branch of the loop.   *)
(***************************************************************************)
EXTENDS ExecutorLoop, TLC

Plan(mode, unit, dependsOn, inputFrom, onFailure, fallback, maxRetries, gate) ==
  [mode |-> mode, unit |-> unit, dependsOn |-> dependsOn, inputFrom |-> inputFrom,
   onFailure |-> onFailure, fallback |-> fallback, maxRetries |-> maxRetries, gate |-> gate]

Free == <<"none", "none", "none">>
MCPlans ==
  { \* a chain in one unit, then a step of its own; retries and a fallback
    Plan("run", <<1, 1, 2>>, <<{}, {1}, {}>>, <<{}, {}, {2}>>,
         <<"stop", "stop", "stop">>, <<"none", "tool", "none">>, <<3, 1, 0>>, Free),
    \* a first step that may fail, two that use it
    Plan("run", <<1, 2, 2>>, <<{}, {1}, {2}>>, <<{}, {}, {}>>,
         <<"replan", "continue", "stop">>, <<"none", "model", "model">>, <<0, 0, 1>>, Free),
    \* the planned tool of the second step needs the user's word
    Plan("run", <<1, 1, 2>>, <<{}, {1}, {}>>, <<{}, {}, {}>>,
         <<"continue", "stop", "stop">>, Free, <<0, 0, 0>>, <<"none", "asked tool", "none">>),
    \* the same of a step that may fail
    Plan("run", <<1, 1>>, <<{}, {1}>>, <<{}, {}>>, <<"replan", "continue">>, <<"none", "none">>,
         <<1, 1>>, <<"none", "command">>),
    Plan("run", <<1>>, <<{}>>, <<{}>>, <<"stop">>, <<"none">>, <<1>>, <<"command">>),
    Plan("run", <<1>>, <<{}>>, <<{}>>, <<"stop">>, <<"none">>, <<1>>, <<"blocked">>),
    Plan("confirm", <<1, 1>>, <<{}, {1}>>, <<{}, {}>>, <<"stop", "stop">>, <<"model", "none">>,
         <<1, 0>>, <<"none", "none">>) }

MCPackets == {"call", "asked tool", "asked model", "command", "skip_step", "finish", "request_replan",
              "cancel", "blocked", "ask_user", "retry_step", "fallback_to_model"}
MCFailures == {"retryable", "unavailable", "dependency", "invalid", "blocked"}
=============================================================================
