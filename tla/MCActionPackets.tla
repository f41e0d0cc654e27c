--------------------------- MODULE MCActionPackets ---------------------------
(* TLC instance of ActionPackets: two steps, two tools, one of them a fallback. *)
EXTENDS ActionPackets

CONSTANTS t1, t2, model

\* The payload of a type with nothing wrong in it and nothing filled in.
Plain(type, target) ==
  [type |-> type, target |-> target, whole |-> TRUE, stray |-> FALSE, step |-> None,
   aim |-> None, action |-> None, id |-> None]

MCOffers ==
  { Plain("call_tool", t1), Plain("call_tool", t2),
    [Plain("call_tool", t1) EXCEPT !.step = 2],
    [Plain("call_tool", t1) EXCEPT !.id = 1],
    Plain("call_model", None),
    Plain("retry_step", None), [Plain("retry_step", None) EXCEPT !.action = 1],
    [Plain("retry_step", None) EXCEPT !.aim = 1],
    Plain("fallback_to_tool", t2), Plain("fallback_to_tool", t1),
    Plain("fallback_to_tool", model), Plain("fallback_to_model", None),
    Plain("finish", None), [Plain("finish", None) EXCEPT !.whole = FALSE] }
=============================================================================
