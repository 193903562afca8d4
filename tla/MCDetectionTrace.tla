-------------------------- MODULE MCDetectionTrace --------------------------
(* Instances of DetectionTrace for TLC.                                     *)
EXTENDS DetectionTrace

CONSTANTS a, b

MCCalls == {a, b}

Tool(call, outcome, cost) ==
  [kind |-> "tool", call |-> call, outcome |-> outcome, cost |-> cost]
Other(kind, outcome, cost) ==
  [kind |-> kind, call |-> NoCall, outcome |-> outcome, cost |-> cost]

\* Every way a step can matter to a detector, each with at most one cost.
MCSpans ==
  {Tool(a, "returned", 0), Tool(a, "returned", 1), Tool(a, "raised", 0),
   Tool(a, "cancelled", 0), Tool(b, "returned", 0), Tool(NoCall, "returned", 0),
   Other("model", "returned", 1), Other("attempt", "raised", 0),
   Other("retrieval", "returned", 0)}
==============================================================================
