----------------------------- MODULE MCSessions -----------------------------
(* Instances of Sessions for TLC.                                           *)
EXTENDS Sessions, TLC

CONSTANTS a, r1, r2, r3, r4

MCCalls == {a}

Tool(call, outcome) ==
  [kind |-> "tool", call |-> call, outcome |-> outcome, cost |-> 0]
Other(kind, outcome, cost) ==
  [kind |-> kind, call |-> NoCall, outcome |-> outcome, cost |-> cost]

\* A session id is named by the run that generated it: each run has its own, or
\* r2 adopts the one r1 generated.
Unique == [r \in Runs |-> r]
Shared == [r \in Runs |-> IF r = r2 THEN r1 ELSE r]

\* Steps enough to reach every detector.
AllSteps ==
  {Tool(a, "returned"), Tool(a, "raised"), Other("model", "returned", 1),
   Other("attempt", "raised", 0)}

\* A step enough to make a scratch space and to report.
CostlySteps == {Other("model", "returned", 1)}

\* Runs with an id of their own are interchangeable.
SymmetricRuns == Permutations(Runs)
SymmetricOthers == Permutations({r3, r4})
=============================================================================
