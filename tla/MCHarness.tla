------------------------------ MODULE MCHarness ------------------------------
(* An instance of Harness for TLC, with the thresholds and prices of the     *)
(* source.                                                                   *)
EXTENDS Harness

Tools == {"search", "lookup_scheme", "check_eligibility", "summarise"}

\* Every call a script makes.
AllCalls == (Tools \X (0..16)) \cup {<<"lookup_scheme", 42>>}

\* One call at the ceiling, one just above, and two that reach it together.
SomeCosts == {<<5000>>, <<5001>>, <<2500, 2500>>, <<2500, 2501>>}

\* Every cost of a span of theirs.
AllScripts ==
  UNION {Shapes[shape] : shape \in DOMAIN Shapes}
    \cup {p.script : p \in UNION {Patterns[name] : name \in DOMAIN Patterns}}
    \cup {fixture.script : fixture \in Fixtures}
    \cup {Rebuilt(costs) : costs \in CorpusSessions}
    \cup {Request(answered) : answered \in BOOLEAN}

AllCosts ==
  {0} \cup UNION {{script[i].cost : i \in DOMAIN script} : script \in AllScripts}

==============================================================================
