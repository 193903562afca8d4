------------------------------- MODULE MCAgent -------------------------------
(* An instance of Agent for TLC.                                            *)
EXTENDS Agent

\* Two requests of one provider, a third of a name that is none, or has no key.
Settings == [r \in Requests |-> IF r = "r3" THEN "typo" ELSE "gemini"]

Prices == [gemini |-> [input |-> 1, output |-> 2]]

SomeCosts == 0..10

Counted(prompt, completion, total) ==
  [prompt |-> prompt, completion |-> completion, total |-> total]

Bad(code, json, header, details, message, unit) ==
  Reply(code, json, header, details, message, unit, NoUsage)

Ok(usage) == Reply(200, TRUE, Absent, <<>>, Absent, "s", usage)
Limited == Bad(429, TRUE, Unreadable, <<Unreadable, 2>>, Absent, "s")
LimitedInMs == Bad(429, TRUE, Absent, <<>>, 600, "ms")
LimitedForEver == Bad(429, FALSE, Inf, <<>>, Absent, "s")
LimitedGarbled == Bad(429, TRUE, Unreadable, <<Unreadable>>, Unreadable, "s")
LimitedNot == Bad(429, TRUE, NaN, <<3>>, Absent, "s")
Silent == Bad(0, FALSE, Absent, <<>>, Absent, "s")
NotFound == Bad(404, TRUE, Absent, <<>>, Absent, "s")
NotJson == Bad(200, FALSE, Absent, <<>>, Absent, "s")
NoKey == Bad(Absent, FALSE, Absent, <<>>, Absent, "s")

\* The first request meets every reply; the second shares its provider, and is
\* what it shares the throttle with.
SomeReplies ==
  [r \in Requests |->
    IF r = "r1"
    THEN {Ok(Counted(1, 1, 4)), Ok(NoUsage), Limited, LimitedInMs, LimitedForEver,
          LimitedGarbled, Silent, NotFound, NotJson, NoKey}
    ELSE {Ok(Counted(2, 0, 2)), LimitedNot, LimitedForEver}]

SomePrompts == [r \in Requests |-> IF r = "r2" THEN {FALSE} ELSE BOOLEAN]
===============================================================================
