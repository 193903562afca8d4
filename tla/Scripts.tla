------------------------------- MODULE Scripts -------------------------------
(***************************************************************************)
(* The sessions the repository's own programs run through the detectors:   *)
(* the patterns of bench/false_positives.py, the shapes of                 *)
(* eval/generate_traffic.py, the fixtures of eval/fixture_replay.py and    *)
(* the corpus sessions eval/detector_gate.py rebuilds.                     *)
(*                                                                         *)
(* A script is the sequence of the spans such a session ends, a span       *)
(* inside another before the one around it.  A call is a pair of a tool    *)
(* and what its arguments are; a cost is in units of 0.00000001 USD.       *)
(***************************************************************************)
EXTENDS Detection, Sequences

CONSTANTS
  InputPrice,     \* list price of a token in, in those units
  OutputPrice,    \* and of one out
  Ceilings,       \* ceilings a host may ask for; NoCeiling is none
  NoCeiling,
  CorpusSessions  \* costs of the model calls of each session of the corpus

Step(kind, call, outcome, cost) ==
  [kind |-> kind, call |-> call, outcome |-> outcome, cost |-> cost]

Tool(name, args) == Step("tool", <<name, args>>, "returned", 0)
BrokenTool(name, args) == Step("tool", <<name, args>>, "raised", 0)
Retrieval == Step("retrieval", NoCall, "returned", 0)
Attempt(cost) == Step("attempt", NoCall, "returned", cost)
BrokenAttempt == Step("attempt", NoCall, "raised", 0)
Model(cost) == Step("model", NoCall, "returned", cost)

Price(input, output) == input * InputPrice + output * OutputPrice

Repeat(n, script) ==
  [i \in 1..(n * Len(script)) |-> script[((i - 1) % Len(script)) + 1]]

\* A model call that lands after some attempts have failed.
Call(failures, attempt, model) ==
  Repeat(failures, <<BrokenAttempt>>) \o <<attempt, model>>

\* The arguments of n calls drawn at random, of which the first few come out the
\* same.
Draw(n, same) == [i \in 1..n |-> IF i <= same THEN 0 ELSE i]

------------------------------------------------------------------------------
(* bench/false_positives.py: each pattern, as the set of its scripts, each   *)
(* with the largest number of its calls that happen to be the same.          *)

Once(script) == {[script |-> script, same |-> 1]}

Looked == Once(<<Tool("lookup_scheme", 1), Model(Price(200, 40))>>)

Paginated ==
  UNION {Once([i \in 1..pages |-> Tool("search", i)] \o <<Model(Price(200, 40))>>) :
           pages \in 3..6}

TransientRetry ==
  Once(<<BrokenTool("search", 0), BrokenTool("search", 0), Tool("search", 0),
         Model(Price(200, 40))>>)

\* A model call whose attempts fail, calls times over.
Retried(calls, failures) == Repeat(calls, Call(failures, Attempt(0), Model(0)))

MultiToolPlan ==
  LET plan == <<"search", "lookup_scheme", "check_eligibility", "summarise">>
  IN  Once([i \in 1..8 |-> IF i % 2 = 1 THEN Tool(plan[(i + 1) \div 2], 1)
                                        ELSE Model(Price(900, 300))])

RepeatedLookup ==
  UNION {{[script |-> [i \in 1..n |-> Tool("lookup_scheme", Draw(n, same)[i])]
                        \o <<Model(Price(200, 40))>>,
           same   |-> same] : same \in 1..n} : n \in 4..9}

RecoveryViaAnotherTool ==
  Once(<<BrokenTool("search", 0), Tool("lookup_scheme", 42), Model(Price(200, 40))>>)

\* Every third question is followed by a model call.
LongResearch ==
  LET ask[n \in 0..16] ==
        IF n = 0 THEN <<>>
        ELSE ask[n - 1] \o <<Tool("search", n)>>
                \o (IF n % 3 = 1 THEN <<Model(Price(200, 40))>> ELSE <<>>)
  IN  UNION {Once(ask[n] \o <<Model(Price(200, 40))>>) : n \in 10..16}

Patterns ==
  [single_step |-> Looked, paginated_search |-> Paginated,
   transient_retry |-> TransientRetry,
   model_retry_once |-> Once(Retried(1, 1)), model_retry_twice |-> Once(Retried(2, 2)),
   multi_tool_plan |-> MultiToolPlan, repeated_lookup |-> RepeatedLookup,
   recovery_via_another_tool |-> RecoveryViaAnotherTool,
   long_research |-> LongResearch,
   model_retry_storm |-> Once(Retried(3, 2))]

\* Those required to fire, and what.
PositiveControls == [model_retry_storm |-> "retry_amplification"]

------------------------------------------------------------------------------
(* eval/generate_traffic.py: the shapes, whose usage is recorded on the      *)
(* attempt inside the model span.                                            *)

TrafficCeiling == 100000

\* The least and the most a model call of random size can use.
SomeUsage == {Price(180, 30), Price(900, 260)}

Landed(cost) == Call(0, Attempt(cost), Model(0))

Shapes ==
  [healthy |->
     {<<Tool("lookup_scheme", 1), Retrieval>> \o Landed(c) : c \in SomeUsage},
   silent_tool_failure |->
     {<<BrokenTool("lookup_scheme", 42)>> \o Landed(c) : c \in SomeUsage},
   loop |-> {Repeat(4, <<Tool("search", 0)>>) \o Landed(c) : c \in SomeUsage},
   expensive |-> {Landed(Price(2400, 1200))},
   retry_storm |-> {Repeat(3, Call(2, Attempt(Price(300, 60)), Model(0)))}]

\* What each is there to set off.
SetsOff(shape) ==
  CASE shape = "healthy"     -> {}
    [] shape = "expensive"   -> {"cost_ceiling"}
    [] shape = "retry_storm" -> {"retry_amplification"}
    [] OTHER                 -> {shape}

------------------------------------------------------------------------------
(* eval/fixtures, each step replayed as _step does: the usage is recorded on *)
(* the model span once its attempts have ended.                              *)

FixtureCeiling == 100000000

Fixture(detector, expect, ceiling, script) ==
  [detector |-> detector, expect |-> expect, ceiling |-> ceiling, script |-> script]

Asked(input, output) == Call(0, Attempt(0), Model(Price(input, output)))
AskedAsUsual == Asked(400, 100)
RetriedCall == Call(2, Attempt(0), Model(Price(400, 100)))

Fixtures ==
  {Fixture("cost_ceiling", "quiet", 50000, Asked(90, 26) \o Asked(90, 26)),
   Fixture("cost_ceiling", "fires", 50000, Asked(900, 260) \o Asked(900, 260)),
   Fixture("loop", "quiet", FixtureCeiling,
           <<Tool("search", 1), Tool("search", 2), Tool("search", 3)>> \o AskedAsUsual),
   Fixture("loop", "fires", FixtureCeiling,
           Repeat(3, <<Tool("search", 0)>>) \o AskedAsUsual),
   Fixture("retry_amplification", "quiet", FixtureCeiling, Repeat(2, RetriedCall)),
   Fixture("retry_amplification", "fires", FixtureCeiling, Repeat(3, RetriedCall)),
   Fixture("silent_tool_failure", "quiet", FixtureCeiling,
           <<BrokenTool("search", 0), Tool("lookup_scheme", 42)>> \o AskedAsUsual),
   Fixture("silent_tool_failure", "fires", FixtureCeiling,
           <<BrokenTool("lookup_scheme", 42), Retrieval>> \o AskedAsUsual)}

\* check: None when the fixture behaved.
Behaved(fixture, fired) == (fixture.detector \in fired) <=> (fixture.expect = "fires")

------------------------------------------------------------------------------
(* eval/detector_gate.py: a session of the corpus, rebuilt from its model    *)
(* calls alone.                                                              *)

CorpusCeiling == 5000

Rebuilt(costs) == [i \in DOMAIN costs |-> Model(costs[i])]

------------------------------------------------------------------------------
(* eval/proof_artifact.py: POST /agent/run with the prompt that makes the     *)
(* tool fail, of a provider that answers or does not.                         *)

Request(answered) ==
  <<BrokenTool("lookup_scheme", 1), Retrieval>> \o
    (IF answered THEN Call(0, Attempt(0), Model(0))
     ELSE <<BrokenAttempt, Step("model", NoCall, "raised", 0)>>)

------------------------------------------------------------------------------

\* A session's steps are spans, and its tools are called with arguments.
OfSpans(script) ==
  /\ script \in Seq(Span)
  /\ \A i \in DOMAIN script : script[i].kind = "tool" => script[i].call \in Calls

\* The thresholds and prices the scripts are written for: the patterns stay below
\* both thresholds and the controls reach them; a ceiling is above what the healthy
\* shapes cost and below the outlier (generate_traffic.py:98-100).
ASSUME ScriptsAssumption ==
  /\ LoopThreshold \in 2..3 /\ RetryThreshold \in 5..6
  /\ InputPrice \in Nat /\ OutputPrice \in Nat
  /\ 2 * Price(90, 26) <= 50000 /\ 2 * Price(900, 260) > 50000
  /\ Ceilings \subseteq Nat /\ NoCeiling # TrafficCeiling
  /\ \A ceiling \in (Ceilings \ {NoCeiling}) \cup {TrafficCeiling} :
       /\ 3 * Price(300, 60) <= ceiling /\ Price(900, 260) <= ceiling
       /\ Price(2400, 1200) > ceiling
  /\ CorpusSessions \subseteq Seq(Nat)
  /\ 0 \in Costs
  /\ \A shape \in DOMAIN Shapes : \A script \in Shapes[shape] : OfSpans(script)
  /\ \A name \in DOMAIN Patterns : \A pattern \in Patterns[name] : OfSpans(pattern.script)
  /\ \A fixture \in Fixtures : OfSpans(fixture.script)
  /\ \A costs \in CorpusSessions : OfSpans(Rebuilt(costs))
  /\ \A answered \in BOOLEAN : OfSpans(Request(answered))

==============================================================================
