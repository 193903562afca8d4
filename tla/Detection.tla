------------------------------ MODULE Detection ------------------------------
(***************************************************************************)
(* The detectors of spanlight/_detectors.py and the part of                *)
(* DetectorRegistry.run (spanlight/_detector_framework.py) that consults   *)
(* them: pure functions from a session's scratch space and a span that is  *)
(* about to end to the new scratch space and at most one detection.        *)
(*                                                                         *)
(* The detectors are those _setup._register_default_detectors registers,   *)
(* in the order it registers them.                                         *)
(***************************************************************************)
EXTENDS Naturals, Sequences

CONSTANTS
  Calls,           \* identities of tool calls: (tool name, argument fingerprint)
  NoCall,          \* "no fingerprint": tool_span without args, or not a tool
  Costs,           \* values of spanlight.cost_usd_equivalent; 0 is absent or zero
  LoopThreshold,   \* LOOP_THRESHOLD
  RetryThreshold,  \* RETRY_THRESHOLD
  CeilingSet,      \* was init() given a cost_ceiling_usd?
  CostCeiling      \* the ceiling, when CeilingSet

ASSUME DetectionAssumption ==
  /\ NoCall \notin Calls
  /\ Costs \subseteq Nat
  /\ LoopThreshold \in Nat \ {0}
  /\ RetryThreshold \in Nat \ {0}
  /\ CeilingSet \in BOOLEAN
  /\ CostCeiling \in Nat

------------------------------------------------------------------------------
(* Spans, as a detector sees them: what they measured and how they ended.   *)

\* "returned": the body of the `with` finished. "raised": it raised an
\* Exception, which _span records as status ERROR. "cancelled": it was unwound
\* by a BaseException that is no Exception (asyncio.CancelledError), which
\* _span does not catch, so the status stays UNSET.
Outcomes == {"returned", "raised", "cancelled"}

Span ==
  [kind : {"tool"}, call : Calls \cup {NoCall}, outcome : Outcomes, cost : Costs]
    \cup
  [kind : {"model", "attempt", "retrieval", "session"}, call : {NoCall},
   outcome : Outcomes, cost : Costs]

\* span.status.status_code is StatusCode.ERROR
IsError(span) == span.outcome = "raised"

------------------------------------------------------------------------------
(* A session's scratch space: the dict state_for hands to the detectors.    *)

SpanTypes == {"loop", "retry_amplification", "cost_ceiling"}
Types == SpanTypes \cup {"silent_tool_failure"}
None == "none"

Scratch ==
  [calls : [Calls -> Nat],      \* state["tool_calls"]
   failedAttempts : Nat,        \* state["failed_attempts"]
   toolFailed : BOOLEAN,        \* "failed_tool" in state
   recovered : BOOLEAN,         \* state["recovered"]
   modelAfter : BOOLEAN,        \* state["model_ran_after_tool_failed"]
   cost : Nat,                  \* state[COST_TOTAL]
   fired : SUBSET Types]        \* state["fired"]

\* The empty dict of a session seen for the first time.
Fresh ==
  [calls |-> [c \in Calls |-> 0], failedAttempts |-> 0, toolFailed |-> FALSE,
   recovered |-> FALSE, modelAfter |-> FALSE, cost |-> 0, fired |-> {}]

------------------------------------------------------------------------------
(* One detector each: what it writes to the scratch space, and whether it   *)
(* then returns a Detection.                                                *)

\* Mutant: failed calls count towards a loop.
CountableOrFailed(span) == span.kind = "tool" /\ span.call # NoCall

\* Only calls with a fingerprint that did not end in ERROR are counted.
Countable(span) == span.kind = "tool" /\ span.call # NoCall /\ ~IsError(span)

CountCall(state, span) ==
  IF Countable(span) THEN [state EXCEPT !.calls[span.call] = @ + 1] ELSE state

Looping(state, span) ==
  Countable(span) /\ state.calls[span.call] >= LoopThreshold

FailedAttempt(span) == span.kind = "attempt" /\ IsError(span)

CountFailedAttempt(state, span) ==
  IF FailedAttempt(span) THEN [state EXCEPT !.failedAttempts = @ + 1] ELSE state

\* Mutant: the threshold has to be exceeded.
AmplifyingLate(state, span) ==
  FailedAttempt(span) /\ state.failedAttempts > RetryThreshold

Amplifying(state, span) ==
  FailedAttempt(span) /\ state.failedAttempts >= RetryThreshold

\* Mutant: a tool success before the failure counts as recovering from it.
WatchAnySuccess(state, span) ==
  [state EXCEPT
    !.toolFailed = @ \/ (span.kind = "tool" /\ IsError(span)),
    !.recovered = @ \/ (span.kind = "tool" /\ ~IsError(span)),
    !.modelAfter = @ \/ (span.kind = "model" /\ state.toolFailed)]

\* watch_for_silent_failure: never a detection, only the facts the
\* session-end verdict needs. "recovered" is never taken back.
Watch(state, span) ==
  [state EXCEPT
    !.toolFailed = @ \/ (span.kind = "tool" /\ IsError(span)),
    !.recovered = @ \/ (span.kind = "tool" /\ ~IsError(span) /\ state.toolFailed),
    !.modelAfter = @ \/ (span.kind = "model" /\ state.toolFailed)]

OverCeiling(state, span) ==
  CeilingSet /\ span.cost > 0 /\ state.cost > CostCeiling

SilentFailure(state, span) ==
  state.modelAfter /\ ~IsError(span) /\ ~state.recovered

------------------------------------------------------------------------------
(* DetectorRegistry.run                                                     *)

\* Mutant: nothing remembers what has fired.
ReportAgain(acc, detector, crossed) ==
  IF crossed THEN [state |-> acc.state, emitted |-> detector] ELSE acc

\* Detectors are consulted in turn until one emits: a detector that finds its
\* type already in "fired" does not use up the slot, one that emits ends the
\* loop, and the detectors after it never see the span.
Report(acc, detector, crossed) ==
  IF crossed /\ detector \notin acc.state.fired
  THEN [state |-> [acc.state EXCEPT !.fired = @ \cup {detector}],
        emitted |-> detector]
  ELSE acc

Unreported(state) == [state |-> state, emitted |-> None]

\* The first registered: loop_detector.
AfterLoop(state, span) ==
  LET seen == CountCall(state, span)
  IN  Report(Unreported(seen), "loop", Looping(seen, span))

\* Then retry_amplification_detector, when the slot is free.
AfterRetry(acc, span) ==
  LET seen == CountFailedAttempt(acc.state, span)
  IN  IF acc.emitted # None THEN acc
      ELSE Report(Unreported(seen), "retry_amplification", Amplifying(seen, span))

\* Then the watcher, and the ceiling when init() was given one.
AfterWatch(acc, span) ==
  IF acc.emitted # None THEN acc ELSE Unreported(Watch(acc.state, span))

AfterCeiling(acc, span) ==
  IF acc.emitted # None THEN acc
  ELSE Report(acc, "cost_ceiling", OverCeiling(acc.state, span))

\* The running cost is summed before, and whether or not, any detector runs.
AddCost(state, span) == [state EXCEPT !.cost = @ + span.cost]

\* Mutant: the cost is summed after the detectors have run.
RunSpanThenSum(state, span) ==
  LET acc == AfterCeiling(AfterWatch(AfterRetry(AfterLoop(state, span), span), span), span)
  IN  [acc EXCEPT !.state = AddCost(@, span)]

RunSpan(state, span) ==
  AfterCeiling(AfterWatch(AfterRetry(AfterLoop(AddCost(state, span), span),
                                     span), span), span)

RunSession(state, span) ==
  LET summed == AddCost(state, span)
  IN  Report(Unreported(summed), "silent_tool_failure", SilentFailure(summed, span))

------------------------------------------------------------------------------
(* The same loop over whatever detectors are registered: RunSpan and        *)
(* RunSession are what it comes to for those of init().                     *)

Detector(name) == [name |-> name, ceiling |-> 0]
CeilingDetector(ceiling) == [name |-> "cost_ceiling", ceiling |-> ceiling]

LoopDetector == Detector("loop")
RetryDetector == Detector("retry_amplification")
WatchDetector == Detector("watch")
VerdictDetector == Detector("silent_tool_failure")

DefaultDetectors(ceilingSet, ceiling) ==
  <<LoopDetector, RetryDetector, WatchDetector, VerdictDetector>>
    \o IF ceilingSet THEN <<CeilingDetector(ceiling)>> ELSE <<>>

\* One detector consulted, when the slot is free, on a span of its phase: the
\* verdict is the only one registered for the end of a session.
Consult(acc, detector, span) ==
  IF \/ acc.emitted # None
     \/ (span.kind = "session") # (detector = VerdictDetector)
  THEN acc
  ELSE CASE detector.name = "loop"                -> AfterLoop(acc.state, span)
         [] detector.name = "retry_amplification" -> AfterRetry(acc, span)
         [] detector.name = "watch"               -> AfterWatch(acc, span)
         [] detector.name = "silent_tool_failure" ->
              Report(acc, "silent_tool_failure", SilentFailure(acc.state, span))
         [] detector.name = "cost_ceiling"        ->
              Report(acc, "cost_ceiling",
                     span.cost > 0 /\ acc.state.cost > detector.ceiling)

RunRegistered(detectors, state, span) ==
  LET consulted[i \in 0..Len(detectors)] ==
        IF i = 0 THEN Unreported(AddCost(state, span))
        ELSE Consult(consulted[i - 1], detectors[i], span)
  IN  consulted[Len(detectors)]

==============================================================================
