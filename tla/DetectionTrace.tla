--------------------------- MODULE DetectionTrace ---------------------------
(***************************************************************************)
(* One session that keeps its scratch space from its first span to its     *)
(* end, with everything it did recorded in order: which span ended and     *)
(* what, if anything, was reported on it.  The properties compare what the *)
(* incremental detectors of module Detection reported with what the whole  *)
(* history says they should have.                                          *)
(*                                                                         *)
(* The names of its specification are its own, since its proofs take it    *)
(* together with module Harness.                                           *)
(***************************************************************************)
EXTENDS Detection, Sequences, FiniteSets

CONSTANTS
  Spans,     \* the spans a session may end
  MaxTrace   \* bound: spans ended by the session

ASSUME TraceAssumption == Spans \subseteq Span /\ MaxTrace \in Nat

VARIABLES
  state,     \* the session's scratch space
  trace,     \* the spans ended so far, each with what was emitted on it
  closing    \* <<>> while open, then <<the session span, what it emitted>>

traceVars == <<state, trace, closing>>

TraceInit ==
  /\ state = Fresh
  /\ trace = <<>>
  /\ closing = <<>>

\* A step of the run ends: registry.run(span, SPAN).
End(span) ==
  /\ closing = <<>>
  /\ Len(trace) < MaxTrace
  /\ LET result == RunSpan(state, span)
     IN  /\ state' = result.state
         /\ trace' = Append(trace, [span |-> span, emitted |-> result.emitted])
  /\ UNCHANGED closing

\* The session span ends: registry.run(span, SESSION).
Close(outcome, cost) ==
  /\ closing = <<>>
  /\ LET span == [kind |-> "session", call |-> NoCall,
                  outcome |-> outcome, cost |-> cost]
         result == RunSession(state, span)
     IN  /\ state' = result.state
         /\ closing' = <<span, result.emitted>>
  /\ UNCHANGED trace

TraceNext ==
  \/ \E span \in Spans : End(span)
  \/ \E outcome \in Outcomes, cost \in Costs : Close(outcome, cost)

TraceSpec == TraceInit /\ [][TraceNext]_traceVars

------------------------------------------------------------------------------
(* The history, in terms of the run and not of the detectors.               *)

Steps == DOMAIN trace
SpanAt(i) == trace[i].span
EmittedAt(i) == trace[i].emitted

ToolEnded(i, outcomes) == SpanAt(i).kind = "tool" /\ SpanAt(i).outcome \in outcomes

\* Identical calls of a tool, up to step i, that ended in one of outcomes.
Repeats(call, i, outcomes) ==
  {j \in 1..i : ToolEnded(j, outcomes) /\ SpanAt(j).call = call}

FailedAttempts(i) ==
  {j \in 1..i : SpanAt(j).kind = "attempt" /\ SpanAt(j).outcome = "raised"}

\* What the session had spent once step i had ended: each unit of it belongs to the
\* step that cost it.
Spendings(i) == UNION {{j} \X (1..SpanAt(j).cost) : j \in 1..i}
Spent(i) == Cardinality(Spendings(i))

\* A tool failed at step i, and a model call ended after it.
AnsweredOver(i) ==
  /\ ToolEnded(i, {"raised"})
  /\ \E j \in Steps : j > i /\ SpanAt(j).kind = "model"

\* A tool came back after the failure at step i.
RecoveredFrom(i) ==
  \E k \in Steps : k > i /\ ToolEnded(k, {"returned", "cancelled"})

------------------------------------------------------------------------------
(* Properties                                                               *)

\* The scratch space stays a scratch space, and the history a history.
TypeOK ==
  /\ state \in Scratch
  /\ trace \in Seq([span : Spans, emitted : SpanTypes \cup {None}])
  /\ closing = <<>> \/ (closing[1] \in Span /\ closing[2] \in Types \cup {None})

\* A loop is reported on the first step at which some call, repeated with the
\* same arguments, has come back without an error LOOP_THRESHOLD times, and on
\* no other: a retry that fails is never part of a loop (_detectors.py:54-63),
\* whatever is interleaved with it and whatever else that step reports.
LoopReportedAtFirstRepeat ==
  LET Crossed(i) == \E c \in Calls :
        Cardinality(Repeats(c, i, {"returned", "cancelled"})) >= LoopThreshold
  IN  \A i \in Steps :
        EmittedAt(i) = "loop" <=> Crossed(i) /\ \A j \in 1..(i - 1) : ~Crossed(j)

\* Retry amplification is reported on the first step by which the session, over
\* all its calls together, has spent RETRY_THRESHOLD failed attempts, and on no
\* other (_detectors.py:128-134).
RetriesReportedAtThreshold ==
  LET Crossed(i) == Cardinality(FailedAttempts(i)) >= RetryThreshold
  IN  \A i \in Steps :
        EmittedAt(i) = "retry_amplification"
          <=> Crossed(i) /\ \A j \in 1..(i - 1) : ~Crossed(j)

\* A crossed ceiling waits only for the detection slot of a span: every step with
\* a cost that ends over the ceiling reports it, or an earlier step has, or its
\* slot went to another detector, and then the next such step is under the same
\* duty; in a session that has no other such step it is not reported.  A ceiling
\* is reported only on a step that itself cost something, only when over, and
\* only once (_detectors.py:98-120, _detector_framework.py:163-176).
CeilingReportedOncePromptly ==
  \A i \in Steps :
    LET over == CeilingSet /\ SpanAt(i).cost > 0 /\ Spent(i) > CostCeiling
        Before(j) == j < i /\ EmittedAt(j) = "cost_ceiling"
    IN  /\ EmittedAt(i) = "cost_ceiling" => over /\ ~\E j \in Steps : Before(j)
        /\ over => \/ EmittedAt(i) # None
                   \/ \E j \in Steps : Before(j)

\* No type is reported twice in a session, so spanlight_detections_total counts
\* sessions and not the steps after the crossing (_detector_framework.py:168).
EachTypeReportedOnce ==
  \A i, j \in Steps : i # j /\ EmittedAt(i) # None => EmittedAt(i) # EmittedAt(j)

\* A silent tool failure is reported exactly when the session span did not end
\* in ERROR, a tool failed, a model ran after it, and no later tool success was
\* seen by the watcher after ANY failure.  A success on the step that reported
\* the loop is one the watcher did not see.
SilentFailureVerdict ==
  LET Witnessed(i) == \E k \in Steps :
        k > i /\ ToolEnded(k, {"returned", "cancelled"}) /\ EmittedAt(k) # "loop"
  IN  closing # <<>> =>
        (closing[2] = "silent_tool_failure"
          <=> /\ closing[1].outcome # "raised"
              /\ \E i \in Steps : AnsweredOver(i)
              /\ \A i \in Steps : ToolEnded(i, {"raised"}) => ~Witnessed(i))

------------------------------------------------------------------------------
(* What the comments of the source say, where the code does something else. *)

\* _detectors.py:194: a tool ended ERROR, a model ran after it, the session did
\* not end ERROR, and (:208) no tool succeeded after that failure: reported.
EveryUnrecoveredFailureReported ==
  closing # <<>> /\ closing[1].outcome = "returned" =>
    \A i \in Steps :
      AnsweredOver(i) /\ ~RecoveredFrom(i) => closing[2] = "silent_tool_failure"

==============================================================================
