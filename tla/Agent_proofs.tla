----------------------------- MODULE Agent_proofs -----------------------------
(***************************************************************************)
(* Proofs about the agent route: for every number of requests, every       *)
(* provider they share, every reply and every threshold, what a request is *)
(* answered, charged, reported and traced with is what happened to it.     *)
(***************************************************************************)
EXTENDS Agent, Detection_proofs, FiniteSetTheorems, WellFoundedInduction

------------------------------------------------------------------------------
(* What one span adds to a trail.                                           *)

\* The detections of a trail are those its scratch space remembers.
IsTrail(trail) ==
  /\ trail.scratch \in Scratch
  /\ trail.reports = trail.scratch.fired
  /\ trail.errors \in SUBSET (Kinds \X Classes)

\* The spans the route and the client end.
IsEnding(ending) ==
  /\ ending.span \in Span
  /\ ending.error \in Classes \cup {Absent}

LEMMA EndingFields ==
  ASSUME NEW kind, NEW call, NEW outcome, NEW cost, NEW error
  PROVE  LET e == Ending(kind, call, outcome, cost, error)
         IN  /\ e.span = [kind |-> kind, call |-> call, outcome |-> outcome, cost |-> cost]
             /\ e.error = error
BY DEF Ending

\* Every span of the route is one the detectors know.
LEMMA SpansAre ==
  ASSUME NEW kind \in Kinds, NEW outcome \in Outcomes, NEW cost \in Costs
  PROVE  [kind |-> kind, call |-> NoCall, outcome |-> outcome, cost |-> cost] \in Span
BY DEF Kinds, Span

LEMMA EndingIs ==
  ASSUME NEW kind \in Kinds, NEW outcome \in Outcomes, NEW cost \in Costs,
         NEW error \in Classes \cup {Absent}
  PROVE  LET e == Ending(kind, NoCall, outcome, cost, error)
         IN  /\ IsEnding(e) /\ e.error = error /\ e.span.kind = kind /\ e.span.cost = cost
             /\ FailedAttempt(e.span) <=> kind = "attempt" /\ outcome = "raised"
             /\ IsError(e.span) <=> outcome = "raised"
<1> DEFINE span == [kind |-> kind, call |-> NoCall, outcome |-> outcome, cost |-> cost]
           e    == Ending(kind, NoCall, outcome, cost, error)
<1>1. span \in Span
  BY SpansAre
<1>2. e.span = span /\ e.error = error
  BY EndingFields
<1>3. span.kind = kind /\ span.cost = cost /\ span.outcome = outcome
  OBVIOUS
<1> HIDE DEF span, e
<1> QED
  BY <1>1, <1>2, <1>3 DEF IsEnding, FailedAttempt, IsError, e

LEMMA ReturningIs ==
  ASSUME NEW kind \in Kinds, NEW cost \in Costs
  PROVE  LET e == Returning(kind, cost)
         IN  /\ IsEnding(e) /\ e.error = Absent /\ e.span.kind = kind /\ e.span.cost = cost
             /\ ~FailedAttempt(e.span) /\ ~IsError(e.span)
<1>1. "returned" \in Outcomes /\ "returned" # "raised"
  BY DEF Outcomes
<1> QED BY <1>1, EndingIs DEF Returning

LEMMA RaisingIs ==
  ASSUME NEW kind \in Kinds, NEW error \in Classes
  PROVE  LET e == Raising(kind, error)
         IN  /\ IsEnding(e) /\ e.error = error /\ e.error # Absent
             /\ e.span.kind = kind /\ e.span.cost = 0
             /\ FailedAttempt(e.span) <=> kind = "attempt"
             /\ IsError(e.span)
<1>1. "raised" \in Outcomes /\ 0 \in Costs /\ Absent \notin Classes
  BY AgentAssumption DEF Outcomes
<1> QED BY <1>1, EndingIs DEF Raising

LEMMA CancelledIs ==
  ASSUME NEW kind \in Kinds
  PROVE  LET e == Cancelled(kind)
         IN  /\ IsEnding(e) /\ e.error = Absent /\ e.span.kind = kind /\ e.span.cost = 0
             /\ ~FailedAttempt(e.span) /\ ~IsError(e.span)
<1>1. "cancelled" \in Outcomes /\ "cancelled" # "raised" /\ 0 \in Costs
  BY AgentAssumption DEF Outcomes
<1> QED BY <1>1, EndingIs DEF Cancelled

\* A span that is no session span.
LEMMA StepAdds ==
  ASSUME NEW trail, IsTrail(trail), NEW ending, IsEnding(ending),
         ending.span.kind # "session"
  PROVE  LET next   == After(trail, ending)
             s      == trail.scratch
             span   == ending.span
             failed == FailedAttempt(span)
         IN  /\ IsTrail(next)
             /\ next.scratch.cost = s.cost + span.cost
             /\ next.scratch.failedAttempts = IF failed THEN s.failedAttempts + 1
                                              ELSE s.failedAttempts
             /\ next.scratch.toolFailed <=>
                  s.toolFailed \/ (span.kind = "tool" /\ IsError(span))
             /\ next.scratch.recovered =>
                  s.recovered \/ (span.kind = "tool" /\ ~IsError(span) /\ s.toolFailed)
             /\ next.scratch.modelAfter <=>
                  s.modelAfter \/ (span.kind = "model" /\ s.toolFailed)
             /\ "silent_tool_failure" \in next.reports <=>
                  "silent_tool_failure" \in trail.reports
             /\ "retry_amplification" \in next.reports <=>
                  \/ "retry_amplification" \in trail.reports
                  \/ failed /\ s.failedAttempts + 1 >= RetryThreshold
             /\ ending.error = Absent => next.errors = trail.errors
             /\ ending.error # Absent =>
                  next.errors = trail.errors \cup {<<span.kind, ending.error>>}
<1> DEFINE next   == After(trail, ending)
           s      == trail.scratch
           span   == ending.span
           result == RunSpan(s, span)
<1>1. s \in Scratch /\ span \in Span /\ trail.reports = s.fired
  BY DEF IsTrail, IsEnding
<1>2. Leaves(result, s, span.cost, SpanTypes)
  BY <1>1, RunSpanLeaves
<1>3. /\ next.scratch = result.state
      /\ next.reports = trail.reports \cup ({result.emitted} \ {None})
      /\ next.errors = trail.errors \cup ({<<span.kind, ending.error>>} \ {<<span.kind, Absent>>})
  BY DEF After
<1>4. /\ ending.error = Absent => next.errors = trail.errors
      /\ ending.error # Absent =>
           next.errors = trail.errors \cup {<<span.kind, ending.error>>}
  BY <1>3
<1>5. span.kind \in Kinds
  BY <1>1 DEF Span, Kinds
<1>6. next.errors \in SUBSET (Kinds \X Classes)
  BY <1>4, <1>5 DEF IsTrail, IsEnding
<1>7. None \notin SpanTypes /\ "silent_tool_failure" \notin SpanTypes
  BY DEF None, SpanTypes
<1>8. s.fired \in SUBSET Types /\ None \notin Types
  BY <1>1 DEF Scratch, None, Types, SpanTypes
<1> HIDE DEF next, s, span, result
<1>9. /\ result.state \in Scratch /\ next.reports = next.scratch.fired
      /\ result.emitted = "retry_amplification" => "retry_amplification" \notin s.fired
      /\ "silent_tool_failure" \in next.reports <=> "silent_tool_failure" \in trail.reports
      /\ "retry_amplification" \in next.reports <=>
           \/ "retry_amplification" \in trail.reports
           \/ result.emitted = "retry_amplification"
      /\ next.scratch.cost = s.cost + span.cost
  BY <1>1, <1>2, <1>3, <1>7, <1>8 DEF Leaves
<1>10. IsTrail(next)
  BY <1>3, <1>6, <1>9 DEF IsTrail
<1>11. s.toolFailed \in BOOLEAN /\ s.recovered \in BOOLEAN /\ s.modelAfter \in BOOLEAN
  BY <1>1 DEF Scratch
<1>12. /\ result.emitted = "retry_amplification" <=>
            /\ FailedAttempt(span) /\ "retry_amplification" \notin s.fired
            /\ s.failedAttempts + 1 >= RetryThreshold
       /\ result.state.failedAttempts = IF FailedAttempt(span)
                                        THEN s.failedAttempts + 1 ELSE s.failedAttempts
       /\ result.state.toolFailed = (s.toolFailed \/ (span.kind = "tool" /\ IsError(span)))
       /\ result.state.recovered =>
            s.recovered \/ (span.kind = "tool" /\ ~IsError(span) /\ s.toolFailed)
       /\ result.state.modelAfter = (s.modelAfter \/ (span.kind = "model" /\ s.toolFailed))
  BY <1>1, <1>11, RunSpanFacts DEF result
<1> QED
  BY <1>1, <1>3, <1>4, <1>9, <1>10, <1>12 DEF next, s, span

\* The session span.
LEMMA SessionAdds ==
  ASSUME NEW trail, IsTrail(trail), NEW ending, IsEnding(ending),
         ending.span.kind = "session", "silent_tool_failure" \notin trail.reports
  PROVE  LET next == After(trail, ending)
             s    == trail.scratch
             span == ending.span
         IN  /\ IsTrail(next)
             /\ next.scratch.cost = s.cost + span.cost
             /\ "silent_tool_failure" \in next.reports <=>
                  s.modelAfter /\ ~IsError(span) /\ ~s.recovered
             /\ "retry_amplification" \in next.reports <=>
                  "retry_amplification" \in trail.reports
             /\ ending.error = Absent => next.errors = trail.errors
             /\ ending.error # Absent =>
                  next.errors = trail.errors \cup {<<"session", ending.error>>}
<1> DEFINE next   == After(trail, ending)
           s      == trail.scratch
           span   == ending.span
           result == RunSession(s, span)
           silent == "silent_tool_failure"
<1>1. s \in Scratch /\ span \in Span /\ trail.reports = s.fired
  BY DEF IsTrail, IsEnding
<1>2. Leaves(result, s, span.cost, {silent})
  BY <1>1, RunSessionLeaves
<1>3. /\ next.scratch = result.state
      /\ next.reports = trail.reports \cup ({result.emitted} \ {None})
      /\ next.errors = trail.errors \cup ({<<"session", ending.error>>} \ {<<"session", Absent>>})
  BY DEF After
<1>4. /\ ending.error = Absent => next.errors = trail.errors
      /\ ending.error # Absent =>
           next.errors = trail.errors \cup {<<"session", ending.error>>}
  BY <1>3
<1>5. next.errors \in SUBSET (Kinds \X Classes)
  BY <1>4 DEF IsTrail, IsEnding, Kinds
<1>6. result.emitted = silent <=> s.modelAfter /\ ~IsError(span) /\ ~s.recovered
  BY <1>1, VerdictFacts
<1>7. None # silent /\ s.fired \in SUBSET Types /\ None \notin Types
  BY <1>1 DEF Scratch, None, Types, SpanTypes
<1> HIDE DEF next, s, span, result
<1>8. /\ result.state \in Scratch /\ next.reports = next.scratch.fired
      /\ silent \in next.reports <=> result.emitted = silent
      /\ "retry_amplification" \in next.reports <=> "retry_amplification" \in trail.reports
      /\ next.scratch.cost = s.cost + span.cost
  BY <1>1, <1>2, <1>3, <1>7 DEF Leaves
<1>9. IsTrail(next)
  BY <1>3, <1>5, <1>8 DEF IsTrail
<1> QED
  BY <1>4, <1>6, <1>8, <1>9 DEF next, s, span

------------------------------------------------------------------------------
(* The trails of a request.                                                 *)

ToolFailedIn(errors_) == \E e \in errors_ : e[1] = "tool"
On(errors_, kind) == {e[2] : e \in {f \in errors_ : f[1] = kind}}

\* What a request has left behind while its call is not over, n of its attempts
\* having failed.
Underway(trail, n) ==
  /\ IsTrail(trail)
  /\ trail.scratch.cost = 0 /\ trail.scratch.failedAttempts = n
  /\ trail.scratch.toolFailed <=> ToolFailedIn(trail.errors)
  /\ ~trail.scratch.recovered /\ ~trail.scratch.modelAfter
  /\ "silent_tool_failure" \notin trail.reports
  /\ "retry_amplification" \in trail.reports <=> n >= RetryThreshold
  /\ \A e \in trail.errors : e[1] \in {"tool", "attempt"}

\* The tool and the retrieval leave at most the tool's failure.
LEMMA StepsLead ==
  ASSUME NEW r \in Requests, NEW call \in Calls, NEW toolFails \in BOOLEAN,
         scratch[r] = Fresh, reports[r] = {}, errors[r] = {}
  PROVE  Underway(Steps(r, call, toolFails), 0)
<1> DEFINE error == IF toolFails THEN "SchemeIndexUnavailable" ELSE Absent
           outcome == IF toolFails THEN "raised" ELSE "returned"
           tool  == Ending("tool", call, outcome, 0, error)
           first == After(SoFar(r), tool)
           back  == Returning("retrieval", 0)
           last  == After(first, back)
<1>1. /\ IsEnding(tool) /\ tool.error = error
      /\ tool.span = [kind |-> "tool", call |-> call, outcome |-> outcome, cost |-> 0]
  <2>1. [kind |-> "tool", call |-> call, outcome |-> outcome, cost |-> 0] \in Span
    BY AgentAssumption DEF Span, Outcomes
  <2>2. error \in Classes \cup {Absent}
    BY DEF Classes
  <2> HIDE DEF error, outcome
  <2> QED BY <2>1, <2>2, EndingFields DEF IsEnding
<1>2. /\ IsTrail(SoFar(r)) /\ SoFar(r).scratch = Fresh
      /\ SoFar(r).reports = {} /\ SoFar(r).errors = {}
  BY FreshType DEF IsTrail, SoFar, Fresh
<1>3. /\ Fresh.cost = 0 /\ Fresh.failedAttempts = 0 /\ ~Fresh.toolFailed
      /\ ~Fresh.recovered /\ ~Fresh.modelAfter /\ Fresh \in Scratch
  BY FreshType DEF Fresh
<1>4. /\ ~FailedAttempt(tool.span)
      /\ IsError(tool.span) <=> toolFails
      /\ tool.span.kind = "tool" /\ tool.span.cost = 0
  BY <1>1 DEF FailedAttempt, IsError
<1> HIDE DEF first
<1>5. /\ IsTrail(first) /\ first.scratch.cost = 0 /\ first.scratch.failedAttempts = 0
      /\ first.scratch.toolFailed <=> toolFails
      /\ ~first.scratch.recovered /\ ~first.scratch.modelAfter
      /\ "silent_tool_failure" \notin first.reports
      /\ "retry_amplification" \notin first.reports
      /\ error = Absent => first.errors = {}
      /\ error # Absent => first.errors = {<<"tool", error>>}
  <2> HIDE DEF tool, error
  <2>1. ("tool" # "session") /\ ("tool" # "model")
    OBVIOUS
  <2> QED
    BY <1>1, <1>2, <1>3, <1>4, <2>1, StepAdds DEF first
<1>6. /\ IsEnding(back) /\ back.error = Absent /\ back.span.kind = "retrieval"
      /\ ~FailedAttempt(back.span) /\ ~IsError(back.span) /\ back.span.cost = 0
  BY ReturningIs, AgentAssumption DEF Kinds
<1>7. error = Absent <=> ~toolFails
  BY AgentAssumption DEF Classes
<1> HIDE DEF back, tool, last, error
<1>8. /\ IsTrail(last) /\ last.scratch.cost = 0 /\ last.scratch.failedAttempts = 0
      /\ last.scratch.toolFailed <=> toolFails
      /\ ~last.scratch.recovered /\ ~last.scratch.modelAfter
      /\ "silent_tool_failure" \notin last.reports
      /\ "retry_amplification" \notin last.reports
      /\ last.errors = first.errors
  <2>1. ("retrieval" # "session") /\ ("retrieval" # "tool") /\ ("retrieval" # "model")
    OBVIOUS
  <2> QED
    BY <1>5, <1>6, <2>1, StepAdds DEF last
<1>9. ToolFailedIn(last.errors) <=> toolFails
  <2>1. toolFails => <<"tool", error>> \in last.errors
    BY <1>5, <1>7, <1>8
  <2>2. ~toolFails => last.errors = {}
    BY <1>5, <1>7, <1>8
  <2> QED BY <2>1, <2>2 DEF ToolFailedIn
<1>10. \A e \in last.errors : e[1] \in {"tool", "attempt"}
  BY <1>5, <1>8
<1>11. ~(0 >= RetryThreshold)
  BY DetectionAssumption
<1>12. Underway(last, 0)
  BY <1>8, <1>9, <1>10, <1>11 DEF Underway
<1> QED
  BY <1>12 DEF Steps, last, first, tool, back, error

\* An attempt that fails is one more.
LEMMA AttemptFails ==
  ASSUME NEW trail, NEW n \in Nat, Underway(trail, n), NEW error \in Classes
  PROVE  Underway(After(trail, Raising("attempt", error)), n + 1)
<1> DEFINE e == Raising("attempt", error)
           next == After(trail, e)
<1>1. /\ IsEnding(e) /\ e.error = error /\ e.span.kind = "attempt"
      /\ FailedAttempt(e.span) /\ IsError(e.span) /\ e.span.cost = 0
  BY RaisingIs DEF Kinds
<1>2. error # Absent
  BY AgentAssumption
<1> HIDE DEF e, next
<1>3. /\ IsTrail(next) /\ next.scratch.cost = 0 /\ next.scratch.failedAttempts = n + 1
      /\ next.scratch.toolFailed <=> trail.scratch.toolFailed
      /\ ~next.scratch.recovered /\ ~next.scratch.modelAfter
      /\ "silent_tool_failure" \notin next.reports
      /\ "retry_amplification" \in next.reports <=>
           "retry_amplification" \in trail.reports \/ n + 1 >= RetryThreshold
      /\ next.errors = trail.errors \cup {<<"attempt", error>>}
  <2>1. ("attempt" # "session") /\ ("attempt" # "tool") /\ ("attempt" # "model")
    OBVIOUS
  <2> QED
    BY <1>1, <1>2, <2>1, StepAdds DEF next, Underway
<1>4. "retry_amplification" \in next.reports <=> n + 1 >= RetryThreshold
  BY <1>3, DetectionAssumption DEF Underway
<1>5. /\ ToolFailedIn(next.errors) <=> ToolFailedIn(trail.errors)
      /\ \A f \in next.errors : f[1] \in {"tool", "attempt"}
  BY <1>3 DEF ToolFailedIn, Underway
<1>6. Underway(next, n + 1)
  BY <1>3, <1>4, <1>5 DEF Underway
<1> QED BY <1>6 DEF next, e

\* An attempt that returns, or is cancelled, leaves nothing.
LEMMA AttemptEnds ==
  ASSUME NEW trail, NEW n \in Nat, Underway(trail, n), NEW e,
         e \in {Returning("attempt", 0), Cancelled("attempt")}
  PROVE  Underway(After(trail, e), n)
<1> DEFINE next == After(trail, e)
<1>1. /\ IsEnding(e) /\ e.error = Absent /\ e.span.kind = "attempt"
      /\ ~FailedAttempt(e.span) /\ ~IsError(e.span) /\ e.span.cost = 0
  <2>1. "attempt" \in Kinds /\ 0 \in Costs
    BY AgentAssumption DEF Kinds
  <2>2. CASE e = Returning("attempt", 0)
    BY <2>1, <2>2, ReturningIs
  <2>3. CASE e = Cancelled("attempt")
    BY <2>1, <2>3, CancelledIs
  <2> QED BY <2>2, <2>3
<1> HIDE DEF next
<1>2. /\ IsTrail(next) /\ next.scratch.cost = 0 /\ next.scratch.failedAttempts = n
      /\ next.scratch.toolFailed <=> trail.scratch.toolFailed
      /\ ~next.scratch.recovered /\ ~next.scratch.modelAfter
      /\ "silent_tool_failure" \notin next.reports
      /\ "retry_amplification" \in next.reports <=> "retry_amplification" \in trail.reports
      /\ next.errors = trail.errors
  <2>1. ("attempt" # "session") /\ ("attempt" # "tool") /\ ("attempt" # "model")
    OBVIOUS
  <2> QED
    BY <1>1, <2>1, StepAdds DEF next, Underway
<1>3. Underway(next, n)
  BY <1>2 DEF Underway
<1> QED BY <1>3 DEF next

\* The errors a trail may have; those with none of one kind of span.
AreErrors(E) == E \in SUBSET (Kinds \X Classes)
Lacks(E, kind) == \A f \in E : f[1] # kind
Plus(E, kind, error) == E \cup {<<kind, error>>}

LEMMA OnIs ==
  ASSUME NEW E, AreErrors(E), NEW kind, NEW error
  PROVE  error \in On(E, kind) <=> <<kind, error>> \in E
<1>1. ASSUME error \in On(E, kind) PROVE <<kind, error>> \in E
  <2>1. PICK f \in E : f[1] = kind /\ error = f[2]
    BY <1>1 DEF On
  <2>2. f \in Kinds \X Classes
    BY <2>1 DEF AreErrors
  <2>3. f = <<f[1], f[2]>>
    BY <2>2
  <2> QED BY <2>1, <2>3
<1>2. ASSUME <<kind, error>> \in E PROVE error \in On(E, kind)
  <2>1. <<kind, error>>[1] = kind /\ <<kind, error>>[2] = error
    OBVIOUS
  <2> QED BY <1>2, <2>1 DEF On
<1> QED BY <1>1, <1>2

\* The errors of one kind of span, when the first of the kind is recorded.
LEMMA OnNew ==
  ASSUME NEW E, AreErrors(E), NEW kind \in Kinds, NEW error \in Classes, Lacks(E, kind)
  PROVE  /\ AreErrors(Plus(E, kind, error))
         /\ On(Plus(E, kind, error), kind) = {error}
<1> DEFINE more == Plus(E, kind, error)
<1>1. \A x : <<kind, x>> \notin E
  <2>1. \A x : <<kind, x>>[1] = kind
    OBVIOUS
  <2> QED BY <2>1 DEF Lacks
<1>2. AreErrors(more)
  BY DEF AreErrors, Plus
<1>3. \A x : <<kind, x>> \in more <=> x = error
  BY <1>1 DEF Plus
<1> HIDE DEF more
<1>4. \A x : x \in On(more, kind) <=> x = error
  BY <1>2, <1>3, OnIs
<1> QED BY <1>2, <1>4 DEF more

\* What is recorded of one kind of span is nothing to another.
LEMMA OnOther ==
  ASSUME NEW E, AreErrors(E), NEW kind \in Kinds, NEW error \in Classes,
         NEW other, other # kind
  PROVE  /\ On(Plus(E, kind, error), other) = On(E, other)
         /\ Lacks(E, other) => Lacks(Plus(E, kind, error), other)
<1> DEFINE more == Plus(E, kind, error)
<1>1. AreErrors(more)
  BY DEF AreErrors, Plus
<1>2. \A x : <<other, x>> \in more <=> <<other, x>> \in E
  BY DEF Plus
<1>3. <<kind, error>>[1] = kind
  OBVIOUS
<1>4. Lacks(E, other) => Lacks(more, other)
  BY <1>3 DEF Lacks, Plus
<1> HIDE DEF more
<1>5. \A x : x \in On(more, other) <=> x \in On(E, other)
  BY <1>1, <1>2, OnIs
<1> QED BY <1>4, <1>5 DEF more

\* The errors of a request whose model span, if it had one, and session failed.
LEMMA ErrorsEnd ==
  ASSUME NEW E, AreErrors(E), Lacks(E, "model"), Lacks(E, "session"),
         NEW error \in Classes, NEW converted \in Classes
  PROVE  LET F == Plus(E, "model", error)
         IN  /\ On(Plus(F, "session", converted), "session") = {converted}
             /\ On(Plus(F, "session", converted), "model") = {error}
             /\ On(Plus(E, "session", converted), "session") = {converted}
             /\ On(Plus(E, "session", converted), "model") = {}
<1> DEFINE F == Plus(E, "model", error)
<1>1. "session" \in Kinds /\ "model" \in Kinds /\ "model" # "session"
  BY DEF Kinds
<1>2. AreErrors(F) /\ On(F, "model") = {error} /\ Lacks(F, "session")
  BY <1>1, OnNew, OnOther
<1>3. On(E, "model") = {}
  BY DEF On, Lacks
<1> HIDE DEF F
<1>4. /\ On(Plus(F, "session", converted), "session") = {converted}
      /\ On(Plus(E, "session", converted), "session") = {converted}
  BY <1>1, <1>2, OnNew
<1>5. /\ On(Plus(F, "session", converted), "model") = On(F, "model")
      /\ On(Plus(E, "session", converted), "model") = On(E, "model")
  BY <1>1, <1>2, OnOther
<1> QED BY <1>2, <1>3, <1>4, <1>5 DEF F

\* The model span ends: the watcher has seen the model run.
LEMMA ModelEnds ==
  ASSUME NEW trail, NEW n \in Nat, Underway(trail, n), NEW e,
         IsEnding(e), e.span.kind = "model"
  PROVE  LET next == After(trail, e)
         IN  /\ IsTrail(next)
             /\ next.scratch.cost = e.span.cost
             /\ next.scratch.modelAfter <=> ToolFailedIn(trail.errors)
             /\ ~next.scratch.recovered
             /\ "silent_tool_failure" \notin next.reports
             /\ "retry_amplification" \in next.reports <=> n >= RetryThreshold
             /\ e.error = Absent => next.errors = trail.errors
             /\ e.error # Absent => next.errors = trail.errors \cup {<<"model", e.error>>}
<1>1. ("model" # "session") /\ ("model" # "tool") /\ ("model" # "attempt")
  OBVIOUS
<1>2. ~FailedAttempt(e.span)
  BY <1>1 DEF FailedAttempt
<1>3. e.span.cost \in Nat
  BY SpanFields DEF IsEnding
<1> QED BY <1>1, <1>2, <1>3, StepAdds DEF Underway

\* The trail of a request whose call failed with error, answered as converted.
LEMMA CallFails ==
  ASSUME NEW trail, NEW n \in Nat, Underway(trail, n),
         NEW error \in Classes, NEW converted \in Classes
  PROVE  LET last == After(After(trail, Raising("model", error)),
                           Raising("session", converted))
         IN  /\ IsTrail(last) /\ last.scratch.cost = 0
             /\ "silent_tool_failure" \notin last.reports
             /\ "retry_amplification" \in last.reports <=> n >= RetryThreshold
             /\ On(last.errors, "session") = {converted}
             /\ On(last.errors, "model") = {error}
<1> DEFINE model == Raising("model", error)
           whole == Raising("session", converted)
           next  == After(trail, model)
           last  == After(next, whole)
<1>1. /\ IsEnding(model) /\ model.error = error /\ model.error # Absent
      /\ model.span.kind = "model" /\ model.span.cost = 0
  BY RaisingIs DEF Kinds
<1>2. /\ IsEnding(whole) /\ whole.error = converted /\ whole.error # Absent
      /\ whole.span.kind = "session" /\ whole.span.cost = 0 /\ IsError(whole.span)
  BY RaisingIs DEF Kinds
<1> HIDE DEF model, whole, next, last
<1>3. /\ IsTrail(next) /\ next.scratch.cost = 0
      /\ "silent_tool_failure" \notin next.reports
      /\ "retry_amplification" \in next.reports <=> n >= RetryThreshold
      /\ next.errors = trail.errors \cup {<<"model", error>>}
  BY <1>1, ModelEnds DEF next
<1>4. /\ IsTrail(last) /\ last.scratch.cost = 0
      /\ "silent_tool_failure" \notin last.reports
      /\ "retry_amplification" \in last.reports <=> n >= RetryThreshold
      /\ last.errors = next.errors \cup {<<"session", converted>>}
  BY <1>2, <1>3, SessionAdds DEF last
<1>5. /\ AreErrors(trail.errors)
      /\ Lacks(trail.errors, "model") /\ Lacks(trail.errors, "session")
      /\ last.errors = Plus(Plus(trail.errors, "model", error), "session", converted)
  BY <1>3, <1>4 DEF Underway, IsTrail, AreErrors, Lacks, Plus
<1>6. On(last.errors, "session") = {converted} /\ On(last.errors, "model") = {error}
  BY <1>5, ErrorsEnd
<1> QED BY <1>4, <1>6 DEF last, next, whole, model

\* The trail of a request that never made its call.
LEMMA StepsFail ==
  ASSUME NEW trail, NEW n \in Nat, Underway(trail, n), NEW converted \in Classes
  PROVE  LET last == After(trail, Raising("session", converted))
         IN  /\ IsTrail(last) /\ last.scratch.cost = 0
             /\ "silent_tool_failure" \notin last.reports
             /\ "retry_amplification" \in last.reports <=> n >= RetryThreshold
             /\ On(last.errors, "session") = {converted}
             /\ On(last.errors, "model") = {}
<1> DEFINE whole == Raising("session", converted)
           last  == After(trail, whole)
<1>1. /\ IsEnding(whole) /\ whole.error = converted /\ whole.error # Absent
      /\ whole.span.kind = "session" /\ whole.span.cost = 0 /\ IsError(whole.span)
  BY RaisingIs DEF Kinds
<1> HIDE DEF whole, last
<1>2. /\ IsTrail(last) /\ last.scratch.cost = 0
      /\ "silent_tool_failure" \notin last.reports
      /\ "retry_amplification" \in last.reports <=> n >= RetryThreshold
      /\ last.errors = trail.errors \cup {<<"session", converted>>}
  BY <1>1, SessionAdds DEF last, Underway
<1>3. /\ AreErrors(trail.errors)
      /\ Lacks(trail.errors, "model") /\ Lacks(trail.errors, "session")
      /\ last.errors = Plus(trail.errors, "session", converted)
      /\ "SchemeIndexUnavailable" \in Classes
  BY <1>2 DEF Underway, IsTrail, AreErrors, Lacks, Plus, Classes
<1>4. On(last.errors, "session") = {converted} /\ On(last.errors, "model") = {}
  BY <1>3, ErrorsEnd
<1> QED BY <1>2, <1>4 DEF last, whole

\* The trail of a request that was answered: the tool failure is reported now.
LEMMA CallReturns ==
  ASSUME NEW trail, NEW n \in Nat, Underway(trail, n), NEW cost \in Costs
  PROVE  LET last == After(After(After(trail, Returning("attempt", 0)),
                                 Returning("model", cost)),
                           Returning("session", 0))
         IN  /\ IsTrail(last) /\ last.scratch.cost = cost
             /\ "silent_tool_failure" \in last.reports <=> ToolFailedIn(last.errors)
             /\ "retry_amplification" \in last.reports <=> n >= RetryThreshold
<1> DEFINE first == After(trail, Returning("attempt", 0))
           model == Returning("model", cost)
           whole == Returning("session", 0)
           next  == After(first, model)
           last  == After(next, whole)
<1>1. /\ IsEnding(model) /\ model.error = Absent
      /\ model.span.kind = "model" /\ model.span.cost = cost
  BY ReturningIs DEF Kinds
<1>2. /\ IsEnding(whole) /\ whole.error = Absent
      /\ whole.span.kind = "session" /\ whole.span.cost = 0 /\ ~IsError(whole.span)
  BY ReturningIs, AgentAssumption DEF Kinds
<1>3. Underway(first, n)
  BY AttemptEnds
<1> HIDE DEF first, model, whole, next, last
<1>4. /\ IsTrail(next) /\ next.scratch.cost = cost
      /\ next.scratch.modelAfter <=> ToolFailedIn(first.errors)
      /\ ~next.scratch.recovered
      /\ "silent_tool_failure" \notin next.reports
      /\ "retry_amplification" \in next.reports <=> n >= RetryThreshold
      /\ next.errors = first.errors
  BY <1>1, <1>3, ModelEnds DEF next
<1>5. cost \in Nat
  BY DetectionAssumption
<1>6. /\ IsTrail(last) /\ last.scratch.cost = cost
      /\ "silent_tool_failure" \in last.reports <=> ToolFailedIn(first.errors)
      /\ "retry_amplification" \in last.reports <=> n >= RetryThreshold
      /\ last.errors = first.errors
  BY <1>2, <1>4, <1>5, SessionAdds DEF last
<1> QED BY <1>6 DEF last, next, whole, model, first

\* The trail of a request whose task was cancelled.
LEMMA CallCancelled ==
  ASSUME NEW trail, NEW n \in Nat, Underway(trail, n)
  PROVE  LET last == After(After(trail, Cancelled("model")), Cancelled("session"))
         IN  IsTrail(last) /\ last.scratch.cost = 0
<1> DEFINE model == Cancelled("model")
           whole == Cancelled("session")
           next  == After(trail, model)
           last  == After(next, whole)
<1>1. /\ IsEnding(model) /\ model.error = Absent
      /\ model.span.kind = "model" /\ model.span.cost = 0
  BY CancelledIs DEF Kinds
<1>2. /\ IsEnding(whole) /\ whole.error = Absent
      /\ whole.span.kind = "session" /\ whole.span.cost = 0
  BY CancelledIs DEF Kinds
<1> HIDE DEF model, whole, next, last
<1>3. /\ IsTrail(next) /\ next.scratch.cost = 0 /\ "silent_tool_failure" \notin next.reports
  BY <1>1, ModelEnds DEF next
<1>4. IsTrail(last) /\ last.scratch.cost = 0
  BY <1>2, <1>3, SessionAdds DEF last
<1> QED BY <1>4 DEF last, next, whole, model

------------------------------------------------------------------------------
(* Replies.                                                                 *)

\* The first text a 429 has that is a number, or what its message has.
LEMMA FirstGivenIs ==
  ASSUME NEW Text, NEW asked \in Seq(Text), NEW inMessage \in Text
  PROVE  LET given == {i \in DOMAIN asked : asked[i] \notin {Absent, Unreadable}}
         IN  /\ FirstGiven(asked, inMessage) \in Text
             /\ given = {} => FirstGiven(asked, inMessage) = inMessage
             /\ given # {} => FirstGiven(asked, inMessage) \notin {Absent, Unreadable}
<1> DEFINE given == {i \in DOMAIN asked : asked[i] \notin {Absent, Unreadable}}
           first == CHOOSE i \in given : \A j \in given : i <= j
<1>1. given = {} => FirstGiven(asked, inMessage) = inMessage
  BY DEF FirstGiven
<1>2. ASSUME given # {}
      PROVE  /\ FirstGiven(asked, inMessage) \in Text
             /\ FirstGiven(asked, inMessage) \notin {Absent, Unreadable}
  <2>1. given \in SUBSET Nat
    OBVIOUS
  <2>2. \E i \in given : \A j \in given : i <= j
    <3> HIDE DEF given
    <3>1. PICK i \in given : \A j \in given : <<j, i>> \notin OpToRel(<, Nat)
      BY <1>2, <2>1, NatLessThanWellFounded, WFMin
    <3>2. ASSUME NEW j \in given, j < i PROVE FALSE
      <4>1. <<j, i>> \in OpToRel(<, Nat)
        BY <2>1, <3>2 DEF OpToRel
      <4> QED BY <3>1, <4>1
    <3>3. \A j \in given : i <= j
      BY <2>1, <3>2
    <3> QED BY <3>3
  <2>3. first \in given
    <3> HIDE DEF given
    <3> QED BY <2>2
  <2>4. first \in DOMAIN asked /\ asked[first] \notin {Absent, Unreadable}
    BY <2>3
  <2>5. FirstGiven(asked, inMessage) = asked[first]
    BY <1>2 DEF FirstGiven
  <2> HIDE DEF first, given
  <2> QED BY <2>4, <2>5
<1> QED BY <1>1, <1>2

\* The delays a 429 may ask for are delays the client's gate can hold, unless
\* there is none, or the reply is one whose only delay is no number.
LEMMA RetryAfterType ==
  ASSUME NEW reply, IsReply(reply)
  PROVE  /\ RetryAfter(reply) \in (0..Forever) \cup {Absent, Unreadable}
         /\ reply.status = 429 => (RetryAfter(reply) = Unreadable <=> Garbled(reply))
<1> DEFINE Text  == {Absent, Unreadable, NaN, Inf} \cup {n \in Int : n < Forever}
           asked == Asked(reply)
           given == {i \in DOMAIN asked : asked[i] \notin {Absent, Unreadable}}
           last  == IF reply.body THEN InMessage(reply) ELSE Absent
           text  == FirstGiven(asked, last)
<1>1. /\ reply.header \in Text /\ reply.details \in Seq(Text)
      /\ InMessage(reply) \in Text /\ reply.body \in BOOLEAN /\ Absent \in Text
  BY DEF IsReply
<1>2. asked \in Seq(Text) /\ last \in Text
  <2> HIDE DEF Text
  <2>1. <<reply.header>> \in Seq(Text) /\ <<>> \in Seq(Text)
    BY <1>1
  <2> QED BY <1>1, <2>1 DEF Asked
<1>3. /\ text \in Text
      /\ given = {} => text = last
      /\ given # {} => text \notin {Absent, Unreadable}
  <2> HIDE DEF Text, asked, last
  <2> QED BY <1>2, FirstGivenIs
<1>4. RetryAfter(reply) = IF text \in {Absent, Unreadable} THEN text ELSE Delay(text)
  BY DEF RetryAfter, DelayGiven
<1>5. text \notin {Absent, Unreadable} => Delay(text) \in 0..Forever
  <2>1. text \in Text
    BY <1>3
  <2> HIDE DEF text
  <2> QED BY <2>1, ProviderAssumption DEF Delay
<1>6. Absent # Unreadable /\ Unreadable \notin Int
  BY ProviderAssumption
<1>7. RetryAfter(reply) = Unreadable <=> text = Unreadable
  <2> HIDE DEF text
  <2> QED BY <1>4, <1>5, <1>6
<1>8. InMessage(reply) = Unreadable <=> reply.message = Unreadable
  <2>1. ASSUME reply.message \in Int PROVE (reply.message + 999) \div 1000 \in Int
    BY <2>1
  <2> QED BY <1>6, <2>1 DEF InMessage
<1>9. given = {} <=> /\ reply.header \in {Absent, Unreadable}
                     /\ reply.body => \A i \in DOMAIN reply.details :
                                        reply.details[i] \in {Absent, Unreadable}
  <2> DEFINE details == IF reply.body THEN reply.details ELSE <<>>
  <2>1. /\ details \in Seq(Text)
        /\ asked = <<reply.header>> \o details
    <3> HIDE DEF Text
    <3>1. <<>> \in Seq(Text)
      OBVIOUS
    <3> QED BY <1>1, <3>1 DEF Asked
  <2>2. /\ DOMAIN asked = 1..(Len(details) + 1) /\ asked[1] = reply.header
        /\ \A i \in 1..Len(details) : asked[i + 1] = details[i]
        /\ DOMAIN details = 1..Len(details) /\ Len(details) \in Nat
    <3> HIDE DEF Text, details, asked
    <3>1. /\ <<reply.header>> \in Seq(Text) /\ Len(<<reply.header>>) = 1
          /\ <<reply.header>>[1] = reply.header
      BY <1>1
    <3> QED BY <2>1, <3>1
  <2>3. given = {} <=> \A i \in DOMAIN asked : asked[i] \in {Absent, Unreadable}
    OBVIOUS
  <2> DEFINE Says(x) == x \notin {Absent, Unreadable}
  <2>4. (\A i \in DOMAIN asked : ~Says(asked[i]))
          <=> ~Says(reply.header) /\ \A i \in DOMAIN details : ~Says(details[i])
    <3> HIDE DEF details, asked, Says
    <3>1. \A i \in 1..(Len(details) + 1) : i = 1 \/ i - 1 \in 1..Len(details)
      BY <2>2
    <3>2. \A i \in 1..Len(details) : i + 1 \in 1..(Len(details) + 1)
      BY <2>2
    <3>3. ASSUME ~Says(reply.header), \A i \in DOMAIN details : ~Says(details[i]),
                 NEW i \in DOMAIN asked
          PROVE  ~Says(asked[i])
      <4>1. CASE i = 1
        BY <2>2, <3>3, <4>1
      <4>2. CASE i - 1 \in 1..Len(details)
        <5>1. asked[(i - 1) + 1] = details[i - 1] /\ (i - 1) + 1 = i
          BY <2>2, <4>2, <3>3
        <5> QED BY <2>2, <3>3, <4>2, <5>1
      <4> QED BY <2>2, <3>1, <3>3, <4>1, <4>2
    <3>4. ASSUME \A i \in DOMAIN asked : ~Says(asked[i]) PROVE ~Says(reply.header)
      <4>1. 1 \in DOMAIN asked
        BY <2>2
      <4> QED BY <2>2, <3>4, <4>1
    <3>5. ASSUME \A i \in DOMAIN asked : ~Says(asked[i]), NEW i \in DOMAIN details
          PROVE  ~Says(details[i])
      BY <2>2, <3>2, <3>5
    <3> QED BY <3>3, <3>4, <3>5
  <2>5. (\A i \in DOMAIN details : ~Says(details[i]))
          <=> (reply.body => \A i \in DOMAIN reply.details : ~Says(reply.details[i]))
    <3> HIDE DEF Says
    <3>1. CASE reply.body
      BY <3>1
    <3>2. CASE ~reply.body
      <4>1. DOMAIN <<>> = {}
        OBVIOUS
      <4> QED BY <3>2, <4>1
    <3> QED BY <3>1, <3>2
  <2> HIDE DEF asked, details, given
  <2> QED BY <2>3, <2>4, <2>5
<1>10. text = Unreadable <=> given = {} /\ reply.body /\ reply.message = Unreadable
  <2>1. last = Unreadable <=> reply.body /\ reply.message = Unreadable
    BY <1>6, <1>8
  <2> HIDE DEF text, given, last
  <2> QED BY <1>3, <2>1
<1>11. RetryAfter(reply) \in (0..Forever) \cup {Absent, Unreadable}
  <2> HIDE DEF text
  <2> QED BY <1>4, <1>5
<1> HIDE DEF text, given
<1> QED BY <1>7, <1>9, <1>10, <1>11 DEF Garbled

\* The exception a reply is turned into is a class that spans record.
LEMMA RaisesIs ==
  ASSUME NEW reply, IsReply(reply)
  PROVE  /\ Raises(reply) \in Classes \cup {Absent}
         /\ reply.status = Absent => Raises(reply) = "ProviderConfigError"
         /\ reply.status = 429 =>
              Raises(reply) = IF Garbled(reply) THEN "ValueError" ELSE "RateLimitError"
         /\ reply.status \in {0} \cup 500..599 => Raises(reply) = "ProviderError"
         /\ reply.status \in 400..499 \ {429} => Raises(reply) = "ProviderClientError"
         /\ reply.status \in 200..399 /\ ~reply.body => Raises(reply) = "KeyError"
         /\ reply.status \in 200..399 /\ reply.body => Raises(reply) = Absent
         /\ \/ reply.status = Absent
            \/ reply.status = 429
            \/ reply.status \in {0} \cup 500..599
            \/ reply.status \in 400..499 \ {429}
            \/ reply.status \in 200..399
<1>1. Absent \notin Int
  BY ProviderAssumption
<1>2. reply.status \in {Absent, 0} \cup 200..599 /\ reply.body \in BOOLEAN
  BY DEF IsReply
<1> DEFINE code == reply.status
<1>3. ASSUME code = Absent PROVE Raises(reply) = "ProviderConfigError"
  <2>1. /\ code # 429 /\ code \notin {0} \cup 500..599
        /\ code \notin 400..499 \ {429} /\ code \notin 200..399
    BY <1>1, <1>3
  <2> QED BY <1>3, <2>1 DEF Raises
<1>4. ASSUME code = 429
      PROVE  Raises(reply) = IF Garbled(reply) THEN "ValueError" ELSE "RateLimitError"
  <2>1. Raises(reply) = IF RetryAfter(reply) = Unreadable THEN "ValueError" ELSE "RateLimitError"
    BY <1>1, <1>4 DEF Raises
  <2> QED BY <1>4, <2>1, RetryAfterType
<1>5. ASSUME code \in {0} \cup 500..599 PROVE Raises(reply) = "ProviderError"
  <2>1. code \in Int /\ code # 429
    BY <1>5
  <2>2. code # Absent
    BY <1>1, <2>1
  <2>3. code \notin 400..499 \ {429} /\ code \notin 200..399
    <3> HIDE DEF code
    <3> QED BY <1>5, <2>1
  <2> QED BY <1>5, <2>1, <2>2, <2>3 DEF Raises
<1>6. ASSUME code \in 400..499 \ {429} PROVE Raises(reply) = "ProviderClientError"
  <2>1. code \in Int /\ code # 429
    BY <1>6
  <2>2. code # Absent
    BY <1>1, <2>1
  <2>3. code \notin {0} \cup 500..599 /\ code \notin 200..399
    <3> HIDE DEF code
    <3> QED BY <1>6, <2>1
  <2> QED BY <1>6, <2>1, <2>2, <2>3 DEF Raises
<1>7. ASSUME code \in 200..399
      PROVE  Raises(reply) = IF reply.body THEN Absent ELSE "KeyError"
  <2>1. code \in Int /\ code # 429
    BY <1>7
  <2>2. code # Absent
    BY <1>1, <2>1
  <2>3. code \notin {0} \cup 500..599 /\ code \notin 400..499 \ {429}
    <3> HIDE DEF code
    <3> QED BY <1>7, <2>1
  <2> QED BY <1>7, <2>1, <2>2, <2>3 DEF Raises
<1>8. {"ProviderConfigError", "RateLimitError", "ProviderError",
       "ProviderClientError", "KeyError", "ValueError"} \subseteq Classes
  BY DEF Classes
<1> QED BY <1>1, <1>2, <1>3, <1>4, <1>5, <1>6, <1>7, <1>8

------------------------------------------------------------------------------
(* The calls the requests make are calls of the client, whose proofs hold of *)
(* them.                                                                     *)

ChatP == INSTANCE ChatClient_proofs WITH
  Chats <- Requests,
  Providers <- Names,
  ProviderOf <- Setting,
  RetryAfters <- Delays

LEMMA ChatAssumed == ChatP!ChatAssumption
<1>1. \A r \in Requests : \A reply \in Replies[r] : IsReply(reply)
  BY AgentAssumption
<1>2. Delays \subseteq 0..Forever
  BY <1>1, RetryAfterType DEF Delays
<1> QED
  BY <1>2, AgentAssumption, ProviderAssumption DEF ChatP!ChatAssumption

LEMMA ChatInit == Init => ChatP!Inv
<1>1. Chat!Init => ChatP!Init
  BY DEF Chat!Init, ChatP!Init
<1> QED BY <1>1, ChatAssumed, ChatP!InitInv DEF Init

\* A step of the calls keeps what is proved of them.
LEMMA ChatStep ==
  ASSUME ChatP!Inv, ChatP!Next
  PROVE  ChatP!Inv'
BY ChatAssumed, ChatP!NextInv

\* The client the route calls and the one the proofs are about are the same.
LEMMA NextIsNext == Chat!Next => ChatP!Next
BY DEF Chat!Next, ChatP!Next, Chat!Start, ChatP!Start, Chat!Attempt, ChatP!Attempt,
       Chat!Wake, ChatP!Wake, Chat!history, ChatP!history, Chat!Answer, ChatP!Answer,
       Chat!Succeed, ChatP!Succeed, Chat!Refused, ChatP!Refused,
       Chat!Answered, ChatP!Answered, Chat!RateLimited, ChatP!RateLimited,
       Chat!Unavailable, ChatP!Unavailable, Chat!AfterTransient, ChatP!AfterTransient,
       Chat!Trip, ChatP!Trip, Chat!Backoff, ChatP!Backoff, Chat!Retry, ChatP!Retry,
       Chat!Cancel, ChatP!Cancel, Chat!Running, ChatP!Running,
       Chat!Tick, ChatP!Tick, Chat!Less, ChatP!Less

\* The calls of the other requests are where they were.
OtherCalls(r) ==
  \A d \in Requests \ {r} : pc'[d] = pc[d] /\ answers'[d] = answers[d]

\* What ChatP!Inv says of the variables that requests share with their calls.
LEMMA CallType ==
  ASSUME ChatP!Inv
  PROVE  /\ pc \in [Requests -> {"idle"} \cup Chat!Running \cup Chat!Ended]
         /\ answers \in [Requests -> Seq({"ok", "limited", "unavailable", "refused"})]
         /\ tries \in [Requests -> 0..MaxAttempts]
         /\ Chat!TypeOK
BY DEF ChatP!Inv, ChatP!TypeOK, Chat!TypeOK, ChatP!Running, Chat!Running,
       ChatP!Ended, Chat!Ended

\* A call that is made, woken or retried goes to the gate or through it.
LEMMA GoesOut ==
  ASSUME ChatP!Inv, NEW r \in Requests, Chat!Start(r) \/ Chat!Wake(r) \/ Chat!Retry(r)
  PROVE  /\ ChatP!Inv'
         /\ Chat!Start(r) => pc[r] = "idle"
         /\ Chat!Wake(r) \/ Chat!Retry(r) => pc[r] \in {"sleeping", "backoff"}
         /\ pc'[r] \in {"sleeping", "sent"}
         /\ answers' = answers /\ OtherCalls(r)
<1>1. pc \in [Requests -> {"idle"} \cup Chat!Running \cup Chat!Ended]
  BY CallType
<1>2. CASE Chat!Start(r)
  <2>1. ChatP!Start(r)
    BY <1>2 DEF Chat!Start, ChatP!Start, Chat!Attempt, ChatP!Attempt
  <2>2. ChatP!Next
    BY <2>1 DEF ChatP!Next
  <2>3. /\ pc[r] = "idle" /\ pc'[r] \in {"sleeping", "sent"}
        /\ answers' = answers /\ OtherCalls(r)
    BY <1>1, <1>2 DEF Chat!Start, Chat!Attempt, OtherCalls
  <2>4. ~Chat!Wake(r) /\ ~Chat!Retry(r)
    BY <2>3 DEF Chat!Wake, Chat!Retry
  <2> QED BY <2>2, <2>3, <2>4, ChatStep
<1>3. CASE Chat!Wake(r)
  <2>1. ChatP!Wake(r)
    BY <1>3 DEF Chat!Wake, ChatP!Wake, Chat!history, ChatP!history
  <2>2. ChatP!Next
    BY <2>1 DEF ChatP!Next
  <2>3. /\ pc[r] = "sleeping" /\ pc'[r] \in {"sleeping", "sent"}
        /\ answers' = answers /\ OtherCalls(r)
    BY <1>1, <1>3 DEF Chat!Wake, Chat!history, OtherCalls
  <2>4. ~Chat!Start(r)
    BY <2>3 DEF Chat!Start
  <2> QED BY <2>2, <2>3, <2>4, ChatStep
<1>4. CASE Chat!Retry(r)
  <2>1. ChatP!Retry(r)
    BY <1>4 DEF Chat!Retry, ChatP!Retry, Chat!Attempt, ChatP!Attempt
  <2>2. ChatP!Next
    BY <2>1 DEF ChatP!Next
  <2>3. /\ pc[r] = "backoff" /\ pc'[r] \in {"sleeping", "sent"}
        /\ answers' = answers /\ OtherCalls(r)
    BY <1>1, <1>4 DEF Chat!Retry, Chat!Attempt, OtherCalls
  <2>4. ~Chat!Start(r)
    BY <2>3 DEF Chat!Start
  <2> QED BY <2>2, <2>3, <2>4, ChatStep
<1> QED BY <1>2, <1>3, <1>4

\* A reply that ends the call.
LEMMA CallAnswered ==
  ASSUME ChatP!Inv, NEW r \in Requests, Chat!Succeed(r) \/ Chat!Refused(r)
  PROVE  /\ ChatP!Inv'
         /\ pc[r] = "sent"
         /\ Chat!Succeed(r) => pc'[r] = "done" /\ answers'[r] = Append(answers[r], "ok")
         /\ Chat!Refused(r) => pc'[r] = "failed" /\ answers'[r] = Append(answers[r], "refused")
         /\ OtherCalls(r)
<1>1. /\ pc \in [Requests -> {"idle"} \cup Chat!Running \cup Chat!Ended]
      /\ answers \in [Requests -> Seq({"ok", "limited", "unavailable", "refused"})]
  BY CallType
<1>2. ChatP!Succeed(r) \/ ChatP!Refused(r)
  BY DEF Chat!Succeed, ChatP!Succeed, Chat!Refused, ChatP!Refused,
         Chat!Answered, ChatP!Answered
<1>3. ChatP!Next
  BY <1>2 DEF ChatP!Next, ChatP!Answer
<1>4. pc[r] = "sent" /\ OtherCalls(r)
  BY <1>1 DEF Chat!Succeed, Chat!Refused, Chat!Answered, OtherCalls
<1>5. Chat!Succeed(r) => pc'[r] = "done" /\ answers'[r] = Append(answers[r], "ok")
  BY <1>1 DEF Chat!Succeed, Chat!Answered
<1>6. Chat!Refused(r) => pc'[r] = "failed" /\ answers'[r] = Append(answers[r], "refused")
  BY <1>1 DEF Chat!Refused, Chat!Answered
<1> QED BY <1>3, <1>4, <1>5, <1>6, ChatStep

\* A reply that may be retried: it is, or the attempts are spent.
LEMMA CallTransient ==
  ASSUME ChatP!Inv, NEW r \in Requests, Chat!RateLimited(r) \/ Chat!Unavailable(r)
  PROVE  /\ ChatP!Inv'
         /\ pc[r] = "sent"
         /\ \E answer \in {"limited", "unavailable"} :
              answers'[r] = Append(answers[r], answer)
         /\ pc'[r] \in {"backoff", "failed"}
         /\ pc'[r] = "failed" => Len(answers'[r]) = MaxAttempts
         /\ OtherCalls(r)
<1>1. /\ pc \in [Requests -> {"idle"} \cup Chat!Running \cup Chat!Ended]
      /\ answers \in [Requests -> Seq({"ok", "limited", "unavailable", "refused"})]
      /\ tries \in [Requests -> 0..MaxAttempts]
  BY CallType
<1>2. ChatP!RateLimited(r) \/ ChatP!Unavailable(r)
  BY DEF Chat!RateLimited, ChatP!RateLimited, Chat!Unavailable, ChatP!Unavailable,
         Chat!Answered, ChatP!Answered, Chat!AfterTransient, ChatP!AfterTransient,
         Chat!Trip, ChatP!Trip, Chat!Backoff, ChatP!Backoff
<1>3. ChatP!Next
  BY <1>2 DEF ChatP!Next, ChatP!Answer
<1>4. ChatP!AfterTransient(r)
  BY <1>2 DEF ChatP!RateLimited, ChatP!Unavailable
<1>5. /\ pc[r] = "sent"
      /\ \E answer \in {"limited", "unavailable"} :
           answers' = [answers EXCEPT ![r] = Append(@, answer)]
  BY <1>2 DEF ChatP!RateLimited, ChatP!Unavailable, ChatP!Answered
<1>6. PICK answer \in {"limited", "unavailable"} :
        answers' = [answers EXCEPT ![r] = Append(@, answer)]
  BY <1>5
<1>7. answers'[r] = Append(answers[r], answer) /\ Len(answers'[r]) = Len(answers[r]) + 1
  BY <1>1, <1>6
<1>8. /\ \/ tries[r] < MaxAttempts /\ pc'[r] = "backoff"
         \/ tries[r] >= MaxAttempts /\ pc'[r] = "failed"
      /\ \A d \in Requests \ {r} : pc'[d] = pc[d]
  BY <1>4, ChatAssumed, ChatP!TransientOutcome
<1>9. Len(answers[r]) = tries[r] - 1
  BY <1>5 DEF ChatP!Inv, ChatP!TriesInv
<1>10. pc'[r] = "failed" => Len(answers'[r]) = MaxAttempts
  BY <1>1, <1>7, <1>8, <1>9, AgentAssumption
<1>11. OtherCalls(r)
  BY <1>6, <1>8 DEF OtherCalls
<1> QED BY <1>3, <1>5, <1>7, <1>8, <1>10, <1>11, ChatStep

\* A task that is cancelled.
LEMMA CallCut ==
  ASSUME ChatP!Inv, NEW r \in Requests, Chat!Cancel(r)
  PROVE  /\ ChatP!Inv'
         /\ pc[r] \in Chat!Running /\ pc'[r] = "cancelled"
         /\ answers' = answers /\ OtherCalls(r)
<1>1. pc \in [Requests -> {"idle"} \cup Chat!Running \cup Chat!Ended]
  BY CallType
<1>2. ChatP!Cancel(r)
  BY DEF Chat!Cancel, ChatP!Cancel, Chat!history, ChatP!history,
         Chat!Running, ChatP!Running
<1>3. ChatP!Next
  BY <1>2 DEF ChatP!Next
<1> QED BY <1>1, <1>3, ChatStep DEF Chat!Cancel, Chat!history, OtherCalls

\* Time passes.
LEMMA CallTicks ==
  ASSUME ChatP!Inv, Chat!Tick
  PROVE  ChatP!Inv' /\ UNCHANGED <<pc, answers>>
<1>1. ChatP!Tick
  BY DEF Chat!Tick, ChatP!Tick, Chat!Less, ChatP!Less
<1>2. ChatP!Next
  BY <1>1 DEF ChatP!Next
<1> QED BY <1>2, ChatStep DEF Chat!Tick

------------------------------------------------------------------------------
(* The invariant.                                                           *)

\* What the properties say of one request.
Told(r) ==
  /\ StatusTellsTheFault!(r)
  /\ SessionCostsItsAnswer!(r)
  /\ ReportsMatchOutcome!(r)
  /\ FailureTraceable!(r)

\* Where a request is, its call and its spans agree.
RequestInv(r) ==
  /\ pc[r] = "idle" /\ status[r] = Absent =>
       /\ scratch[r] = Fresh /\ reports[r] = {} /\ errors[r] = {}
       /\ replied[r] = Absent
  /\ pc[r] # "idle" => Setting[r] \in Registered
  /\ pc[r] \in Chat!Running => Underway(SoFar(r), Len(answers[r]))
  /\ pc[r] \in Chat!Running \cup {"cancelled"} => status[r] = Absent

SessionType ==
  /\ scratch \in [Requests -> Scratch]
  /\ reports \in [Requests -> SUBSET Types]
  /\ observed \in [Requests -> Seq(Nat \ {0})]
  /\ errors \in [Requests -> SUBSET (Kinds \X Classes)]
  /\ status \in [Requests -> {Absent, 200, 400, 500, 502}]
  /\ DOMAIN replied = Requests
  /\ \A r \in Requests : replied[r] \in Replies[r] \cup {Absent}

AgentInv ==
  /\ ChatP!Inv
  /\ SessionType
  /\ \A r \in Requests : RequestInv(r)
  /\ \A r \in Requests : Told(r)

\* The sessions of the other requests are as they were.
OtherSessions(r) ==
  \A d \in Requests \ {r} :
    /\ scratch'[d] = scratch[d] /\ reports'[d] = reports[d] /\ observed'[d] = observed[d]
    /\ errors'[d] = errors[d] /\ status'[d] = status[d] /\ replied'[d] = replied[d]

Untouched(d) ==
  /\ pc'[d] = pc[d] /\ answers'[d] = answers[d]
  /\ scratch'[d] = scratch[d] /\ reports'[d] = reports[d] /\ observed'[d] = observed[d]
  /\ errors'[d] = errors[d] /\ status'[d] = status[d] /\ replied'[d] = replied[d]

\* What is true of a request stays true while others move.
LEMMA UntouchedKeeps ==
  ASSUME AgentInv, NEW d \in Requests, Untouched(d)
  PROVE  RequestInv(d)' /\ Told(d)'
<1>1. /\ pc'[d] = pc[d] /\ answers'[d] = answers[d]
      /\ scratch'[d] = scratch[d] /\ reports'[d] = reports[d] /\ observed'[d] = observed[d]
      /\ errors'[d] = errors[d] /\ status'[d] = status[d] /\ replied'[d] = replied[d]
  BY DEF Untouched
<1>2. RequestInv(d) /\ Told(d)
  BY DEF AgentInv
<1>3. SoFar(d)' = SoFar(d)
  BY <1>1 DEF SoFar
<1>4. RequestInv(d)'
  BY <1>1, <1>2, <1>3 DEF RequestInv
<1>5. Owed(d)' = Owed(d)
  BY <1>1 DEF Owed, TotalCounts
<1>6. StatusTellsTheFault!(d)'
  BY <1>1, <1>2 DEF Told
<1>7. SessionCostsItsAnswer!(d)'
  BY <1>1, <1>2, <1>5 DEF Told
<1>8. ReportsMatchOutcome!(d)'
  BY <1>1, <1>2 DEF Told
<1>9. FailureTraceable!(d)'
  <2>1. FailureTraceable!(d)
    BY <1>2 DEF Told
  <2> QED BY <1>1, <2>1, ZenonT(30)
<1> QED BY <1>4, <1>6, <1>7, <1>8, <1>9 DEF Told

LEMMA OneMoves ==
  ASSUME AgentInv, NEW r \in Requests, OtherCalls(r), OtherSessions(r),
         ChatP!Inv', SessionType', RequestInv(r)', Told(r)'
  PROVE  AgentInv'
<1>1. ASSUME NEW d \in Requests PROVE RequestInv(d)' /\ Told(d)'
  <2>1. CASE d = r
    BY <2>1
  <2>2. CASE d # r
    <3>1. Untouched(d)
      BY <2>2 DEF Untouched, OtherCalls, OtherSessions
    <3> QED BY <3>1, UntouchedKeeps
  <2> QED BY <2>1, <2>2
<1> QED BY <1>1 DEF AgentInv

\* A request that has no response yet has nothing to be told of.
LEMMA Untold ==
  ASSUME NEW r \in Requests, status'[r] = Absent, observed'[r] = <<>>
  PROVE  Told(r)'
<1>1. Absent \notin Int
  BY ProviderAssumption
<1>2. Absent \notin {200, 400, 500, 502}
  BY <1>1
<1>3. StatusTellsTheFault!(r)'
  OBVIOUS
<1>4. SessionCostsItsAnswer!(r)'
  BY <1>2
<1>5. ReportsMatchOutcome!(r)'
  OBVIOUS
<1>6. FailureTraceable!(r)'
  BY <1>2
<1> QED BY <1>3, <1>4, <1>5, <1>6 DEF Told

\* A span or two have ended, and the request goes on.
LEMMA EndIs ==
  ASSUME AgentInv, NEW r \in Requests, NEW trail, IsTrail(trail), End(r, trail)
  PROVE  /\ scratch' \in [Requests -> Scratch] /\ reports' \in [Requests -> SUBSET Types]
         /\ errors' \in [Requests -> SUBSET (Kinds \X Classes)]
         /\ observed' = observed
         /\ scratch'[r] = trail.scratch /\ reports'[r] = trail.reports
         /\ errors'[r] = trail.errors
         /\ \A d \in Requests \ {r} :
              scratch'[d] = scratch[d] /\ reports'[d] = reports[d] /\ errors'[d] = errors[d]
<1>1. /\ trail.scratch \in Scratch /\ trail.reports \in SUBSET Types
      /\ trail.errors \in SUBSET (Kinds \X Classes)
  BY DEF IsTrail, Scratch
<1> QED BY <1>1 DEF End, Mark, AgentInv, SessionType

\* The session has ended.
LEMMA EndSessionIs ==
  ASSUME AgentInv, NEW r \in Requests, NEW trail, IsTrail(trail), EndSession(r, trail)
  PROVE  /\ scratch' \in [Requests -> Scratch] /\ reports' \in [Requests -> SUBSET Types]
         /\ errors' \in [Requests -> SUBSET (Kinds \X Classes)]
         /\ observed' \in [Requests -> Seq(Nat \ {0})]
         /\ reports'[r] = trail.reports /\ errors'[r] = trail.errors
         /\ trail.scratch.cost = 0 => observed'[r] = observed[r]
         /\ trail.scratch.cost # 0 =>
              observed'[r] = Append(observed[r], trail.scratch.cost)
         /\ \A d \in Requests \ {r} :
              /\ scratch'[d] = scratch[d] /\ reports'[d] = reports[d]
              /\ errors'[d] = errors[d] /\ observed'[d] = observed[d]
<1>1. /\ trail.scratch.cost \in Nat /\ trail.reports \in SUBSET Types
      /\ trail.errors \in SUBSET (Kinds \X Classes)
  BY DEF IsTrail, Scratch
<1> DEFINE cost == trail.scratch.cost
<1>2. /\ observed \in [Requests -> Seq(Nat \ {0})]
      /\ observed' = [observed EXCEPT ![r] = IF cost = 0 THEN @ ELSE Append(@, cost)]
  BY DEF EndSession, AgentInv, SessionType
<1> HIDE DEF cost
<1>3. /\ observed' \in [Requests -> Seq(Nat \ {0})]
      /\ cost = 0 => observed'[r] = observed[r]
      /\ cost # 0 => observed'[r] = Append(observed[r], cost)
      /\ \A d \in Requests \ {r} : observed'[d] = observed[d]
  <2>1. (IF cost = 0 THEN observed[r] ELSE Append(observed[r], cost)) \in Seq(Nat \ {0})
    BY <1>1, <1>2 DEF cost
  <2> QED BY <1>2, <2>1
<1>4. /\ scratch' \in [Requests -> Scratch]
      /\ \A d \in Requests \ {r} : scratch'[d] = scratch[d]
  BY FreshType DEF EndSession, AgentInv, SessionType
<1>5. /\ reports' \in [Requests -> SUBSET Types]
      /\ errors' \in [Requests -> SUBSET (Kinds \X Classes)]
      /\ reports'[r] = trail.reports /\ errors'[r] = trail.errors
      /\ \A d \in Requests \ {r} : reports'[d] = reports[d] /\ errors'[d] = errors[d]
  BY <1>1 DEF EndSession, Mark, AgentInv, SessionType
<1> QED BY <1>3, <1>4, <1>5 DEF cost

\* What a request under way has.
LEMMA RequestUnderway ==
  ASSUME AgentInv, NEW r \in Requests, pc[r] \in Chat!Running
  PROVE  /\ Underway(SoFar(r), Len(answers[r])) /\ Len(answers[r]) \in Nat
         /\ Setting[r] \in Registered
         /\ status[r] = Absent /\ observed[r] = <<>>
         /\ answers[r] \in Seq({"ok", "limited", "unavailable", "refused"})
         /\ \A i \in 1..Len(answers[r]) : answers[r][i] # "ok"
<1>1. answers[r] \in Seq({"ok", "limited", "unavailable", "refused"})
  BY CallType DEF AgentInv
<1>2. \A i \in 1..Len(answers[r]) : answers[r][i] # "ok"
  BY DEF AgentInv, ChatP!Inv, ChatP!TriesInv, Chat!Running, ChatP!Transient
<1>3. /\ RequestInv(r) /\ Told(r)
  BY DEF AgentInv
<1>4. status[r] = Absent /\ pc[r] # "idle"
  BY <1>3 DEF RequestInv, Chat!Running
<1>5. status[r] # 200
  BY <1>4, ProviderAssumption
<1>6. observed[r] = <<>>
  BY <1>3, <1>5 DEF Told
<1> QED BY <1>1, <1>2, <1>3, <1>4, <1>6 DEF RequestInv

\* How many answers say that an attempt failed.
LEMMA FailedAnswers ==
  ASSUME NEW S, NEW given \in Seq(S), NEW n \in Nat, Len(given) \in {n, n + 1},
         \A i \in 1..n : given[i] # "ok",
         Len(given) = n + 1 => given[n + 1] = "ok"
  PROVE  Cardinality({i \in DOMAIN given : given[i] # "ok"}) = n
<1>1. {i \in DOMAIN given : given[i] # "ok"} = 1..n
  OBVIOUS
<1>2. Cardinality(1..n) = n
  BY FS_Interval
<1> QED BY <1>1, <1>2

\* A request under way whose trail moves on stays one.
LEMMA UnderwayKept ==
  ASSUME NEW r \in Requests, NEW trail, NEW n \in Nat, Underway(trail, n),
         scratch'[r] = trail.scratch, reports'[r] = trail.reports,
         errors'[r] = trail.errors, Len(answers'[r]) = n
  PROVE  Underway(SoFar(r), Len(answers[r]))'
BY DEF Underway, IsTrail, SoFar, ToolFailedIn

\* The status the route answers an error with.
LEMMA HttpStatusIs ==
  ASSUME NEW error
  PROVE  /\ HttpStatus(error) \in {400, 500, 502}
         /\ error = "ProviderClientError" => HttpStatus(error) = 400
         /\ error \in {"ProviderError", "RateLimitError"} => HttpStatus(error) = 502
         /\ error \in {"ProviderConfigError", "KeyError", "ValueError"} => HttpStatus(error) = 500
<1>1. CASE error = "ProviderConfigError"
  BY <1>1 DEF HttpStatus, Transient
<1>2. CASE error = "ProviderClientError"
  BY <1>2 DEF HttpStatus, Transient
<1>3. CASE error \in {"ProviderError", "RateLimitError"}
  BY <1>3 DEF HttpStatus, Transient
<1>4. CASE error \notin {"ProviderConfigError", "ProviderClientError",
                         "ProviderError", "RateLimitError"}
  BY <1>4 DEF HttpStatus, Transient
<1> QED BY <1>1, <1>2, <1>3, <1>4

\* Why a request failed, from the last reply it got.
Why(r) == IF replied[r] = Absent THEN "ProviderConfigError" ELSE Raises(replied[r])

\* A request is answered with an error: n of its attempts failed, and only the
\* one that never made its call has no model span.
LEMMA Fails ==
  ASSUME AgentInv, ChatP!Inv', NEW r \in Requests, NEW trail, NEW n \in Nat,
         Fail(r, trail, Why(r)'), Why(r)' \in Classes, OtherCalls(r),
         observed[r] = <<>>, pc'[r] \in {"idle", "failed"},
         pc'[r] # "idle" => Setting[r] \in Registered,
         DOMAIN replied' = Requests, replied'[r] \in Replies[r] \cup {Absent},
         \A d \in Requests \ {r} : replied'[d] = replied[d],
         Why(r)' \in {"ProviderError", "RateLimitError"} => Len(answers'[r]) = MaxAttempts,
         Cardinality({i \in DOMAIN answers'[r] : answers'[r][i] # "ok"}) = n,
         LET last == After(trail, Raising("session", Converted(Why(r)')))
         IN  /\ IsTrail(last) /\ last.scratch.cost = 0
             /\ "silent_tool_failure" \notin last.reports
             /\ "retry_amplification" \in last.reports <=> n >= RetryThreshold
             /\ On(last.errors, "session") = {Converted(Why(r)')}
             /\ Why(r)' \in On(last.errors, "model") <=> Setting[r] \in Registered
  PROVE  AgentInv'
<1> DEFINE error == Why(r)'
           last  == After(trail, Raising("session", Converted(error)))
<1>1. /\ EndSession(r, last) /\ status' = [status EXCEPT ![r] = HttpStatus(error)]
      /\ status \in [Requests -> {Absent, 200, 400, 500, 502}]
  BY DEF Fail, AgentInv, SessionType
<1>2. /\ IsTrail(last) /\ last.scratch.cost = 0
      /\ "silent_tool_failure" \notin last.reports
      /\ "retry_amplification" \in last.reports <=> n >= RetryThreshold
      /\ On(last.errors, "session") = {Converted(error)}
      /\ error \in On(last.errors, "model") <=> Setting[r] \in Registered
  OBVIOUS
<1>3. Absent \notin Int
  BY ProviderAssumption
<1> HIDE DEF last, error
<1>4. status'[r] = HttpStatus(error) /\ status'[r] \in {400, 500, 502}
  BY <1>1, HttpStatusIs
<1>5. status'[r] # Absent /\ status'[r] # 200
  BY <1>3, <1>4
<1>6. /\ status' \in [Requests -> {Absent, 200, 400, 500, 502}]
      /\ \A d \in Requests \ {r} : status'[d] = status[d]
  BY <1>1, <1>4
<1>7. /\ reports'[r] = last.reports /\ errors'[r] = last.errors /\ observed'[r] = <<>>
      /\ scratch' \in [Requests -> Scratch] /\ reports' \in [Requests -> SUBSET Types]
      /\ errors' \in [Requests -> SUBSET (Kinds \X Classes)]
      /\ observed' \in [Requests -> Seq(Nat \ {0})]
      /\ OtherSessions(r)
  BY <1>1, <1>2, <1>6, EndSessionIs DEF OtherSessions
<1>8. SessionType'
  <2>1. \A d \in Requests : replied'[d] \in Replies[d] \cup {Absent}
    <3>1. \A d \in Requests : replied[d] \in Replies[d] \cup {Absent}
      BY DEF SessionType, AgentInv
    <3>2. ASSUME NEW d \in Requests \ {r} PROVE replied'[d] \in Replies[d] \cup {Absent}
      BY <3>1
    <3> QED BY <3>2
  <2> QED BY <1>6, <1>7, <2>1 DEF SessionType
<1>9. RequestInv(r)'
  BY <1>5 DEF RequestInv, Chat!Running
<1>10. StatusTellsTheFault!(r)'
  <2>1. CASE replied'[r] = Absent
    <3>1. /\ Absent \notin {0, 429} \cup 500..599
          /\ Absent \notin 400..499 \ {429} /\ Absent \notin 200..399
      <4> DEFINE passing == {0, 429} \cup 500..599
                 refusing == 400..499 \ {429}
                 read == 200..399
      <4>1. passing \subseteq Int /\ refusing \subseteq Int /\ read \subseteq Int
        OBVIOUS
      <4> HIDE DEF passing, refusing, read
      <4>2. Absent \notin passing /\ Absent \notin refusing /\ Absent \notin read
        BY <1>3, <4>1
      <4> QED BY <4>2 DEF passing, refusing, read
    <3>2. status'[r] = 500
      BY <1>4, <2>1, HttpStatusIs DEF error, Why
    <3> QED BY <2>1, <3>1, <3>2
  <2>2. CASE replied'[r] # Absent
    <3> DEFINE reply == replied'[r]
    <3>1. IsReply(reply)
      BY <2>2, AgentAssumption
    <3>2. error = Raises(reply)
      BY <2>2 DEF error, Why
    <3> HIDE DEF reply
    <3>3. /\ reply.status = Absent => error = "ProviderConfigError"
          /\ reply.status = 429 =>
               error = IF Garbled(reply) THEN "ValueError" ELSE "RateLimitError"
          /\ reply.status \in {0} \cup 500..599 => error = "ProviderError"
          /\ reply.status \in 400..499 \ {429} => error = "ProviderClientError"
          /\ reply.status \in 200..399 => error = "KeyError" /\ ~reply.body
      <4>1. error # Absent
        BY AgentAssumption DEF error
      <4>2. /\ reply.status = Absent => Raises(reply) = "ProviderConfigError"
            /\ reply.status = 429 =>
                 Raises(reply) = IF Garbled(reply) THEN "ValueError" ELSE "RateLimitError"
            /\ reply.status \in {0} \cup 500..599 => Raises(reply) = "ProviderError"
            /\ reply.status \in 400..499 \ {429} => Raises(reply) = "ProviderClientError"
        BY <3>1, RaisesIs
      <4>3. /\ reply.status \in 200..399 /\ ~reply.body => Raises(reply) = "KeyError"
            /\ reply.status \in 200..399 /\ reply.body => Raises(reply) = Absent
        BY <3>1, RaisesIs
      <4> QED BY <3>2, <4>1, <4>2, <4>3
    <3>4. /\ reply.status = Absent => status'[r] = 500
          /\ reply.status \in 400..499 \ {429} => status'[r] = 400
      BY <1>4, <3>3, HttpStatusIs
    <3>5. ASSUME reply.status \in {0, 429} \cup 500..599,
                 ~(reply.status = 429 /\ Garbled(reply))
          PROVE  status'[r] = 502 /\ Len(answers'[r]) = MaxAttempts
      <4>1. (reply.status = 429 /\ ~Garbled(reply)) \/ reply.status \in {0} \cup 500..599
        BY <3>5
      <4>2. error \in {"ProviderError", "RateLimitError"}
        BY <3>3, <4>1
      <4>3. Len(answers'[r]) = MaxAttempts
        BY <4>2 DEF error
      <4> QED BY <1>4, <4>2, <4>3, HttpStatusIs
    <3>6. ASSUME reply.status \in 200..399
          PROVE  status'[r] = 500 /\ ~reply.body
      <4>1. error = "KeyError" /\ ~reply.body
        BY <3>3, <3>6
      <4> QED BY <1>4, <4>1, HttpStatusIs
    <3>7. ASSUME reply.status = 429, Garbled(reply) PROVE status'[r] = 500
      BY <1>4, <3>3, <3>7, HttpStatusIs
    <3>8. /\ replied'[r].status = Absent => status'[r] = 500
          /\ replied'[r].status \in {0, 429} \cup 500..599 =>
               IF replied'[r].status = 429 /\ Garbled(replied'[r]) THEN status'[r] = 500
               ELSE status'[r] = 502 /\ Len(answers'[r]) = MaxAttempts
          /\ replied'[r].status \in 400..499 \ {429} => status'[r] = 400
          /\ replied'[r].status \in 200..399 => status'[r] = 500 /\ ~replied'[r].body
      BY <3>4, <3>5, <3>6, <3>7 DEF reply
    <3> QED BY <2>2, <3>8
  <2> QED BY <2>1, <2>2
<1>11. SessionCostsItsAnswer!(r)'
  BY <1>5, <1>7
<1>12. ReportsMatchOutcome!(r)'
  BY <1>2, <1>5, <1>7
<1>13. FailureTraceable!(r)'
  <2>1. On(errors'[r], "session") =
          {IF error \in {"KeyError", "ValueError"} THEN error ELSE "HTTPException"}
    BY <1>2, <1>7 DEF Converted, Unforeseen
  <2>2. error \in On(errors'[r], "model") <=> Setting[r] \in Registered
    BY <1>2, <1>7
  <2> QED BY <2>1, <2>2 DEF On, error, Why
<1> QED BY <1>7, <1>8, <1>9, <1>10, <1>11, <1>12, <1>13, OneMoves DEF Told

------------------------------------------------------------------------------
(* The actions.                                                             *)

\* What is put on the model span of a reply is what the reply is worth.
LEMMA ChargeIsOwed ==
  ASSUME NEW r \in Requests, NEW reply \in Replies[r], replied'[r] = reply
  PROVE  Charge(r, reply) = Owed(r)'
<1> DEFINE usage  == reply.usage
           p      == usage.prompt
           c      == usage.completion
           t      == usage.total
           price  == ListPrices[Setting[r]]
           counts == /\ t # Absent /\ Setting[r] \in TotalAware
                     /\ c = Absent \/ t > p + c
           output == IF counts THEN t - p ELSE c
           unknown == \/ Setting[r] \notin DOMAIN ListPrices \/ p = Absent
                      \/ output = Absent \/ Absent \in {price.input, price.output}
           tokens == Usage(Setting[r], usage)
<1>1. IsReply(reply)
  BY AgentAssumption
<1>2. {p, c, t} \subseteq Nat \cup {Absent} /\ Absent \notin Int
  BY <1>1, ProviderAssumption DEF IsReply
<1>3. Owed(r)' = IF unknown THEN 0 ELSE p * price.input + output * price.output
  BY DEF Owed, TotalCounts
<1>4. tokens.input = p /\ (p # Absent => tokens.output = output)
  <2>1. tokens.input = p
    BY DEF Usage
  <2>2. tokens.output = IF /\ Setting[r] \in TotalAware /\ p # Absent /\ t # Absent
                           /\ c = Absent \/ t - p > c
                        THEN t - p ELSE c
    BY DEF Usage
  <2> HIDE DEF p, c, t, tokens
  <2>3. ASSUME p # Absent, t # Absent, c # Absent
        PROVE  t - p > c <=> t > p + c
    BY <1>2, <2>3
  <2> QED BY <2>1, <2>2, <2>3
<1>5. Charge(r, reply) = LET cost == CostEquivalent(Setting[r], tokens)
                         IN  IF cost = Absent THEN 0 ELSE cost
  BY DEF Charge
<1>6. CASE unknown
  <2>1. CostEquivalent(Setting[r], tokens) = Absent
    <3> HIDE DEF tokens, p, price, output
    <3> QED BY <1>4, <1>6 DEF CostEquivalent, price
  <2> QED BY <1>3, <1>5, <1>6, <2>1
<1>7. CASE ~unknown
  <2>1. p # Absent /\ tokens.output = output /\ output # Absent
        /\ Setting[r] \in DOMAIN ListPrices /\ Absent \notin {price.input, price.output}
    BY <1>4, <1>7
  <2>2. CostEquivalent(Setting[r], tokens) = p * price.input + output * price.output
    <3> HIDE DEF tokens, p, output
    <3> QED BY <1>4, <2>1 DEF CostEquivalent
  <2>3. p \in Int /\ output \in Int /\ price.input \in Int /\ price.output \in Int
    <3>1. price.input \in Nat \cup {Absent} /\ price.output \in Nat \cup {Absent}
      BY <2>1, ProviderAssumption
    <3> HIDE DEF p, c, t, price
    <3> QED BY <1>2, <2>1, <3>1
  <2>4. p * price.input + output * price.output \in Int
    <3> HIDE DEF p, output, price
    <3> QED BY <2>3
  <2>5. p * price.input + output * price.output # Absent
    <3> HIDE DEF p, output, price
    <3> QED BY <1>2, <2>4
  <2> HIDE DEF unknown, tokens, p, output, price
  <2> QED BY <1>3, <1>5, <1>7, <2>2, <2>5
<1> QED BY <1>6, <1>7

\* The model has answered.
LEMMA RespondKeeps ==
  ASSUME AgentInv, NEW r \in Requests, NEW reply \in Replies[r],
         Respond(r, reply), Raises(reply) = Absent,
         replied' = [replied EXCEPT ![r] = reply]
  PROVE  AgentInv'
<1> DEFINE n     == Len(answers[r])
           cost  == Charge(r, reply)
           last  == After(After(After(SoFar(r), Returning("attempt", 0)),
                                Returning("model", cost)),
                          Returning("session", 0))
<1>1. /\ ChatP!Inv' /\ pc[r] = "sent" /\ pc'[r] = "done" /\ OtherCalls(r)
      /\ answers'[r] = Append(answers[r], "ok")
  BY CallAnswered DEF AgentInv, Respond
<1>2. /\ Underway(SoFar(r), n) /\ n \in Nat
      /\ Setting[r] \in Registered /\ status[r] = Absent /\ observed[r] = <<>>
      /\ answers[r] \in Seq({"ok", "limited", "unavailable", "refused"})
      /\ \A i \in 1..n : answers[r][i] # "ok"
  BY <1>1, RequestUnderway DEF Chat!Running
<1>3. /\ EndSession(r, last) /\ status' = [status EXCEPT ![r] = 200]
      /\ status \in [Requests -> {Absent, 200, 400, 500, 502}]
      /\ \A d \in Requests : replied[d] \in Replies[d] \cup {Absent}
  BY DEF Respond, Succeeded, AgentInv, SessionType
<1>4. cost \in Costs /\ reply # Absent /\ IsReply(reply)
  BY AgentAssumption
<1>5. /\ IsTrail(last) /\ last.scratch.cost = cost
      /\ "silent_tool_failure" \in last.reports <=> ToolFailedIn(last.errors)
      /\ "retry_amplification" \in last.reports <=> n >= RetryThreshold
  <2> HIDE DEF n, cost
  <2> QED BY <1>2, <1>4, CallReturns
<1> HIDE DEF last, cost
<1>6. /\ status'[r] = 200 /\ status' \in [Requests -> {Absent, 200, 400, 500, 502}]
      /\ \A d \in Requests \ {r} : status'[d] = status[d]
  BY <1>3
<1>7. /\ replied'[r] = reply /\ \A d \in Requests \ {r} : replied'[d] = replied[d]
      /\ DOMAIN replied' = Requests
      /\ \A d \in Requests : replied'[d] \in Replies[d] \cup {Absent}
  <2>1. DOMAIN replied' = Requests /\ replied'[r] = reply /\ \A d \in Requests \ {r} : replied'[d] = replied[d]
    BY DEF AgentInv, SessionType
  <2>2. ASSUME NEW d \in Requests \ {r} PROVE replied'[d] \in Replies[d] \cup {Absent}
    BY <1>3, <2>1
  <2> QED BY <2>1, <2>2
<1>8. /\ reports'[r] = last.reports /\ errors'[r] = last.errors
      /\ observed'[r] = IF cost = 0 THEN <<>> ELSE <<cost>>
      /\ scratch' \in [Requests -> Scratch] /\ reports' \in [Requests -> SUBSET Types]
      /\ errors' \in [Requests -> SUBSET (Kinds \X Classes)]
      /\ observed' \in [Requests -> Seq(Nat \ {0})]
      /\ OtherSessions(r)
  <2>1. Append(<<>>, cost) = <<cost>>
    OBVIOUS
  <2> QED BY <1>2, <1>3, <1>5, <1>6, <1>7, <2>1, EndSessionIs DEF OtherSessions
<1>9. SessionType'
  BY <1>6, <1>7, <1>8 DEF SessionType
<1>10. Absent \notin Int
  BY ProviderAssumption
<1>11. RequestInv(r)'
  BY <1>1, <1>2 DEF RequestInv, Chat!Running
<1>12. StatusTellsTheFault!(r)'
  <2>1. /\ reply.status # Absent /\ reply.status \notin {0, 429} \cup 500..599
        /\ reply.status \notin 400..499 \ {429}
        /\ reply.status \in 200..399 => reply.body
    <3>1. /\ "ProviderConfigError" # Absent /\ "RateLimitError" # Absent
          /\ "ProviderError" # Absent /\ "ProviderClientError" # Absent
          /\ "KeyError" # Absent /\ "ValueError" # Absent
      BY AgentAssumption DEF Classes
    <3>2. /\ reply.status # Absent /\ reply.status # 429
          /\ reply.status \notin {0} \cup 500..599
          /\ reply.status \notin 400..499 \ {429}
      BY <1>4, <3>1, RaisesIs
    <3>3. reply.status \in 200..399 => reply.body
      BY <1>4, <3>1, RaisesIs
    <3> QED BY <3>2, <3>3
  <2> QED BY <1>4, <1>6, <1>7, <2>1
<1>13. SessionCostsItsAnswer!(r)'
  <2>1. cost = Owed(r)'
    BY <1>7, ChargeIsOwed DEF cost
  <2> QED BY <1>6, <1>8, <2>1
<1>14. ReportsMatchOutcome!(r)'
  <2>1. Cardinality({i \in DOMAIN answers'[r] : answers'[r][i] # "ok"}) = n
    <3>1. /\ answers'[r] \in Seq({"ok", "limited", "unavailable", "refused"})
          /\ Len(answers'[r]) = n + 1 /\ answers'[r][n + 1] = "ok"
          /\ \A i \in 1..n : answers'[r][i] # "ok"
      BY <1>1, <1>2
    <3> HIDE DEF n
    <3> QED BY <1>2, <3>1, FailedAnswers
  <2>2. ToolFailedIn(errors'[r]) <=> \E e \in errors'[r] : e[1] = "tool"
    BY DEF ToolFailedIn
  <2> HIDE DEF n
  <2> QED BY <1>5, <1>6, <1>8, <2>1, <2>2
<1>15. FailureTraceable!(r)'
  BY <1>6
<1> QED BY <1>1, <1>8, <1>9, <1>11, <1>12, <1>13, <1>14, <1>15, OneMoves DEF Told

\* A try that failed, with the retries it may have.
LEMMA RaiseKeeps ==
  ASSUME AgentInv, NEW r \in Requests, NEW reply \in Replies[r],
         Raises(reply) # Absent, pc[r] = "sent",
         Raise(r, reply, Raises(reply)),
         replied' = [replied EXCEPT ![r] = reply]
  PROVE  AgentInv'
<1> DEFINE n     == Len(answers[r])
           error == Raises(reply)
           tried == After(SoFar(r), Raising("attempt", error))
<1>1. reply # Absent /\ IsReply(reply)
  BY AgentAssumption
<1>2. error \in Classes
  BY <1>1, RaisesIs
<1>3. /\ Underway(SoFar(r), n) /\ n \in Nat
      /\ Setting[r] \in Registered /\ status[r] = Absent /\ observed[r] = <<>>
      /\ answers[r] \in Seq({"ok", "limited", "unavailable", "refused"})
      /\ \A i \in 1..n : answers[r][i] # "ok"
  BY RequestUnderway DEF Chat!Running
<1>4. Underway(tried, n + 1)
  <2> HIDE DEF n, error
  <2> QED BY <1>2, <1>3, AttemptFails
<1>5. /\ DOMAIN replied' = Requests /\ replied'[r] = reply
      /\ \A d \in Requests \ {r} : replied'[d] = replied[d]
  BY DEF AgentInv, SessionType
<1>6. Why(r)' = error
  BY <1>1, <1>5 DEF Why
<1>7. \/ error \in {"RateLimitError", "ProviderError"}
         /\ (Chat!RateLimited(r) \/ Chat!Unavailable(r))
      \/ error \notin {"RateLimitError", "ProviderError"} /\ Chat!Refused(r)
  <2>1. CASE error = "RateLimitError"
    BY <2>1 DEF Raise
  <2>2. CASE error = "ProviderError"
    BY <2>2 DEF Raise
  <2>3. CASE error \notin {"RateLimitError", "ProviderError"}
    BY <2>3 DEF Raise
  <2> QED BY <2>1, <2>2, <2>3
<1>8. /\ ChatP!Inv' /\ OtherCalls(r) /\ pc'[r] \in {"backoff", "failed"}
      /\ \E answer \in {"limited", "unavailable", "refused"} :
           answers'[r] = Append(answers[r], answer)
      /\ pc'[r] = "backoff" => error \in {"RateLimitError", "ProviderError"}
      /\ pc'[r] = "failed" /\ error \in {"RateLimitError", "ProviderError"}
           => Len(answers'[r]) = MaxAttempts
  <2> HIDE DEF error
  <2>1. CASE /\ error \in {"RateLimitError", "ProviderError"}
             /\ Chat!RateLimited(r) \/ Chat!Unavailable(r)
    BY <2>1, CallTransient DEF AgentInv
  <2>2. CASE error \notin {"RateLimitError", "ProviderError"} /\ Chat!Refused(r)
    BY <2>2, CallAnswered DEF AgentInv
  <2> QED BY <1>7, <2>1, <2>2
<1>9. /\ Len(answers'[r]) = n + 1
      /\ answers'[r] \in Seq({"ok", "limited", "unavailable", "refused"})
      /\ \A i \in 1..(n + 1) : answers'[r][i] # "ok"
  <2>1. PICK answer \in {"limited", "unavailable", "refused"} :
          answers'[r] = Append(answers[r], answer)
    BY <1>8
  <2> QED BY <1>3, <2>1
<1>10. CASE pc'[r] = "failed"
  <2> DEFINE model == After(tried, Raising("model", error))
             last  == After(model, Raising("session", Converted(error)))
  <2>1. Fail(r, model, error)
    BY <1>10 DEF Raise
  <2>2. Converted(error) \in Classes
    BY <1>2 DEF Converted, Unforeseen, Classes
  <2>3. /\ IsTrail(last) /\ last.scratch.cost = 0
        /\ "silent_tool_failure" \notin last.reports
        /\ "retry_amplification" \in last.reports <=> n + 1 >= RetryThreshold
        /\ On(last.errors, "session") = {Converted(error)}
        /\ On(last.errors, "model") = {error}
    <3> DEFINE m == n + 1
               converted == Converted(error)
    <3> HIDE DEF n, error, tried
    <3>1. m \in Nat /\ Underway(tried, m) /\ error \in Classes /\ converted \in Classes
      BY <1>2, <1>3, <1>4, <2>2
    <3> HIDE DEF m, converted
    <3>2. LET ended == After(After(tried, Raising("model", error)),
                             Raising("session", converted))
          IN  /\ IsTrail(ended) /\ ended.scratch.cost = 0
              /\ "silent_tool_failure" \notin ended.reports
              /\ "retry_amplification" \in ended.reports <=> m >= RetryThreshold
              /\ On(ended.errors, "session") = {converted}
              /\ On(ended.errors, "model") = {error}
      BY <3>1, CallFails
    <3> QED BY <3>2 DEF m, converted
  <2>4. Cardinality({i \in DOMAIN answers'[r] : answers'[r][i] # "ok"}) = n + 1
    <3> DEFINE given == answers'[r]
               m     == n + 1
    <3>1. m \in Nat
      BY <1>3
    <3>2. /\ given \in Seq({"ok", "limited", "unavailable", "refused"}) /\ Len(given) = m
          /\ \A i \in 1..m : given[i] # "ok"
      BY <1>9
    <3>3. Len(given) # m + 1
      BY <3>1, <3>2
    <3> HIDE DEF given, m
    <3>4. Cardinality({i \in DOMAIN given : given[i] # "ok"}) = m
      BY <3>1, <3>2, <3>3, FailedAnswers
    <3> QED BY <3>4 DEF given, m
  <2> HIDE DEF n, error, model
  <2>5. n + 1 \in Nat
    BY <1>3
  <2>6. error \in On(last.errors, "model") <=> Setting[r] \in Registered
    BY <1>3, <2>3
  <2> HIDE DEF last
  <2>7. /\ IsTrail(last) /\ last.scratch.cost = 0
        /\ "silent_tool_failure" \notin last.reports
        /\ "retry_amplification" \in last.reports <=> n + 1 >= RetryThreshold
        /\ On(last.errors, "session") = {Converted(Why(r)')}
        /\ Why(r)' \in On(last.errors, "model") <=> Setting[r] \in Registered
        /\ last = After(model, Raising("session", Converted(Why(r)')))
    BY <1>6, <2>3, <2>6 DEF last
  <2>8. /\ Fail(r, model, Why(r)') /\ Why(r)' \in Classes
        /\ Why(r)' \in {"ProviderError", "RateLimitError"} => Len(answers'[r]) = MaxAttempts
    BY <1>2, <1>6, <1>8, <1>10, <2>1
  <2>9. pc'[r] \in {"idle", "failed"} /\ replied'[r] \in Replies[r] \cup {Absent}
    BY <1>5, <1>10
  <2> QED
    BY <1>3, <1>5, <1>8, <2>4, <2>5, <2>7, <2>8, <2>9, Fails
<1>11. CASE pc'[r] = "backoff"
  <2>1. End(r, tried) /\ status' = status
    BY <1>11 DEF Raise
  <2>2. IsTrail(tried)
    BY <1>4 DEF Underway
  <2> HIDE DEF tried, n
  <2>3. /\ scratch' \in [Requests -> Scratch] /\ reports' \in [Requests -> SUBSET Types]
        /\ errors' \in [Requests -> SUBSET (Kinds \X Classes)]
        /\ observed' = observed
        /\ scratch'[r] = tried.scratch /\ reports'[r] = tried.reports
        /\ errors'[r] = tried.errors
        /\ OtherSessions(r)
    BY <1>5, <2>1, <2>2, EndIs DEF OtherSessions
  <2>4. SessionType'
    <3>1. \A d \in Requests : replied[d] \in Replies[d] \cup {Absent}
      BY DEF AgentInv, SessionType
    <3>2. ASSUME NEW d \in Requests PROVE replied'[d] \in Replies[d] \cup {Absent}
      BY <1>5, <3>1
    <3> QED BY <1>5, <2>1, <2>3, <3>2 DEF AgentInv, SessionType
  <2>5. Underway(SoFar(r), Len(answers[r]))'
    <3>1. n + 1 \in Nat
      BY <1>3
    <3> QED BY <1>4, <1>9, <2>3, <3>1, UnderwayKept
  <2>6. RequestInv(r)'
    BY <1>3, <1>11, <2>1, <2>5 DEF RequestInv, Chat!Running
  <2>7. Told(r)'
    BY <1>3, <2>1, <2>3, Untold
  <2> QED BY <1>8, <2>3, <2>4, <2>6, <2>7, OneMoves
<1> QED BY <1>8, <1>10, <1>11

\* A request that comes in.
LEMMA BeginKeeps ==
  ASSUME AgentInv, NEW r \in Requests, NEW call \in Calls,
         NEW toolFails \in ToolFails[r], Begin(r, call, toolFails)
  PROVE  AgentInv'
<1> DEFINE trail == Steps(r, call, toolFails)
<1>1. /\ ChatP!Inv' /\ pc[r] = "idle" /\ pc'[r] \in {"sleeping", "sent"}
      /\ answers' = answers /\ OtherCalls(r)
  BY GoesOut DEF AgentInv, Begin
<1>2. RequestInv(r) /\ Told(r)
  BY DEF AgentInv
<1>3. /\ status[r] = Absent /\ Setting[r] \in Registered
      /\ End(r, trail) /\ UNCHANGED <<status, replied>>
  BY DEF Begin
<1>4. toolFails \in BOOLEAN
  BY AgentAssumption
<1>5. Underway(trail, 0)
  BY <1>1, <1>2, <1>3, <1>4, StepsLead DEF RequestInv
<1>6. observed[r] = <<>>
  <2>1. status[r] # 200
    BY <1>3, ProviderAssumption
  <2> QED BY <1>2, <2>1 DEF Told
<1>7. Len(answers'[r]) = 0
  BY <1>1 DEF AgentInv, ChatP!Inv, ChatP!TriesInv
<1> HIDE DEF trail
<1>8. IsTrail(trail)
  BY <1>5 DEF Underway
<1>9. /\ scratch' \in [Requests -> Scratch] /\ reports' \in [Requests -> SUBSET Types]
      /\ errors' \in [Requests -> SUBSET (Kinds \X Classes)]
      /\ observed' = observed
      /\ scratch'[r] = trail.scratch /\ reports'[r] = trail.reports
      /\ errors'[r] = trail.errors
      /\ OtherSessions(r)
  BY <1>3, <1>8, EndIs DEF OtherSessions
<1>10. SessionType'
  BY <1>3, <1>9 DEF AgentInv, SessionType
<1>11. Underway(SoFar(r), Len(answers[r]))'
  BY <1>5, <1>7, <1>9, UnderwayKept
<1>12. RequestInv(r)'
  BY <1>1, <1>3, <1>11 DEF RequestInv, Chat!Running
<1>13. Told(r)'
  BY <1>3, <1>6, <1>9, Untold
<1> QED BY <1>1, <1>9, <1>10, <1>12, <1>13, OneMoves

\* Nothing happens to the calls.
LEMMA CallsIdle == ASSUME ChatP!Inv, UNCHANGED chat PROVE ChatP!Inv'
<1>1. UNCHANGED ChatP!vars
  BY DEF chat, ChatP!vars, ChatP!history
<1> QED BY <1>1, ChatAssumed, ChatP!NextInv

\* A request whose provider there is none of.
LEMMA BeginUnknownKeeps ==
  ASSUME AgentInv, NEW r \in Requests, NEW call \in Calls,
         NEW toolFails \in ToolFails[r], BeginUnknown(r, call, toolFails)
  PROVE  AgentInv'
<1> DEFINE trail     == Steps(r, call, toolFails)
           error     == "ProviderConfigError"
           converted == Converted(error)
           last      == After(trail, Raising("session", converted))
<1>1. RequestInv(r) /\ Told(r)
  BY DEF AgentInv
<1>2. /\ status[r] = Absent /\ Setting[r] \notin Registered
      /\ Fail(r, trail, error) /\ UNCHANGED chat /\ UNCHANGED replied
  BY DEF BeginUnknown
<1>3. pc[r] = "idle" /\ replied[r] = Absent
  BY <1>1, <1>2 DEF RequestInv
<1>4. toolFails \in BOOLEAN
  BY AgentAssumption
<1>5. Underway(trail, 0)
  BY <1>1, <1>2, <1>3, <1>4, StepsLead DEF RequestInv
<1>6. observed[r] = <<>>
  <2>1. status[r] # 200
    BY <1>2, ProviderAssumption
  <2> QED BY <1>1, <2>1 DEF Told
<1>7. /\ pc' = pc /\ answers' = answers /\ ChatP!Inv' /\ OtherCalls(r)
      /\ replied'[r] \in Replies[r] \cup {Absent} /\ DOMAIN replied' = Requests
      /\ \A d \in Requests \ {r} : replied'[d] = replied[d]
  <2>1. ChatP!Inv'
    BY <1>2, CallsIdle DEF AgentInv
  <2> QED BY <1>2, <2>1 DEF AgentInv, SessionType, chat, OtherCalls
<1>8. Cardinality({i \in DOMAIN answers'[r] : answers'[r][i] # "ok"}) = 0
  <2>1. answers'[r] = <<>>
    BY <1>3, <1>7 DEF AgentInv, ChatP!Inv, ChatP!TriesInv
  <2>2. {i \in DOMAIN answers'[r] : answers'[r][i] # "ok"} = {}
    BY <2>1
  <2> QED BY <2>2, FS_EmptySet
<1>9. error \in Classes /\ converted \in Classes
  BY DEF Classes, Converted
<1>10. /\ IsTrail(last) /\ last.scratch.cost = 0
       /\ "silent_tool_failure" \notin last.reports
       /\ "retry_amplification" \in last.reports <=> 0 >= RetryThreshold
       /\ On(last.errors, "session") = {converted}
       /\ On(last.errors, "model") = {}
  <2> HIDE DEF trail, error, converted
  <2> QED BY <1>5, <1>9, StepsFail
<1>11. Why(r)' = error
  BY <1>2, <1>3 DEF Why
<1> HIDE DEF trail, error
<1>12. /\ Fail(r, trail, Why(r)') /\ Why(r)' \in Classes
       /\ Why(r)' \notin {"ProviderError", "RateLimitError"}
  BY <1>2, <1>9, <1>11 DEF error
<1>13. error \in On(last.errors, "model") <=> Setting[r] \in Registered
  BY <1>2, <1>10
<1> HIDE DEF last
<1>14. /\ IsTrail(last) /\ last.scratch.cost = 0
       /\ "silent_tool_failure" \notin last.reports
       /\ "retry_amplification" \in last.reports <=> 0 >= RetryThreshold
       /\ On(last.errors, "session") = {Converted(Why(r)')}
       /\ Why(r)' \in On(last.errors, "model") <=> Setting[r] \in Registered
       /\ last = After(trail, Raising("session", Converted(Why(r)')))
  BY <1>10, <1>11, <1>13 DEF last
<1>15. pc'[r] = "idle" /\ 0 \in Nat
  BY <1>3, <1>7
<1> QED
  BY <1>6, <1>7, <1>8, <1>12, <1>14, <1>15, Fails

\* A sleep is over.
LEMMA ResumeKeeps ==
  ASSUME AgentInv, NEW r \in Requests, Resume(r)
  PROVE  AgentInv'
<1>1. /\ ChatP!Inv' /\ pc[r] \in {"sleeping", "backoff"} /\ pc'[r] \in {"sleeping", "sent"}
      /\ answers' = answers /\ OtherCalls(r)
  BY GoesOut DEF AgentInv, Resume
<1>2. UNCHANGED <<scratch, reports, observed, errors, status, replied>>
  BY DEF Resume, session
<1>3. /\ Underway(SoFar(r), Len(answers[r])) /\ Setting[r] \in Registered
      /\ status[r] = Absent /\ observed[r] = <<>>
  BY <1>1, RequestUnderway DEF Chat!Running
<1>4. SoFar(r)' = SoFar(r)
  BY <1>2 DEF SoFar
<1>5. RequestInv(r)'
  BY <1>1, <1>2, <1>3, <1>4 DEF RequestInv, Chat!Running
<1>6. Told(r)'
  BY <1>2, <1>3, Untold
<1>7. OtherSessions(r) /\ SessionType'
  BY <1>2 DEF OtherSessions, AgentInv, SessionType
<1> QED BY <1>1, <1>5, <1>6, <1>7, OneMoves

\* A request that is cancelled.
LEMMA CancelKeeps ==
  ASSUME AgentInv, NEW r \in Requests, Cancel(r)
  PROVE  AgentInv'
<1> DEFINE n     == Len(answers[r])
           tried == IF pc[r] = "sent" THEN After(SoFar(r), Cancelled("attempt"))
                    ELSE SoFar(r)
           last  == After(After(tried, Cancelled("model")), Cancelled("session"))
<1>1. /\ ChatP!Inv' /\ pc[r] \in Chat!Running /\ pc'[r] = "cancelled"
      /\ answers' = answers /\ OtherCalls(r)
  BY CallCut DEF AgentInv, Cancel
<1>2. /\ Underway(SoFar(r), n) /\ n \in Nat /\ Setting[r] \in Registered
      /\ status[r] = Absent /\ observed[r] = <<>>
  BY <1>1, RequestUnderway
<1>3. EndSession(r, last) /\ UNCHANGED <<status, replied>>
  BY DEF Cancel
<1>4. Underway(tried, n)
  <2> HIDE DEF n
  <2> QED BY <1>2, AttemptEnds
<1>5. IsTrail(last) /\ last.scratch.cost = 0
  <2> HIDE DEF n, tried
  <2> QED BY <1>2, <1>4, CallCancelled
<1> HIDE DEF last
<1>6. /\ scratch' \in [Requests -> Scratch] /\ reports' \in [Requests -> SUBSET Types]
      /\ errors' \in [Requests -> SUBSET (Kinds \X Classes)]
      /\ observed' \in [Requests -> Seq(Nat \ {0})]
      /\ observed'[r] = observed[r]
      /\ OtherSessions(r)
  BY <1>3, <1>5, EndSessionIs DEF OtherSessions
<1>7. SessionType'
  BY <1>3, <1>6 DEF AgentInv, SessionType
<1>8. RequestInv(r)'
  BY <1>1, <1>2, <1>3 DEF RequestInv, Chat!Running
<1>9. Told(r)'
  BY <1>2, <1>3, <1>6, Untold
<1> QED BY <1>1, <1>6, <1>7, <1>8, <1>9, OneMoves

\* Time passes, or nothing happens.
LEMMA StillKeeps ==
  ASSUME AgentInv, Tick \/ UNCHANGED vars
  PROVE  AgentInv'
<1>1. ChatP!Inv' /\ UNCHANGED <<pc, answers>>
  <2>1. CASE Tick
    BY <2>1, CallTicks DEF AgentInv, Tick
  <2>2. CASE UNCHANGED vars
    BY <2>2, CallsIdle DEF AgentInv, vars, chat
  <2> QED BY <2>1, <2>2
<1>2. UNCHANGED <<scratch, reports, observed, errors, status, replied>>
  BY DEF Tick, vars, session
<1>3. SessionType'
  BY <1>2 DEF AgentInv, SessionType
<1>4. ASSUME NEW d \in Requests
      PROVE  RequestInv(d)' /\ Told(d)'
  <2>1. Untouched(d)
    BY <1>1, <1>2 DEF Untouched
  <2> QED BY <2>1, UntouchedKeeps
<1> QED BY <1>1, <1>3, <1>4 DEF AgentInv

------------------------------------------------------------------------------
(* The theorems.                                                            *)

\* Before any request comes in.
LEMMA InitAgent == Init => AgentInv
<1> SUFFICES ASSUME Init PROVE AgentInv
  OBVIOUS
<1>1. ChatP!Inv
  BY ChatInit
<1>2. /\ scratch = [r \in Requests |-> Fresh] /\ reports = [r \in Requests |-> {}]
      /\ observed = [r \in Requests |-> <<>>] /\ errors = [r \in Requests |-> {}]
      /\ status = [r \in Requests |-> Absent] /\ replied = [r \in Requests |-> Absent]
      /\ pc = [r \in Requests |-> "idle"]
  BY DEF Init, Chat!Init
<1>3. SessionType
  BY <1>2, FreshType DEF SessionType
<1>4. ASSUME NEW r \in Requests PROVE RequestInv(r) /\ Told(r)
  <2>1. /\ scratch[r] = Fresh /\ reports[r] = {} /\ observed[r] = <<>> /\ errors[r] = {}
        /\ status[r] = Absent /\ replied[r] = Absent /\ pc[r] = "idle"
    BY <1>2
  <2>2. RequestInv(r)
    BY <2>1 DEF RequestInv, Chat!Running
  <2>3. status[r] \notin {200, 400, 500, 502}
    <3>1. \A n \in {200, 400, 500, 502} : n # Absent
      BY ProviderAssumption
    <3> QED BY <2>1, <3>1
  <2>4. SessionCostsItsAnswer!(r)
    BY <2>1, <2>3
  <2>5. StatusTellsTheFault!(r) /\ ReportsMatchOutcome!(r)
    BY <2>1
  <2>6. FailureTraceable!(r)
    BY <2>3
  <2> QED BY <2>2, <2>4, <2>5, <2>6 DEF Told
<1> QED BY <1>1, <1>3, <1>4 DEF AgentInv

\* The invariant is inductive.
LEMMA NextAgent == AgentInv /\ [Next]_vars => AgentInv'
<1> SUFFICES ASSUME AgentInv, [Next]_vars PROVE AgentInv'
  OBVIOUS
<1>1. ASSUME NEW r \in Requests, NEW call \in Calls, NEW toolFails \in ToolFails[r],
             Begin(r, call, toolFails) \/ BeginUnknown(r, call, toolFails)
      PROVE  AgentInv'
  BY <1>1, BeginKeeps, BeginUnknownKeeps
<1>2. ASSUME NEW r \in Requests, NEW reply \in Replies[r], Receive(r, reply)
      PROVE  AgentInv'
  <2>1. CASE Raises(reply) = Absent
    BY <1>2, <2>1, RespondKeeps DEF Receive
  <2>2. CASE Raises(reply) # Absent
    BY <1>2, <2>2, RaiseKeeps DEF Receive
  <2> QED BY <2>1, <2>2
<1>3. ASSUME NEW r \in Requests, Resume(r) \/ Cancel(r) PROVE AgentInv'
  BY <1>3, ResumeKeeps, CancelKeeps
<1>4. CASE Tick \/ UNCHANGED vars
  BY <1>4, StillKeeps
<1> QED BY <1>1, <1>2, <1>3, <1>4 DEF Next

\* Of every request, in every reachable state.
THEOREM Invariant == Spec => []AgentInv
BY InitAgent, NextAgent, PTL DEF Spec

\* Every variable keeps its type: a span records only exceptions the code
\* raises, and the histogram never gets a cost of nothing.
THEOREM TypeCorrect == Spec => []TypeOK
<1>1. AgentInv => TypeOK
  BY CallType DEF AgentInv, SessionType, TypeOK
<1> QED BY <1>1, Invariant, PTL

\* The status of a response says whose fault a failure was, whatever the other
\* requests did to the provider's gate on the way to it (agent.py).
THEOREM StatusTells == Spec => []StatusTellsTheFault
<1>1. AgentInv => StatusTellsTheFault
  <2> SUFFICES ASSUME AgentInv, NEW r \in Requests
               PROVE  StatusTellsTheFault!(r)
    BY Zenon DEF StatusTellsTheFault
  <2>1. Told(r)
    BY DEF AgentInv
  <2> QED BY <2>1, Zenon DEF Told
<1> QED BY <1>1, Invariant, PTL

\* A session's cost is what its one answer was worth, observed once.
THEOREM CostIsTheAnswers == Spec => []SessionCostsItsAnswer
<1>1. AgentInv => SessionCostsItsAnswer
  <2> SUFFICES ASSUME AgentInv, NEW r \in Requests
               PROVE  SessionCostsItsAnswer!(r)
    BY Zenon DEF SessionCostsItsAnswer
  <2>1. Told(r)
    BY DEF AgentInv
  <2> QED BY <2>1, Zenon DEF Told
<1> QED BY <1>1, Invariant, PTL

\* The tool failure is reported exactly when the route answered over it, and
\* retries exactly when enough attempts failed.
THEOREM ReportsMatch == Spec => []ReportsMatchOutcome
<1>1. AgentInv => ReportsMatchOutcome
  <2> SUFFICES ASSUME AgentInv, NEW r \in Requests
               PROVE  ReportsMatchOutcome!(r)
    BY Zenon DEF ReportsMatchOutcome
  <2>1. Told(r)
    BY DEF AgentInv
  <2> QED BY <2>1, Zenon DEF Told
<1> QED BY <1>1, Invariant, PTL

\* The class that explains a failure is on the model span, and only there: the
\* session span has the class the route converted it to.
THEOREM FailuresTraceable == Spec => []FailureTraceable
<1>1. AgentInv => FailureTraceable
  <2> SUFFICES ASSUME AgentInv, NEW r \in Requests
               PROVE  FailureTraceable!(r)
    BY Zenon DEF FailureTraceable
  <2>1. Told(r)
    BY DEF AgentInv
  <2> QED BY <2>1, Zenon DEF Told
<1> QED BY <1>1, Invariant, PTL

------------------------------------------------------------------------------
(* The route implements the client.                                         *)

\* A reply is an answer to the request's call, or leaves the calls alone.
LEMMA ReplyIsAnswer ==
  ASSUME NEW r \in Requests, NEW reply \in Replies[r], Receive(r, reply)
  PROVE  Chat!Answer(r)
<1>1. CASE Raises(reply) = Absent
  BY <1>1 DEF Receive, Respond, Chat!Answer
<1>2. CASE Raises(reply) # Absent
  <2>1. Raise(r, reply, Raises(reply))
    BY <1>2 DEF Receive
  <2> QED BY <2>1 DEF Raise, Chat!Answer
<1> QED BY <1>1, <1>2

\* Every step of a request is a step of its call, and of no other, or none.
LEMMA StepIsCalls == [Next]_vars => [Chat!Next]_(Chat!vars)
<1> SUFFICES ASSUME [Next]_vars PROVE Chat!Next \/ UNCHANGED Chat!vars
  OBVIOUS
<1>1. ASSUME NEW r \in Requests, NEW call \in Calls, NEW toolFails \in ToolFails[r],
             Begin(r, call, toolFails) \/ BeginUnknown(r, call, toolFails)
      PROVE  Chat!Next \/ UNCHANGED Chat!vars
  BY <1>1 DEF Begin, BeginUnknown, chat, Chat!Next, Chat!vars, Chat!history
<1>2. ASSUME NEW r \in Requests, NEW reply \in Replies[r], Receive(r, reply)
      PROVE  Chat!Next
  BY <1>2, ReplyIsAnswer DEF Chat!Next
<1>3. ASSUME NEW r \in Requests, Resume(r) \/ Cancel(r)
      PROVE  Chat!Next
  BY <1>3 DEF Resume, Cancel, Chat!Next
<1>4. CASE Tick
  BY <1>4 DEF Tick, Chat!Next
<1>5. CASE UNCHANGED vars
  BY <1>5 DEF vars, chat, Chat!vars, Chat!history
<1> QED BY <1>1, <1>2, <1>3, <1>4, <1>5 DEF Next

\* The requests' calls behave as complete() does for any other caller, fairness
\* included: whatever is proved or checked of ChatClient holds of the route's
\* calls, whatever the sessions around them do.
THEOREM RouteImplementsClient == Spec => Chat!Spec
<1>1. Init => Chat!Init
  BY DEF Init
<1> QED BY <1>1, StepIsCalls, PTL DEF Spec, Chat!Spec

\* So no request of the route goes out into a cooldown its call was told of, nor
\* before the delay its own last 429 asked for, unless another's has replaced it
\* (client.py:48-54), and every request has only so many awaits before it.
THEOREM RouteHonoursTheGate ==
  Spec => Chat!SendsOnlyPastKnownCooldown /\ Chat!HonoursOwnRetryAfter
<1>1. AgentInv /\ [Next]_vars =>
        [\A c \in Requests :
           Chat!Sends(c) /\ cooldown[Setting[c]] > 0 => c \in overtaken]_(Chat!vars)
  <2> SUFFICES ASSUME AgentInv, Chat!Next, NEW c \in Requests, Chat!Sends(c),
                      cooldown[Setting[c]] > 0
               PROVE  c \in overtaken
    BY StepIsCalls
  <2>1. ChatP!Inv /\ [ChatP!Next]_(ChatP!vars) /\ ChatP!Sends(c)
    BY NextIsNext DEF AgentInv, Chat!Sends, ChatP!Sends
  <2> QED BY <2>1, ChatAssumed, ChatP!SendsPastKnownCooldown
<1>2. AgentInv /\ [Next]_vars =>
        [\A c \in Requests : Chat!Sends(c) /\ owed[c] > 0 => c \in replaced]_(Chat!vars)
  <2> SUFFICES ASSUME AgentInv, Chat!Next, NEW c \in Requests, Chat!Sends(c), owed[c] > 0
               PROVE  c \in replaced
    BY StepIsCalls
  <2>1. ChatP!Inv /\ [ChatP!Next]_(ChatP!vars) /\ ChatP!Sends(c)
    BY NextIsNext DEF AgentInv, Chat!Sends, ChatP!Sends
  <2> QED BY <2>1, ChatAssumed, ChatP!SendsPastOwnDelay
<1>3. Spec => [][\A c \in Requests :
                   Chat!Sends(c) /\ cooldown[Setting[c]] > 0 => c \in overtaken]_(Chat!vars)
  BY <1>1, Invariant, PTL DEF Spec
<1>4. Spec => [][\A c \in Requests :
                   Chat!Sends(c) /\ owed[c] > 0 => c \in replaced]_(Chat!vars)
  BY <1>2, Invariant, PTL DEF Spec
<1> QED
  BY <1>3, <1>4, PTL DEF Chat!SendsOnlyPastKnownCooldown, Chat!HonoursOwnRetryAfter

===============================================================================
