------------------------ MODULE DetectionTrace_proofs ------------------------
(***************************************************************************)
(* What the detectors report of whole sessions.                            *)
(*                                                                         *)
(* Of DetectionTrace, for sessions of any length, any thresholds and any   *)
(* spans: what the detectors keep of a session is what its history says,   *)
(* so what they report is what the history says they should.               *)
(*                                                                         *)
(* Of Harness, for the scripts of the source and the detectors its         *)
(* programs register, whatever those programs have run before: what a      *)
(* session is reported for is a fact about its script.                     *)
(***************************************************************************)
EXTENDS DetectionTrace, Harness, Detection_proofs, FiniteSetTheorems, SequenceTheorems

------------------------------------------------------------------------------
(* The invariant: what the scratch space keeps is what the history says.    *)

\* Some call had come back LoopThreshold times by step i; RetryThreshold
\* attempts had failed by step i.
LoopAt(i) ==
  \E c \in Calls : Cardinality(Repeats(c, i, {"returned", "cancelled"})) >= LoopThreshold
RetryAt(i) == Cardinality(FailedAttempts(i)) >= RetryThreshold

\* A tool came back after step i, on a step the watcher saw.
WitnessedAt(i) == \E k \in Steps :
  k > i /\ ToolEnded(k, {"returned", "cancelled"}) /\ EmittedAt(k) # "loop"

\* The counters count the steps they should.
Counted ==
  /\ \A c \in Calls :
       /\ IsFiniteSet(Repeats(c, Len(trace), {"returned", "cancelled"}))
       /\ state.calls[c] = Cardinality(Repeats(c, Len(trace), {"returned", "cancelled"}))
  /\ IsFiniteSet(FailedAttempts(Len(trace)))
  /\ state.failedAttempts = Cardinality(FailedAttempts(Len(trace)))

\* The running cost is what the steps have cost.
Charged ==
  /\ IsFiniteSet(Spendings(Len(trace)))
  /\ state.cost = Spent(Len(trace))

\* What has fired is what was emitted, and a threshold has been crossed exactly
\* when its type has fired.
Fired ==
  /\ state.fired \subseteq SpanTypes
  /\ \A type \in SpanTypes : type \in state.fired <=> \E i \in Steps : EmittedAt(i) = type
  /\ "loop" \in state.fired <=> \E i \in Steps : LoopAt(i)
  /\ "retry_amplification" \in state.fired <=> \E i \in Steps : RetryAt(i)

\* The facts of the silent-failure verdict.
Watched ==
  /\ state.toolFailed <=> \E i \in Steps : ToolEnded(i, {"raised"})
  /\ state.modelAfter <=> \E i \in Steps : AnsweredOver(i)
  /\ state.recovered <=> \E i \in Steps : ToolEnded(i, {"raised"}) /\ WitnessedAt(i)

\* The scratch space mirrors the history for as long as the session is open.
Mirrored == closing = <<>> => Counted /\ Charged /\ Fired /\ Watched

Told ==
  /\ LoopReportedAtFirstRepeat /\ RetriesReportedAtThreshold
  /\ CeilingReportedOncePromptly /\ EachTypeReportedOnce

Inv == TypeOK /\ Mirrored /\ Told /\ SilentFailureVerdict

LEMMA Initially == TraceInit => Inv
<1> SUFFICES ASSUME TraceInit PROVE Inv
  OBVIOUS
<1>1. state = Fresh /\ trace = <<>> /\ closing = <<>> /\ Len(trace) = 0 /\ Steps = {}
  BY DEF TraceInit, Steps
<1>2. TypeOK
  BY <1>1, FreshType DEF TypeOK
<1>3. Counted
  <2>1. \A c \in Calls : Repeats(c, 0, {"returned", "cancelled"}) = {}
    BY DEF Repeats
  <2>2. FailedAttempts(0) = {}
    BY DEF FailedAttempts
  <2> QED
    BY <1>1, <2>1, <2>2, FS_EmptySet DEF Counted, Fresh
<1>4. Fired /\ Watched
  BY <1>1 DEF Fired, Watched, Fresh
<1>4a. Charged
  <2>1. Spendings(0) = {}
    BY DEF Spendings
  <2> QED
    BY <1>1, <2>1, FS_EmptySet DEF Charged, Spent, Fresh
<1>5. Told /\ SilentFailureVerdict
  BY <1>1 DEF Told, LoopReportedAtFirstRepeat, RetriesReportedAtThreshold,
     CeilingReportedOncePromptly, EachTypeReportedOnce, SilentFailureVerdict
<1> QED
  BY <1>1, <1>2, <1>3, <1>4, <1>4a, <1>5 DEF Inv, Mirrored

------------------------------------------------------------------------------
(* A step of the run ends: the history is one step longer and otherwise the *)
(* same.                                                                    *)

LEMMA HistoryGrows ==
  ASSUME TypeOK, NEW span \in Spans, End(span)
  PROVE  /\ Len(trace) \in Nat /\ Len(trace)' = Len(trace) + 1
         /\ Steps = 1..Len(trace) /\ Steps' = Steps \cup {Len(trace) + 1}
         /\ Len(trace) + 1 \notin Steps
         /\ \A i \in Steps : trace'[i] = trace[i]
         /\ trace'[Len(trace) + 1] =
              [span |-> span, emitted |-> RunSpan(state, span).emitted]
         /\ state' = RunSpan(state, span).state
         /\ closing = <<>> /\ closing' = <<>>
         /\ span \in Span /\ state \in Scratch
         /\ trace' \in Seq([span : Spans, emitted : SpanTypes \cup {None}])
<1> DEFINE result == RunSpan(state, span)
           entry  == [span |-> span, emitted |-> result.emitted]
<1>1. span \in Span /\ state \in Scratch
  BY TraceAssumption DEF TypeOK
<1>2. result.emitted \in SpanTypes \cup {None}
  BY <1>1, RunSpanLeaves DEF Leaves
<1>3. state' = result.state /\ trace' = Append(trace, entry)
        /\ closing = <<>> /\ closing' = <<>>
  BY DEF End
<1> HIDE DEF result
<1>4. entry \in [span : Spans, emitted : SpanTypes \cup {None}]
  BY <1>2
<1>5. trace \in Seq([span : Spans, emitted : SpanTypes \cup {None}])
  BY DEF TypeOK
<1> HIDE DEF entry
<1>6. /\ Len(trace) \in Nat /\ Len(trace)' = Len(trace) + 1
      /\ DOMAIN trace = 1..Len(trace) /\ DOMAIN trace' = 1..(Len(trace) + 1)
      /\ \A i \in 1..Len(trace) : trace'[i] = trace[i]
      /\ trace'[Len(trace) + 1] = entry
      /\ trace' \in Seq([span : Spans, emitted : SpanTypes \cup {None}])
  BY <1>3, <1>4, <1>5
<1>7. Steps' = Steps \cup {Len(trace) + 1} /\ Len(trace) + 1 \notin Steps
  BY <1>6 DEF Steps
<1> QED
  BY <1>1, <1>3, <1>6, <1>7 DEF Steps, entry, result

\* What the history said of a step it still says, and of the new one, the n-th,
\* it says what the span and its report are.
LEMMA HistoryKept ==
  ASSUME TypeOK, NEW span \in Spans, End(span), NEW n \in Nat, n = Len(trace) + 1
  PROVE  /\ \A i \in Steps :
              /\ SpanAt(i)' = SpanAt(i) /\ EmittedAt(i)' = EmittedAt(i)
              /\ SpanAt(i) \in Span
              /\ (LoopAt(i)' <=> LoopAt(i))
              /\ (RetryAt(i)' <=> RetryAt(i))
         /\ SpanAt(n)' = span
         /\ EmittedAt(n)' = RunSpan(state, span).emitted
         /\ \A c \in Calls, outcomes \in SUBSET Outcomes :
              Repeats(c, n, outcomes)' =
                Repeats(c, Len(trace), outcomes) \cup
                  (IF span.kind = "tool" /\ span.outcome \in outcomes /\ span.call = c
                   THEN {n} ELSE {})
         /\ FailedAttempts(n)' =
              FailedAttempts(Len(trace)) \cup (IF FailedAttempt(span) THEN {n} ELSE {})
<1>1. /\ Len(trace) \in Nat /\ Steps = 1..Len(trace)
      /\ \A i \in Steps : trace'[i] = trace[i]
      /\ trace'[n] = [span |-> span, emitted |-> RunSpan(state, span).emitted]
  BY HistoryGrows
<1>2. ASSUME NEW i \in Steps
      PROVE  SpanAt(i)' = SpanAt(i) /\ EmittedAt(i)' = EmittedAt(i)
  BY <1>1 DEF SpanAt, EmittedAt
<1>3. SpanAt(n)' = span /\ EmittedAt(n)' = RunSpan(state, span).emitted
  BY <1>1 DEF SpanAt, EmittedAt
<1>4. ASSUME NEW i \in Steps PROVE SpanAt(i) \in Span
  <2>1. trace \in Seq([span : Spans, emitted : SpanTypes \cup {None}])
    BY DEF TypeOK
  <2>2. trace[i] \in [span : Spans, emitted : SpanTypes \cup {None}]
    <3>1. DOMAIN trace = 1..Len(trace)
      BY <2>1
    <3>2. i \in DOMAIN trace
      BY <1>1, <3>1
    <3> HIDE DEF Steps
    <3> DEFINE Entry == [span : Spans, emitted : SpanTypes \cup {None}]
    <3> HIDE DEF Entry
    <3>3. ASSUME NEW t \in Seq(Entry), NEW k \in DOMAIN t PROVE t[k] \in Entry
      OBVIOUS
    <3> QED
      BY <2>1, <3>2, <3>3 DEF Entry
  <2> QED
    BY <2>2, TraceAssumption DEF SpanAt
<1>5. ASSUME NEW i \in Steps, NEW outcomes
      PROVE  ToolEnded(i, outcomes)' <=> ToolEnded(i, outcomes)
  BY <1>2 DEF ToolEnded
<1>6. ASSUME NEW i \in Steps, NEW c \in Calls
      PROVE  Repeats(c, i, {"returned", "cancelled"})' = Repeats(c, i, {"returned", "cancelled"})
  <2>1. i \in Nat /\ \A j \in 1..i : j \in Steps
    BY <1>1
  <2>2. \A j \in 1..i : /\ SpanAt(j)' = SpanAt(j)
                        /\ ToolEnded(j, {"returned", "cancelled"})'
                             <=> ToolEnded(j, {"returned", "cancelled"})
    BY <1>2, <1>5, <2>1
  <2> QED
    BY <2>2 DEF Repeats
<1>7. ASSUME NEW i \in Steps PROVE FailedAttempts(i)' = FailedAttempts(i)
  <2>1. \A j \in 1..i : SpanAt(j)' = SpanAt(j)
    BY <1>1, <1>2
  <2> QED
    BY <2>1 DEF FailedAttempts
<1>8. ASSUME NEW i \in Steps PROVE (LoopAt(i)' <=> LoopAt(i)) /\ (RetryAt(i)' <=> RetryAt(i))
  BY <1>6, <1>7 DEF LoopAt, RetryAt
<1>9. 1..n = 1..Len(trace) \cup {n}
  BY <1>1
<1>10. ASSUME NEW c \in Calls, NEW outcomes \in SUBSET Outcomes
       PROVE  Repeats(c, n, outcomes)' =
                Repeats(c, Len(trace), outcomes) \cup
                  (IF span.kind = "tool" /\ span.outcome \in outcomes /\ span.call = c
                   THEN {n} ELSE {})
  <2>1. Repeats(c, n, outcomes)' =
          {j \in 1..n : ToolEnded(j, outcomes)' /\ SpanAt(j)'.call = c}
    BY DEF Repeats
  <2>2. \A j \in 1..Len(trace) :
          (ToolEnded(j, outcomes)' /\ SpanAt(j)'.call = c)
             <=> (ToolEnded(j, outcomes) /\ SpanAt(j).call = c)
    BY <1>1, <1>2, <1>5
  <2>3. (ToolEnded(n, outcomes)' /\ SpanAt(n)'.call = c)
           <=> (span.kind = "tool" /\ span.outcome \in outcomes /\ span.call = c)
    BY <1>3 DEF ToolEnded
  <2> QED
    BY <1>9, <2>1, <2>2, <2>3 DEF Repeats
<1>11. FailedAttempts(n)' =
         FailedAttempts(Len(trace)) \cup (IF FailedAttempt(span) THEN {n} ELSE {})
  <2>1. FailedAttempts(n)' =
          {j \in 1..n : SpanAt(j)'.kind = "attempt" /\ SpanAt(j)'.outcome = "raised"}
    BY DEF FailedAttempts
  <2>2. \A j \in 1..Len(trace) : SpanAt(j)' = SpanAt(j)
    BY <1>1, <1>2
  <2> QED
    BY <1>3, <1>9, <2>1, <2>2 DEF FailedAttempts, FailedAttempt, IsError
<1> QED
  BY <1>2, <1>3, <1>4, <1>8, <1>10, <1>11

\* The counters go on counting: the new step is in a set exactly when the
\* detector counted it.
LEMMA StillCounted ==
  ASSUME TypeOK, Mirrored, NEW span \in Spans, End(span), NEW n \in Nat, n = Len(trace) + 1
  PROVE  /\ Counted'
         /\ \A c \in Calls :
              state'.calls[c] = Cardinality(Repeats(c, n, {"returned", "cancelled"})')
         /\ state'.failedAttempts = Cardinality(FailedAttempts(n)')
<1>1. /\ Len(trace)' = n /\ Len(trace) \in Nat /\ closing = <<>>
      /\ span \in Span /\ state \in Scratch /\ state' = RunSpan(state, span).state
  BY HistoryGrows
<1>2. Counted
  BY <1>1 DEF Mirrored
<1>3. /\ state'.calls = IF Countable(span)
                        THEN [state.calls EXCEPT ![span.call] = @ + 1] ELSE state.calls
      /\ state'.failedAttempts = IF FailedAttempt(span)
                                 THEN state.failedAttempts + 1 ELSE state.failedAttempts
  BY <1>1, RunSpanFacts
<1>4. state.calls \in [Calls -> Nat] /\ state.failedAttempts \in Nat
  BY <1>1 DEF Scratch
<1>5. ASSUME NEW c \in Calls
      PROVE  LET before == Repeats(c, Len(trace), {"returned", "cancelled"})
                 after  == Repeats(c, n, {"returned", "cancelled"})'
             IN  IsFiniteSet(after) /\ state'.calls[c] = Cardinality(after)
  <2> DEFINE before == Repeats(c, Len(trace), {"returned", "cancelled"})
             after  == Repeats(c, n, {"returned", "cancelled"})'
             counted == /\ span.kind = "tool" /\ span.outcome \in {"returned", "cancelled"}
                        /\ span.call = c
  <2>1. {"returned", "cancelled"} \in SUBSET Outcomes
    BY DEF Outcomes
  <2>2. after = before \cup (IF counted THEN {n} ELSE {})
    BY <2>1, HistoryKept
  <2>3. n \notin before
    BY <1>1 DEF Repeats
  <2>4. counted <=> Countable(span) /\ span.call = c
    BY <1>1, DetectionAssumption DEF Countable, IsError, Span, Outcomes
  <2>5. IsFiniteSet(before) /\ state.calls[c] = Cardinality(before)
    BY <1>2 DEF Counted
  <2>6. state'.calls[c] = IF counted THEN state.calls[c] + 1 ELSE state.calls[c]
    BY <1>3, <1>4, <2>4
  <2> HIDE DEF before, after, counted
  <2>7. IsFiniteSet(after) /\ state'.calls[c] = Cardinality(after)
    <3>1. CASE counted
      <4>1. Cardinality(before \cup {n}) = Cardinality(before) + 1 /\ IsFiniteSet(before \cup {n})
        BY <2>3, <2>5, FS_AddElement
      <4> QED
        BY <2>2, <2>5, <2>6, <3>1, <4>1
    <3>2. CASE ~counted
      BY <2>2, <2>5, <2>6, <3>2
    <3> QED
      BY <3>1, <3>2
  <2> QED
    BY <2>7 DEF before, after
<1>6. IsFiniteSet(FailedAttempts(n)') /\ state'.failedAttempts = Cardinality(FailedAttempts(n)')
  <2> DEFINE before == FailedAttempts(Len(trace))
             after  == FailedAttempts(n)'
  <2>1. after = before \cup (IF FailedAttempt(span) THEN {n} ELSE {})
    BY HistoryKept
  <2>2. n \notin before
    BY <1>1 DEF FailedAttempts
  <2>3. IsFiniteSet(before) /\ state.failedAttempts = Cardinality(before)
    BY <1>2 DEF Counted
  <2> HIDE DEF before, after
  <2>4. IsFiniteSet(after) /\ state'.failedAttempts = Cardinality(after)
    <3>1. CASE FailedAttempt(span)
      <4>1. Cardinality(before \cup {n}) = Cardinality(before) + 1 /\ IsFiniteSet(before \cup {n})
        BY <2>2, <2>3, FS_AddElement
      <4> QED
        BY <1>3, <2>1, <2>3, <3>1, <4>1
    <3>2. CASE ~FailedAttempt(span)
      BY <1>3, <2>1, <2>3, <3>2
    <3> QED
      BY <3>1, <3>2
  <2> QED
    BY <2>4 DEF after
<1> QED
  BY <1>1, <1>5, <1>6 DEF Counted

\* What was spent stays spent, and the new step adds its own cost to it.
LEMMA SpendingsGrow ==
  ASSUME TypeOK, NEW span \in Spans, End(span), NEW n \in Nat, n = Len(trace) + 1
  PROVE  /\ \A i \in Steps : Spent(i)' = Spent(i)
         /\ Spendings(n)' = Spendings(Len(trace)) \cup ({n} \X (1..span.cost))
<1>1. /\ Len(trace) \in Nat /\ Steps = 1..Len(trace)
      /\ \A i \in Steps : SpanAt(i)' = SpanAt(i)
      /\ SpanAt(n)' = span
  BY HistoryGrows, HistoryKept
<1>2. ASSUME NEW i \in 0..Len(trace)
      PROVE  {{j} \X (1..SpanAt(j)'.cost) : j \in 1..i} = {{j} \X (1..SpanAt(j).cost) : j \in 1..i}
  <2>1. \A j \in 1..i : SpanAt(j)' = SpanAt(j)
    BY <1>1
  <2> QED
    BY <2>1
<1>3. ASSUME NEW i \in Steps PROVE Spent(i)' = Spent(i)
  <2>1. i \in 0..Len(trace)
    BY <1>1
  <2>2. Spendings(i)' = Spendings(i)
    BY <1>2, <2>1 DEF Spendings
  <2> QED
    BY <2>2 DEF Spent
<1>4. 1..n = 1..Len(trace) \cup {n}
  BY <1>1
<1>5. Spendings(n)' = (UNION {{j} \X (1..SpanAt(j)'.cost) : j \in 1..Len(trace)})
                        \cup ({n} \X (1..SpanAt(n)'.cost))
  BY <1>4 DEF Spendings
<1>6. Len(trace) \in 0..Len(trace)
  BY <1>1
<1> QED
  BY <1>1, <1>2, <1>3, <1>5, <1>6 DEF Spendings

LEMMA AsManyAs ==
  ASSUME NEW c \in Nat
  PROVE  IsFiniteSet(1..c) /\ Cardinality(1..c) = c
BY FS_Interval

LEMMA StillCharged ==
  ASSUME TypeOK, Mirrored, NEW span \in Spans, End(span), NEW n \in Nat, n = Len(trace) + 1
  PROVE  /\ Charged'
         /\ Spent(n)' = state.cost + span.cost
<1> DEFINE before == Spendings(Len(trace))
           added  == {n} \X (1..span.cost)
<1>1. /\ Len(trace)' = n /\ Len(trace) \in Nat /\ closing = <<>>
      /\ span \in Span /\ state \in Scratch /\ state' = RunSpan(state, span).state
  BY HistoryGrows
<1>2. IsFiniteSet(before) /\ state.cost = Cardinality(before)
  BY <1>1 DEF Mirrored, Charged, Spent
<1>3. span.cost \in Nat /\ state'.cost = state.cost + span.cost
  BY <1>1, SpanFields, RunSpanLeaves DEF Leaves
<1>4. IsFiniteSet(added) /\ Cardinality(added) = span.cost
  <2>1. IsFiniteSet({n}) /\ Cardinality({n}) = 1
    BY FS_Singleton
  <2>2. IsFiniteSet(1..span.cost) /\ Cardinality(1..span.cost) = span.cost
    BY <1>3, AsManyAs
  <2>3. IsFiniteSet(added) /\ Cardinality(added) = 1 * Cardinality(1..span.cost)
    BY <2>1, <2>2, FS_Product
  <2> QED
    BY <1>3, <2>2, <2>3
<1>5. before \cap added = {}
  BY <1>1 DEF Spendings
<1>6. Spendings(n)' = before \cup added
  BY SpendingsGrow
<1> HIDE DEF before, added
<1>7. IsFiniteSet(before \cup added)
      /\ Cardinality(before \cup added) = Cardinality(before) + Cardinality(added)
  <2>1. /\ Cardinality(before \cap added) = 0
        /\ Cardinality(before) \in Nat /\ Cardinality(added) \in Nat
    BY <1>2, <1>4, <1>5, FS_EmptySet, FS_CardinalityType
  <2>2. IsFiniteSet(before \cup added)
        /\ Cardinality(before \cup added) =
             Cardinality(before) + Cardinality(added) - Cardinality(before \cap added)
    BY <1>2, <1>4, FS_Union
  <2> QED
    BY <2>1, <2>2
<1>8. IsFiniteSet(Spendings(n)') /\ Spent(n)' = state.cost + span.cost
  BY <1>2, <1>4, <1>6, <1>7 DEF Spent
<1> QED
  BY <1>1, <1>3, <1>8 DEF Charged

\* The ceiling is reported on the new step only when it is over and was not reported
\* before, and when it is over then and the slot is free.
LEMMA CeilingStillTold ==
  ASSUME TypeOK, Mirrored, Told, NEW span \in Spans, End(span)
  PROVE  CeilingReportedOncePromptly'
<1> DEFINE emitted == RunSpan(state, span).emitted
           over(i) == CeilingSet /\ SpanAt(i).cost > 0 /\ Spent(i) > CostCeiling
           told(i) == \E j \in Steps : j < i /\ EmittedAt(j) = "cost_ceiling"
           prompt(i) == /\ EmittedAt(i) = "cost_ceiling" => over(i) /\ ~told(i)
                        /\ over(i) => EmittedAt(i) # None \/ told(i)
<1>1. PICK n \in Nat : n = Len(trace) + 1
  BY HistoryGrows
<1>2. /\ Steps' = Steps \cup {n} /\ \A i \in Steps : i \in Nat /\ i < n
      /\ closing = <<>> /\ span \in Span /\ state \in Scratch
  <2>1. /\ Len(trace) \in Nat /\ Steps = 1..Len(trace)
        /\ Steps' = Steps \cup {n} /\ closing = <<>> /\ span \in Span /\ state \in Scratch
    BY <1>1, HistoryGrows
  <2>2. \A i \in 1..Len(trace) : i \in Nat /\ i < n
    BY <1>1, <2>1
  <2> QED
    BY <2>1, <2>2
<1>3. /\ \A i \in Steps : SpanAt(i)' = SpanAt(i) /\ EmittedAt(i)' = EmittedAt(i)
      /\ SpanAt(n)' = span /\ EmittedAt(n)' = emitted
      /\ \A i \in Steps : Spent(i)' = Spent(i)
      /\ Spent(n)' = state.cost + span.cost
  BY <1>1, HistoryKept, SpendingsGrow, StillCharged
<1>4. "cost_ceiling" \in state.fired <=> \E i \in Steps : EmittedAt(i) = "cost_ceiling"
  BY <1>2 DEF Mirrored, Fired, SpanTypes
<1>5. /\ emitted = "cost_ceiling" =>
           /\ CeilingSet /\ span.cost > 0 /\ state.cost + span.cost > CostCeiling
           /\ "cost_ceiling" \notin state.fired
      /\ emitted = None =>
           \/ ~(CeilingSet /\ span.cost > 0 /\ state.cost + span.cost > CostCeiling)
           \/ "cost_ceiling" \in state.fired
  BY <1>2, RunSpanLeaves
<1> HIDE DEF emitted
<1>6. told(n)' <=> "cost_ceiling" \in state.fired
  BY <1>1, <1>2, <1>3, <1>4
<1>7. prompt(n)'
  BY <1>3, <1>5, <1>6
<1>8. ASSUME NEW i \in Steps PROVE prompt(i)'
  <2>1. prompt(i)
    BY DEF Told, CeilingReportedOncePromptly
  <2>2. told(i)' <=> told(i)
    BY <1>1, <1>2, <1>3
  <2> QED
    BY <1>3, <2>1, <2>2
<1>9. \A i \in Steps' : prompt(i)'
  BY <1>2, <1>7, <1>8
<1> QED
  BY <1>9 DEF CeilingReportedOncePromptly

\* A threshold is crossed by the new step, and by none before it, exactly when
\* its detector reports it there.
LEMMA CrossingIsReported ==
  ASSUME TypeOK, Mirrored, NEW span \in Spans, End(span), NEW n \in Nat, n = Len(trace) + 1
  PROVE  /\ RunSpan(state, span).emitted = "loop"
              <=> LoopAt(n)' /\ \A i \in Steps : ~LoopAt(i)
         /\ RunSpan(state, span).emitted = "retry_amplification"
              <=> RetryAt(n)' /\ \A i \in Steps : ~RetryAt(i)
<1> DEFINE emitted == RunSpan(state, span).emitted
<1>1. /\ Len(trace) \in Nat /\ Steps = 1..Len(trace) /\ closing = <<>>
      /\ span \in Span /\ state \in Scratch /\ state' = RunSpan(state, span).state
  BY HistoryGrows
<1>2. Counted /\ Fired
  BY <1>1 DEF Mirrored
<1>3. /\ state.calls \in [Calls -> Nat] /\ state.failedAttempts \in Nat
      /\ LoopThreshold \in Nat \ {0} /\ RetryThreshold \in Nat \ {0}
  BY <1>1, DetectionAssumption DEF Scratch
<1>4. /\ emitted = "loop" <=>
           /\ Countable(span) /\ "loop" \notin state.fired
           /\ state.calls[span.call] + 1 >= LoopThreshold
      /\ emitted = "retry_amplification" <=>
           /\ FailedAttempt(span) /\ "retry_amplification" \notin state.fired
           /\ state.failedAttempts + 1 >= RetryThreshold
      /\ state'.calls = IF Countable(span)
                        THEN [state.calls EXCEPT ![span.call] = @ + 1] ELSE state.calls
      /\ state'.failedAttempts = IF FailedAttempt(span)
                                 THEN state.failedAttempts + 1 ELSE state.failedAttempts
  BY <1>1, RunSpanFacts
<1>5. /\ \A c \in Calls : state'.calls[c] = Cardinality(Repeats(c, n, {"returned", "cancelled"})')
      /\ state'.failedAttempts = Cardinality(FailedAttempts(n)')
  BY StillCounted
<1> HIDE DEF emitted
<1>6. emitted = "loop" <=> LoopAt(n)' /\ \A i \in Steps : ~LoopAt(i)
  <2>1. "loop" \in state.fired <=> \E i \in Steps : LoopAt(i)
    BY <1>2 DEF Fired
  <2>2. LoopAt(n)' <=> \E c \in Calls : state'.calls[c] >= LoopThreshold
    BY <1>5 DEF LoopAt
  <2>3. ASSUME \A i \in Steps : ~LoopAt(i), NEW c \in Calls
        PROVE  state.calls[c] < LoopThreshold
    <3>1. state.calls[c] = Cardinality(Repeats(c, Len(trace), {"returned", "cancelled"}))
          /\ state.calls[c] \in Nat
      BY <1>2, <1>3 DEF Counted
    <3>2. CASE Len(trace) = 0
      <4>1. Repeats(c, Len(trace), {"returned", "cancelled"}) = {}
        BY <3>2 DEF Repeats
      <4>2. Cardinality(Repeats(c, Len(trace), {"returned", "cancelled"})) = 0
        BY <4>1, FS_EmptySet
      <4> QED
        BY <1>3, <3>1, <4>2
    <3>3. CASE Len(trace) # 0
      <4>1. ~LoopAt(Len(trace))
        BY <1>1, <2>3, <3>3
      <4> QED
        BY <1>3, <3>1, <4>1 DEF LoopAt
    <3> QED
      BY <3>2, <3>3
  <2>4. ASSUME emitted = "loop" PROVE LoopAt(n)'
    <3>1. Countable(span) /\ span.call \in Calls /\ state.calls[span.call] + 1 >= LoopThreshold
      BY <1>1, <1>4, <2>4, OneKind
    <3>2. state'.calls[span.call] = state.calls[span.call] + 1
      BY <1>3, <1>4, <3>1
    <3> QED
      BY <2>2, <3>1, <3>2
  <2>5. ASSUME LoopAt(n)', \A i \in Steps : ~LoopAt(i) PROVE emitted = "loop"
    <3>1. PICK c \in Calls : state'.calls[c] >= LoopThreshold
      BY <2>2, <2>5
    <3>2. state.calls[c] < LoopThreshold /\ state.calls[c] \in Nat
      BY <1>3, <2>3, <2>5
    <3>3. Countable(span) /\ span.call = c /\ state.calls[c] + 1 >= LoopThreshold
      BY <1>3, <1>4, <3>1, <3>2
    <3> QED
      BY <1>4, <2>1, <2>5, <3>3
  <2> QED
    BY <1>4, <2>1, <2>4, <2>5
<1>7. emitted = "retry_amplification" <=> RetryAt(n)' /\ \A i \in Steps : ~RetryAt(i)
  <2>1. "retry_amplification" \in state.fired <=> \E i \in Steps : RetryAt(i)
    BY <1>2 DEF Fired
  <2>2. RetryAt(n)' <=> state'.failedAttempts >= RetryThreshold
    BY <1>5 DEF RetryAt
  <2>3. ASSUME \A i \in Steps : ~RetryAt(i) PROVE state.failedAttempts < RetryThreshold
    <3>1. state.failedAttempts = Cardinality(FailedAttempts(Len(trace)))
      BY <1>2 DEF Counted
    <3>2. CASE Len(trace) = 0
      <4>1. FailedAttempts(Len(trace)) = {}
        BY <3>2 DEF FailedAttempts
      <4> QED
        BY <1>3, <3>1, <4>1, FS_EmptySet
    <3>3. CASE Len(trace) # 0
      <4>1. ~RetryAt(Len(trace))
        BY <1>1, <2>3, <3>3
      <4> QED
        BY <1>3, <3>1, <4>1 DEF RetryAt
    <3> QED
      BY <3>2, <3>3
  <2>4. ASSUME emitted = "retry_amplification" PROVE RetryAt(n)'
    BY <1>4, <2>2, <2>4
  <2>5. ASSUME RetryAt(n)', \A i \in Steps : ~RetryAt(i) PROVE emitted = "retry_amplification"
    BY <1>3, <1>4, <2>1, <2>2, <2>3, <2>5
  <2> QED
    BY <1>4, <2>1, <2>4, <2>5
<1> QED
  BY <1>6, <1>7 DEF emitted

\* What has fired stays what was emitted, and when a threshold was crossed.
LEMMA StillFired ==
  ASSUME TypeOK, Mirrored, NEW span \in Spans, End(span)
  PROVE  Fired'
<1> DEFINE emitted == RunSpan(state, span).emitted
<1>1. PICK n \in Nat : n = Len(trace) + 1
  BY HistoryGrows
<1>2. /\ Steps' = Steps \cup {n} /\ closing = <<>>
      /\ span \in Span /\ state \in Scratch /\ state' = RunSpan(state, span).state
  BY <1>1, HistoryGrows
<1>3. Fired
  BY <1>2 DEF Mirrored
<1>4. \/ emitted = None /\ state'.fired = state.fired
      \/ emitted \in SpanTypes \ state.fired /\ state'.fired = state.fired \cup {emitted}
  BY <1>2, RunSpanLeaves DEF Leaves
<1>5. /\ \A i \in Steps : /\ EmittedAt(i)' = EmittedAt(i)
                           /\ (LoopAt(i)' <=> LoopAt(i))
                           /\ (RetryAt(i)' <=> RetryAt(i))
      /\ EmittedAt(n)' = emitted
  <2>1. n = Len(trace) + 1 /\ n \in Nat
    BY <1>1
  <2> QED
    BY <2>1, HistoryKept
<1>6. /\ emitted = "loop" <=> LoopAt(n)' /\ \A i \in Steps : ~LoopAt(i)
      /\ emitted = "retry_amplification" <=> RetryAt(n)' /\ \A i \in Steps : ~RetryAt(i)
  BY <1>1, CrossingIsReported
<1> HIDE DEF emitted
<1>7. "loop" \in SpanTypes /\ "retry_amplification" \in SpanTypes /\ None \notin SpanTypes
      /\ None # "loop" /\ None # "retry_amplification"
  BY DEF SpanTypes, None
<1>8. \A type \in SpanTypes : type \in state'.fired <=> type \in state.fired \/ emitted = type
  BY <1>4, <1>7
<1>9. state'.fired \subseteq SpanTypes
  BY <1>3, <1>4 DEF Fired
<1>10. \A type \in SpanTypes : type \in state'.fired <=> \E i \in Steps' : EmittedAt(i)' = type
  BY <1>2, <1>3, <1>5, <1>8 DEF Fired
<1>11. "loop" \in state'.fired <=> \E i \in Steps' : LoopAt(i)'
  <2>1. "loop" \in state.fired <=> \E i \in Steps : LoopAt(i)
    BY <1>3 DEF Fired
  <2>2. (\E i \in Steps' : LoopAt(i)') <=> (\E i \in Steps : LoopAt(i)) \/ LoopAt(n)'
    BY <1>2, <1>5
  <2> QED
    BY <1>6, <1>7, <1>8, <2>1, <2>2
<1>12. "retry_amplification" \in state'.fired <=> \E i \in Steps' : RetryAt(i)'
  <2>1. "retry_amplification" \in state.fired <=> \E i \in Steps : RetryAt(i)
    BY <1>3 DEF Fired
  <2>2. (\E i \in Steps' : RetryAt(i)') <=> (\E i \in Steps : RetryAt(i)) \/ RetryAt(n)'
    BY <1>2, <1>5
  <2> QED
    BY <1>6, <1>7, <1>8, <2>1, <2>2
<1> QED
  BY <1>9, <1>10, <1>11, <1>12 DEF Fired

\* The watcher goes on knowing whether a tool failed, whether a model ran after
\* it, and whether a tool came back after it on a step it saw.
LEMMA StillWatched ==
  ASSUME TypeOK, Mirrored, NEW span \in Spans, End(span)
  PROVE  Watched'
<1> DEFINE emitted == RunSpan(state, span).emitted
           failed  == span.kind = "tool" /\ IsError(span)
           back    == span.kind = "tool" /\ ~IsError(span) /\ emitted # "loop"
<1>1. PICK n \in Nat : n = Len(trace) + 1
  BY HistoryGrows
<1>2. /\ Steps' = Steps \cup {n} /\ \A i \in Steps : i \in Nat /\ n > i
      /\ closing = <<>> /\ n \notin Steps
      /\ span \in Span /\ state \in Scratch /\ state' = RunSpan(state, span).state
  <2>1. /\ Len(trace) \in Nat /\ Steps = 1..Len(trace)
        /\ Steps' = Steps \cup {n} /\ closing = <<>>
        /\ span \in Span /\ state \in Scratch /\ state' = RunSpan(state, span).state
    BY <1>1, HistoryGrows
  <2>2. (\A i \in 1..Len(trace) : i \in Nat /\ n > i) /\ n \notin 1..Len(trace)
    BY <1>1, <2>1
  <2> QED
    BY <2>1, <2>2
<1>3. Watched
  BY <1>2 DEF Mirrored
<1>4. /\ state'.toolFailed = (state.toolFailed \/ failed)
      /\ state'.recovered = (state.recovered \/ (back /\ state.toolFailed))
      /\ state'.modelAfter = (state.modelAfter \/ (span.kind = "model" /\ state.toolFailed))
  <2> DEFINE looped == /\ Countable(span) /\ "loop" \notin state.fired
                       /\ state.calls[span.call] + 1 >= LoopThreshold
  <2>1. /\ emitted = "loop" <=> looped
        /\ state'.toolFailed = (state.toolFailed \/ failed)
        /\ state'.recovered = (state.recovered \/ (/\ span.kind = "tool" /\ ~IsError(span)
                                                    /\ state.toolFailed /\ ~looped))
        /\ state'.modelAfter = (state.modelAfter \/ (span.kind = "model" /\ state.toolFailed))
    <3> DEFINE r == RunSpan(state, span)
    <3>1. /\ r.emitted = "loop" <=> looped
          /\ r.state.toolFailed = (state.toolFailed \/ (span.kind = "tool" /\ IsError(span)))
          /\ r.state.recovered = (state.recovered \/ (/\ span.kind = "tool" /\ ~IsError(span)
                                                      /\ state.toolFailed /\ ~looped))
          /\ r.state.modelAfter = (state.modelAfter \/ (span.kind = "model" /\ state.toolFailed))
      BY <1>2, RunSpanFacts
    <3>2. state' = r.state
      BY <1>2
    <3> HIDE DEF looped
    <3> QED
      BY <3>1, <3>2
  <2> HIDE DEF looped, emitted
  <2> QED
    BY <2>1
<1>5. /\ \A i \in Steps : /\ SpanAt(i)' = SpanAt(i) /\ EmittedAt(i)' = EmittedAt(i)
      /\ SpanAt(n)' = span /\ EmittedAt(n)' = emitted
  <2>1. n = Len(trace) + 1 /\ n \in Nat
    BY <1>1
  <2> QED
    BY <2>1, HistoryKept
<1>6. \A i \in Steps, outcomes \in SUBSET Outcomes : ToolEnded(i, outcomes)' = ToolEnded(i, outcomes)
  BY <1>5 DEF ToolEnded
<1>7. /\ ToolEnded(n, {"raised"})' = failed
      /\ (ToolEnded(n, {"returned", "cancelled"})' /\ emitted # "loop") = back
  BY <1>2, <1>5 DEF ToolEnded, IsError, Span, Outcomes
<1>8. {"raised"} \in SUBSET Outcomes /\ {"returned", "cancelled"} \in SUBSET Outcomes
  BY DEF Outcomes
<1> HIDE DEF emitted, failed, back
<1>9. ASSUME NEW i \in Steps
      PROVE  /\ AnsweredOver(i)' <=>
                  AnsweredOver(i) \/ (ToolEnded(i, {"raised"}) /\ span.kind = "model")
             /\ (WitnessedAt(i)' <=> WitnessedAt(i) \/ back)
  <2>1. ToolEnded(i, {"raised"})' = ToolEnded(i, {"raised"})
    BY <1>6, <1>8
  <2>2. (\E j \in Steps' : j > i /\ SpanAt(j)'.kind = "model")
          <=> (\E j \in Steps : j > i /\ SpanAt(j).kind = "model") \/ span.kind = "model"
    BY <1>2, <1>5
  <2>3. \A k \in Steps :
          (k > i /\ ToolEnded(k, {"returned", "cancelled"})' /\ EmittedAt(k)' # "loop")
            <=> (k > i /\ ToolEnded(k, {"returned", "cancelled"}) /\ EmittedAt(k) # "loop")
    BY <1>5, <1>6, <1>8
  <2>4. (n > i /\ ToolEnded(n, {"returned", "cancelled"})' /\ EmittedAt(n)' # "loop") <=> back
    BY <1>2, <1>5, <1>7
  <2>5. WitnessedAt(i)' <=>
          \E k \in Steps' : k > i /\ ToolEnded(k, {"returned", "cancelled"})' /\ EmittedAt(k)' # "loop"
    BY DEF WitnessedAt
  <2>6. WitnessedAt(i)' <=> WitnessedAt(i) \/ back
    BY <1>2, <2>3, <2>4, <2>5 DEF WitnessedAt
  <2> QED
    BY <2>1, <2>2, <2>6 DEF AnsweredOver
<1>10. ~AnsweredOver(n)' /\ ~WitnessedAt(n)'
  <2>1. \A j \in Steps' : ~(j > n)
    BY <1>1, <1>2
  <2> QED
    BY <2>1 DEF AnsweredOver, WitnessedAt
<1>11. /\ state.toolFailed <=> \E i \in Steps : ToolEnded(i, {"raised"})
       /\ state.modelAfter <=> \E i \in Steps : AnsweredOver(i)
       /\ state.recovered <=> \E i \in Steps : ToolEnded(i, {"raised"}) /\ WitnessedAt(i)
  BY <1>3 DEF Watched
<1>12. \A i \in Steps : ToolEnded(i, {"raised"})' = ToolEnded(i, {"raised"})
  BY <1>6, <1>8
<1>13. state'.toolFailed <=> \E i \in Steps' : ToolEnded(i, {"raised"})'
  BY <1>2, <1>4, <1>7, <1>11, <1>12
<1>14. state'.modelAfter <=> \E i \in Steps' : AnsweredOver(i)'
  <2>1. (\E i \in Steps' : AnsweredOver(i)') <=> \E i \in Steps : AnsweredOver(i)'
    BY <1>2, <1>10
  <2> QED
    BY <1>4, <1>9, <1>11, <2>1
<1>15. state'.recovered <=> \E i \in Steps' : ToolEnded(i, {"raised"})' /\ WitnessedAt(i)'
  <2>1. (\E i \in Steps' : ToolEnded(i, {"raised"})' /\ WitnessedAt(i)')
          <=> \E i \in Steps : ToolEnded(i, {"raised"}) /\ WitnessedAt(i)'
    BY <1>2, <1>10, <1>12
  <2> QED
    BY <1>4, <1>9, <1>11, <2>1
<1> QED
  BY <1>13, <1>14, <1>15 DEF Watched

\* The reports are where the history says they should be, on the new step too.
LEMMA StillTold ==
  ASSUME TypeOK, Mirrored, Told, NEW span \in Spans, End(span)
  PROVE  Told'
<1> DEFINE emitted == RunSpan(state, span).emitted
<1>1. PICK n \in Nat : n = Len(trace) + 1
  BY HistoryGrows
<1>2. /\ Steps' = Steps \cup {n} /\ Steps = 1..(n - 1) /\ n \notin Steps
      /\ closing = <<>> /\ span \in Span /\ state \in Scratch
  <2>1. /\ Len(trace) \in Nat /\ Steps = 1..Len(trace)
        /\ Steps' = Steps \cup {n} /\ closing = <<>> /\ span \in Span /\ state \in Scratch
    BY <1>1, HistoryGrows
  <2>2. Len(trace) = n - 1 /\ n \notin 1..Len(trace)
    BY <1>1, <2>1
  <2> QED
    BY <2>1, <2>2
<1>3. Fired
  BY <1>2 DEF Mirrored
<1>4. /\ \A i \in Steps : /\ EmittedAt(i)' = EmittedAt(i)
                           /\ (LoopAt(i)' <=> LoopAt(i))
                           /\ (RetryAt(i)' <=> RetryAt(i))
      /\ EmittedAt(n)' = emitted
  <2>1. n = Len(trace) + 1 /\ n \in Nat
    BY <1>1
  <2> QED
    BY <2>1, HistoryKept
<1>5. /\ emitted = "loop" <=> LoopAt(n)' /\ \A i \in Steps : ~LoopAt(i)
      /\ emitted = "retry_amplification" <=> RetryAt(n)' /\ \A i \in Steps : ~RetryAt(i)
  BY <1>1, CrossingIsReported
<1>6. emitted = None \/ emitted \in SpanTypes \ state.fired
  BY <1>2, RunSpanLeaves DEF Leaves
<1> HIDE DEF emitted
<1>7. \A i \in Steps : 1..(i - 1) \subseteq Steps
  BY <1>1, <1>2
<1>8. LoopReportedAtFirstRepeat'
  <2>1. \A i \in Steps : EmittedAt(i) = "loop" <=> LoopAt(i) /\ \A j \in 1..(i - 1) : ~LoopAt(j)
    BY DEF Told, LoopReportedAtFirstRepeat, LoopAt
  <2>2. \A i \in Steps' : EmittedAt(i)' = "loop" <=> LoopAt(i)' /\ \A j \in 1..(i - 1) : ~LoopAt(j)'
    <3>1. ASSUME NEW i \in Steps
          PROVE  EmittedAt(i)' = "loop" <=> LoopAt(i)' /\ \A j \in 1..(i - 1) : ~LoopAt(j)'
      BY <1>4, <1>7, <2>1
    <3>2. EmittedAt(n)' = "loop" <=> LoopAt(n)' /\ \A j \in 1..(n - 1) : ~LoopAt(j)'
      BY <1>2, <1>4, <1>5
    <3> QED
      BY <1>2, <3>1, <3>2
  <2> QED
    BY <2>2 DEF LoopReportedAtFirstRepeat, LoopAt
<1>9. RetriesReportedAtThreshold'
  <2>1. \A i \in Steps :
          EmittedAt(i) = "retry_amplification" <=> RetryAt(i) /\ \A j \in 1..(i - 1) : ~RetryAt(j)
    BY DEF Told, RetriesReportedAtThreshold, RetryAt
  <2>2. \A i \in Steps' :
          EmittedAt(i)' = "retry_amplification" <=> RetryAt(i)' /\ \A j \in 1..(i - 1) : ~RetryAt(j)'
    <3>1. ASSUME NEW i \in Steps
          PROVE  EmittedAt(i)' = "retry_amplification"
                   <=> RetryAt(i)' /\ \A j \in 1..(i - 1) : ~RetryAt(j)'
      BY <1>4, <1>7, <2>1
    <3>2. EmittedAt(n)' = "retry_amplification"
            <=> RetryAt(n)' /\ \A j \in 1..(n - 1) : ~RetryAt(j)'
      BY <1>2, <1>4, <1>5
    <3> QED
      BY <1>2, <3>1, <3>2
  <2> QED
    BY <2>2 DEF RetriesReportedAtThreshold, RetryAt
<1>10. EachTypeReportedOnce'
  <2>1. \A i \in Steps : EmittedAt(i)' # None => EmittedAt(i)' # emitted
    <3>1. \A type \in SpanTypes : type \in state.fired <=> \E i \in Steps : EmittedAt(i) = type
      BY <1>3 DEF Fired
    <3> QED
      BY <1>4, <1>6, <3>1
  <2>2. \A i, j \in Steps : i # j /\ EmittedAt(i)' # None => EmittedAt(i)' # EmittedAt(j)'
    BY <1>4 DEF Told, EachTypeReportedOnce
  <2>3. \A i, j \in Steps' : i # j /\ EmittedAt(i)' # None => EmittedAt(i)' # EmittedAt(j)'
    BY <1>2, <1>4, <2>1, <2>2
  <2> QED
    BY <2>3 DEF EachTypeReportedOnce
<1> QED
  BY <1>8, <1>9, <1>10, CeilingStillTold DEF Told

------------------------------------------------------------------------------
(* The session ends: the history stays, and the verdict is given.           *)

\* Nothing said of the history changes while the history does not.
LEMMA HistoryStands ==
  ASSUME UNCHANGED trace
  PROVE  /\ Told => Told'
         /\ Steps' = Steps
         /\ \A i \in Steps : /\ (AnsweredOver(i)' <=> AnsweredOver(i))
                             /\ (ToolEnded(i, {"raised"})' <=> ToolEnded(i, {"raised"}))
                             /\ (WitnessedAt(i)' <=> WitnessedAt(i))
                             /\ EmittedAt(i)' = EmittedAt(i)
                             /\ (LoopAt(i)' <=> LoopAt(i)) /\ (RetryAt(i)' <=> RetryAt(i))
         /\ \A c, i : Repeats(c, i, {"returned", "cancelled"})' =
                       Repeats(c, i, {"returned", "cancelled"})
         /\ \A i : FailedAttempts(i)' = FailedAttempts(i)
         /\ \A i : Spendings(i)' = Spendings(i) /\ Spent(i)' = Spent(i)
<1>1. \A i : SpanAt(i)' = SpanAt(i) /\ EmittedAt(i)' = EmittedAt(i)
  BY DEF SpanAt, EmittedAt
<1>2. Steps' = Steps
  BY DEF Steps
<1>3. \A i, outcomes : ToolEnded(i, outcomes)' = ToolEnded(i, outcomes)
  BY <1>1 DEF ToolEnded
<1>4. \A c, i : Repeats(c, i, {"returned", "cancelled"})' = Repeats(c, i, {"returned", "cancelled"})
  BY <1>1, <1>3 DEF Repeats
<1>5. \A i : FailedAttempts(i)' = FailedAttempts(i)
  BY <1>1 DEF FailedAttempts
<1>6. LoopReportedAtFirstRepeat => LoopReportedAtFirstRepeat'
  BY <1>1, <1>2, <1>4 DEF LoopReportedAtFirstRepeat
<1>7. RetriesReportedAtThreshold => RetriesReportedAtThreshold'
  BY <1>1, <1>2, <1>5 DEF RetriesReportedAtThreshold
<1>8. EachTypeReportedOnce => EachTypeReportedOnce'
  BY <1>1, <1>2 DEF EachTypeReportedOnce
<1>8a. \A i : Spendings(i)' = Spendings(i) /\ Spent(i)' = Spent(i)
  BY <1>1 DEF Spendings, Spent
<1>8b. CeilingReportedOncePromptly => CeilingReportedOncePromptly'
  BY <1>1, <1>2, <1>8a DEF CeilingReportedOncePromptly
<1>9. \A i : (AnsweredOver(i)' <=> AnsweredOver(i)) /\ (WitnessedAt(i)' <=> WitnessedAt(i))
  BY <1>1, <1>2, <1>3 DEF AnsweredOver, WitnessedAt
<1>10. \A i \in Steps : (LoopAt(i)' <=> LoopAt(i)) /\ (RetryAt(i)' <=> RetryAt(i))
  BY <1>4, <1>5 DEF LoopAt, RetryAt
<1> QED
  BY <1>1, <1>2, <1>3, <1>4, <1>5, <1>6, <1>7, <1>8, <1>8a, <1>8b, <1>9, <1>10 DEF Told

LEMMA EndKeeps ==
  ASSUME Inv, NEW span \in Spans, End(span)
  PROVE  Inv'
<1>1. TypeOK /\ Mirrored /\ Told
  BY DEF Inv
<1>2. PICK n \in Nat : n = Len(trace) + 1
  BY <1>1, HistoryGrows
<1>3. TypeOK'
  <2>1. /\ closing' = <<>> /\ state' = RunSpan(state, span).state
        /\ trace' \in Seq([span : Spans, emitted : SpanTypes \cup {None}])
        /\ span \in Span /\ state \in Scratch
    BY <1>1, HistoryGrows
  <2>2. state' \in Scratch
    BY <2>1, RunSpanLeaves DEF Leaves
  <2> QED
    BY <2>1, <2>2 DEF TypeOK
<1>4. Counted' /\ Charged' /\ Fired' /\ Watched' /\ Told'
  BY <1>1, <1>2, StillCounted, StillCharged, StillFired, StillWatched, StillTold
<1>5. SilentFailureVerdict'
  BY DEF End, SilentFailureVerdict
<1> QED
  BY <1>3, <1>4, <1>5 DEF Inv, Mirrored

LEMMA CloseKeeps ==
  ASSUME Inv, NEW outcome \in Outcomes, NEW cost \in Costs, Close(outcome, cost)
  PROVE  Inv'
<1> DEFINE span == [kind |-> "session", call |-> NoCall, outcome |-> outcome, cost |-> cost]
           result == RunSession(state, span)
<1>1. /\ state' = result.state /\ closing' = <<span, result.emitted>>
      /\ UNCHANGED trace /\ closing = <<>>
  BY DEF Close
<1>2. span \in Span /\ span.outcome = outcome
  BY DEF Span
<1>3. state \in Scratch /\ Counted /\ Fired /\ Watched /\ Told
  BY <1>1 DEF Inv, TypeOK, Mirrored
<1>4. result.state \in Scratch /\ result.emitted \in Types \cup {None}
  BY <1>2, <1>3, RunSessionLeaves DEF Leaves, Types
<1>5. result.emitted = "silent_tool_failure"
        <=> state.modelAfter /\ outcome # "raised" /\ ~state.recovered
  <2>1. "silent_tool_failure" \notin state.fired
    BY <1>3 DEF Fired, SpanTypes
  <2> HIDE DEF span
  <2> QED
    BY <1>2, <1>3, <2>1, VerdictFacts DEF IsError
<1> HIDE DEF span, result
<1>6. closing'[1] = span /\ closing'[2] = result.emitted /\ closing' # <<>>
  BY <1>1
<1>7. TypeOK'
  BY <1>1, <1>2, <1>4, <1>6 DEF Inv, TypeOK
<1>8. Told' /\ Mirrored'
  BY <1>1, <1>3, <1>6, HistoryStands DEF Mirrored
<1>9. SilentFailureVerdict'
  <2>1. /\ state.modelAfter <=> \E i \in Steps : AnsweredOver(i)
        /\ state.recovered <=> \E i \in Steps : ToolEnded(i, {"raised"}) /\ WitnessedAt(i)
    BY <1>3 DEF Watched
  <2>2. /\ Steps' = Steps
        /\ \A i \in Steps : (AnsweredOver(i)' <=> AnsweredOver(i))
                            /\ (ToolEnded(i, {"raised"})' <=> ToolEnded(i, {"raised"}))
                            /\ (WitnessedAt(i)' <=> WitnessedAt(i))
    BY <1>1, HistoryStands
  <2>3. closing'[2] = "silent_tool_failure"
          <=> /\ closing'[1].outcome # "raised"
              /\ \E i \in Steps' : AnsweredOver(i)'
              /\ \A i \in Steps' : ToolEnded(i, {"raised"})' => ~WitnessedAt(i)'
    BY <1>2, <1>5, <1>6, <2>1, <2>2
  <2> QED
    BY <2>3 DEF SilentFailureVerdict, WitnessedAt
<1> QED
  BY <1>7, <1>8, <1>9 DEF Inv

LEMMA Invariance == Inv /\ [TraceNext]_traceVars => Inv'
<1> SUFFICES ASSUME Inv, [TraceNext]_traceVars PROVE Inv'
  OBVIOUS
<1>1. CASE \E span \in Spans : End(span)
  BY <1>1, EndKeeps
<1>2. CASE \E outcome \in Outcomes, cost \in Costs : Close(outcome, cost)
  BY <1>2, CloseKeeps
<1>3. CASE UNCHANGED traceVars
  <2>1. UNCHANGED state /\ UNCHANGED trace /\ UNCHANGED closing
    BY <1>3 DEF traceVars
  <2>2. TypeOK' /\ Told'
    BY <2>1, HistoryStands DEF Inv, TypeOK
  <2>3. Counted => Counted'
    <3>1. Len(trace)' = Len(trace)
      BY <2>1
    <3> QED
      BY <2>1, <3>1, HistoryStands DEF Counted
  <2>3a. Charged => Charged'
    BY <2>1, HistoryStands DEF Charged
  <2>4. Fired => Fired'
    BY <2>1, HistoryStands DEF Fired
  <2>5. Watched => Watched'
    BY <2>1, HistoryStands DEF Watched
  <2>6. SilentFailureVerdict'
    BY <2>1, HistoryStands DEF Inv, SilentFailureVerdict, WitnessedAt
  <2> QED
    BY <2>1, <2>2, <2>3, <2>3a, <2>4, <2>5, <2>6 DEF Inv, Mirrored
<1> QED
  BY <1>1, <1>2, <1>3 DEF TraceNext

LEMMA Invariant == TraceSpec => []Inv
  BY Initially, Invariance, PTL DEF TraceSpec

------------------------------------------------------------------------------
(* The theorems about DetectionTrace.                                       *)

\* The scratch space stays one, and so does the history.
THEOREM TypeCorrect == TraceSpec => []TypeOK
  BY Invariant, PTL DEF Inv

\* However calls, failures, attempts and costs are interleaved, and however
\* long the session, a loop is reported on the step that makes it one.
THEOREM LoopsAreReported == TraceSpec => []LoopReportedAtFirstRepeat
  BY Invariant, PTL DEF Inv, Told

\* Retries, over all the calls of a session, are reported on the step that
\* reaches the threshold.
THEOREM RetriesAreReported == TraceSpec => []RetriesReportedAtThreshold
  BY Invariant, PTL DEF Inv, Told

\* A session that crosses the ceiling is told so once, on a step that cost something and
\* ends over it, and on the first such step whose slot no other detector has taken; no
\* other session is.
THEOREM CeilingIsReported == TraceSpec => []CeilingReportedOncePromptly
  BY Invariant, PTL DEF Inv, Told

\* No session reports a type twice while it keeps its scratch space.
THEOREM ReportedOnce == TraceSpec => []EachTypeReportedOnce
  BY Invariant, PTL DEF Inv, Told

\* The verdict on a session is what its history says, with the two exceptions
\* the property names: an early recovery, and one on the loop-reporting step.
THEOREM VerdictFollowsHistory == TraceSpec => []SilentFailureVerdict
  BY Invariant, PTL DEF Inv

------------------------------------------------------------------------------
(* What the detectors of a program make of a span, for each of the lists the *)
(* programs register: with the retry detector or without, with a ceiling or  *)
(* without.                                                                  *)

\* A list of detectors: which it has besides the loop detector, the watcher and the
\* verdict, in the order in which they are registered.
IsChain(D, retries, limits, ceiling) ==
  LET r == IF retries THEN 1 ELSE 0
  IN  /\ Len(D) = 3 + r + (IF limits THEN 1 ELSE 0)
      /\ D[1] = LoopDetector
      /\ retries => D[2] = RetryDetector
      /\ D[2 + r] = WatchDetector /\ D[3 + r] = VerdictDetector
      /\ limits => D[4 + r] = CeilingDetector(ceiling)

AfterLimit(acc, ceiling, span) ==
  IF acc.emitted # None THEN acc
  ELSE Report(acc, "cost_ceiling", span.cost > 0 /\ acc.state.cost > ceiling)

\* What such a list does with the span of a step.
Chained(retries, limits, ceiling, s, span) ==
  LET loop  == AfterLoop(AddCost(s, span), span)
      retry == IF retries THEN AfterRetry(loop, span) ELSE loop
      watch == AfterWatch(retry, span)
  IN  IF limits THEN AfterLimit(watch, ceiling, span) ELSE watch

LEMMA DetectorsDiffer ==
  ASSUME NEW ceiling
  PROVE  /\ LoopDetector.name = "loop" /\ RetryDetector.name = "retry_amplification"
         /\ WatchDetector.name = "watch" /\ VerdictDetector.name = "silent_tool_failure"
         /\ CeilingDetector(ceiling).name = "cost_ceiling"
         /\ CeilingDetector(ceiling).ceiling = ceiling
         /\ VerdictDetector \notin
              {LoopDetector, RetryDetector, WatchDetector, CeilingDetector(ceiling)}
BY DEF LoopDetector, RetryDetector, WatchDetector, VerdictDetector, CeilingDetector, Detector

\* A detector of the other phase is passed over, and one of this phase does its work.
LEMMA ConsultIs ==
  ASSUME NEW acc, NEW span, NEW ceiling
  PROVE  /\ span.kind # "session" =>
              /\ acc.emitted = None => Consult(acc, LoopDetector, span) = AfterLoop(acc.state, span)
              /\ Consult(acc, RetryDetector, span) = AfterRetry(acc, span)
              /\ Consult(acc, WatchDetector, span) = AfterWatch(acc, span)
              /\ Consult(acc, VerdictDetector, span) = acc
              /\ Consult(acc, CeilingDetector(ceiling), span) = AfterLimit(acc, ceiling, span)
         /\ span.kind = "session" =>
              /\ Consult(acc, LoopDetector, span) = acc
              /\ Consult(acc, RetryDetector, span) = acc
              /\ Consult(acc, WatchDetector, span) = acc
              /\ Consult(acc, CeilingDetector(ceiling), span) = acc
              /\ acc.emitted = None =>
                   Consult(acc, VerdictDetector, span) =
                     Report(acc, "silent_tool_failure", SilentFailure(acc.state, span))
<1>1. CASE span.kind # "session"
  <2>1. acc.emitted = None => Consult(acc, LoopDetector, span) = AfterLoop(acc.state, span)
    BY <1>1, DetectorsDiffer DEF Consult
  <2>2. Consult(acc, RetryDetector, span) = AfterRetry(acc, span)
    BY <1>1, DetectorsDiffer DEF Consult, AfterRetry
  <2>3. Consult(acc, WatchDetector, span) = AfterWatch(acc, span)
    BY <1>1, DetectorsDiffer DEF Consult, AfterWatch
  <2>4. Consult(acc, VerdictDetector, span) = acc
    BY <1>1 DEF Consult
  <2>5. Consult(acc, CeilingDetector(ceiling), span) = AfterLimit(acc, ceiling, span)
    BY <1>1, DetectorsDiffer DEF Consult, AfterLimit
  <2> QED BY <1>1, <2>1, <2>2, <2>3, <2>4, <2>5
<1>2. CASE span.kind = "session"
  <2>1. /\ Consult(acc, LoopDetector, span) = acc
        /\ Consult(acc, RetryDetector, span) = acc
        /\ Consult(acc, WatchDetector, span) = acc
        /\ Consult(acc, CeilingDetector(ceiling), span) = acc
    BY <1>2, DetectorsDiffer DEF Consult
  <2>2. acc.emitted = None =>
          Consult(acc, VerdictDetector, span) =
            Report(acc, "silent_tool_failure", SilentFailure(acc.state, span))
    BY <1>2, DetectorsDiffer DEF Consult
  <2> QED BY <1>2, <2>1, <2>2
<1> QED BY <1>1, <1>2

LEMMA ChainRuns ==
  ASSUME NEW D, NEW retries \in BOOLEAN, NEW limits \in BOOLEAN, NEW ceiling,
         IsChain(D, retries, limits, ceiling), NEW s, NEW span
  PROVE  RunRegistered(D, s, span) =
           IF span.kind = "session" THEN RunSession(s, span)
           ELSE Chained(retries, limits, ceiling, s, span)
<1> DEFINE n == Len(D)
           start == Unreported(AddCost(s, span))
           r == IF retries THEN 1 ELSE 0
<1>1. n \in Nat
  BY DEF IsChain
<1>2. PICK f : /\ f[0] = start
               /\ \A i \in 1..n : f[i] = Consult(f[i - 1], D[i], span)
               /\ RunRegistered(D, s, span) = f[n]
  BY <1>1, RunsInTurn
<1>3. /\ f[1] = Consult(start, LoopDetector, span)
      /\ f[1 + r] = IF retries THEN Consult(f[1], RetryDetector, span) ELSE f[1]
      /\ f[2 + r] = Consult(f[1 + r], WatchDetector, span)
      /\ f[3 + r] = Consult(f[2 + r], VerdictDetector, span)
      /\ f[n] = IF limits THEN Consult(f[3 + r], CeilingDetector(ceiling), span) ELSE f[3 + r]
  <2>1. CASE retries
    BY <1>2, <2>1 DEF IsChain
  <2>2. CASE ~retries
    BY <1>2, <2>2 DEF IsChain
  <2> QED BY <2>1, <2>2
<1>4. start.emitted = None /\ start.state = AddCost(s, span)
  BY DEF Unreported
<1> HIDE DEF r, n
<1>5. CASE span.kind = "session"
  <2>1. f[1] = start /\ f[1 + r] = start /\ f[2 + r] = start
    BY <1>3, <1>5, ConsultIs
  <2>2. f[3 + r] = RunSession(s, span)
    BY <1>3, <1>4, <1>5, <2>1, ConsultIs DEF RunSession
  <2>3. f[n] = f[3 + r]
    BY <1>3, <1>5, ConsultIs
  <2> QED BY <1>2, <1>5, <2>2, <2>3
<1>6. CASE span.kind # "session"
  <2>1. f[1] = AfterLoop(AddCost(s, span), span)
    BY <1>3, <1>4, <1>6, ConsultIs
  <2>2. f[1 + r] = IF retries THEN AfterRetry(f[1], span) ELSE f[1]
    BY <1>3, <1>6, ConsultIs
  <2>3. f[3 + r] = AfterWatch(f[1 + r], span)
    BY <1>3, <1>6, ConsultIs
  <2>4. f[n] = IF limits THEN AfterLimit(f[3 + r], ceiling, span) ELSE f[3 + r]
    BY <1>3, <1>6, ConsultIs
  <2> QED BY <1>2, <1>6, <2>1, <2>2, <2>3, <2>4 DEF Chained
<1> QED BY <1>5, <1>6

\* The lists the programs register.
LEMMA Chains ==
  /\ \A limits \in BOOLEAN : \A ceiling : IsChain(DefaultDetectors(limits, ceiling), TRUE, limits, ceiling)
  /\ IsChain(<<LoopDetector, WatchDetector, VerdictDetector>>, FALSE, FALSE, 0)
  /\ \A ceiling :
       IsChain(<<LoopDetector, WatchDetector, VerdictDetector, CeilingDetector(ceiling)>>,
               FALSE, TRUE, ceiling)
BY DEF IsChain, DefaultDetectors

\* A report adds its type to what has fired.
LEMMA ReportFires ==
  ASSUME NEW s \in Scratch, NEW type \in Types, NEW crossed \in BOOLEAN
  PROVE  LET acc == Report(Unreported(s), type, crossed)
         IN  /\ acc.state.cost = s.cost
             /\ acc.state.fired = s.fired \cup ({acc.emitted} \ {None})
<1>1. type # None
  BY DEF Types, SpanTypes, None
<1>2. CASE crossed /\ type \notin s.fired
  BY <1>1, <1>2 DEF Report, Unreported, Scratch
<1>3. CASE ~(crossed /\ type \notin s.fired)
  BY <1>3 DEF Report, Unreported
<1> QED BY <1>2, <1>3

\* The spans a chain does this with, and what it then has: a span that the loop or
\* the retry detector reports is one the watcher does not see, and no detector but
\* the ceiling's looks at what a span costs.
LoopsOn(s, span) ==
  Countable(span) /\ "loop" \notin s.fired /\ s.calls[span.call] + 1 >= LoopThreshold
AmplifiesOn(retries, s, span) ==
  /\ retries /\ FailedAttempt(span)
  /\ "retry_amplification" \notin s.fired /\ s.failedAttempts + 1 >= RetryThreshold
LimitedOn(limits, ceiling, s, span) ==
  /\ limits /\ span.cost > 0
  /\ "cost_ceiling" \notin s.fired /\ s.cost + span.cost > ceiling

LEMMA ChainedFacts ==
  ASSUME NEW s \in Scratch, NEW span \in Span, NEW retries \in BOOLEAN,
         NEW limits \in BOOLEAN, NEW ceiling \in Nat
  PROVE  LET r      == Chained(retries, limits, ceiling, s, span)
             hidden == LoopsOn(s, span) \/ AmplifiesOn(retries, s, span)
         IN  /\ r.state \in Scratch
             /\ r.state.fired = s.fired \cup ({r.emitted} \ {None})
             /\ r.emitted = IF LoopsOn(s, span) THEN "loop"
                            ELSE IF AmplifiesOn(retries, s, span) THEN "retry_amplification"
                            ELSE IF LimitedOn(limits, ceiling, s, span) THEN "cost_ceiling"
                            ELSE None
             /\ r.state.cost = s.cost + span.cost
             /\ r.state.calls = IF Countable(span)
                                THEN [s.calls EXCEPT ![span.call] = @ + 1] ELSE s.calls
             /\ retries => r.state.failedAttempts = IF FailedAttempt(span)
                                         THEN s.failedAttempts + 1 ELSE s.failedAttempts
             /\ r.state.toolFailed =
                  (s.toolFailed \/ (span.kind = "tool" /\ IsError(span)))
             /\ r.state.recovered =
                  (s.recovered \/ (/\ span.kind = "tool" /\ ~IsError(span)
                                   /\ s.toolFailed /\ ~LoopsOn(s, span)))
             /\ r.state.modelAfter = (s.modelAfter \/ (span.kind = "model" /\ s.toolFailed))
<1> DEFINE summed  == AddCost(s, span)
           counted == CountCall(summed, span)
           loop    == AfterLoop(summed, span)
           retry   == IF retries THEN AfterRetry(loop, span) ELSE loop
           watch   == AfterWatch(retry, span)
           r       == Chained(retries, limits, ceiling, s, span)
           looped  == LoopsOn(s, span)
           amplified == AmplifiesOn(retries, s, span)
           limited == LimitedOn(limits, ceiling, s, span)
           total   == s.cost + span.cost
           calls   == IF Countable(span) THEN [s.calls EXCEPT ![span.call] = @ + 1] ELSE s.calls
           failed  == IF FailedAttempt(span) THEN s.failedAttempts + 1 ELSE s.failedAttempts
<1>1. /\ summed \in Scratch /\ SameFacts(summed, s) /\ summed.fired = s.fired
      /\ summed.cost = total
  BY AddCostLeaves, ObserversCount
<1>2. /\ counted \in Scratch /\ counted.fired = s.fired /\ counted.cost = total
      /\ counted.calls = calls /\ counted.failedAttempts = s.failedAttempts
      /\ counted.toolFailed = s.toolFailed /\ counted.recovered = s.recovered
      /\ counted.modelAfter = s.modelAfter
  <2> HIDE DEF summed
  <2>1. counted \in Scratch /\ counted.fired = s.fired /\ counted.cost = total
    BY <1>1, ObserversKeep
  <2>2. CASE Countable(span)
    <3>1. /\ counted.calls = [summed.calls EXCEPT ![span.call] = @ + 1]
          /\ counted.failedAttempts = summed.failedAttempts
          /\ counted.toolFailed = summed.toolFailed
          /\ counted.recovered = summed.recovered /\ counted.modelAfter = summed.modelAfter
      BY <1>1, <2>2, ObserversCount
    <3> HIDE DEF counted
    <3> QED BY <1>1, <2>1, <2>2, <3>1 DEF SameFacts
  <2>3. CASE ~Countable(span)
    <3>1. counted = summed
      BY <1>1, <2>3, ObserversCount
    <3> HIDE DEF counted
    <3> QED BY <1>1, <2>3, <3>1 DEF SameFacts
  <2> QED BY <2>2, <2>3
<1>3. looped \in BOOLEAN /\ amplified \in BOOLEAN /\ limited \in BOOLEAN
      /\ s.failedAttempts \in Nat /\ s.cost \in Nat /\ span.cost \in Nat
      /\ "loop" # None /\ "retry_amplification" # None /\ "cost_ceiling" # None
      /\ {"loop", "retry_amplification", "cost_ceiling"} \subseteq Types
  BY SpanFields DEF LoopsOn, AmplifiesOn, LimitedOn, Scratch, None, Types, SpanTypes
<1>4. Looping(counted, span) \in BOOLEAN /\ (Looping(counted, span) /\ "loop" \notin s.fired <=> looped)
  <2>1. CASE Countable(span)
    <3>1. span.call \in Calls /\ s.calls \in [Calls -> Nat]
      BY <2>1, OneKind DEF Scratch
    <3>2. counted.calls[span.call] = s.calls[span.call] + 1
      BY <1>2, <2>1, <3>1
    <3> QED
      BY <2>1, <3>2 DEF Looping, LoopsOn
  <2>2. CASE ~Countable(span)
    BY <2>2 DEF Looping, LoopsOn
  <2> QED BY <2>1, <2>2
<1>5. /\ loop.state \in Scratch /\ SameFacts(loop.state, counted)
      /\ loop.emitted = IF looped THEN "loop" ELSE None
      /\ loop.emitted = None => loop = Unreported(counted)
      /\ loop.state.cost = counted.cost
      /\ loop.state.fired = counted.fired \cup ({loop.emitted} \ {None})
  <2>1. loop = Report(Unreported(counted), "loop", Looping(counted, span))
    BY DEF AfterLoop
  <2> HIDE DEF looped, counted, loop
  <2> QED
    BY <1>2, <1>3, <1>4, <2>1, ReportKeeps, ReportFires
<1> HIDE DEF summed
<1>6. CASE looped
  <2>1. r = loop /\ loop.emitted = "loop"
    BY <1>3, <1>5, <1>6 DEF Chained, AfterRetry, AfterWatch, AfterLimit, summed
  <2>2. /\ Countable(span) /\ ~FailedAttempt(span) /\ span.kind = "tool" /\ ~IsError(span)
    BY <1>6, OneKind DEF LoopsOn
  <2> HIDE DEF counted, loop, r, calls
  <2>3. r.state.failedAttempts = s.failedAttempts /\ failed = s.failedAttempts
    BY <1>2, <1>5, <2>1, <2>2 DEF SameFacts
  <2>4. r.state.fired = s.fired \cup ({r.emitted} \ {None})
    BY <1>2, <1>5, <2>1
  <2>5. s.toolFailed \in BOOLEAN /\ s.recovered \in BOOLEAN /\ s.modelAfter \in BOOLEAN
    BY DEF Scratch
  <2>6. /\ r.state.toolFailed = (s.toolFailed \/ (span.kind = "tool" /\ IsError(span)))
        /\ r.state.recovered = (s.recovered \/ (/\ span.kind = "tool" /\ ~IsError(span)
                                                /\ s.toolFailed /\ ~looped))
        /\ r.state.modelAfter = (s.modelAfter \/ (span.kind = "model" /\ s.toolFailed))
    <3> HIDE DEF looped
    <3> QED BY <1>2, <1>5, <1>6, <2>1, <2>2, <2>5 DEF SameFacts
  <2> QED
    BY <1>2, <1>5, <1>6, <2>1, <2>3, <2>4, <2>6 DEF SameFacts, r, calls
<1>7. CASE ~looped
  <2> DEFINE tried == IF retries THEN CountFailedAttempt(counted, span) ELSE counted
  <2>1. loop = Unreported(counted) /\ loop.emitted = None /\ loop.state = counted
    BY <1>5, <1>7 DEF Unreported
  <2>2. /\ tried \in Scratch /\ tried.fired = s.fired /\ tried.cost = total
        /\ tried.calls = calls /\ (retries => tried.failedAttempts = failed)
        /\ tried.toolFailed = s.toolFailed /\ tried.recovered = s.recovered
        /\ tried.modelAfter = s.modelAfter
    <3> HIDE DEF counted, calls, total
    <3>1. CASE FailedAttempt(span) /\ retries
      <4>1. /\ tried \in Scratch /\ tried.fired = counted.fired /\ tried.cost = counted.cost
        BY <1>2, <3>1, ObserversKeep
      <4>2. /\ tried.calls = counted.calls
            /\ tried.failedAttempts = counted.failedAttempts + 1
            /\ tried.toolFailed = counted.toolFailed
            /\ tried.recovered = counted.recovered /\ tried.modelAfter = counted.modelAfter
        BY <1>2, <3>1, ObserversCount
      <4> HIDE DEF tried
      <4> QED BY <1>2, <3>1, <4>1, <4>2
    <3>2. CASE ~(FailedAttempt(span) /\ retries)
      <4>1. tried = counted
        BY <1>2, <3>2, ObserversCount
      <4> HIDE DEF tried
      <4> QED BY <1>2, <3>2, <4>1
    <3> QED BY <3>1, <3>2
  <2>3. /\ retry.state \in Scratch /\ SameFacts(retry.state, tried)
        /\ retry.emitted = IF amplified THEN "retry_amplification" ELSE None
        /\ retry.emitted = None => retry = Unreported(tried)
        /\ retry.state.cost = tried.cost
        /\ retry.state.fired = tried.fired \cup ({retry.emitted} \ {None})
    <3>1. CASE retries
      <4>1. retry = Report(Unreported(tried), "retry_amplification", Amplifying(tried, span))
        BY <2>1, <3>1 DEF AfterRetry
      <4>2. FailedAttempt(span) \in BOOLEAN
        BY DEF FailedAttempt
      <4>3. Amplifying(tried, span) \in BOOLEAN
            /\ (Amplifying(tried, span) /\ "retry_amplification" \notin tried.fired <=> amplified)
        BY <2>2, <3>1, <4>2 DEF Amplifying, AmplifiesOn
      <4> HIDE DEF amplified, tried, retry
      <4> QED
        BY <1>3, <2>2, <4>1, <4>3, ReportKeeps, ReportFires
    <3>2. CASE ~retries
      <4>1. retry = Unreported(tried) /\ ~amplified
        BY <2>1, <3>2 DEF AmplifiesOn
      <4>2. retry.state = tried /\ retry.emitted = None
        <5> HIDE DEF retry, tried
        <5> QED BY <4>1 DEF Unreported
      <4> HIDE DEF retry, tried, amplified
      <4> QED BY <2>2, <4>1, <4>2 DEF SameFacts
    <3> QED BY <3>1, <3>2
  <2> HIDE DEF tried, counted
  <2>4. s.toolFailed \in BOOLEAN /\ s.recovered \in BOOLEAN /\ s.modelAfter \in BOOLEAN
    BY DEF Scratch
  <2> HIDE DEF loop
  <2>5. CASE amplified
    <3>1. retry.emitted = "retry_amplification"
      <4> HIDE DEF retry, amplified
      <4> QED BY <2>3, <2>5
    <3>2. r = retry
      <4>1. watch = retry
        <5> HIDE DEF retry
        <5> QED BY <1>3, <3>1 DEF AfterWatch
      <4>2. r = IF limits THEN AfterLimit(watch, ceiling, span) ELSE watch
        BY DEF Chained, summed, loop
      <4> HIDE DEF watch, retry, r
      <4> QED BY <1>3, <3>1, <4>1, <4>2 DEF AfterLimit
    <3>3. span.kind = "attempt" /\ retries /\ ~Countable(span)
      BY <2>5, OneKind DEF AmplifiesOn
    <3> HIDE DEF retry, r, looped, amplified, limited, calls, failed, total
    <3>4. /\ r.state \in Scratch /\ r.emitted = "retry_amplification"
          /\ r.state.fired = s.fired \cup ({r.emitted} \ {None})
          /\ r.state.cost = total /\ r.state.calls = calls
          /\ r.state.failedAttempts = failed
          /\ r.state.toolFailed = s.toolFailed
          /\ r.state.recovered = s.recovered
          /\ r.state.modelAfter = s.modelAfter
      BY <2>2, <2>3, <3>1, <3>2, <3>3 DEF SameFacts
    <3>5. /\ r.state.toolFailed = (s.toolFailed \/ (span.kind = "tool" /\ IsError(span)))
          /\ r.state.recovered = (s.recovered \/ (/\ span.kind = "tool" /\ ~IsError(span)
                                                  /\ s.toolFailed /\ ~looped))
          /\ r.state.modelAfter = (s.modelAfter \/ (span.kind = "model" /\ s.toolFailed))
      BY <2>4, <3>3, <3>4
    <3> QED
      BY <1>7, <2>5, <3>4, <3>5 DEF r, looped, amplified, limited, calls, failed, total
  <2>6. CASE ~amplified
    <3> DEFINE seen == Watch(tried, span)
               over == limits /\ span.cost > 0 /\ seen.cost > ceiling
    <3>1. watch = Unreported(seen)
      <4>1. retry = Unreported(tried) /\ retry.emitted = None /\ retry.state = tried
        <5> HIDE DEF retry, amplified
        <5> QED BY <2>3, <2>6 DEF Unreported
      <4> HIDE DEF retry
      <4> QED BY <4>1 DEF AfterWatch
    <3>2. /\ seen \in Scratch /\ seen.fired = s.fired /\ seen.cost = total
          /\ seen.calls = tried.calls /\ seen.failedAttempts = tried.failedAttempts
          /\ seen.toolFailed = (tried.toolFailed \/ (span.kind = "tool" /\ IsError(span)))
          /\ seen.recovered =
               (tried.recovered \/ (span.kind = "tool" /\ ~IsError(span) /\ tried.toolFailed))
          /\ seen.modelAfter = (tried.modelAfter \/ (span.kind = "model" /\ tried.toolFailed))
      BY <2>2, ObserversKeep, ObserversCount
    <3>3. r = Report(Unreported(seen), "cost_ceiling", over)
      <4>1. r = IF limits THEN AfterLimit(watch, ceiling, span) ELSE watch
        BY DEF Chained, summed, loop
      <4>2. watch.emitted = None /\ watch.state = seen
        <5> HIDE DEF seen, watch
        <5> QED BY <3>1 DEF Unreported
      <4> HIDE DEF watch, seen, r
      <4> QED BY <3>1, <4>1, <4>2 DEF AfterLimit, Report
    <3>4. over \in BOOLEAN /\ (over /\ "cost_ceiling" \notin seen.fired <=> limited)
      <4> HIDE DEF seen
      <4> QED BY <1>3, <3>2 DEF LimitedOn
    <3> HIDE DEF seen, over, limited, r, looped, amplified, total, calls, failed
    <3>5. /\ r.state \in Scratch /\ SameFacts(r.state, seen) /\ r.state.cost = total
          /\ r.emitted = IF limited THEN "cost_ceiling" ELSE None
          /\ r.state.fired = s.fired \cup ({r.emitted} \ {None})
      BY <1>3, <3>2, <3>3, <3>4, ReportKeeps, ReportFires
    <3>6. /\ r.state.calls = calls /\ (retries => r.state.failedAttempts = failed)
          /\ r.state.toolFailed = (s.toolFailed \/ (span.kind = "tool" /\ IsError(span)))
          /\ r.state.recovered = (s.recovered \/ (/\ span.kind = "tool" /\ ~IsError(span)
                                                  /\ s.toolFailed /\ ~looped))
          /\ r.state.modelAfter = (s.modelAfter \/ (span.kind = "model" /\ s.toolFailed))
      BY <1>7, <2>2, <2>4, <3>2, <3>5 DEF SameFacts
    <3> QED
      BY <1>7, <2>6, <3>5, <3>6 DEF r, looped, amplified, limited, calls, failed, total
  <2> QED BY <2>5, <2>6
<1> QED BY <1>6, <1>7


------------------------------------------------------------------------------
(* What a session has been reported for, from its script.                   *)

\* The script fails a tool, if it fails any, on its first step; a model call comes
\* after the failure; a tool comes back after it.
Broken(full) == full[1].kind = "tool" /\ IsError(full[1])
ModelBy(full, k) == \E i \in 1..k : full[i].kind = "model"
ToolBackBy(full, k) == \E i \in 1..k : full[i].kind = "tool" /\ ~IsError(full[i])

\* What a script amounts to: the identical calls it begins with, all others being
\* different from them and from each other, and how many attempts had failed and
\* what had been spent by each of its steps.
IsPlan(full, plan) ==
  LET n == Len(full)
  IN  /\ full \in Seq(Span) /\ n \in Nat \ {0}
      /\ full[n].kind = "session" /\ full[n].cost = 0
      /\ \A i \in 1..(n - 1) : full[i].kind # "session"
      /\ plan.same \in 0..n
      /\ \A i \in 1..plan.same : Countable(full[i]) /\ full[i].call = plan.call
      /\ \A i \in (plan.same + 1)..n : Countable(full[i]) =>
           /\ full[i].call # plan.call
           /\ \A j \in (i + 1)..n : Countable(full[j]) => full[j].call # full[i].call
      /\ plan.failed \in [0..n -> Nat] /\ plan.failed[0] = 0
      /\ \A i \in 1..n : plan.failed[i] =
           plan.failed[i - 1] + (IF FailedAttempt(full[i]) THEN 1 ELSE 0)
      /\ plan.spent \in [0..n -> Nat] /\ plan.spent[0] = 0
      /\ \A i \in 1..n : plan.spent[i] = plan.spent[i - 1] + full[i].cost
      /\ \A i \in 1..n : full[i].cost > 0 => ~Countable(full[i]) /\ ~FailedAttempt(full[i])
      /\ \A i \in 1..n : full[i].kind = "tool" /\ IsError(full[i]) => Broken(full)
      /\ Broken(full) => plan.same < LoopThreshold
                           /\ \A i \in 0..n : plan.failed[i] < RetryThreshold

Least(m, n) == IF m <= n THEN m ELSE n

\* What the detectors of a chain keep and have reported of a session, k steps into it.
At(s, full, plan, k, retries, limits, ceiling) ==
  /\ s \in Scratch
  /\ s.cost = plan.spent[k]
  /\ retries => s.failedAttempts = plan.failed[k]
  /\ plan.call \in Calls => s.calls[plan.call] = Least(k, plan.same)
  /\ \A c \in Calls \ {plan.call} :
       \/ s.calls[c] = 0
       \/ /\ s.calls[c] = 1
          /\ \E i \in (plan.same + 1)..k : Countable(full[i]) /\ full[i].call = c
  /\ "loop" \in s.fired <=> Least(k, plan.same) >= LoopThreshold
  /\ "retry_amplification" \in s.fired <=> retries /\ plan.failed[k] >= RetryThreshold
  /\ "cost_ceiling" \in s.fired <=> limits /\ plan.spent[k] > ceiling
  /\ s.toolFailed <=> Broken(full) /\ k > 0
  /\ s.recovered <=> Broken(full) /\ ToolBackBy(full, k)
  /\ s.modelAfter <=> Broken(full) /\ ModelBy(full, k)

\* Before the first step nothing has been kept.
LEMMA AtFirst ==
  ASSUME NEW full, NEW plan, IsPlan(full, plan), NEW retries \in BOOLEAN,
         NEW limits \in BOOLEAN, NEW ceiling \in Nat
  PROVE  At(Fresh, full, plan, 0, retries, limits, ceiling)
         /\ "silent_tool_failure" \notin Fresh.fired
<1>1. plan.same \in Nat /\ plan.failed[0] = 0 /\ plan.spent[0] = 0
  BY DEF IsPlan
<1> QED
  BY <1>1, FreshType, DetectionAssumption, ScriptsAssumption
  DEF At, Fresh, Least, ToolBackBy, ModelBy

\* A step keeps the record: a call among the first is one more of the same, any other
\* has not been made before; only a failed attempt counts as one.
LEMMA AtNext ==
  ASSUME NEW full, NEW plan, IsPlan(full, plan), NEW retries \in BOOLEAN,
         NEW limits \in BOOLEAN, NEW ceiling \in Nat, NEW k \in 0..(Len(full) - 2),
         NEW s, At(s, full, plan, k, retries, limits, ceiling)
  PROVE  LET r == Chained(retries, limits, ceiling, s, full[k + 1])
         IN  /\ At(r.state, full, plan, k + 1, retries, limits, ceiling)
             /\ r.state.fired = s.fired \cup ({r.emitted} \ {None})
             /\ r.emitted # "silent_tool_failure"
<1> DEFINE n == Len(full)
           span == full[k + 1]
           r == Chained(retries, limits, ceiling, s, span)
           looped == LoopsOn(s, span)
           amplified == AmplifiesOn(retries, s, span)
           limited == LimitedOn(limits, ceiling, s, span)
<1>1. /\ n \in Nat /\ full \in Seq(Span) /\ k \in Nat /\ k + 1 \in 1..(n - 1) /\ k \in 0..n
      /\ span \in Span /\ span.kind # "session"
      /\ plan.same \in Nat /\ plan.same <= n
      /\ plan.failed[k] \in Nat /\ plan.spent[k] \in Nat /\ span.cost \in Nat
      /\ plan.failed[k + 1] = plan.failed[k] + (IF FailedAttempt(span) THEN 1 ELSE 0)
      /\ plan.spent[k + 1] = plan.spent[k] + span.cost
      /\ (span.cost > 0 => ~Countable(span) /\ ~FailedAttempt(span))
      /\ (span.kind = "tool" /\ IsError(span) => Broken(full))
      /\ (Broken(full) => plan.same < LoopThreshold /\ plan.failed[k + 1] < RetryThreshold)
      /\ LoopThreshold \in Nat /\ RetryThreshold \in Nat /\ LoopThreshold >= 2
  <2>1. n \in Nat /\ full \in Seq(Span) /\ k \in Nat
    BY DEF IsPlan
  <2>2. k + 1 \in 1..(n - 1) /\ k + 1 \in 1..n /\ k \in 0..n /\ k + 1 \in 0..n
        /\ (k + 1) - 1 = k
    BY <2>1
  <2>3. span \in Span
    <3>1. full \in [1..n -> Span]
      BY <2>1
    <3> QED BY <2>2, <3>1
  <2>4. /\ span.kind # "session"
        /\ (span.cost > 0 => ~Countable(span) /\ ~FailedAttempt(span))
        /\ (span.kind = "tool" /\ IsError(span) => Broken(full))
        /\ (Broken(full) => plan.same < LoopThreshold /\ plan.failed[k + 1] < RetryThreshold)
    BY <2>2 DEF IsPlan
  <2>5. /\ plan.failed[k] \in Nat /\ plan.spent[k] \in Nat
        /\ plan.failed[k + 1] = plan.failed[k] + (IF FailedAttempt(span) THEN 1 ELSE 0)
        /\ plan.spent[k + 1] = plan.spent[k] + span.cost
    <3>1. plan.failed \in [0..n -> Nat] /\ plan.spent \in [0..n -> Nat]
      BY DEF IsPlan
    <3>2. /\ plan.failed[k + 1] = plan.failed[(k + 1) - 1] + (IF FailedAttempt(span) THEN 1 ELSE 0)
          /\ plan.spent[k + 1] = plan.spent[(k + 1) - 1] + span.cost
      BY <2>2 DEF IsPlan
    <3> QED BY <2>2, <3>1, <3>2
  <2>6. plan.same \in Nat /\ plan.same <= n
    BY <2>1 DEF IsPlan
  <2>7. span.cost \in Nat
    BY <2>3, SpanFields
  <2>8. LoopThreshold \in Nat /\ RetryThreshold \in Nat /\ LoopThreshold >= 2
    BY ScriptsAssumption
  <2> QED BY <2>1, <2>2, <2>3, <2>4, <2>5, <2>6, <2>7, <2>8
<1>2. /\ r.state \in Scratch
      /\ r.state.fired = s.fired \cup ({r.emitted} \ {None})
      /\ r.emitted = IF looped THEN "loop" ELSE IF amplified THEN "retry_amplification"
                     ELSE IF limited THEN "cost_ceiling" ELSE None
      /\ r.state.cost = s.cost + span.cost
      /\ r.state.calls = IF Countable(span)
                         THEN [s.calls EXCEPT ![span.call] = @ + 1] ELSE s.calls
      /\ retries => r.state.failedAttempts = IF FailedAttempt(span)
                                  THEN s.failedAttempts + 1 ELSE s.failedAttempts
      /\ r.state.toolFailed = (s.toolFailed \/ (span.kind = "tool" /\ IsError(span)))
      /\ r.state.recovered = (s.recovered \/ (/\ span.kind = "tool" /\ ~IsError(span)
                                              /\ s.toolFailed /\ ~looped))
      /\ r.state.modelAfter = (s.modelAfter \/ (span.kind = "model" /\ s.toolFailed))
  <2>1. s \in Scratch
    BY DEF At
  <2>2. span \in Span
    BY <1>1
  <2> HIDE DEF span, n
  <2> QED
    BY <2>1, <2>2, ChainedFacts
<1> HIDE DEF r
<1>3. /\ s \in Scratch /\ s.calls \in [Calls -> Nat] /\ s.cost = plan.spent[k]
      /\ s.toolFailed \in BOOLEAN /\ s.recovered \in BOOLEAN /\ s.modelAfter \in BOOLEAN
      /\ "loop" \in s.fired <=> Least(k, plan.same) >= LoopThreshold
      /\ "retry_amplification" \in s.fired <=> retries /\ plan.failed[k] >= RetryThreshold
      /\ "cost_ceiling" \in s.fired <=> limits /\ plan.spent[k] > ceiling
  BY DEF At, Scratch
<1>4. Countable(span) => span.call \in Calls /\ ~FailedAttempt(span) /\ span.kind = "tool"
                           /\ ~IsError(span)
  BY <1>1, OneKind
<1> DEFINE Before == Least(k, plan.same)
           Now == Least(k + 1, plan.same)
           Calls1 == /\ plan.call \in Calls => r.state.calls[plan.call] = Now
                     /\ \A c \in Calls \ {plan.call} :
                          \/ r.state.calls[c] = 0
                          \/ /\ r.state.calls[c] = 1
                             /\ \E i \in (plan.same + 1)..(k + 1) :
                                  Countable(full[i]) /\ full[i].call = c
                     /\ looped <=> Now >= LoopThreshold /\ ~(Before >= LoopThreshold)
<1>5. Calls1
  <2>0. /\ plan.call \in Calls => s.calls[plan.call] = Before
        /\ \A c \in Calls \ {plan.call} :
             \/ s.calls[c] = 0
             \/ /\ s.calls[c] = 1
                /\ \E i \in (plan.same + 1)..k : Countable(full[i]) /\ full[i].call = c
    BY DEF At
  <2>1. CASE Countable(span) /\ k + 1 <= plan.same
    <3>1. span.call = plan.call /\ plan.call \in Calls
      BY <1>1, <1>4, <2>1 DEF IsPlan
    <3>2. Before = k /\ Now = k + 1
      BY <1>1, <2>1 DEF Least
    <3>3. r.state.calls = [s.calls EXCEPT ![plan.call] = @ + 1] /\ s.calls[plan.call] = k
      BY <1>2, <2>0, <2>1, <3>1, <3>2
    <3>4. r.state.calls[plan.call] = k + 1 /\ \A c \in Calls \ {plan.call} : r.state.calls[c] = s.calls[c]
      BY <1>3, <3>1, <3>3
    <3>5. looped <=> "loop" \notin s.fired /\ k + 1 >= LoopThreshold
      BY <2>1, <3>1, <3>3 DEF LoopsOn
    <3> HIDE DEF looped, Before, Now
    <3> QED BY <1>1, <1>3, <2>0, <3>1, <3>2, <3>4, <3>5 DEF Before
  <2>2. CASE Countable(span) /\ k + 1 > plan.same
    <3>0. k + 1 \in (plan.same + 1)..n
      BY <1>1, <2>2
    <3>1. span.call \in Calls /\ span.call # plan.call
      BY <1>4, <2>2, <3>0 DEF IsPlan
    <3>2. Before = Now
      BY <1>1, <2>2 DEF Least
    <3>3. s.calls[span.call] = 0
      <4> SUFFICES ASSUME NEW i \in (plan.same + 1)..k, Countable(full[i]), full[i].call = span.call
                   PROVE  FALSE
        BY <2>0, <3>1
      <4>1. i \in (plan.same + 1)..n /\ k + 1 \in (i + 1)..n
        BY <1>1
      <4> QED BY <2>2, <4>1 DEF IsPlan
    <3>4. /\ r.state.calls[span.call] = 1
          /\ \A c \in Calls \ {span.call} : r.state.calls[c] = s.calls[c]
      BY <1>2, <1>3, <2>2, <3>1, <3>3
    <3>5. ~looped
      BY <1>1, <3>3 DEF LoopsOn
    <3>6. k + 1 \in (plan.same + 1)..(k + 1)
      BY <1>1, <2>2
    <3> HIDE DEF looped, Before, Now, n, span
    <3>7. plan.call \in Calls => r.state.calls[plan.call] = Now
      BY <2>0, <3>1, <3>2, <3>4
    <3>8. ASSUME NEW c \in Calls \ {plan.call}
          PROVE  \/ r.state.calls[c] = 0
                 \/ /\ r.state.calls[c] = 1
                    /\ \E i \in (plan.same + 1)..(k + 1) : Countable(full[i]) /\ full[i].call = c
      <4>1. CASE c = span.call
        BY <2>2, <3>4, <3>6, <4>1 DEF span
      <4>2. CASE c # span.call
        <5>1. r.state.calls[c] = s.calls[c]
          BY <3>4, <4>2
        <5>2. (plan.same + 1)..k \subseteq (plan.same + 1)..(k + 1)
          BY <1>1
        <5> QED BY <2>0, <5>1, <5>2
      <4> QED BY <4>1, <4>2
    <3> QED BY <3>2, <3>5, <3>7, <3>8
  <2>3. CASE ~Countable(span)
    <3>1. ~(k + 1 <= plan.same)
      BY <1>1, <2>3 DEF IsPlan
    <3>2. Before = Now
      BY <1>1, <3>1 DEF Least
    <3>3. r.state.calls = s.calls /\ ~looped
      BY <1>2, <2>3 DEF LoopsOn
    <3>4. (plan.same + 1)..k \subseteq (plan.same + 1)..(k + 1)
      BY <1>1
    <3> HIDE DEF looped, Before, Now
    <3> QED BY <2>0, <3>2, <3>3, <3>4
  <2>4. k + 1 <= plan.same \/ k + 1 > plan.same
    BY <1>1
  <2> QED BY <2>1, <2>2, <2>3, <2>4
<1>6. r.emitted \in {"loop", "retry_amplification", "cost_ceiling", None}
      /\ "loop" # None /\ "retry_amplification" # None /\ "cost_ceiling" # None
      /\ None # "silent_tool_failure"
  BY <1>2 DEF None
<1>7. "loop" \in r.state.fired <=> Now >= LoopThreshold
  <2>1. "loop" \in r.state.fired <=> "loop" \in s.fired \/ looped
    <3> HIDE DEF looped, amplified, limited
    <3> QED BY <1>2, <1>6
  <2>2. Before >= LoopThreshold => Now >= LoopThreshold
    BY <1>1 DEF Least
  <2> HIDE DEF looped, Before, Now
  <2> QED BY <1>3, <1>5, <2>1, <2>2 DEF Before
<1>8. "retry_amplification" \in r.state.fired <=> retries /\ plan.failed[k + 1] >= RetryThreshold
  <2>1. FailedAttempt(span) => ~looped
    BY <1>4 DEF LoopsOn
  <2>2. "retry_amplification" \in r.state.fired <=>
          "retry_amplification" \in s.fired \/ amplified
    <3>1. amplified => ~looped
      BY <2>1 DEF AmplifiesOn
    <3> HIDE DEF looped, amplified, limited
    <3> QED BY <1>2, <1>6, <3>1
  <2>3. amplified <=> /\ retries /\ FailedAttempt(span) /\ plan.failed[k + 1] >= RetryThreshold
                      /\ ~(plan.failed[k] >= RetryThreshold)
    BY <1>1, <1>3 DEF AmplifiesOn, At
  <2> HIDE DEF looped, amplified
  <2> QED BY <1>1, <1>3, <2>2, <2>3
<1>9. "cost_ceiling" \in r.state.fired <=> limits /\ plan.spent[k + 1] > ceiling
  <2>1. "cost_ceiling" \in r.state.fired <=> "cost_ceiling" \in s.fired \/ limited
    <3>1. limited => ~looped /\ ~amplified
      BY <1>1 DEF LimitedOn, LoopsOn, AmplifiesOn
    <3> HIDE DEF looped, amplified, limited
    <3> QED BY <1>2, <1>6, <3>1
  <2>2. limited <=> /\ limits /\ span.cost > 0 /\ plan.spent[k + 1] > ceiling
                    /\ ~(plan.spent[k] > ceiling)
    BY <1>1, <1>3 DEF LimitedOn
  <2>3. plan.spent[k + 1] > ceiling <=> plan.spent[k] > ceiling \/ (span.cost > 0 /\ plan.spent[k + 1] > ceiling)
    BY <1>1
  <2> HIDE DEF limited, span, n
  <2> QED BY <1>3, <2>1, <2>2, <2>3
<1>10. retries => r.state.failedAttempts = plan.failed[k + 1]
  BY <1>1, <1>2 DEF At
<1>11. /\ r.state.toolFailed <=> Broken(full) /\ k + 1 > 0
       /\ r.state.recovered <=> Broken(full) /\ ToolBackBy(full, k + 1)
       /\ r.state.modelAfter <=> Broken(full) /\ ModelBy(full, k + 1)
  <2>1. /\ ToolBackBy(full, k + 1) <=> ToolBackBy(full, k) \/ (span.kind = "tool" /\ ~IsError(span))
        /\ ModelBy(full, k + 1) <=> ModelBy(full, k) \/ span.kind = "model"
    <3>1. 1..(k + 1) = 1..k \cup {k + 1}
      BY <1>1
    <3>2. full[k + 1] = span
      OBVIOUS
    <3> HIDE DEF span
    <3> QED BY <3>1, <3>2 DEF ToolBackBy, ModelBy
  <2>2. Broken(full) => ~looped
    <3> SUFFICES ASSUME Broken(full), looped PROVE FALSE
      OBVIOUS
    <3>1. Now >= LoopThreshold /\ plan.same < LoopThreshold
      BY <1>1, <1>5
    <3> QED BY <1>1, <3>1 DEF Least
  <2>3. Broken(full) /\ k = 0 => span.kind = "tool" /\ IsError(span)
    BY DEF Broken
  <2>4. /\ s.toolFailed <=> Broken(full) /\ k > 0
        /\ s.recovered <=> Broken(full) /\ ToolBackBy(full, k)
        /\ s.modelAfter <=> Broken(full) /\ ModelBy(full, k)
    BY DEF At
  <2>5. /\ Broken(full) \in BOOLEAN /\ IsError(span) \in BOOLEAN /\ ToolBackBy(full, k) \in BOOLEAN
        /\ ModelBy(full, k) \in BOOLEAN /\ looped \in BOOLEAN
        /\ k = 0 \/ k > 0
    BY <1>1 DEF Broken, IsError, ToolBackBy, ModelBy, LoopsOn
  <2>6. r.state.toolFailed <=> Broken(full) /\ k + 1 > 0
    <3>1. k + 1 > 0
      BY <1>1
    <3> QED BY <1>1, <1>2, <1>3, <2>3, <2>4, <2>5, <3>1
  <2>7. r.state.recovered <=> Broken(full) /\ ToolBackBy(full, k + 1)
    <3> HIDE DEF looped
    <3> QED BY <1>2, <1>3, <2>1, <2>2, <2>3, <2>4, <2>5
  <2>8. r.state.modelAfter <=> Broken(full) /\ ModelBy(full, k + 1)
    <3>1. span.kind = "tool" => span.kind # "model"
      OBVIOUS
    <3> QED BY <1>2, <1>3, <2>1, <2>3, <2>4, <2>5, <3>1
  <2> QED BY <2>6, <2>7, <2>8
<1>12. At(r.state, full, plan, k + 1, retries, limits, ceiling)
  <2> HIDE DEF r, looped
  <2> QED BY <1>1, <1>2, <1>3, <1>5, <1>7, <1>8, <1>9, <1>10, <1>11 DEF At
<1>13. r.emitted # "silent_tool_failure"
  BY <1>6
<1> QED BY <1>2, <1>12, <1>13 DEF r

------------------------------------------------------------------------------
(* A whole session.                                                         *)

\* What a script comes to whatever the detectors registered: the types it crosses the
\* thresholds of, or ends in the verdict of, and what it costs.
Unanswered(full) ==
  LET n == Len(full)
  IN  /\ Broken(full) /\ ModelBy(full, n - 1) /\ ~ToolBackBy(full, n - 1)
      /\ ~IsError(full[n])

ComesTo(full, plan, fires, cost) ==
  LET n == Len(full)
  IN  /\ IsPlan(full, plan) /\ cost = plan.spent[n]
      /\ fires \subseteq {"loop", "retry_amplification", "silent_tool_failure"}
      /\ "loop" \in fires <=> plan.same >= LoopThreshold
      /\ "retry_amplification" \in fires <=> plan.failed[n] >= RetryThreshold
      /\ "silent_tool_failure" \in fires <=> Unanswered(full)

\* What of that a chain reports.
Reported(fires, cost, retries, limits, ceiling) ==
  (fires \ (IF retries THEN {} ELSE {"retry_amplification"}))
    \cup (IF limits /\ cost > ceiling THEN {"cost_ceiling"} ELSE {})

\* k steps into a session, with the rest of it left.
Into(k, left, s, fired, full, plan, fires, cost, retries, limits, ceiling) ==
  LET n == Len(full)
  IN  /\ ComesTo(full, plan, fires, cost)
      /\ k \in 0..n
      /\ left \in Seq(Span) /\ Len(left) = n - k
      /\ \A i \in 1..(n - k) : left[i] = full[k + i]
      /\ (k < n => /\ At(s, full, plan, k, retries, limits, ceiling)
                   /\ fired = s.fired /\ "silent_tool_failure" \notin fired)
      /\ (k = n => fired = Reported(fires, cost, retries, limits, ceiling))

Underway(left, s, fired, fires, cost, retries, limits, ceiling) ==
  \E full, plan, k : Into(k, left, s, fired, full, plan, fires, cost, retries, limits, ceiling)

LEMMA SessionBegins ==
  ASSUME NEW full, NEW plan, NEW fires, NEW cost, ComesTo(full, plan, fires, cost),
         NEW retries \in BOOLEAN, NEW limits \in BOOLEAN, NEW ceiling \in Nat
  PROVE  Underway(full, Fresh, {}, fires, cost, retries, limits, ceiling)
<1>1. /\ full \in Seq(Span) /\ Len(full) \in Nat \ {0} /\ IsPlan(full, plan)
  BY DEF ComesTo, IsPlan
<1>2. At(Fresh, full, plan, 0, retries, limits, ceiling) /\ Fresh.fired = {}
  BY <1>1, AtFirst DEF Fresh
<1>3. Into(0, full, Fresh, {}, full, plan, fires, cost, retries, limits, ceiling)
  BY <1>1, <1>2 DEF Into
<1> QED BY <1>3 DEF Underway

\* The last step of a session is the one its verdict is passed on.
LEMMA AtLast ==
  ASSUME NEW full, NEW plan, NEW fires, NEW cost, ComesTo(full, plan, fires, cost),
         NEW retries \in BOOLEAN, NEW limits \in BOOLEAN, NEW ceiling \in Nat,
         NEW s, At(s, full, plan, Len(full) - 1, retries, limits, ceiling),
         "silent_tool_failure" \notin s.fired
  PROVE  s.fired \cup ({RunSession(s, full[Len(full)]).emitted} \ {None})
           = Reported(fires, cost, retries, limits, ceiling)
<1> DEFINE n == Len(full)
           span == full[n]
           e == RunSession(s, span).emitted
<1>1. /\ n \in Nat \ {0} /\ full \in Seq(Span) /\ span.kind = "session" /\ span.cost = 0
      /\ plan.same \in 0..n /\ IsPlan(full, plan)
  BY DEF ComesTo, IsPlan
<1>2. n \in 1..n /\ n - 1 \in 0..n /\ n \in 0..n
  BY <1>1
<1>3. span \in Span
  BY <1>1, <1>2
<1>4. ~Countable(span) /\ ~FailedAttempt(span)
  BY <1>1 DEF Countable, FailedAttempt
<1>5. Least(n - 1, plan.same) = plan.same
  <2>1. plan.same # n
    BY <1>1, <1>2, <1>4 DEF IsPlan
  <2> QED BY <1>1, <2>1 DEF Least
<1>6. plan.failed[n] = plan.failed[n - 1] /\ plan.spent[n] = plan.spent[n - 1]
  <2>1. /\ plan.failed[n] = plan.failed[n - 1] + (IF FailedAttempt(span) THEN 1 ELSE 0)
        /\ plan.spent[n] = plan.spent[n - 1] + span.cost
    BY <1>1, <1>2 DEF IsPlan
  <2>2. plan.failed[n - 1] \in Nat /\ plan.spent[n - 1] \in Nat
    BY <1>1, <1>2 DEF IsPlan
  <2> QED BY <1>1, <1>4, <2>1, <2>2
<1>7. /\ s \in Scratch
      /\ "loop" \in s.fired <=> Least(n - 1, plan.same) >= LoopThreshold
      /\ "retry_amplification" \in s.fired <=> retries /\ plan.failed[n - 1] >= RetryThreshold
      /\ "cost_ceiling" \in s.fired <=> limits /\ plan.spent[n - 1] > ceiling
      /\ s.recovered <=> Broken(full) /\ ToolBackBy(full, n - 1)
      /\ s.modelAfter <=> Broken(full) /\ ModelBy(full, n - 1)
  BY DEF At
<1>8. s.fired \subseteq Types
  BY <1>7 DEF Scratch
<1>9. e \in {None, "silent_tool_failure"}
  <2>1. Leaves(RunSession(s, span), s, span.cost, {"silent_tool_failure"})
    BY <1>3, <1>7, RunSessionLeaves
  <2> QED BY <2>1 DEF Leaves
<1>10. e = "silent_tool_failure" <=> Unanswered(full)
  <2>1. e = "silent_tool_failure" <=> s.modelAfter /\ ~IsError(span) /\ ~s.recovered
    BY <1>3, <1>7, VerdictFacts
  <2> QED BY <1>7, <2>1 DEF Unanswered
<1>11. /\ "loop" \in fires <=> plan.same >= LoopThreshold
       /\ "retry_amplification" \in fires <=> plan.failed[n] >= RetryThreshold
       /\ "silent_tool_failure" \in fires <=> Unanswered(full)
       /\ cost = plan.spent[n]
       /\ fires \subseteq {"loop", "retry_amplification", "silent_tool_failure"}
  BY DEF ComesTo
<1>12. None # "silent_tool_failure" /\ None \notin Types
       /\ Types = {"loop", "retry_amplification", "cost_ceiling", "silent_tool_failure"}
  BY DEF None, Types, SpanTypes
<1> DEFINE got == s.fired \cup ({e} \ {None})
           due == Reported(fires, cost, retries, limits, ceiling)
<1>13. got \subseteq Types /\ due \subseteq Types
  BY <1>8, <1>9, <1>11, <1>12 DEF Reported
<1>14. \A type \in Types : type \in got <=> type \in due
  <2>1. "loop" \in got <=> "loop" \in due
    BY <1>5, <1>7, <1>9, <1>11 DEF Reported
  <2>2. "retry_amplification" \in got <=> "retry_amplification" \in due
    BY <1>6, <1>7, <1>9, <1>11 DEF Reported
  <2>3. "cost_ceiling" \in got <=> "cost_ceiling" \in due
    BY <1>6, <1>7, <1>9, <1>11 DEF Reported
  <2>4. "silent_tool_failure" \in got <=> "silent_tool_failure" \in due
    BY <1>9, <1>10, <1>11, <1>12 DEF Reported
  <2> QED BY <1>12, <2>1, <2>2, <2>3, <2>4
<1> HIDE DEF got, due
<1>15. got = due
  BY <1>13, <1>14
<1> QED BY <1>15 DEF got, due

\* What a span's end makes of a session under way.
Onward(left, fired, r, fires, cost, retries, limits, ceiling) ==
  Underway(Tail(left), r.state, fired \cup ({r.emitted} \ {None}),
           fires, cost, retries, limits, ceiling)

LEMMA SessionGoesOn ==
  ASSUME NEW left, NEW s, NEW fired, NEW fires, NEW cost,
         NEW retries \in BOOLEAN, NEW limits \in BOOLEAN, NEW ceiling \in Nat,
         Underway(left, s, fired, fires, cost, retries, limits, ceiling), left # <<>>,
         NEW D, IsChain(D, retries, limits, ceiling)
  PROVE  Onward(left, fired, RunRegistered(D, s, Head(left)), fires, cost, retries, limits, ceiling)
<1>1. PICK full, plan, k : Into(k, left, s, fired, full, plan, fires, cost, retries, limits, ceiling)
  BY DEF Underway
<1> DEFINE n == Len(full)
           span == Head(left)
           r == RunRegistered(D, s, span)
           now == fired \cup ({r.emitted} \ {None})
<1>2. /\ n \in Nat \ {0} /\ full \in Seq(Span) /\ IsPlan(full, plan)
      /\ full[n].kind = "session" /\ \A i \in 1..(n - 1) : full[i].kind # "session"
  BY <1>1 DEF Into, ComesTo, IsPlan
<1>3. /\ k \in 0..n /\ left \in Seq(Span) /\ Len(left) = n - k
      /\ \A i \in 1..(n - k) : left[i] = full[k + i]
      /\ ComesTo(full, plan, fires, cost)
  BY <1>1 DEF Into
<1>4. k \in 0..(n - 1)
  <2>1. Len(left) # 0
    BY <1>3
  <2> QED BY <1>2, <1>3, <2>1
<1>5. At(s, full, plan, k, retries, limits, ceiling) /\ fired = s.fired
      /\ "silent_tool_failure" \notin fired
  BY <1>1, <1>2, <1>4 DEF Into
<1>6. span = full[k + 1]
  <2>1. 1 \in 1..(n - k)
    BY <1>2, <1>4
  <2>2. left[1] = full[k + 1]
    BY <1>3, <2>1
  <2> QED BY <1>3, <2>2
<1>7. /\ Tail(left) \in Seq(Span) /\ Len(Tail(left)) = n - (k + 1)
      /\ \A i \in 1..(n - (k + 1)) : Tail(left)[i] = full[(k + 1) + i]
  <2>1. Tail(left) \in Seq(Span) /\ Len(Tail(left)) = n - (k + 1)
    BY <1>2, <1>3, <1>4
  <2>2. ASSUME NEW i \in 1..(n - (k + 1))
        PROVE  Tail(left)[i] = full[(k + 1) + i]
    <3>1. i + 1 \in 1..(n - k) /\ k + (i + 1) = (k + 1) + i
      BY <1>2, <1>4
    <3>2. left[i + 1] = full[k + (i + 1)]
      BY <1>3, <3>1
    <3>3. Tail(left)[i] = left[i + 1]
      BY <1>2, <1>3, <1>4, <2>1
    <3> QED BY <3>1, <3>2, <3>3
  <2> QED BY <2>1, <2>2
<1>8. CASE k = n - 1
  <2>1. span.kind = "session" /\ k + 1 = n
    BY <1>2, <1>6, <1>8
  <2>2. r = RunSession(s, span)
    <3> HIDE DEF span
    <3>1. r = IF span.kind = "session" THEN RunSession(s, span)
              ELSE Chained(retries, limits, ceiling, s, span)
      BY ChainRuns
    <3> HIDE DEF r
    <3> QED BY <2>1, <3>1
  <2>3. now = Reported(fires, cost, retries, limits, ceiling)
    <3> HIDE DEF r
    <3> QED BY <1>3, <1>5, <1>6, <1>8, <2>1, <2>2, AtLast
  <2>4. k + 1 \in 0..n /\ ~(k + 1 < n)
    BY <1>2, <2>1
  <2> HIDE DEF r, now, n
  <2>5. Into(k + 1, Tail(left), r.state, now, full, plan, fires, cost, retries, limits, ceiling)
    BY <1>3, <1>7, <2>1, <2>3, <2>4 DEF Into, n
  <2> QED BY <2>5 DEF Underway, Onward, r, now
<1>9. CASE k # n - 1
  <2>1. k \in 0..(n - 2) /\ k + 1 \in 0..n /\ k + 1 \in 1..(n - 1) /\ k + 1 < n /\ k + 1 # n
    BY <1>2, <1>4, <1>9
  <2>2. r = Chained(retries, limits, ceiling, s, full[k + 1])
    BY <1>2, <1>6, <2>1, ChainRuns
  <2>3. /\ At(r.state, full, plan, k + 1, retries, limits, ceiling)
        /\ r.state.fired = s.fired \cup ({r.emitted} \ {None})
        /\ r.emitted # "silent_tool_failure"
    <3> DEFINE c == Chained(retries, limits, ceiling, s, full[k + 1])
    <3>1. /\ At(c.state, full, plan, k + 1, retries, limits, ceiling)
          /\ c.state.fired = s.fired \cup ({c.emitted} \ {None})
          /\ c.emitted # "silent_tool_failure"
      BY <1>2, <1>5, <2>1, AtNext
    <3> HIDE DEF r, c
    <3>2. r = c
      BY <2>2 DEF c
    <3> QED BY <3>1, <3>2
  <2>4. now = r.state.fired /\ "silent_tool_failure" \notin now
    <3> HIDE DEF r
    <3> QED BY <1>5, <2>3
  <2> HIDE DEF r, now, n
  <2>5. Into(k + 1, Tail(left), r.state, now, full, plan, fires, cost, retries, limits, ceiling)
    BY <1>3, <1>7, <2>1, <2>3, <2>4 DEF Into, n
  <2> QED BY <2>5 DEF Underway, Onward, r, now
<1> QED BY <1>8, <1>9

LEMMA SessionEnds ==
  ASSUME NEW s, NEW fired, NEW fires, NEW cost, NEW retries, NEW limits, NEW ceiling,
         Underway(<<>>, s, fired, fires, cost, retries, limits, ceiling)
  PROVE  fired = Reported(fires, cost, retries, limits, ceiling)
<1>1. PICK full, plan, k : Into(k, <<>>, s, fired, full, plan, fires, cost, retries, limits, ceiling)
  BY DEF Underway
<1>2. Len(full) \in Nat
  BY <1>1 DEF Into, ComesTo, IsPlan
<1>3. k = Len(full)
  BY <1>1, <1>2 DEF Into
<1> QED BY <1>1, <1>3 DEF Into

------------------------------------------------------------------------------
(* What a script comes to.                                                  *)

\* A function defined on 0..n by what each step makes of the one before.
Stepwise(S, b, n, G) == b \in S /\ n \in Nat /\ G \in [1..n -> [S -> S]]
StepsOf(f, S, b, n, G) ==
  f \in [0..n -> S] /\ f[0] = b /\ \A i \in 1..n : f[i] = G[i][f[i - 1]]

LEMMA InSteps ==
  ASSUME NEW S, NEW b, NEW n, NEW G, Stepwise(S, b, n, G)
  PROVE  \E f : StepsOf(f, S, b, n, G)
<1>0. b \in S /\ n \in Nat /\ G \in [1..n -> [S -> S]]
  BY DEF Stepwise
<1> DEFINE Upto(f, k) == f \in [0..k -> S] /\ f[0] = b /\ \A i \in 1..k : f[i] = G[i][f[i - 1]]
           Some(k) == \E f : Upto(f, k)
           L == {k \in 0..n : ~Some(k)}
<1>1. Some(0)
  <2>1. Upto([i \in 0..0 |-> b], 0)
    BY <1>0
  <2> QED BY <2>1
<1>2. ASSUME NEW k \in 0..(n - 1), Some(k)
      PROVE  Some(k + 1)
  <2>1. PICK f : Upto(f, k)
    BY <1>2
  <2> DEFINE g == [i \in 0..(k + 1) |-> IF i = k + 1 THEN G[k + 1][f[k]] ELSE f[i]]
  <2>2. k \in Nat /\ k + 1 \in 1..n /\ f[k] \in S /\ G[k + 1][f[k]] \in S
    BY <1>0, <2>1
  <2>3. ASSUME NEW i \in 0..(k + 1) PROVE g[i] \in S
    <3>1. CASE i = k + 1
      BY <2>2, <3>1
    <3>2. CASE i # k + 1
      <4>1. i \in 0..k
        BY <2>2, <3>2
      <4> QED BY <2>1, <3>2, <4>1
    <3> QED BY <3>1, <3>2
  <2>4. g[0] = b
    BY <2>1, <2>2
  <2>5. ASSUME NEW i \in 1..(k + 1) PROVE g[i] = G[i][g[i - 1]]
    <3>1. CASE i = k + 1
      <4>1. g[i - 1] = f[k] /\ i - 1 = k
        BY <2>2, <3>1
      <4> QED BY <2>2, <3>1, <4>1
    <3>2. CASE i # k + 1
      <4>1. i \in 1..k /\ g[i] = f[i] /\ g[i - 1] = f[i - 1]
        BY <2>2, <3>2
      <4> QED BY <2>1, <4>1
    <3> QED BY <3>1, <3>2
  <2>6. g \in [0..(k + 1) -> S]
    BY <2>3
  <2>7. Upto(g, k + 1)
    <3> HIDE DEF g
    <3> QED BY <2>4, <2>5, <2>6
  <2> QED BY <2>7
<1> HIDE DEF Some
<1>3. L = {}
  <2> SUFFICES ASSUME L # {} PROVE FALSE
    OBVIOUS
  <2>0. L \subseteq Nat
    BY <1>0
  <2>1. PICK least \in L : \A k \in L : <<k, least>> \notin OpToRel(<, Nat)
    <3> HIDE DEF L
    <3> QED BY <2>0, NatLessThanWellFounded, WFMin
  <2>2. least \in 0..n /\ ~Some(least) /\ least \in Nat
    BY <2>0
  <2>3. least # 0 /\ least - 1 \in 0..(n - 1) /\ least - 1 \in Nat
    BY <1>0, <1>1, <2>2
  <2>4. <<least - 1, least>> \in OpToRel(<, Nat)
    BY <2>2, <2>3 DEF OpToRel
  <2>5. Some(least - 1)
    <3>1. least - 1 \in 0..n
      BY <1>0, <2>2, <2>3
    <3> SUFFICES ASSUME ~Some(least - 1) PROVE FALSE
      OBVIOUS
    <3>2. least - 1 \in L
      BY <3>1
    <3> QED BY <2>1, <2>4, <3>2
  <2>6. (least - 1) + 1 = least
    BY <2>2
  <2> QED BY <1>2, <2>2, <2>3, <2>5, <2>6
<1>4. Some(n)
  <2>1. n \in 0..n
    BY <1>0
  <2> QED BY <1>3, <2>1
<1> QED BY <1>4 DEF Some, StepsOf

\* Two sequences, one after the other.
IsSeq(s, n) == n \in Nat /\ s = [i \in 1..n |-> s[i]]
Join(s, t, m, n) ==
        /\ IsSeq(s \o t, m + n) /\ Len(s \o t) = m + n
        /\ \A i \in 1..(m + n) : (s \o t)[i] = IF i <= m THEN s[i] ELSE t[i - m]
LEMMA Joined ==
  ASSUME NEW s, NEW t, NEW m, NEW n, IsSeq(s, m), IsSeq(t, n)
  PROVE  Join(s, t, m, n)
<1> DEFINE S == {s[i] : i \in 1..m} \cup {t[i] : i \in 1..n}
           u == s \o t
           p == m + n
<1>1. m \in Nat /\ n \in Nat
  BY DEF IsSeq
<1>2. s \in Seq(S) /\ Len(s) = m /\ t \in Seq(S) /\ Len(t) = n
  <2>1. s \in [1..m -> S] /\ t \in [1..n -> S]
    BY DEF IsSeq
  <2> HIDE DEF S
  <2> QED BY <1>1, <2>1
<1> HIDE DEF S
<1>3. u \in Seq(S) /\ Len(u) = p
      /\ \A i \in 1..p : u[i] = IF i <= m THEN s[i] ELSE t[i - m]
  BY <1>1, <1>2, ConcatProperties
<1> HIDE DEF u, p
<1>4. u = [i \in 1..p |-> u[i]] /\ p \in Nat
  BY <1>1, <1>3 DEF p
<1> QED BY <1>3, <1>4 DEF u, p, IsSeq, Join

\* How many attempts have failed, and what has been spent, by each step of a script.
FailedBy(script, f) ==
  LET m == Len(script)
  IN  /\ f \in [0..m -> Nat] /\ f[0] = 0
      /\ \A i \in 1..m : f[i] = f[i - 1] + (IF FailedAttempt(script[i]) THEN 1 ELSE 0)
SpentBy(script, g) ==
  LET m == Len(script)
  IN  /\ g \in [0..m -> Nat] /\ g[0] = 0
      /\ \A i \in 1..m : g[i] = g[i - 1] + script[i].cost

LEMMA ScriptsCount ==
  ASSUME NEW script \in Seq(Span)
  PROVE  (\E f : FailedBy(script, f)) /\ (\E g : SpentBy(script, g))
<1> DEFINE m == Len(script)
           F == [i \in 1..m |-> [x \in Nat |-> x + (IF FailedAttempt(script[i]) THEN 1 ELSE 0)]]
           G == [i \in 1..m |-> [x \in Nat |-> x + script[i].cost]]
<1>1. m \in Nat /\ script \in [1..m -> Span]
  OBVIOUS
<1>2. \A i \in 1..m : script[i].cost \in Nat
  BY <1>1, SpanFields
<1>3. F \in [1..m -> [Nat -> Nat]] /\ G \in [1..m -> [Nat -> Nat]]
  BY <1>2
<1>4. \E f : FailedBy(script, f)
  <2>1. PICK f \in [0..m -> Nat] : f[0] = 0 /\ \A i \in 1..m : f[i] = F[i][f[i - 1]]
    <3>1. Stepwise(Nat, 0, m, F)
      BY <1>1, <1>3 DEF Stepwise
    <3> HIDE DEF m, F, G
    <3>2. \E f : StepsOf(f, Nat, 0, m, F)
      BY <3>1, InSteps, Zenon
    <3> QED BY <3>2 DEF StepsOf
  <2>2. ASSUME NEW i \in 1..m
        PROVE  f[i] = f[i - 1] + (IF FailedAttempt(script[i]) THEN 1 ELSE 0)
    <3>1. f[i - 1] \in Nat
      BY <1>1
    <3> QED BY <2>1, <3>1
  <2> QED BY <2>1, <2>2 DEF FailedBy
<1>5. \E g : SpentBy(script, g)
  <2>1. PICK g \in [0..m -> Nat] : g[0] = 0 /\ \A i \in 1..m : g[i] = G[i][g[i - 1]]
    <3>1. Stepwise(Nat, 0, m, G)
      BY <1>1, <1>3 DEF Stepwise
    <3> HIDE DEF m, F, G
    <3>2. \E g : StepsOf(g, Nat, 0, m, G)
      BY <3>1, InSteps, Zenon
    <3> QED BY <3>2 DEF StepsOf
  <2>2. ASSUME NEW i \in 1..m
        PROVE  g[i] = g[i - 1] + script[i].cost
    <3>1. g[i - 1] \in Nat
      BY <1>1
    <3> QED BY <2>1, <3>1
  <2> QED BY <2>1, <2>2 DEF SpentBy
<1> QED BY <1>4, <1>5

\* The calls a script begins with are the same, all later ones differ; only what
\* calls no tool costs anything; and what fails a tool fails its first.
IsScript(script, same, call) ==
  LET m == Len(script)
  IN  /\ script \in Seq(Span) /\ m \in Nat \ {0}
      /\ \A i \in 1..m : /\ script[i].kind # "session"
                         /\ script[i].cost > 0 => ~Countable(script[i]) /\ ~FailedAttempt(script[i])
                         /\ script[i].kind = "tool" /\ IsError(script[i]) => Broken(script)
      /\ same \in 0..m
      /\ \A i \in 1..same : Countable(script[i]) /\ script[i].call = call
      /\ \A i \in (same + 1)..m : Countable(script[i]) =>
           /\ script[i].call # call
           /\ \A j \in (i + 1)..m : Countable(script[j]) => script[j].call # script[i].call

\* A tool has failed, and the model answered without one coming back.
Silent(script) ==
  Broken(script) /\ ModelBy(script, Len(script)) /\ ~ToolBackBy(script, Len(script))

Crosses(script, same, failed, outcome) ==
  (IF same >= LoopThreshold THEN {"loop"} ELSE {})
    \cup (IF failed >= RetryThreshold THEN {"retry_amplification"} ELSE {})
    \cup (IF Silent(script) /\ outcome # "raised" THEN {"silent_tool_failure"} ELSE {})

SessionOf(script, outcome) == script \o <<Step("session", NoCall, outcome, 0)>>

LEMMA ScriptComesTo ==
  ASSUME NEW script, NEW same, NEW call, IsScript(script, same, call),
         NEW outcome \in Outcomes,
         NEW f, FailedBy(script, f), NEW g, SpentBy(script, g),
         Broken(script) => same < LoopThreshold /\ \A i \in 0..Len(script) : f[i] < RetryThreshold
  PROVE  \E plan : ComesTo(SessionOf(script, outcome), plan,
                           Crosses(script, same, f[Len(script)], outcome), g[Len(script)])
<1> DEFINE m == Len(script)
           n == m + 1
           last == Step("session", NoCall, outcome, 0)
           full == SessionOf(script, outcome)
           ff == [i \in 0..n |-> IF i = n THEN f[m] ELSE f[i]]
           gg == [i \in 0..n |-> IF i = n THEN g[m] ELSE g[i]]
           plan == [same |-> same, call |-> call, failed |-> ff, spent |-> gg]
           fires == Crosses(script, same, f[m], outcome)
<1>1. /\ script \in Seq(Span) /\ m \in Nat /\ m >= 1 /\ n \in Nat /\ same \in Nat /\ same <= m
      /\ \A i \in 1..m : script[i] \in Span
  BY DEF IsScript
<1>2. /\ last \in Span /\ last.kind = "session" /\ last.cost = 0 /\ last.outcome = outcome
      /\ ~Countable(last) /\ ~FailedAttempt(last) /\ last.kind # "tool" /\ last.kind # "model"
  BY ScriptsAssumption DEF Step, Span, Countable, FailedAttempt
<1> HIDE DEF last
<1>3. full = script \o <<last>>
  BY DEF SessionOf, last
<1> HIDE DEF full
<1>4. /\ full \in Seq(Span) /\ Len(full) = n /\ full[n] = last
      /\ \A i \in 1..m : full[i] = script[i]
  <2>1. full \in Seq(Span) /\ Len(full) = n
    BY <1>1, <1>2, <1>3
  <2>2. full[n] = last
    BY <1>1, <1>2, <1>3
  <2>3. \A i \in 1..m : full[i] = script[i]
    BY <1>1, <1>2, <1>3
  <2> QED BY <2>1, <2>2, <2>3
<1>5. 1 \in 1..m /\ (Broken(full) <=> Broken(script))
  BY <1>1, <1>4 DEF Broken
<1>6. \A i \in 1..n : i = n \/ i \in 1..m
  BY <1>1
<1>7. /\ ff \in [0..n -> Nat] /\ ff[0] = 0 /\ ff[n] = f[m]
      /\ \A i \in 1..n : ff[i] = ff[i - 1] + (IF FailedAttempt(full[i]) THEN 1 ELSE 0)
  <2>1. /\ f \in [0..m -> Nat] /\ f[0] = 0
        /\ \A i \in 1..m : f[i] = f[i - 1] + (IF FailedAttempt(script[i]) THEN 1 ELSE 0)
    BY DEF FailedBy
  <2>2. ff \in [0..n -> Nat] /\ ff[0] = 0 /\ ff[n] = f[m] /\ ff[m] = f[m]
    BY <1>1, <2>1
  <2>3. ASSUME NEW i \in 1..n
        PROVE  ff[i] = ff[i - 1] + (IF FailedAttempt(full[i]) THEN 1 ELSE 0)
    <3>1. CASE i = n
      <4>1. ff[i - 1] = f[m] /\ ff[i] = f[m] /\ ~FailedAttempt(full[i]) /\ f[m] \in Nat
        BY <1>1, <1>2, <1>4, <2>1, <3>1
      <4> HIDE DEF ff
      <4> QED BY <4>1
    <3>2. CASE i \in 1..m
      <4>1. ff[i - 1] = f[i - 1] /\ ff[i] = f[i] /\ full[i] = script[i]
        BY <1>1, <1>4, <3>2
      <4> HIDE DEF ff
      <4> QED BY <2>1, <3>2, <4>1
    <3> QED BY <1>6, <3>1, <3>2
  <2> QED BY <2>2, <2>3
<1>8. /\ gg \in [0..n -> Nat] /\ gg[0] = 0 /\ gg[n] = g[m]
      /\ \A i \in 1..n : gg[i] = gg[i - 1] + full[i].cost
  <2>1. /\ g \in [0..m -> Nat] /\ g[0] = 0
        /\ \A i \in 1..m : g[i] = g[i - 1] + script[i].cost
    BY DEF SpentBy
  <2>2. gg \in [0..n -> Nat] /\ gg[0] = 0 /\ gg[n] = g[m] /\ gg[m] = g[m]
    BY <1>1, <2>1
  <2>3. ASSUME NEW i \in 1..n
        PROVE  gg[i] = gg[i - 1] + full[i].cost
    <3>1. CASE i = n
      <4>1. gg[i - 1] = g[m] /\ gg[i] = g[m] /\ full[i].cost = 0 /\ g[m] \in Nat
        BY <1>1, <1>2, <1>4, <2>1, <3>1
      <4> HIDE DEF gg
      <4> QED BY <4>1
    <3>2. CASE i \in 1..m
      <4>1. gg[i - 1] = g[i - 1] /\ gg[i] = g[i] /\ full[i] = script[i]
        BY <1>1, <1>4, <3>2
      <4> HIDE DEF gg
      <4> QED BY <2>1, <3>2, <4>1
    <3> QED BY <1>6, <3>1, <3>2
  <2> QED BY <2>2, <2>3
<1>9. Broken(full) => same < LoopThreshold /\ \A i \in 0..n : ff[i] < RetryThreshold
  <2>1. ASSUME NEW i \in 0..n PROVE \E j \in 0..m : ff[i] = f[j]
    BY <1>1
  <2> HIDE DEF ff
  <2> QED BY <1>5, <2>1
<1>10. /\ plan.same = same /\ plan.call = call /\ plan.failed = ff /\ plan.spent = gg
  OBVIOUS
<1> HIDE DEF ff, gg, plan, n
<1>11. /\ \A i \in 1..(n - 1) : full[i].kind # "session"
       /\ \A i \in 1..n : full[i].cost > 0 => ~Countable(full[i]) /\ ~FailedAttempt(full[i])
       /\ \A i \in 1..n : full[i].kind = "tool" /\ IsError(full[i]) => Broken(full)
       /\ \A i \in 1..same : Countable(full[i]) /\ full[i].call = call
  <2>1. \A i \in 1..m : /\ script[i].kind # "session"
                        /\ script[i].cost > 0 => ~Countable(script[i]) /\ ~FailedAttempt(script[i])
                        /\ script[i].kind = "tool" /\ IsError(script[i]) => Broken(script)
    BY DEF IsScript
  <2>2. \A i \in 1..same : Countable(script[i]) /\ script[i].call = call
    BY DEF IsScript
  <2>3. 1..same \subseteq 1..m /\ n - 1 = m
    BY <1>1 DEF n
  <2> QED BY <1>2, <1>4, <1>5, <1>6, <2>1, <2>2, <2>3
<1>12. ASSUME NEW i \in (same + 1)..n, Countable(full[i])
       PROVE  /\ full[i].call # call
              /\ \A j \in (i + 1)..n : Countable(full[j]) => full[j].call # full[i].call
  <2>1. i # n
    BY <1>2, <1>4, <1>12
  <2>2. i \in (same + 1)..m /\ i \in 1..m
    BY <1>1, <2>1 DEF n
  <2>3. /\ script[i].call # call
        /\ \A j \in (i + 1)..m : Countable(script[j]) => script[j].call # script[i].call
    BY <1>4, <1>12, <2>2 DEF IsScript
  <2>4. ASSUME NEW j \in (i + 1)..n, Countable(full[j])
        PROVE  full[j].call # full[i].call
    <3>1. j # n
      BY <1>2, <1>4, <2>4
    <3>2. j \in (i + 1)..m /\ j \in 1..m
      BY <1>1, <2>2, <3>1 DEF n
    <3> QED BY <1>4, <2>2, <2>3, <2>4, <3>2
  <2> QED BY <1>4, <2>2, <2>3, <2>4
<1>13. IsPlan(full, plan)
  <2>1. n \in Nat \ {0} /\ same \in 0..n
    BY <1>1 DEF n
  <2> QED BY <1>2, <1>4, <1>7, <1>8, <1>9, <1>10, <1>11, <1>12, <2>1 DEF IsPlan
<1>14. Unanswered(full) <=> Silent(script) /\ outcome # "raised"
  <2>1. n - 1 = m
    BY <1>1 DEF n
  <2>2. IsError(last) <=> outcome = "raised"
    BY <1>2 DEF IsError
  <2>3. ModelBy(full, m) <=> ModelBy(script, m)
    BY <1>4 DEF ModelBy
  <2>4. ToolBackBy(full, m) <=> ToolBackBy(script, m)
    BY <1>4 DEF ToolBackBy
  <2> QED BY <1>4, <1>5, <2>1, <2>2, <2>3, <2>4 DEF Unanswered, Silent
<1>15. ComesTo(full, plan, fires, g[m])
  <2>1. /\ "loop" \in fires <=> same >= LoopThreshold
        /\ "retry_amplification" \in fires <=> f[m] >= RetryThreshold
        /\ "silent_tool_failure" \in fires <=> Silent(script) /\ outcome # "raised"
        /\ fires \subseteq {"loop", "retry_amplification", "silent_tool_failure"}
    BY DEF Crosses
  <2> HIDE DEF fires
  <2> QED BY <1>4, <1>7, <1>8, <1>10, <1>13, <1>14, <2>1 DEF ComesTo
<1> QED BY <1>15 DEF full

------------------------------------------------------------------------------
(* The scripts, step by step.                                               *)

LEMMA Spelled ==
  /\ \A a, b : <<>> \o <<a, b>> = <<a, b>>
  /\ \A a, b, c : <<a>> \o <<b, c>> = <<a, b, c>>
  /\ \A a, b, c, d : <<a, b>> \o <<c, d>> = <<a, b, c, d>>
  /\ \A a, b, c, d, e : <<a, b, c>> \o <<d, e>> = <<a, b, c, d, e>>
  /\ \A a, b, c, d, e, f : <<a, b, c, d>> \o <<e, f>> = <<a, b, c, d, e, f>>
<1>0. \A a, b : <<>> \o <<a, b>> = <<a, b>>
  OBVIOUS
<1>1. \A a, b, c : <<a>> \o <<b, c>> = <<a, b, c>>
  <2> TAKE a, b, c
  <2> DEFINE x == <<a>>
             y == <<b, c>>
             u == x \o y
  <2>1. /\ IsSeq(x, 1) /\ IsSeq(y, 2)
        /\ x[1] = a
        /\ y[1] = b /\ y[2] = c
    BY DEF IsSeq
  <2> HIDE DEF x, y
  <2>2. Join(x, y, 1, 2)
    BY <2>1, Joined
  <2>3. IsSeq(u, 3) /\ \A i \in 1..3 : u[i] = IF i <= 1 THEN x[i] ELSE y[i - 1]
    BY <2>2 DEF Join
  <2> HIDE DEF u
  <2>4. u[1] = a /\ u[2] = b /\ u[3] = c
    BY <2>1, <2>3
  <2>5. u = <<a, b, c>>
    BY <2>3, <2>4 DEF IsSeq
  <2> QED BY <2>5 DEF u, x, y
<1>2. \A a, b, c, d : <<a, b>> \o <<c, d>> = <<a, b, c, d>>
  <2> TAKE a, b, c, d
  <2> DEFINE x == <<a, b>>
             y == <<c, d>>
             u == x \o y
  <2>1. /\ IsSeq(x, 2) /\ IsSeq(y, 2)
        /\ x[1] = a /\ x[2] = b
        /\ y[1] = c /\ y[2] = d
    BY DEF IsSeq
  <2> HIDE DEF x, y
  <2>2. Join(x, y, 2, 2)
    BY <2>1, Joined
  <2>3. IsSeq(u, 4) /\ \A i \in 1..4 : u[i] = IF i <= 2 THEN x[i] ELSE y[i - 2]
    BY <2>2 DEF Join
  <2> HIDE DEF u
  <2>4. u[1] = a /\ u[2] = b /\ u[3] = c /\ u[4] = d
    BY <2>1, <2>3
  <2>5. u = <<a, b, c, d>>
    BY <2>3, <2>4 DEF IsSeq
  <2> QED BY <2>5 DEF u, x, y
<1>3. \A a, b, c, d, e : <<a, b, c>> \o <<d, e>> = <<a, b, c, d, e>>
  <2> TAKE a, b, c, d, e
  <2> DEFINE x == <<a, b, c>>
             y == <<d, e>>
             u == x \o y
  <2>1. /\ IsSeq(x, 3) /\ IsSeq(y, 2)
        /\ x[1] = a /\ x[2] = b /\ x[3] = c
        /\ y[1] = d /\ y[2] = e
    BY DEF IsSeq
  <2> HIDE DEF x, y
  <2>2. Join(x, y, 3, 2)
    BY <2>1, Joined
  <2>3. IsSeq(u, 5) /\ \A i \in 1..5 : u[i] = IF i <= 3 THEN x[i] ELSE y[i - 3]
    BY <2>2 DEF Join
  <2> HIDE DEF u
  <2>4. u[1] = a /\ u[2] = b /\ u[3] = c /\ u[4] = d /\ u[5] = e
    BY <2>1, <2>3
  <2>5. u = <<a, b, c, d, e>>
    BY <2>3, <2>4 DEF IsSeq
  <2> QED BY <2>5 DEF u, x, y
<1>4. \A a, b, c, d, e, f : <<a, b, c, d>> \o <<e, f>> = <<a, b, c, d, e, f>>
  <2> TAKE a, b, c, d, e, f
  <2> DEFINE x == <<a, b, c, d>>
             y == <<e, f>>
             u == x \o y
  <2>1. /\ IsSeq(x, 4) /\ IsSeq(y, 2)
        /\ x[1] = a /\ x[2] = b /\ x[3] = c /\ x[4] = d
        /\ y[1] = e /\ y[2] = f
    BY DEF IsSeq
  <2> HIDE DEF x, y
  <2>2. Join(x, y, 4, 2)
    BY <2>1, Joined
  <2>3. IsSeq(u, 6) /\ \A i \in 1..6 : u[i] = IF i <= 4 THEN x[i] ELSE y[i - 4]
    BY <2>2 DEF Join
  <2> HIDE DEF u
  <2>4. u[1] = a /\ u[2] = b /\ u[3] = c /\ u[4] = d /\ u[5] = e /\ u[6] = f
    BY <2>1, <2>3
  <2>5. u = <<a, b, c, d, e, f>>
    BY <2>3, <2>4 DEF IsSeq
  <2> QED BY <2>5 DEF u, x, y
<1> QED BY <1>0, <1>1, <1>2, <1>3, <1>4

\* What a session that runs a script is reported for, and costs.
Yields(script, outcome, fires, cost) ==
  \E plan : ComesTo(SessionOf(script, outcome), plan, fires, cost)

LEMMA ScriptYields ==
  ASSUME NEW script, NEW same, NEW call, IsScript(script, same, call),
         NEW outcome \in Outcomes,
         NEW f, FailedBy(script, f), NEW g, SpentBy(script, g),
         Broken(script) => same < LoopThreshold /\ \A i \in 0..Len(script) : f[i] < RetryThreshold,
         NEW fires, fires = Crosses(script, same, f[Len(script)], outcome),
         NEW cost, cost = g[Len(script)]
  PROVE  Yields(script, outcome, fires, cost)
BY ScriptComesTo DEF Yields

\* A script is made of spans, and its calls of tools have fingerprints.
LEMMA Known ==
  ASSUME NEW script, OfSpans(script)
  PROVE  /\ script \in Seq(Span) /\ Len(script) \in Nat
         /\ \A i \in 1..Len(script) : script[i].kind = "tool" => script[i].call \in Calls
BY DEF OfSpans

LEMMA AllOfSpans ==
  /\ \A shape \in DOMAIN Shapes : \A script \in Shapes[shape] : OfSpans(script)
  /\ \A name \in DOMAIN Patterns : \A pattern \in Patterns[name] : OfSpans(pattern.script)
  /\ \A fixture \in Fixtures : OfSpans(fixture.script)
  /\ \A costs \in CorpusSessions : OfSpans(Rebuilt(costs))
  /\ \A answered \in BOOLEAN : OfSpans(Request(answered))
BY ScriptsAssumption

\* A script nothing fails in: what it is reported for are the calls it begins with.
Unfailing(script, same, call) ==
  LET m == Len(script)
  IN  /\ OfSpans(script) /\ m # 0
      /\ \A i \in 1..m : /\ script[i].kind # "session" /\ ~IsError(script[i])
                         /\ (script[i].cost > 0 => script[i].kind # "tool")
      /\ same \in 0..m
      /\ \A i \in 1..same : script[i].kind = "tool" /\ script[i].call = call
      /\ \A i \in (same + 1)..m : script[i].kind = "tool" =>
           /\ script[i].call # call
           /\ \A j \in (i + 1)..m : script[j].kind = "tool" => script[j].call # script[i].call

LEMMA UnfailingYields ==
  ASSUME NEW script, NEW same, NEW call, Unfailing(script, same, call),
         NEW g, SpentBy(script, g)
  PROVE  Yields(script, "returned", IF same >= LoopThreshold THEN {"loop"} ELSE {}, g[Len(script)])
<1> DEFINE m == Len(script)
           f == [i \in 0..m |-> 0]
<1>1. script \in Seq(Span) /\ m \in Nat /\ m >= 1
      /\ \A i \in 1..m : script[i].kind = "tool" => script[i].call \in Calls
  BY Known DEF Unfailing
<1>2. \A i \in 1..m : /\ ~FailedAttempt(script[i])
                      /\ (Countable(script[i]) <=> script[i].kind = "tool")
                      /\ ~(script[i].kind = "tool" /\ IsError(script[i]))
                      /\ (script[i].cost > 0 => ~Countable(script[i]))
  BY <1>1, DetectionAssumption DEF FailedAttempt, Countable, Unfailing
<1>3. IsScript(script, same, call)
  <2>0. same \in 0..m
    BY DEF Unfailing
  <2>1. 1..same \subseteq 1..m
    BY <1>1, <2>0
  <2>2. ASSUME NEW i \in (same + 1)..m, Countable(script[i])
        PROVE  /\ script[i].call # call
               /\ \A j \in (i + 1)..m : Countable(script[j]) => script[j].call # script[i].call
    <3>1. i \in 1..m /\ \A j \in (i + 1)..m : j \in 1..m
      BY <1>1, <2>0
    <3> QED BY <1>2, <2>2, <3>1 DEF Unfailing
  <2>3. \A i \in 1..m : script[i].kind # "session"
    BY DEF Unfailing
  <2>4. \A i \in 1..same : Countable(script[i]) /\ script[i].call = call
    BY <1>2, <2>1 DEF Unfailing
  <2> QED BY <1>1, <1>2, <2>0, <2>2, <2>3, <2>4 DEF IsScript
<1>4. FailedBy(script, f)
  <2>1. \A i \in 1..m : i \in 0..m /\ i - 1 \in 0..m
    BY <1>1
  <2> QED BY <1>1, <1>2, <2>1 DEF FailedBy
<1>5. ~Broken(script)
  BY <1>1, <1>2 DEF Broken
<1>6. f[m] = 0
  BY <1>1
<1>7. (IF same >= LoopThreshold THEN {"loop"} ELSE {}) = Crosses(script, same, f[m], "returned")
  BY <1>5, <1>6, ScriptsAssumption DEF Crosses, Silent
<1>8. "returned" \in Outcomes
  BY DEF Outcomes
<1> HIDE DEF f, m
<1> QED BY <1>3, <1>4, <1>5, <1>7, <1>8, ScriptYields DEF m

\* A script that fails its first tool, and no attempt: it is reported if the model
\* answers without a tool coming back, and the session with it.
FailsFirst(script) ==
  LET m == Len(script)
  IN  /\ OfSpans(script) /\ m # 0 /\ Broken(script)
      /\ \A i \in 1..m : /\ script[i].kind # "session" /\ ~FailedAttempt(script[i])
                         /\ (script[i].cost > 0 => script[i].kind # "tool")
      /\ \A i \in 1..m : Countable(script[i]) =>
           \A j \in (i + 1)..m : Countable(script[j]) => script[j].call # script[i].call

LEMMA BrokenYields ==
  ASSUME NEW script, FailsFirst(script), NEW outcome \in Outcomes,
         NEW g, SpentBy(script, g)
  PROVE  Yields(script, outcome,
                IF Silent(script) /\ outcome # "raised" THEN {"silent_tool_failure"} ELSE {},
                g[Len(script)])
<1> DEFINE m == Len(script)
           f == [i \in 0..m |-> 0]
<1>1. script \in Seq(Span) /\ m \in Nat /\ m >= 1
  BY Known DEF FailsFirst
<1>2. \A i \in 1..m : /\ (Countable(script[i]) => script[i].call # NoCall)
                      /\ (script[i].cost > 0 => ~Countable(script[i]))
  BY <1>1 DEF Countable, FailsFirst
<1>3. IsScript(script, 0, NoCall)
  BY <1>1, <1>2 DEF IsScript, FailsFirst
<1>4. FailedBy(script, f)
  <2>1. \A i \in 1..m : i \in 0..m /\ i - 1 \in 0..m
    BY <1>1
  <2> QED BY <1>1, <1>2, <2>1 DEF FailedBy, FailsFirst
<1>5. f[m] = 0 /\ \A i \in 0..m : f[i] < RetryThreshold
  BY <1>1, ScriptsAssumption
<1>6. (IF Silent(script) /\ outcome # "raised" THEN {"silent_tool_failure"} ELSE {})
        = Crosses(script, 0, f[m], outcome)
  BY <1>5, ScriptsAssumption DEF Crosses
<1>7. 0 < LoopThreshold
  BY ScriptsAssumption
<1> HIDE DEF f, m
<1> QED BY <1>3, <1>4, <1>5, <1>6, <1>7, ScriptYields DEF m

\* A script that calls no tool: it is reported for the attempts that fail.
ToolFree(script) ==
  /\ OfSpans(script) /\ Len(script) # 0
  /\ \A i \in 1..Len(script) : /\ script[i].kind # "session" /\ script[i].kind # "tool"
                               /\ (script[i].cost > 0 => ~FailedAttempt(script[i]))

LEMMA ToolFreeYields ==
  ASSUME NEW script, ToolFree(script),
         NEW f, FailedBy(script, f), NEW g, SpentBy(script, g)
  PROVE  Yields(script, "returned",
                IF f[Len(script)] >= RetryThreshold THEN {"retry_amplification"} ELSE {},
                g[Len(script)])
<1> DEFINE m == Len(script)
<1>1. script \in Seq(Span) /\ m \in Nat /\ m >= 1
  BY Known DEF ToolFree
<1>2. \A i \in 1..m : ~Countable(script[i])
  BY <1>1 DEF Countable, ToolFree
<1>3. IsScript(script, 0, NoCall)
  BY <1>1, <1>2 DEF IsScript, ToolFree
<1>4. ~Broken(script)
  BY <1>1 DEF Broken, ToolFree
<1>5. (IF f[m] >= RetryThreshold THEN {"retry_amplification"} ELSE {})
        = Crosses(script, 0, f[m], "returned")
  BY <1>4, ScriptsAssumption DEF Crosses, Silent
<1>6. "returned" \in Outcomes
  BY DEF Outcomes
<1> HIDE DEF m
<1> QED BY <1>3, <1>4, <1>5, <1>6, ScriptYields DEF m

LEMMA HealthyYields ==
  ASSUME NEW c \in SomeUsage
  PROVE  Yields(<<Tool("lookup_scheme", 1), Retrieval>> \o Landed(c), "returned", {}, c)
<1> DEFINE script == <<Tool("lookup_scheme", 1), Retrieval, Attempt(c), Model(0)>>
           g == [i \in 0..4 |-> IF i < 3 THEN 0 ELSE c]
<1>1. <<Tool("lookup_scheme", 1), Retrieval>> \o Landed(c) = script
  <2>1. Landed(c) = <<Attempt(c), Model(0)>>
    BY Spelled DEF Landed, Call, Repeat
  <2> QED BY <2>1, Spelled
<1>2. OfSpans(script)
  <2>1. "healthy" \in DOMAIN Shapes
        /\ <<Tool("lookup_scheme", 1), Retrieval>> \o Landed(c) \in Shapes["healthy"]
    BY DEF Shapes
  <2> QED BY <1>1, <2>1, AllOfSpans
<1>3. c \in Nat
  BY ScriptsAssumption DEF SomeUsage, Price
<1>4. /\ Len(script) = 4
      /\ \A i \in 1..4 : /\ script[i].kind # "session" /\ ~IsError(script[i])
                         /\ script[i].cost = IF i = 3 THEN c ELSE 0
                         /\ (script[i].kind = "tool" <=> i = 1)
  BY DEF Tool, Retrieval, Attempt, Model, Step, IsError
<1> HIDE DEF script
<1>5. SpentBy(script, g) /\ g[4] = c
  BY <1>3, <1>4 DEF SpentBy
<1>6. script[1].call # NoCall
  BY <1>2, <1>4, Known, DetectionAssumption
<1> HIDE DEF g
<1>7. 0 \in 0..4 /\ ~(0 >= LoopThreshold)
  BY ScriptsAssumption
<1>8. Unfailing(script, 0, NoCall)
  BY <1>2, <1>4, <1>6 DEF Unfailing
<1>9. Yields(script, "returned", IF 0 >= LoopThreshold THEN {"loop"} ELSE {}, g[Len(script)])
  BY <1>5, <1>8, UnfailingYields
<1> QED BY <1>1, <1>4, <1>5, <1>7, <1>9

LEMMA SilentYields ==
  ASSUME NEW c \in SomeUsage
  PROVE  Yields(<<BrokenTool("lookup_scheme", 42)>> \o Landed(c), "returned",
                {"silent_tool_failure"}, c)
<1> DEFINE script == <<BrokenTool("lookup_scheme", 42), Attempt(c), Model(0)>>
           g == [i \in 0..3 |-> IF i < 2 THEN 0 ELSE c]
<1>1. <<BrokenTool("lookup_scheme", 42)>> \o Landed(c) = script
  <2>1. Landed(c) = <<Attempt(c), Model(0)>>
    BY Spelled DEF Landed, Call, Repeat
  <2> QED BY <2>1, Spelled
<1>2. OfSpans(script)
  <2>1. /\ "silent_tool_failure" \in DOMAIN Shapes
        /\ <<BrokenTool("lookup_scheme", 42)>> \o Landed(c) \in Shapes["silent_tool_failure"]
    BY DEF Shapes
  <2> QED BY <1>1, <2>1, AllOfSpans
<1>3. c \in Nat
  BY ScriptsAssumption DEF SomeUsage, Price
<1>4. /\ Len(script) = 3
      /\ \A i \in 1..3 : /\ script[i].kind # "session" /\ ~FailedAttempt(script[i])
                         /\ ~Countable(script[i])
                         /\ script[i].cost = IF i = 2 THEN c ELSE 0
                         /\ (script[i].kind = "tool" <=> i = 1)
      /\ IsError(script[1]) /\ script[3].kind = "model"
  BY DEF BrokenTool, Attempt, Model, Step, IsError, FailedAttempt, Countable
<1> HIDE DEF script
<1>5. SpentBy(script, g) /\ g[3] = c
  BY <1>3, <1>4 DEF SpentBy
<1> HIDE DEF g
<1>6. FailsFirst(script) /\ Silent(script)
  <2>1. 3 \in 1..3 /\ 1 \in 1..3
    OBVIOUS
  <2> QED
    BY <1>2, <1>4, <2>1 DEF FailsFirst, Silent, Broken, ModelBy, ToolBackBy
<1>7. "returned" \in Outcomes /\ "returned" # "raised"
  BY DEF Outcomes
<1>8. Yields(script, "returned",
             IF Silent(script) /\ "returned" # "raised" THEN {"silent_tool_failure"} ELSE {},
             g[Len(script)])
  BY <1>5, <1>6, <1>7, BrokenYields
<1> QED BY <1>1, <1>4, <1>5, <1>6, <1>7, <1>8

LEMMA LoopYields ==
  ASSUME NEW c \in SomeUsage
  PROVE  Yields(Repeat(4, <<Tool("search", 0)>>) \o Landed(c), "returned", {"loop"}, c)
<1> DEFINE t == Tool("search", 0)
           script == <<t, t, t, t, Attempt(c), Model(0)>>
           g == [i \in 0..6 |-> IF i < 5 THEN 0 ELSE c]
<1>1. Repeat(4, <<t>>) \o Landed(c) = script
  <2>1. Landed(c) = <<Attempt(c), Model(0)>>
    BY Spelled DEF Landed, Call, Repeat
  <2> HIDE DEF t
  <2>2. Repeat(4, <<t>>) = <<t, t, t, t>>
    BY DEF Repeat
  <2>3. <<t, t, t, t>> \o <<Attempt(c), Model(0)>> = script
    BY Spelled
  <2> QED BY <2>1, <2>2, <2>3
<1>2. OfSpans(script)
  <2>1. "loop" \in DOMAIN Shapes /\ Repeat(4, <<t>>) \o Landed(c) \in Shapes["loop"]
    BY DEF Shapes
  <2> QED BY <1>1, <2>1, AllOfSpans
<1>3. c \in Nat
  BY ScriptsAssumption DEF SomeUsage, Price
<1>4. /\ Len(script) = 6
      /\ \A i \in 1..6 : /\ script[i].kind # "session" /\ ~IsError(script[i])
                         /\ script[i].cost = IF i = 5 THEN c ELSE 0
                         /\ (script[i].kind = "tool" <=> i <= 4)
      /\ \A i \in 1..4 : script[i].call = t.call
  BY DEF Tool, Attempt, Model, Step, IsError
<1> HIDE DEF script, t
<1>5. SpentBy(script, g) /\ g[6] = c
  BY <1>3, <1>4 DEF SpentBy
<1> HIDE DEF g
<1>6. Unfailing(script, 4, t.call)
  BY <1>2, <1>4 DEF Unfailing
<1>7. Yields(script, "returned", IF 4 >= LoopThreshold THEN {"loop"} ELSE {}, g[Len(script)])
  BY <1>5, <1>6, UnfailingYields
<1>8. 4 >= LoopThreshold
  BY ScriptsAssumption
<1> QED BY <1>1, <1>4, <1>5, <1>7, <1>8 DEF t

LEMMA OutlierYields == Yields(Landed(Price(2400, 1200)), "returned", {}, Price(2400, 1200))
<1> DEFINE c == Price(2400, 1200)
           script == <<Attempt(c), Model(0)>>
           g == [i \in 0..2 |-> IF i < 1 THEN 0 ELSE c]
<1>1. Landed(c) = script
  BY Spelled DEF Landed, Call, Repeat
<1>2. OfSpans(script)
  <2>1. "expensive" \in DOMAIN Shapes /\ Landed(c) \in Shapes["expensive"]
    BY DEF Shapes
  <2> QED BY <1>1, <2>1, AllOfSpans
<1>3. c \in Nat
  <2>1. InputPrice \in Nat /\ OutputPrice \in Nat
    BY ScriptsAssumption
  <2> QED BY <2>1 DEF Price
<1> HIDE DEF c
<1>4. /\ Len(script) = 2
      /\ \A i \in 1..2 : /\ script[i].kind # "session" /\ ~IsError(script[i])
                         /\ script[i].cost = IF i = 1 THEN c ELSE 0
                         /\ script[i].kind # "tool"
  BY DEF Attempt, Model, Step, IsError
<1> HIDE DEF script
<1>5. SpentBy(script, g) /\ g[2] = c
  BY <1>3, <1>4 DEF SpentBy
<1> HIDE DEF g
<1>6. Unfailing(script, 0, NoCall)
  BY <1>2, <1>4 DEF Unfailing
<1>7. Yields(script, "returned", IF 0 >= LoopThreshold THEN {"loop"} ELSE {}, g[Len(script)])
  BY <1>5, <1>6, UnfailingYields
<1>8. ~(0 >= LoopThreshold)
  BY ScriptsAssumption
<1> QED BY <1>1, <1>4, <1>5, <1>7, <1>8 DEF c

\* Three calls, each after two attempts that fail.
LEMMA StormYields ==
  ASSUME NEW a \in Nat, NEW c \in Nat,
         OfSpans(Repeat(3, Call(2, Attempt(a), Model(c))))
  PROVE  Yields(Repeat(3, Call(2, Attempt(a), Model(c))), "returned",
                {"retry_amplification"}, 3 * a + 3 * c)
<1> DEFINE b == BrokenAttempt
           x == Attempt(a)
           y == Model(c)
           script == <<b, b, x, y, b, b, x, y, b, b, x, y>>
<1>1. Repeat(3, Call(2, Attempt(a), Model(c))) = script
  <2> HIDE DEF b, x, y
  <2>1. Repeat(2, <<b>>) = <<b, b>>
    BY DEF Repeat
  <2>2. Call(2, x, y) = <<b, b, x, y>>
    <3>1. Call(2, x, y) = Repeat(2, <<b>>) \o <<x, y>>
      BY DEF Call, b
    <3>2. <<b, b>> \o <<x, y>> = <<b, b, x, y>>
      BY Spelled
    <3> QED BY <2>1, <3>1, <3>2
  <2>3. Repeat(3, <<b, b, x, y>>) = script
    BY DEF Repeat
  <2> QED BY <2>2, <2>3 DEF x, y
<1>2. OfSpans(script)
  BY <1>1
<1>3. /\ FailedAttempt(b) /\ ~FailedAttempt(x) /\ ~FailedAttempt(y)
      /\ b.cost = 0 /\ x.cost = a /\ y.cost = c
      /\ b.kind = "attempt" /\ x.kind = "attempt" /\ y.kind = "model"
  BY DEF BrokenAttempt, Attempt, Model, Step, FailedAttempt, IsError
<1> HIDE DEF b, x, y
<1>4. /\ Len(script) = 12
      /\ \A i \in 1..12 : script[i] \in {b, x, y}
      /\ \A i \in {1, 2, 5, 6, 9, 10} : script[i] = b
      /\ \A i \in {3, 7, 11} : script[i] = x
      /\ \A i \in {4, 8, 12} : script[i] = y
  OBVIOUS
<1> HIDE DEF script
<1>5. PICK f, g : FailedBy(script, f) /\ SpentBy(script, g)
  BY <1>2, Known, ScriptsCount
<1>6. f[12] = 6
  <2>1. f[0] = 0 /\ \A i \in 1..12 : f[i] = f[i - 1] + (IF FailedAttempt(script[i]) THEN 1 ELSE 0)
    BY <1>4, <1>5 DEF FailedBy
  <2>2. f[1] = 1 /\ f[2] = 2 /\ f[3] = 2 /\ f[4] = 2
    BY <1>3, <1>4, <2>1
  <2>3. f[5] = 3 /\ f[6] = 4 /\ f[7] = 4 /\ f[8] = 4
    BY <1>3, <1>4, <2>1, <2>2
  <2>4. f[9] = 5 /\ f[10] = 6 /\ f[11] = 6
    BY <1>3, <1>4, <2>1, <2>3
  <2> QED BY <1>3, <1>4, <2>1, <2>4
<1>7. g[12] = 3 * a + 3 * c
  <2>1. g[0] = 0 /\ \A i \in 1..12 : g[i] = g[i - 1] + script[i].cost
    BY <1>4, <1>5 DEF SpentBy
  <2>2. g[1] = 0 /\ g[2] = 0 /\ g[3] = a /\ g[4] = a + c
    BY <1>3, <1>4, <2>1
  <2>3. g[5] = a + c /\ g[6] = a + c /\ g[7] = 2 * a + c /\ g[8] = 2 * a + 2 * c
    BY <1>3, <1>4, <2>1, <2>2
  <2>4. g[9] = 2 * a + 2 * c /\ g[10] = 2 * a + 2 * c /\ g[11] = 3 * a + 2 * c
    BY <1>3, <1>4, <2>1, <2>3
  <2> QED BY <1>3, <1>4, <2>1, <2>4
<1>8. ToolFree(script)
  BY <1>2, <1>3, <1>4 DEF ToolFree
<1>9. Yields(script, "returned",
             IF f[Len(script)] >= RetryThreshold THEN {"retry_amplification"} ELSE {},
             g[Len(script)])
  BY <1>5, <1>8, ToolFreeYields
<1>10. 6 >= RetryThreshold
  BY ScriptsAssumption
<1> QED BY <1>1, <1>4, <1>6, <1>7, <1>9, <1>10

\* What each shape of the traffic sets off, and whether it is dear.
ShapeYields(shape, script, cost) ==
  /\ cost \in Nat
  /\ Yields(script, "returned", SetsOff(shape) \ {"cost_ceiling"}, cost)
  /\ \A ceiling \in (Ceilings \ {NoCeiling}) \cup {TrafficCeiling} :
       cost > ceiling <=> shape = "expensive"

LEMMA ShapesYield ==
  ASSUME NEW shape \in DOMAIN Shapes, NEW script \in Shapes[shape]
  PROVE  \E cost : ShapeYields(shape, script, cost)
<1>1. /\ InputPrice \in Nat /\ OutputPrice \in Nat
      /\ \A ceiling \in (Ceilings \ {NoCeiling}) \cup {TrafficCeiling} :
           /\ ceiling \in Nat
           /\ 3 * Price(300, 60) <= ceiling /\ Price(900, 260) <= ceiling
           /\ Price(2400, 1200) > ceiling
  <2>1. Ceilings \subseteq Nat /\ TrafficCeiling \in Nat
    BY ScriptsAssumption DEF TrafficCeiling
  <2>2. \A ceiling \in (Ceilings \ {NoCeiling}) \cup {TrafficCeiling} : ceiling \in Nat
    BY <2>1
  <2> QED BY <2>2, ScriptsAssumption
<1>2. \A c \in SomeUsage : c \in Nat /\ c <= Price(900, 260)
  BY <1>1 DEF SomeUsage, Price
<1>3. \A c \in SomeUsage : \A ceiling \in (Ceilings \ {NoCeiling}) \cup {TrafficCeiling} :
        ~(c > ceiling)
  <2>1. Price(900, 260) \in Nat
    BY <1>1 DEF Price
  <2> QED BY <1>1, <1>2, <2>1
<1>4. CASE shape = "healthy"
  <2>1. PICK c \in SomeUsage : script = <<Tool("lookup_scheme", 1), Retrieval>> \o Landed(c)
    BY <1>4 DEF Shapes
  <2>2. SetsOff(shape) \ {"cost_ceiling"} = {}
    BY <1>4 DEF SetsOff
  <2>3. Yields(script, "returned", {}, c)
    BY <2>1, HealthyYields
  <2>4. ShapeYields(shape, script, c)
    BY <1>2, <1>3, <1>4, <2>2, <2>3 DEF ShapeYields
  <2> QED BY <2>4
<1>5. CASE shape = "silent_tool_failure"
  <2>1. PICK c \in SomeUsage : script = <<BrokenTool("lookup_scheme", 42)>> \o Landed(c)
    BY <1>5 DEF Shapes
  <2>2. SetsOff(shape) \ {"cost_ceiling"} = {"silent_tool_failure"}
    BY <1>5 DEF SetsOff
  <2>3. Yields(script, "returned", {"silent_tool_failure"}, c)
    BY <2>1, SilentYields
  <2>4. ShapeYields(shape, script, c)
    BY <1>2, <1>3, <1>5, <2>2, <2>3 DEF ShapeYields
  <2> QED BY <2>4
<1>6. CASE shape = "loop"
  <2>1. PICK c \in SomeUsage : script = Repeat(4, <<Tool("search", 0)>>) \o Landed(c)
    <3>1. Shapes["loop"] = {Repeat(4, <<Tool("search", 0)>>) \o Landed(c) : c \in SomeUsage}
      BY DEF Shapes
    <3> QED BY <1>6, <3>1
  <2>2. SetsOff(shape) \ {"cost_ceiling"} = {"loop"}
    BY <1>6 DEF SetsOff
  <2>3. Yields(script, "returned", {"loop"}, c)
    BY <2>1, LoopYields
  <2>4. ShapeYields(shape, script, c)
    BY <1>2, <1>3, <1>6, <2>2, <2>3 DEF ShapeYields
  <2> QED BY <2>4
<1>7. CASE shape = "expensive"
  <2>1. script = Landed(Price(2400, 1200))
    BY <1>7 DEF Shapes
  <2>2. SetsOff(shape) \ {"cost_ceiling"} = {}
    BY <1>7 DEF SetsOff
  <2>3. Price(2400, 1200) \in Nat
    BY <1>1 DEF Price
  <2>4. ShapeYields(shape, script, Price(2400, 1200))
    BY <1>1, <1>7, <2>1, <2>2, <2>3, OutlierYields DEF ShapeYields
  <2> QED BY <2>4
<1>8. CASE shape = "retry_storm"
  <2> DEFINE a == Price(300, 60)
  <2>1. script = Repeat(3, Call(2, Attempt(a), Model(0)))
    BY <1>8 DEF Shapes
  <2>2. SetsOff(shape) \ {"cost_ceiling"} = {"retry_amplification"}
    BY <1>8 DEF SetsOff
  <2>3. a \in Nat
    BY <1>1 DEF Price
  <2>4. OfSpans(script)
    BY AllOfSpans
  <2> HIDE DEF a
  <2>5. Yields(script, "returned", {"retry_amplification"}, 3 * a + 3 * 0)
    BY <2>1, <2>3, <2>4, StormYields
  <2>6. 3 * a + 3 * 0 = 3 * a /\ 3 * a \in Nat
    BY <2>3
  <2>7. \A ceiling \in (Ceilings \ {NoCeiling}) \cup {TrafficCeiling} : ~(3 * a > ceiling)
    BY <1>1, <2>3 DEF a
  <2>8. ShapeYields(shape, script, 3 * a)
    BY <1>8, <2>2, <2>5, <2>6, <2>7 DEF ShapeYields
  <2> QED BY <2>8
<1>9. shape \in {"healthy", "silent_tool_failure", "loop", "expensive", "retry_storm"}
  BY DEF Shapes
<1> QED BY <1>4, <1>5, <1>6, <1>7, <1>8, <1>9

\* The proof's request is reported for its tool when it is answered, and for nothing
\* when it is not.
LEMMA RequestYields ==
  ASSUME NEW answered \in BOOLEAN
  PROVE  \E cost : Yields(Request(answered), IF answered THEN "returned" ELSE "raised",
                          IF answered THEN {"silent_tool_failure"} ELSE {}, cost)
<1>1. CASE answered
  <2> DEFINE script == <<BrokenTool("lookup_scheme", 1), Retrieval, Attempt(0), Model(0)>>
  <2>1. Request(answered) = script
    <3>1. Call(0, Attempt(0), Model(0)) = <<Attempt(0), Model(0)>>
      BY Spelled DEF Call, Repeat
    <3>2. Request(answered) = <<BrokenTool("lookup_scheme", 1), Retrieval>>
                                \o <<Attempt(0), Model(0)>>
      BY <1>1, <3>1 DEF Request
    <3> QED BY <3>2, Spelled
  <2>2. OfSpans(script)
    BY <2>1, AllOfSpans
  <2>3. /\ Len(script) = 4
        /\ \A i \in 1..4 : /\ script[i].kind # "session" /\ ~FailedAttempt(script[i])
                           /\ ~Countable(script[i]) /\ script[i].cost = 0
                           /\ (script[i].kind = "tool" <=> i = 1)
        /\ IsError(script[1]) /\ script[4].kind = "model"
    BY DEF BrokenTool, Retrieval, Attempt, Model, Step, IsError, FailedAttempt, Countable
  <2> HIDE DEF script
  <2>4. PICK g : SpentBy(script, g)
    BY <2>2, Known, ScriptsCount
  <2>5. FailsFirst(script) /\ Silent(script)
    <3>1. 4 \in 1..4 /\ 1 \in 1..4
      OBVIOUS
    <3> QED
      BY <2>2, <2>3, <3>1 DEF FailsFirst, Silent, Broken, ModelBy, ToolBackBy
  <2>6. "returned" \in Outcomes /\ "returned" # "raised"
    BY DEF Outcomes
  <2>7. Yields(script, "returned",
               IF Silent(script) /\ "returned" # "raised" THEN {"silent_tool_failure"} ELSE {},
               g[Len(script)])
    BY <2>4, <2>5, <2>6, BrokenYields
  <2> QED BY <1>1, <2>1, <2>5, <2>6, <2>7
<1>2. CASE ~answered
  <2> DEFINE last == Step("model", NoCall, "raised", 0)
             script == <<BrokenTool("lookup_scheme", 1), Retrieval, BrokenAttempt, last>>
             f == [i \in 0..4 |-> IF i < 3 THEN 0 ELSE 1]
  <2>1. Request(answered) = script
    <3>1. Request(answered) = <<BrokenTool("lookup_scheme", 1), Retrieval>>
                                \o <<BrokenAttempt, last>>
      BY <1>2 DEF Request
    <3> HIDE DEF last
    <3> QED BY <3>1, Spelled
  <2>2. OfSpans(script)
    BY <2>1, AllOfSpans
  <2>3. /\ Len(script) = 4
        /\ \A i \in 1..4 : /\ script[i].kind # "session" /\ (FailedAttempt(script[i]) <=> i = 3)
                           /\ ~Countable(script[i]) /\ script[i].cost = 0
                           /\ (script[i].kind = "tool" <=> i = 1)
        /\ IsError(script[1])
    BY DEF BrokenTool, Retrieval, BrokenAttempt, Step, IsError, FailedAttempt, Countable
  <2> HIDE DEF script
  <2>4. PICK g : SpentBy(script, g)
    BY <2>2, Known, ScriptsCount
  <2>5. Broken(script) /\ IsScript(script, 0, NoCall)
    <3>1. script \in Seq(Span)
      BY <2>2, Known
    <3> QED BY <2>3, <3>1 DEF Broken, IsScript
  <2>6. FailedBy(script, f) /\ f[4] = 1 /\ \A i \in 0..4 : f[i] <= 1
    BY <2>3 DEF FailedBy
  <2> HIDE DEF f
  <2>7. 0 < LoopThreshold /\ (\A i \in 0..4 : f[i] < RetryThreshold)
        /\ ~(0 >= LoopThreshold) /\ ~(f[4] >= RetryThreshold)
    <3>1. f \in [0..4 -> Nat]
      BY <2>3, <2>6 DEF FailedBy
    <3> QED BY <2>6, <3>1, ScriptsAssumption
  <2>8. {} = Crosses(script, 0, f[4], "raised")
    BY <2>7 DEF Crosses
  <2>9. "raised" \in Outcomes
    BY DEF Outcomes
  <2>10. Yields(script, "raised", {}, g[4])
    BY <2>3, <2>4, <2>5, <2>6, <2>7, <2>8, <2>9, ScriptYields
  <2> QED BY <1>2, <2>1, <2>10
<1> QED BY <1>1, <1>2

Usual == Price(200, 40)

LEMMA UsualIs == Usual \in Nat
<1>1. InputPrice \in Nat /\ OutputPrice \in Nat
  BY ScriptsAssumption
<1> QED BY <1>1 DEF Usual, Price

\* Calls of one tool, the first of them identical, and then an answer.
LEMMA LookupsYield ==
  ASSUME NEW name, NEW n \in Nat \ {0}, NEW same \in 0..n, NEW p \in Nat, NEW script,
         script = [i \in 1..n |-> Tool(name, IF i <= same THEN 0 ELSE i)] \o <<Model(p)>>,
         OfSpans(script)
  PROVE  \E cost : Yields(script, "returned", IF same >= LoopThreshold THEN {"loop"} ELSE {}, cost)
<1> DEFINE x == [i \in 1..n |-> Tool(name, IF i <= same THEN 0 ELSE i)]
           y == <<Model(p)>>
           call == <<name, 0>>
<1>1. IsSeq(x, n) /\ IsSeq(y, 1) /\ y[1] = Model(p)
  BY DEF IsSeq
<1>2. /\ \A i \in 1..same : x[i] = Tool(name, 0)
      /\ \A i \in (same + 1)..n : x[i] = Tool(name, i)
      /\ \A i \in 1..n : i \in 1..same \/ i \in (same + 1)..n
  OBVIOUS
<1> HIDE DEF x, y
<1>3. Join(x, y, n, 1)
  BY <1>1, Joined
<1>4. script = x \o y
  BY DEF x, y
<1>5. Len(script) = n + 1 /\ \A i \in 1..(n + 1) : script[i] = IF i <= n THEN x[i] ELSE y[i - n]
  BY <1>3, <1>4 DEF Join
<1>6. /\ \A i \in 1..same : script[i] = Tool(name, 0)
      /\ \A i \in (same + 1)..n : script[i] = Tool(name, i)
      /\ script[n + 1] = Model(p)
      /\ \A i \in 1..(n + 1) : i \in 1..same \/ i \in (same + 1)..n \/ i = n + 1
  <2>1. \A i \in 1..n : i \in 1..(n + 1) /\ i <= n
    OBVIOUS
  <2>2. n + 1 \in 1..(n + 1) /\ ~(n + 1 <= n) /\ (n + 1) - n = 1
    OBVIOUS
  <2> QED BY <1>1, <1>2, <1>5, <2>1, <2>2
<1>7. /\ \A a : /\ Tool(name, a).kind = "tool" /\ ~IsError(Tool(name, a))
                /\ Tool(name, a).cost = 0 /\ Tool(name, a).call = <<name, a>>
      /\ Model(p).kind = "model" /\ ~IsError(Model(p))
  BY DEF Tool, Model, Step, IsError
<1>8. \A i, j \in Nat : i # j => <<name, i>> # <<name, j>>
  OBVIOUS
<1>9. Unfailing(script, same, call)
  <2>1. ASSUME NEW i \in 1..(n + 1)
        PROVE  /\ script[i].kind # "session" /\ ~IsError(script[i])
               /\ (script[i].cost > 0 => script[i].kind # "tool")
    BY <1>6, <1>7
  <2>2. ASSUME NEW i \in (same + 1)..(n + 1), script[i].kind = "tool"
        PROVE  /\ script[i].call # call
               /\ \A j \in (i + 1)..(n + 1) : script[j].kind = "tool" => script[j].call # script[i].call
    <3>1. i # n + 1
      BY <1>6, <1>7, <2>2
    <3>2. i \in (same + 1)..n /\ i \in Nat /\ i # 0
      BY <3>1
    <3>3. script[i].call = <<name, i>>
      BY <1>6, <1>7, <3>2
    <3>4. ASSUME NEW j \in (i + 1)..(n + 1), script[j].kind = "tool"
          PROVE  script[j].call # script[i].call
      <4>1. j # n + 1
        BY <1>6, <1>7, <3>4
      <4>2. j \in (same + 1)..n /\ j \in Nat /\ j # i
        BY <3>2, <4>1
      <4>3. script[j].call = <<name, j>>
        BY <1>6, <1>7, <4>2
      <4> QED BY <1>8, <3>2, <3>3, <4>2, <4>3
    <3> QED BY <1>8, <3>2, <3>3, <3>4
  <2>3. \A i \in 1..same : script[i].kind = "tool" /\ script[i].call = call
    BY <1>6, <1>7
  <2>4. same \in 0..(n + 1) /\ n + 1 # 0
    OBVIOUS
  <2> HIDE DEF call
  <2> QED BY <1>5, <2>1, <2>2, <2>3, <2>4 DEF Unfailing
<1>10. PICK g : SpentBy(script, g)
  BY Known, ScriptsCount
<1> QED BY <1>9, <1>10, UnfailingYields

\* What a pattern is there to show.
Promised(name, same) ==
  IF name \in DOMAIN PositiveControls THEN {PositiveControls[name]}
  ELSE IF same >= LoopThreshold THEN {"loop"} ELSE {}

LEMMA PaginatedYields ==
  ASSUME NEW pattern \in Paginated, OfSpans(pattern.script)
  PROVE  pattern.same = 1 /\ \E cost : Yields(pattern.script, "returned", {}, cost)
<1> DEFINE f(pages) == [i \in 1..pages |-> Tool("search", i)] \o <<Model(Usual)>>
           g(pages) == [i \in 1..pages |-> Tool("search", IF i <= 0 THEN 0 ELSE i)] \o <<Model(Usual)>>
<1>1. PICK pages \in 3..6 : pattern.script = f(pages) /\ pattern.same = 1
  <2>1. PICK pages \in 3..6 : pattern \in Once(f(pages))
    BY DEF Paginated, Usual
  <2> HIDE DEF f
  <2> QED BY <2>1 DEF Once
<1>2. f(pages) = g(pages)
  <2>1. \A i \in 1..pages : ~(i <= 0)
    OBVIOUS
  <2>2. [i \in 1..pages |-> Tool("search", i)]
          = [i \in 1..pages |-> Tool("search", IF i <= 0 THEN 0 ELSE i)]
    BY <2>1
  <2> QED BY <2>2
<1>3. Usual \in Nat /\ pages \in Nat \ {0} /\ 0 \in 0..pages
  BY UsualIs
<1>4. ~(0 >= LoopThreshold)
  BY ScriptsAssumption
<1>5. pattern.script = g(pages)
  BY <1>1, <1>2
<1> HIDE DEF f
<1>6. \E cost : Yields(pattern.script, "returned", IF 0 >= LoopThreshold THEN {"loop"} ELSE {}, cost)
  BY <1>3, <1>5, LookupsYield
<1> QED BY <1>1, <1>4, <1>6

LEMMA RepeatedLookupYields ==
  ASSUME NEW pattern \in RepeatedLookup, OfSpans(pattern.script)
  PROVE  \E cost : Yields(pattern.script, "returned",
                          IF pattern.same >= LoopThreshold THEN {"loop"} ELSE {}, cost)
<1> DEFINE f(n, same) == [i \in 1..n |-> Tool("lookup_scheme", Draw(n, same)[i])] \o <<Model(Usual)>>
           g(n, same) == [i \in 1..n |-> Tool("lookup_scheme", IF i <= same THEN 0 ELSE i)]
                           \o <<Model(Usual)>>
<1>1. PICK n \in 4..9 : \E same \in 1..n : pattern.script = f(n, same) /\ pattern.same = same
  <2> DEFINE of(n) == {[script |-> f(n, same), same |-> same] : same \in 1..n}
  <2>1. RepeatedLookup = UNION {of(n) : n \in 4..9}
    BY DEF RepeatedLookup, Usual
  <2>2. PICK n \in 4..9 : pattern \in of(n)
    <3> HIDE DEF of
    <3> QED BY <2>1
  <2> HIDE DEF f
  <2> QED BY <2>2
<1>0. PICK same \in 1..n : pattern.script = f(n, same) /\ pattern.same = same
  BY <1>1
<1>2. f(n, same) = g(n, same)
  <2>1. [i \in 1..n |-> Tool("lookup_scheme", Draw(n, same)[i])]
          = [i \in 1..n |-> Tool("lookup_scheme", IF i <= same THEN 0 ELSE i)]
    BY DEF Draw
  <2> QED BY <2>1
<1>3. Usual \in Nat /\ n \in Nat \ {0} /\ same \in 0..n
  BY UsualIs
<1>4. pattern.script = g(n, same)
  BY <1>0, <1>2
<1> HIDE DEF f
<1>5. \E cost : Yields(pattern.script, "returned", IF same >= LoopThreshold THEN {"loop"} ELSE {}, cost)
  BY <1>3, <1>4, LookupsYield
<1> QED BY <1>0, <1>5

LEMMA LookedYields ==
  ASSUME NEW pattern \in Looked, OfSpans(pattern.script)
  PROVE  pattern.same = 1 /\ \E cost : Yields(pattern.script, "returned", {}, cost)
<1> DEFINE script == <<Tool("lookup_scheme", 1), Model(Usual)>>
<1>1. pattern.script = script /\ pattern.same = 1
  BY DEF Looked, Once, Usual
<1>2. OfSpans(script)
  BY <1>1
<1>3. /\ Len(script) = 2
      /\ \A i \in 1..2 : /\ script[i].kind # "session" /\ ~IsError(script[i])
                         /\ (script[i].kind = "tool" <=> i = 1)
      /\ script[1].cost = 0
  BY DEF Tool, Model, Step, IsError
<1> HIDE DEF script
<1>4. script[1].call # NoCall
  BY <1>2, <1>3, Known, DetectionAssumption
<1>5. Unfailing(script, 0, NoCall)
  BY <1>2, <1>3, <1>4 DEF Unfailing
<1>6. PICK g : SpentBy(script, g)
  BY <1>2, Known, ScriptsCount
<1>7. Yields(script, "returned", IF 0 >= LoopThreshold THEN {"loop"} ELSE {}, g[Len(script)])
  BY <1>5, <1>6, UnfailingYields
<1>8. ~(0 >= LoopThreshold)
  BY ScriptsAssumption
<1> QED BY <1>1, <1>7, <1>8

\* A tool that fails and is tried again, or gone around: by the answer one has come
\* back.
LEMMA RecoveredYields ==
  ASSUME NEW script, OfSpans(script), NEW n \in Nat, Len(script) = n + 1, NEW k \in 1..(n - 1),
         \A i \in 1..n : script[i].kind = "tool" /\ script[i].cost = 0,
         \A i \in 1..k : IsError(script[i]),
         n = k + 1, ~IsError(script[n]), script[n + 1].kind = "model"
  PROVE  \E cost : Yields(script, "returned", {}, cost)
<1>1. \A i \in 1..(n + 1) : i \in 1..n \/ i = n + 1
  OBVIOUS
<1>2. \A i \in 1..n : Countable(script[i]) => i = n
  BY DEF Countable
<1>3. ~Countable(script[n + 1]) /\ \A i \in 1..(n + 1) : ~FailedAttempt(script[i])
  BY <1>1 DEF Countable, FailedAttempt
<1>4. 1 \in 1..k /\ 1 \in 1..n /\ n \in 1..(n + 1)
  OBVIOUS
<1>5. Broken(script) /\ ToolBackBy(script, n + 1)
  BY <1>4 DEF Broken, ToolBackBy
<1>6. FailsFirst(script)
  <2>1. ASSUME NEW i \in 1..(n + 1), Countable(script[i]), NEW j \in (i + 1)..(n + 1)
        PROVE  ~Countable(script[j])
    <3>1. i = n /\ j = n + 1
      BY <1>1, <1>2, <1>3, <2>1
    <3> QED BY <1>3, <3>1
  <2>2. \A i \in 1..(n + 1) : /\ script[i].kind # "session"
                              /\ (script[i].cost > 0 => script[i].kind # "tool")
    BY <1>1
  <2>3. n + 1 # 0
    OBVIOUS
  <2> QED BY <1>3, <1>5, <2>1, <2>2, <2>3 DEF FailsFirst
<1>7. ~Silent(script)
  BY <1>5 DEF Silent
<1>8. PICK g : SpentBy(script, g)
  BY Known, ScriptsCount
<1>9. "returned" \in Outcomes
  BY DEF Outcomes
<1>10. Yields(script, "returned",
              IF Silent(script) /\ "returned" # "raised" THEN {"silent_tool_failure"} ELSE {},
              g[Len(script)])
  BY <1>6, <1>8, <1>9, BrokenYields
<1> QED BY <1>7, <1>10

LEMMA TransientRetryYields ==
  ASSUME NEW pattern \in TransientRetry, OfSpans(pattern.script)
  PROVE  pattern.same = 1 /\ \E cost : Yields(pattern.script, "returned", {}, cost)
<1> DEFINE script == <<BrokenTool("search", 0), BrokenTool("search", 0), Tool("search", 0),
                       Model(Usual)>>
<1>1. pattern.script = script /\ pattern.same = 1
  BY DEF TransientRetry, Once, Usual
<1>2. /\ Len(script) = 4
      /\ \A i \in 1..3 : script[i].kind = "tool" /\ script[i].cost = 0
      /\ \A i \in 1..2 : IsError(script[i])
      /\ ~IsError(script[3]) /\ script[4].kind = "model"
  BY DEF BrokenTool, Tool, Model, Step, IsError
<1> HIDE DEF script
<1>3. \E cost : Yields(script, "returned", {}, cost)
  <2> DEFINE n == 3
             k == 2
  <2>1. /\ n \in Nat /\ Len(script) = n + 1 /\ k \in 1..(n - 1) /\ n = k + 1
        /\ \A i \in 1..n : script[i].kind = "tool" /\ script[i].cost = 0
        /\ \A i \in 1..k : IsError(script[i])
        /\ ~IsError(script[n]) /\ script[n + 1].kind = "model"
    BY <1>2
  <2> HIDE DEF n, k
  <2> QED BY <1>1, <2>1, RecoveredYields
<1> QED BY <1>1, <1>3

LEMMA RecoveryYields ==
  ASSUME NEW pattern \in RecoveryViaAnotherTool, OfSpans(pattern.script)
  PROVE  pattern.same = 1 /\ \E cost : Yields(pattern.script, "returned", {}, cost)
<1> DEFINE script == <<BrokenTool("search", 0), Tool("lookup_scheme", 42), Model(Usual)>>
<1>1. pattern.script = script /\ pattern.same = 1
  BY DEF RecoveryViaAnotherTool, Once, Usual
<1>2. /\ Len(script) = 3
      /\ \A i \in 1..2 : script[i].kind = "tool" /\ script[i].cost = 0
      /\ \A i \in 1..1 : IsError(script[i])
      /\ ~IsError(script[2]) /\ script[3].kind = "model"
  BY DEF BrokenTool, Tool, Model, Step, IsError
<1> HIDE DEF script
<1>3. \E cost : Yields(script, "returned", {}, cost)
  <2> DEFINE n == 2
             k == 1
  <2>1. /\ n \in Nat /\ Len(script) = n + 1 /\ k \in 1..(n - 1) /\ n = k + 1
        /\ \A i \in 1..n : script[i].kind = "tool" /\ script[i].cost = 0
        /\ \A i \in 1..k : IsError(script[i])
        /\ ~IsError(script[n]) /\ script[n + 1].kind = "model"
    BY <1>2
  <2> HIDE DEF n, k
  <2> QED BY <1>1, <2>1, RecoveredYields
<1> QED BY <1>1, <1>3

\* Model calls that land after some failed attempts, fewer in all than the threshold.
LEMMA RetriedTwiceYields ==
  ASSUME NEW c \in Nat, OfSpans(Repeat(2, Call(2, Attempt(0), Model(c))))
  PROVE  \E cost : Yields(Repeat(2, Call(2, Attempt(0), Model(c))), "returned", {}, cost)
<1> DEFINE b == BrokenAttempt
           x == Attempt(0)
           y == Model(c)
           script == <<b, b, x, y, b, b, x, y>>
<1>1. Repeat(2, Call(2, Attempt(0), Model(c))) = script
  <2> HIDE DEF b, x, y
  <2>1. Repeat(2, <<b>>) = <<b, b>>
    BY DEF Repeat
  <2>2. Call(2, x, y) = <<b, b, x, y>>
    <3>1. Call(2, x, y) = Repeat(2, <<b>>) \o <<x, y>>
      BY DEF Call, b
    <3>2. <<b, b>> \o <<x, y>> = <<b, b, x, y>>
      BY Spelled
    <3> QED BY <2>1, <3>1, <3>2
  <2>3. Repeat(2, <<b, b, x, y>>) = script
    BY DEF Repeat
  <2> QED BY <2>2, <2>3 DEF x, y
<1>2. OfSpans(script)
  BY <1>1
<1>3. /\ FailedAttempt(b) /\ ~FailedAttempt(x) /\ ~FailedAttempt(y) /\ b.cost = 0
      /\ b.kind = "attempt" /\ x.kind = "attempt" /\ y.kind = "model"
  BY DEF BrokenAttempt, Attempt, Model, Step, FailedAttempt, IsError
<1> HIDE DEF b, x, y
<1>4. /\ Len(script) = 8
      /\ \A i \in 1..8 : script[i] \in {b, x, y}
      /\ \A i \in {1, 2, 5, 6} : script[i] = b
      /\ \A i \in {3, 7} : script[i] = x
      /\ \A i \in {4, 8} : script[i] = y
  OBVIOUS
<1> HIDE DEF script
<1>5. PICK f, g : FailedBy(script, f) /\ SpentBy(script, g)
  BY <1>2, Known, ScriptsCount
<1>6. f[8] = 4
  <2>1. f[0] = 0 /\ \A i \in 1..8 : f[i] = f[i - 1] + (IF FailedAttempt(script[i]) THEN 1 ELSE 0)
    BY <1>4, <1>5 DEF FailedBy
  <2>2. f[1] = 1 /\ f[2] = 2 /\ f[3] = 2 /\ f[4] = 2
    BY <1>3, <1>4, <2>1
  <2> QED BY <1>3, <1>4, <2>1, <2>2
<1>7. ToolFree(script)
  BY <1>2, <1>3, <1>4 DEF ToolFree
<1>8. Yields(script, "returned",
             IF f[Len(script)] >= RetryThreshold THEN {"retry_amplification"} ELSE {},
             g[Len(script)])
  BY <1>5, <1>7, ToolFreeYields
<1>9. ~(4 >= RetryThreshold)
  BY ScriptsAssumption
<1> QED BY <1>1, <1>4, <1>6, <1>8, <1>9

LEMMA RetriedOnceYields ==
  ASSUME OfSpans(Retried(1, 1))
  PROVE  \E cost : Yields(Retried(1, 1), "returned", {}, cost)
<1> DEFINE b == BrokenAttempt
           x == Attempt(0)
           y == Model(0)
           script == <<b, x, y>>
<1>1. Retried(1, 1) = script
  <2> HIDE DEF b, x, y
  <2>1. Repeat(1, <<b>>) = <<b>>
    BY DEF Repeat
  <2>2. Call(1, x, y) = script
    <3>1. Call(1, x, y) = Repeat(1, <<b>>) \o <<x, y>>
      BY DEF Call, b
    <3>2. <<b>> \o <<x, y>> = script
      BY Spelled
    <3> QED BY <2>1, <3>1, <3>2
  <2>3. Repeat(1, script) = script
    BY DEF Repeat
  <2> HIDE DEF script
  <2> QED BY <2>2, <2>3 DEF x, y, Retried
<1>2. OfSpans(script)
  BY <1>1
<1>3. /\ FailedAttempt(b) /\ ~FailedAttempt(x) /\ ~FailedAttempt(y) /\ b.cost = 0
      /\ b.kind = "attempt" /\ x.kind = "attempt" /\ y.kind = "model"
  BY DEF BrokenAttempt, Attempt, Model, Step, FailedAttempt, IsError
<1> HIDE DEF b, x, y
<1>4. /\ Len(script) = 3
      /\ \A i \in 1..3 : script[i] \in {b, x, y}
      /\ script[1] = b /\ script[2] = x /\ script[3] = y
  OBVIOUS
<1> HIDE DEF script
<1>5. PICK f, g : FailedBy(script, f) /\ SpentBy(script, g)
  BY <1>2, Known, ScriptsCount
<1>6. f[3] = 1
  <2>1. f[0] = 0 /\ \A i \in 1..3 : f[i] = f[i - 1] + (IF FailedAttempt(script[i]) THEN 1 ELSE 0)
    BY <1>4, <1>5 DEF FailedBy
  <2> QED BY <1>3, <1>4, <2>1
<1>7. ToolFree(script)
  BY <1>2, <1>3, <1>4 DEF ToolFree
<1>8. Yields(script, "returned",
             IF f[Len(script)] >= RetryThreshold THEN {"retry_amplification"} ELSE {},
             g[Len(script)])
  BY <1>5, <1>7, ToolFreeYields
<1>9. ~(1 >= RetryThreshold)
  BY ScriptsAssumption
<1> QED BY <1>1, <1>4, <1>6, <1>8, <1>9

LEMMA MultiToolPlanYields ==
  ASSUME NEW pattern \in MultiToolPlan, OfSpans(pattern.script)
  PROVE  pattern.same = 1 /\ \E cost : Yields(pattern.script, "returned", {}, cost)
<1> DEFINE plan == <<"search", "lookup_scheme", "check_eligibility", "summarise">>
           dear == Price(900, 300)
           script == [i \in 1..8 |-> IF i % 2 = 1 THEN Tool(plan[(i + 1) \div 2], 1) ELSE Model(dear)]
<1>1. pattern.script = script /\ pattern.same = 1
  BY DEF MultiToolPlan, Once
<1>2. OfSpans(script)
  BY <1>1
<1> HIDE DEF dear
<1>3. /\ Len(script) = 8
      /\ script[1] = Tool("search", 1) /\ script[3] = Tool("lookup_scheme", 1)
      /\ script[5] = Tool("check_eligibility", 1) /\ script[7] = Tool("summarise", 1)
      /\ \A i \in {2, 4, 6, 8} : script[i] = Model(dear)
  OBVIOUS
<1> HIDE DEF script
<1>4. \A i \in 1..8 : /\ script[i].kind # "session" /\ ~IsError(script[i])
                      /\ (script[i].kind = "tool" <=> i \in {1, 3, 5, 7})
                      /\ (script[i].kind = "tool" => script[i].cost = 0)
  BY <1>3 DEF Tool, Model, Step, IsError
<1>5. \A i, j \in {1, 3, 5, 7} : i # j => script[i].call # script[j].call
  BY <1>3 DEF Tool, Step
<1>6. \A i \in 1..8 : script[i].kind = "tool" => script[i].call # NoCall
  BY <1>2, <1>3, Known, DetectionAssumption
<1>7. Unfailing(script, 0, NoCall)
  <2>1. Len(script) = 8
    BY <1>3
  <2>2. \A i \in 1..8 : script[i].kind = "tool" =>
          \A j \in (i + 1)..8 : script[j].kind = "tool" => script[j].call # script[i].call
    <3> SUFFICES ASSUME NEW i \in 1..8, script[i].kind = "tool", NEW j \in (i + 1)..8,
                        script[j].kind = "tool"
                 PROVE  script[j].call # script[i].call
      OBVIOUS
    <3>1. i \in {1, 3, 5, 7} /\ j \in {1, 3, 5, 7} /\ i # j
      BY <1>4
    <3> QED BY <1>5, <3>1
  <2> QED BY <1>2, <1>4, <1>6, <2>1, <2>2 DEF Unfailing
<1>8. PICK g : SpentBy(script, g)
  BY <1>2, Known, ScriptsCount
<1>9. Yields(script, "returned", IF 0 >= LoopThreshold THEN {"loop"} ELSE {}, g[Len(script)])
  BY <1>7, <1>8, UnfailingYields
<1>10. ~(0 >= LoopThreshold)
  BY ScriptsAssumption
<1> QED BY <1>1, <1>9, <1>10

\* What holds of 0 and of each number after one it holds of holds of all up to n.
LEMMA Upwards ==
  ASSUME NEW T, NEW n \in Nat, 0 \in T, \A k \in 0..(n - 1) : k \in T => k + 1 \in T
  PROVE  \A k \in 0..n : k \in T
<1> DEFINE L == {k \in 0..n : k \notin T}
<1>1. L = {}
  <2> SUFFICES ASSUME L # {} PROVE FALSE
    OBVIOUS
  <2>0. L \subseteq Nat
    OBVIOUS
  <2>1. PICK least \in L : \A k \in L : <<k, least>> \notin OpToRel(<, Nat)
    <3> HIDE DEF L
    <3> QED BY <2>0, NatLessThanWellFounded, WFMin
  <2>2. least \in 0..n /\ least \notin T /\ least \in Nat
    OBVIOUS
  <2>3. least # 0 /\ least - 1 \in 0..(n - 1) /\ least - 1 \in 0..n
    BY <2>2
  <2>4. <<least - 1, least>> \in OpToRel(<, Nat)
    BY <2>2, <2>3 DEF OpToRel
  <2>5. least - 1 \in T
    BY <2>1, <2>3, <2>4
  <2>6. (least - 1) + 1 = least
    BY <2>2
  <2> QED BY <2>2, <2>3, <2>5, <2>6
<1> QED BY <1>1

\* Searches of which no two are the same, and answers.
Asking(s, n) ==
  LET m == Len(s)
  IN  /\ IsSeq(s, m)
      /\ \A i \in 1..m : s[i] = Model(Usual) \/ \E j \in 1..n : s[i] = Tool("search", j)
      /\ \A i \in 1..m : \A k \in (i + 1)..m :
           s[i].kind = "tool" /\ s[k].kind = "tool" => s[i].call # s[k].call

Extended(s, x) ==
  LET m == Len(s)
      u == s \o <<x>>
  IN  IsSeq(u, m + 1) /\ Len(u) = m + 1 /\ u[m + 1] = x /\ \A i \in 1..m : u[i] = s[i]

LEMMA ExtendedBy ==
  ASSUME NEW s, IsSeq(s, Len(s)), NEW x
  PROVE  Extended(s, x)
<1> DEFINE m == Len(s)
           t == <<x>>
<1>1. IsSeq(t, 1) /\ t[1] = x /\ m \in Nat
  BY DEF IsSeq
<1> HIDE DEF m, t
<1>2. Join(s, t, m, 1)
  BY <1>1, Joined DEF m
<1> QED BY <1>1, <1>2 DEF Join, Extended, m, t

LEMMA AskedAgain ==
  ASSUME NEW s, NEW n \in Nat, Asking(s, n)
  PROVE  /\ Asking(s \o <<Tool("search", n + 1)>>, n + 1)
         /\ Asking(s \o <<Model(Usual)>>, n)
<1> DEFINE m == Len(s)
           t == Tool("search", n + 1)
           u == s \o <<t>>
           v == s \o <<Model(Usual)>>
<1>1. m \in Nat /\ Extended(s, t) /\ Extended(s, Model(Usual))
  BY ExtendedBy DEF Asking, IsSeq
<1>2. /\ t.kind = "tool" /\ Model(Usual).kind = "model"
      /\ \A j : Tool("search", j).call = <<"search", j>>
  BY DEF Tool, Model, Step
<1>3. \A j \in 1..n : Tool("search", j).call # t.call
  BY <1>2
<1>4. /\ \A i \in 1..m : s[i] = Model(Usual) \/ \E j \in 1..n : s[i] = Tool("search", j)
      /\ \A i \in 1..m : \A k \in (i + 1)..m :
           s[i].kind = "tool" /\ s[k].kind = "tool" => s[i].call # s[k].call
  BY DEF Asking
<1>5. \A i \in 1..(m + 1) : i \in 1..m \/ i = m + 1
  BY <1>1
<1>6. \A i \in 1..(m + 1) : \A k \in (i + 1)..(m + 1) : i \in 1..m /\ (k \in (i + 1)..m \/ k = m + 1)
  BY <1>1
<1>0. \A i \in 1..m : \A k \in (i + 1)..m : k \in 1..m
  BY <1>1
<1>7. Asking(u, n + 1)
  <2>1. /\ IsSeq(u, m + 1) /\ Len(u) = m + 1 /\ u[m + 1] = t
        /\ \A i \in 1..m : u[i] = s[i]
    BY <1>1 DEF Extended
  <2> HIDE DEF u, m, t
  <2>2. \A i \in 1..(m + 1) : u[i] = Model(Usual) \/ \E j \in 1..(n + 1) : u[i] = Tool("search", j)
    <3>1. n + 1 \in 1..(n + 1) /\ 1..n \subseteq 1..(n + 1)
      OBVIOUS
    <3> QED BY <1>4, <1>5, <2>1, <3>1 DEF t
  <2>3. \A i \in 1..(m + 1) : \A k \in (i + 1)..(m + 1) :
          u[i].kind = "tool" /\ u[k].kind = "tool" => u[i].call # u[k].call
    <3> SUFFICES ASSUME NEW i \in 1..(m + 1), NEW k \in (i + 1)..(m + 1),
                        u[i].kind = "tool", u[k].kind = "tool"
                 PROVE  u[i].call # u[k].call
      OBVIOUS
    <3>1. i \in 1..m /\ u[i] = s[i] /\ (k \in (i + 1)..m \/ k = m + 1)
      BY <1>6, <2>1
    <3>2. CASE k = m + 1
      BY <1>2, <1>3, <1>4, <2>1, <3>1, <3>2
    <3>3. CASE k \in (i + 1)..m
      BY <1>0, <1>4, <2>1, <3>1, <3>3
    <3> QED BY <3>1, <3>2, <3>3
  <2> QED BY <2>1, <2>2, <2>3 DEF Asking
<1>8. Asking(v, n)
  <2>1. /\ IsSeq(v, m + 1) /\ Len(v) = m + 1 /\ v[m + 1] = Model(Usual)
        /\ \A i \in 1..m : v[i] = s[i]
    BY <1>1 DEF Extended
  <2> HIDE DEF v, m
  <2>2. \A i \in 1..(m + 1) : v[i] = Model(Usual) \/ \E j \in 1..n : v[i] = Tool("search", j)
    BY <1>4, <1>5, <2>1
  <2>3. \A i \in 1..(m + 1) : \A k \in (i + 1)..(m + 1) :
          v[i].kind = "tool" /\ v[k].kind = "tool" => v[i].call # v[k].call
    <3> SUFFICES ASSUME NEW i \in 1..(m + 1), NEW k \in (i + 1)..(m + 1),
                        v[i].kind = "tool", v[k].kind = "tool"
                 PROVE  v[i].call # v[k].call
      OBVIOUS
    <3>1. i \in 1..m /\ v[i] = s[i] /\ k \in (i + 1)..m
      BY <1>2, <1>6, <2>1
    <3> QED BY <1>0, <1>4, <2>1, <3>1
  <2> QED BY <2>1, <2>2, <2>3 DEF Asking
<1> QED BY <1>7, <1>8

\* long_research's questions.
AskIs(ask) ==
  ask = [n \in 0..16 |->
           IF n = 0 THEN <<>>
           ELSE ask[n - 1] \o <<Tool("search", n)>>
                  \o (IF n % 3 = 1 THEN <<Model(Usual)>> ELSE <<>>)]

Searches == {Tool("search", j) : j \in 1..16} \cup {Model(Usual)}

LEMMA AskExists == \E ask : AskIs(ask)
<1> DEFINE S == Seq(Searches)
           next(n, s) == s \o <<Tool("search", n)>> \o (IF n % 3 = 1 THEN <<Model(Usual)>> ELSE <<>>)
           G == [n \in 1..16 |-> [s \in S |-> next(n, s)]]
<1>1. \A n \in 1..16 : \A s \in S : next(n, s) \in S
  <2> SUFFICES ASSUME NEW n \in 1..16, NEW s \in S PROVE next(n, s) \in S
    OBVIOUS
  <2>1. Tool("search", n) \in Searches /\ Model(Usual) \in Searches
    BY DEF Searches
  <2>2. s \o <<Tool("search", n)>> \in S
    BY <2>1
  <2>3. (IF n % 3 = 1 THEN <<Model(Usual)>> ELSE <<>>) \in S
    BY <2>1
  <2> QED BY <2>2, <2>3
<1>2. Stepwise(S, <<>>, 16, G)
  <2>1. G \in [1..16 -> [S -> S]]
    <3> HIDE DEF next
    <3> QED BY <1>1
  <2>2. <<>> \in S /\ 16 \in Nat
    OBVIOUS
  <2> HIDE DEF G, S
  <2> QED BY <2>1, <2>2 DEF Stepwise
<1>3. PICK f : StepsOf(f, S, <<>>, 16, G)
  <2> HIDE DEF G, S
  <2> QED BY <1>2, InSteps, Zenon
<1>4. f \in [0..16 -> S] /\ f[0] = <<>> /\ \A n \in 1..16 : f[n] = G[n][f[n - 1]]
  BY <1>3 DEF StepsOf
<1>5. \A n \in 1..16 : f[n] = next(n, f[n - 1])
  <2> SUFFICES ASSUME NEW n \in 1..16 PROVE f[n] = next(n, f[n - 1])
    OBVIOUS
  <2> HIDE DEF next, S, G
  <2>0. n - 1 \in 0..16
    OBVIOUS
  <2>1. f[n - 1] \in S
    BY <1>4, <2>0
  <2> USE DEF G
  <2> QED BY <1>4, <2>1
<1>6. f = [n \in 0..16 |-> f[n]]
  BY <1>4
<1>7. \A n \in 0..16 : f[n] = IF n = 0 THEN <<>> ELSE next(n, f[n - 1])
  <2>1. \A n \in 0..16 : n = 0 \/ n \in 1..16
    OBVIOUS
  <2> HIDE DEF next
  <2> QED BY <1>4, <1>5, <2>1
<1>8. f = [n \in 0..16 |-> IF n = 0 THEN <<>> ELSE next(n, f[n - 1])]
  <2> HIDE DEF next
  <2> QED BY <1>6, <1>7
<1> QED BY <1>8 DEF AskIs

LEMMA AskAsks ==
  ASSUME NEW ask, AskIs(ask)
  PROVE  \A n \in 0..16 : Asking(ask[n], n)
<1> DEFINE T == {n \in 0..16 : Asking(ask[n], n)}
<1>1. 0 \in T
  <2>1. ask[0] = <<>>
    BY DEF AskIs
  <2>2. Asking(<<>>, 0)
    BY DEF Asking, IsSeq
  <2> QED BY <2>1, <2>2
<1>2. ASSUME NEW k \in 0..(16 - 1), k \in T
      PROVE  k + 1 \in T
  <2> DEFINE n == k + 1
             s == ask[k] \o <<Tool("search", k + 1)>>
  <2>1. n \in 0..16 /\ n # 0 /\ n - 1 = k /\ k \in Nat /\ k + 1 \in Nat
    OBVIOUS
  <2>2. ask[n] = s \o (IF n % 3 = 1 THEN <<Model(Usual)>> ELSE <<>>)
    BY <2>1 DEF AskIs
  <2>3. Asking(s, k + 1)
    BY <1>2, <2>1, AskedAgain
  <2>4. Asking(s \o <<Model(Usual)>>, k + 1)
    BY <2>1, <2>3, AskedAgain
  <2>5. s \o <<>> = s
    <3>1. IsSeq(s, Len(s))
      BY <2>3 DEF Asking
    <3> HIDE DEF s
    <3>2. s \in Seq({s[i] : i \in 1..Len(s)})
      BY <3>1 DEF IsSeq
    <3> QED BY <3>2
  <2>6. CASE n % 3 = 1
    BY <2>1, <2>2, <2>4, <2>6
  <2>7. CASE n % 3 # 1
    <3>1. ask[n] = s \o <<>>
      BY <2>2, <2>7
    <3> HIDE DEF s
    <3> QED BY <2>1, <2>3, <2>5, <3>1
  <2> QED BY <2>6, <2>7
<1> HIDE DEF T
<1>3. \A k \in 0..16 : k \in T
  <2>1. 16 \in Nat
    OBVIOUS
  <2> DEFINE n == 16
  <2>2. n \in Nat /\ \A k \in 0..(n - 1) : k \in T => k + 1 \in T
    BY <1>2
  <2> HIDE DEF n
  <2>3. \A k \in 0..n : k \in T
    BY <1>1, <2>2, Upwards
  <2> QED BY <2>3 DEF n
<1> QED BY <1>3 DEF T

LEMMA LongResearchYields ==
  ASSUME NEW pattern \in LongResearch, OfSpans(pattern.script)
  PROVE  pattern.same = 1 /\ \E cost : Yields(pattern.script, "returned", {}, cost)
<1> DEFINE ask == CHOOSE g : AskIs(g)
<1>1. AskIs(ask)
  BY AskExists
<1>2. LongResearch = UNION {Once(ask[n] \o <<Model(Usual)>>) : n \in 10..16}
  BY DEF LongResearch, AskIs, Usual
<1> HIDE DEF ask
<1>3. PICK n \in 10..16 : pattern \in Once(ask[n] \o <<Model(Usual)>>)
  BY <1>2
<1> DEFINE script == ask[n] \o <<Model(Usual)>>
<1>4. pattern.script = script /\ pattern.same = 1
  BY <1>3 DEF Once
<1>5. n \in 0..16 /\ n \in Nat
  OBVIOUS
<1>6. Asking(ask[n], n)
  BY <1>1, <1>5, AskAsks
<1>7. Asking(script, n)
  BY <1>5, <1>6, AskedAgain
<1>8. Len(script) # 0
  <2>1. Extended(ask[n], Model(Usual))
    BY <1>6, ExtendedBy DEF Asking
  <2>2. Len(ask[n]) \in Nat
    BY <1>6 DEF Asking, IsSeq
  <2> QED BY <2>1, <2>2 DEF Extended
<1>9. OfSpans(script)
  BY <1>4
<1> HIDE DEF script
<1>10. /\ \A a : /\ Tool("search", a).kind = "tool" /\ ~IsError(Tool("search", a))
                 /\ Tool("search", a).cost = 0
       /\ Model(Usual).kind = "model" /\ ~IsError(Model(Usual))
  BY DEF Tool, Model, Step, IsError
<1>11. Unfailing(script, 0, NoCall)
  <2> DEFINE m == Len(script)
  <2>1. m \in Nat /\ 0 \in 0..m
    BY <1>9, Known
  <2>2. \A i \in 1..m : script[i].kind = "tool" => script[i].call # NoCall
    BY <1>9, Known, DetectionAssumption
  <2>3. \A i \in 1..m : script[i] = Model(Usual) \/ \E j \in 1..n : script[i] = Tool("search", j)
    BY <1>7 DEF Asking
  <2>4. \A i \in 1..m : \A k \in (i + 1)..m :
          script[i].kind = "tool" /\ script[k].kind = "tool" => script[i].call # script[k].call
    BY <1>7 DEF Asking
  <2>5. \A i \in 1..m : /\ script[i].kind # "session" /\ ~IsError(script[i])
                        /\ (script[i].cost > 0 => script[i].kind # "tool")
    BY <1>10, <2>3
  <2> QED BY <1>8, <1>9, <2>1, <2>2, <2>4, <2>5 DEF Unfailing
<1>12. PICK g : SpentBy(script, g)
  BY <1>9, Known, ScriptsCount
<1>13. Yields(script, "returned", IF 0 >= LoopThreshold THEN {"loop"} ELSE {}, g[Len(script)])
  BY <1>11, <1>12, UnfailingYields
<1>14. ~(0 >= LoopThreshold)
  BY ScriptsAssumption
<1> QED BY <1>4, <1>13, <1>14

\* Each pattern of the false-positive bench is reported for what it promises.
LEMMA PatternsYield ==
  ASSUME NEW name \in DOMAIN Patterns, NEW pattern \in Patterns[name]
  PROVE  \E cost : Yields(pattern.script, "returned", Promised(name, pattern.same), cost)
<1>1. OfSpans(pattern.script)
  BY AllOfSpans
<1>2. name \in {"single_step", "paginated_search", "transient_retry", "model_retry_once",
                "model_retry_twice", "multi_tool_plan", "repeated_lookup",
                "recovery_via_another_tool", "long_research", "model_retry_storm"}
  BY DEF Patterns
<1>3. /\ Patterns["single_step"] = Looked /\ Patterns["paginated_search"] = Paginated
      /\ Patterns["transient_retry"] = TransientRetry
      /\ Patterns["model_retry_once"] = Once(Retried(1, 1))
      /\ Patterns["model_retry_twice"] = Once(Retried(2, 2))
      /\ Patterns["multi_tool_plan"] = MultiToolPlan
      /\ Patterns["repeated_lookup"] = RepeatedLookup
      /\ Patterns["recovery_via_another_tool"] = RecoveryViaAnotherTool
      /\ Patterns["long_research"] = LongResearch
      /\ Patterns["model_retry_storm"] = Once(Retried(3, 2))
  BY DEF Patterns
<1>4. CASE name = "model_retry_storm"
  <2>1. Promised(name, pattern.same) = {"retry_amplification"}
    BY <1>4 DEF Promised, PositiveControls
  <2>2. pattern.script = Repeat(3, Call(2, Attempt(0), Model(0)))
    BY <1>3, <1>4 DEF Once, Retried
  <2> DEFINE a == 0
  <2>3. a \in Nat /\ OfSpans(Repeat(3, Call(2, Attempt(a), Model(a))))
    BY <1>1, <2>2
  <2> HIDE DEF a
  <2>4. Yields(Repeat(3, Call(2, Attempt(a), Model(a))), "returned", {"retry_amplification"},
               3 * a + 3 * a)
    BY <2>3, StormYields
  <2> QED BY <2>1, <2>2, <2>4 DEF a
<1>5. CASE name = "repeated_lookup"
  <2>1. Promised(name, pattern.same) = IF pattern.same >= LoopThreshold THEN {"loop"} ELSE {}
    BY <1>5 DEF Promised, PositiveControls
  <2> QED BY <1>1, <1>3, <1>5, <2>1, RepeatedLookupYields
<1>6. CASE name \notin {"model_retry_storm", "repeated_lookup"}
  <2>1. ~(1 >= LoopThreshold)
    BY ScriptsAssumption
  <2>2. pattern.same = 1 => Promised(name, pattern.same) = {}
    BY <1>6, <2>1 DEF Promised, PositiveControls
  <2>3. pattern.same = 1 /\ \E cost : Yields(pattern.script, "returned", {}, cost)
    <3>1. CASE name = "single_step"
      BY <1>1, <1>3, <3>1, LookedYields
    <3>2. CASE name = "paginated_search"
      BY <1>1, <1>3, <3>2, PaginatedYields
    <3>3. CASE name = "transient_retry"
      BY <1>1, <1>3, <3>3, TransientRetryYields
    <3>4. CASE name = "model_retry_once"
      <4>1. pattern.script = Retried(1, 1) /\ pattern.same = 1
        BY <1>3, <3>4 DEF Once
      <4> QED BY <1>1, <4>1, RetriedOnceYields
    <3>5. CASE name = "model_retry_twice"
      <4> DEFINE c == 0
      <4>1. pattern.script = Repeat(2, Call(2, Attempt(0), Model(c))) /\ pattern.same = 1
        BY <1>3, <3>5 DEF Once, Retried
      <4>2. c \in Nat /\ OfSpans(Repeat(2, Call(2, Attempt(0), Model(c))))
        BY <1>1, <4>1
      <4> HIDE DEF c
      <4> QED BY <4>1, <4>2, RetriedTwiceYields
    <3>6. CASE name = "multi_tool_plan"
      BY <1>1, <1>3, <3>6, MultiToolPlanYields
    <3>7. CASE name = "recovery_via_another_tool"
      BY <1>1, <1>3, <3>7, RecoveryYields
    <3>8. CASE name = "long_research"
      BY <1>1, <1>3, <3>8, LongResearchYields
    <3> QED BY <1>2, <1>6, <3>1, <3>2, <3>3, <3>4, <3>5, <3>6, <3>7, <3>8
  <2> QED BY <2>2, <2>3
<1> QED BY <1>4, <1>5, <1>6

------------------------------------------------------------------------------
(* The fixtures and the corpus.                                             *)

\* What a fixture's replay comes to, with the detectors it is replayed with.
FixtureBehaves(fixture, fires, cost) ==
  /\ fixture.ceiling \in Nat
  /\ Yields(fixture.script, "returned", fires, cost)
  /\ Behaved(fixture, Reported(fires, cost, TRUE, TRUE, fixture.ceiling))

LEMMA AskedIs ==
  ASSUME NEW input, NEW output
  PROVE  Asked(input, output) = <<Attempt(0), Model(Price(input, output))>>
BY Spelled DEF Asked, Call, Repeat

\* A question asked twice costs twice what it costs.
LEMMA AskedTwiceYields ==
  ASSUME NEW input \in Nat, NEW output \in Nat,
         OfSpans(Asked(input, output) \o Asked(input, output))
  PROVE  Yields(Asked(input, output) \o Asked(input, output), "returned", {},
                2 * Price(input, output))
<1> DEFINE p == Price(input, output)
           a == Attempt(0)
           y == Model(p)
           script == <<a, y, a, y>>
           g == [i \in 0..4 |-> IF i <= 1 THEN 0 ELSE IF i <= 3 THEN p ELSE 2 * p]
<1>1. Asked(input, output) \o Asked(input, output) = script
  <2>1. Asked(input, output) = <<a, y>>
    BY AskedIs
  <2> HIDE DEF a, y
  <2> QED BY <2>1, Spelled
<1>2. OfSpans(script)
  BY <1>1
<1>3. p \in Nat
  <2>1. InputPrice \in Nat /\ OutputPrice \in Nat
    BY ScriptsAssumption
  <2> QED BY <2>1 DEF Price
<1> HIDE DEF p
<1>4. /\ Len(script) = 4
      /\ \A i \in 1..4 : /\ script[i].kind # "session" /\ ~IsError(script[i])
                         /\ script[i].kind # "tool"
      /\ script[1].cost = 0 /\ script[2].cost = p /\ script[3].cost = 0 /\ script[4].cost = p
  BY DEF Attempt, Model, Step, IsError
<1> HIDE DEF script
<1>5. SpentBy(script, g) /\ g[4] = 2 * p
  <2>1. \A i \in 1..4 : i = 1 \/ i = 2 \/ i = 3 \/ i = 4
    OBVIOUS
  <2>2. g \in [0..4 -> Nat] /\ g[0] = 0 /\ g[1] = 0 /\ g[2] = p /\ g[3] = p /\ g[4] = 2 * p
    BY <1>3
  <2> HIDE DEF g
  <2>3. \A i \in 1..4 : g[i] = g[i - 1] + script[i].cost
    BY <1>3, <1>4, <2>1, <2>2
  <2> QED BY <1>4, <2>2, <2>3 DEF SpentBy
<1> HIDE DEF g
<1>6. Unfailing(script, 0, NoCall)
  BY <1>2, <1>4 DEF Unfailing
<1>7. Yields(script, "returned", IF 0 >= LoopThreshold THEN {"loop"} ELSE {}, g[Len(script)])
  BY <1>5, <1>6, UnfailingYields
<1>8. ~(0 >= LoopThreshold)
  BY ScriptsAssumption
<1> QED BY <1>1, <1>4, <1>5, <1>7, <1>8 DEF p

\* Three searches, the first of them the same, and then an answer.
LEMMA SearchesYield ==
  ASSUME NEW a, NEW b, NEW c, NEW same \in {0, 3},
         same = 0 => a # b /\ b # c /\ a # c,
         same = 3 => a = b /\ b = c,
         OfSpans(<<Tool("search", a), Tool("search", b), Tool("search", c)>> \o AskedAsUsual)
  PROVE  \E cost : Yields(<<Tool("search", a), Tool("search", b), Tool("search", c)>>
                            \o AskedAsUsual, "returned",
                          IF same >= LoopThreshold THEN {"loop"} ELSE {}, cost)
<1> DEFINE x == Tool("search", a)
           y == Tool("search", b)
           z == Tool("search", c)
           ask == Attempt(0)
           answer == Model(Price(400, 100))
           script == <<x, y, z, ask, answer>>
           call == IF same = 0 THEN NoCall ELSE <<"search", a>>
<1>1. <<x, y, z>> \o AskedAsUsual = script
  <2>1. AskedAsUsual = <<ask, answer>>
    BY AskedIs DEF AskedAsUsual
  <2> HIDE DEF x, y, z, ask, answer
  <2> QED BY <2>1, Spelled
<1>2. OfSpans(script)
  BY <1>1
<1>3. /\ x.kind = "tool" /\ ~IsError(x) /\ x.cost = 0 /\ x.call = <<"search", a>>
      /\ y.kind = "tool" /\ ~IsError(y) /\ y.cost = 0 /\ y.call = <<"search", b>>
      /\ z.kind = "tool" /\ ~IsError(z) /\ z.cost = 0 /\ z.call = <<"search", c>>
      /\ ask.kind = "attempt" /\ ~IsError(ask) /\ answer.kind = "model" /\ ~IsError(answer)
  BY DEF Tool, Attempt, Model, Step, IsError
<1>4. /\ Len(script) = 5
      /\ script[1] = x /\ script[2] = y /\ script[3] = z /\ script[4] = ask
      /\ script[5] = answer
  OBVIOUS
<1> HIDE DEF script, x, y, z, ask, answer
<1>5. \A i \in 1..5 : /\ script[i].kind # "session" /\ ~IsError(script[i])
                      /\ (script[i].cost > 0 => script[i].kind # "tool")
                      /\ (script[i].kind = "tool" <=> i \in 1..3)
  BY <1>3, <1>4
<1>6. Unfailing(script, same, call)
  <2>1. CASE same = 3
    BY <1>2, <1>3, <1>4, <1>5, <2>1 DEF Unfailing
  <2>2. CASE same = 0
    <3>1. \A i, j \in 1..3 : i # j => script[i].call # script[j].call
      BY <1>3, <1>4, <2>2
    <3>2. \A i \in 1..3 : script[i].call # call
      BY <1>2, <1>4, <1>5, <2>2, Known, DetectionAssumption
    <3>3. \A i \in 1..5 : \A j \in (i + 1)..5 : j \in 1..5 /\ j # i
      OBVIOUS
    <3> HIDE DEF call
    <3> QED BY <1>2, <1>4, <1>5, <2>2, <3>1, <3>2, <3>3 DEF Unfailing
  <2> QED BY <2>1, <2>2
<1>7. PICK g : SpentBy(script, g)
  BY <1>2, Known, ScriptsCount
<1> HIDE DEF call
<1>8. Yields(script, "returned", IF same >= LoopThreshold THEN {"loop"} ELSE {}, g[Len(script)])
  BY <1>6, <1>7, UnfailingYields
<1> QED BY <1>1, <1>8 DEF x, y, z

\* A tool that fails, something else, and then an answer.
LEMMA FailureYields ==
  ASSUME NEW broken, NEW after,
         broken.kind = "tool", IsError(broken), broken.cost = 0,
         after.kind \in {"tool", "retrieval"}, ~IsError(after), after.cost = 0,
         OfSpans(<<broken, after>> \o AskedAsUsual)
  PROVE  \E cost : Yields(<<broken, after>> \o AskedAsUsual, "returned",
                          IF after.kind = "tool" THEN {} ELSE {"silent_tool_failure"}, cost)
<1> DEFINE ask == Attempt(0)
           answer == Model(Price(400, 100))
           script == <<broken, after, ask, answer>>
<1>1. <<broken, after>> \o AskedAsUsual = script
  <2>1. AskedAsUsual = <<ask, answer>>
    BY AskedIs DEF AskedAsUsual
  <2> HIDE DEF ask, answer
  <2> QED BY <2>1, Spelled
<1>2. OfSpans(script)
  BY <1>1
<1>3. ask.kind = "attempt" /\ ~IsError(ask) /\ answer.kind = "model" /\ ~IsError(answer)
  BY DEF Attempt, Model, Step, IsError
<1>4. /\ Len(script) = 4 /\ script[1] = broken /\ script[2] = after /\ script[3] = ask
      /\ script[4] = answer
  OBVIOUS
<1> HIDE DEF script, ask, answer
<1>5. \A i \in 1..4 : /\ script[i].kind # "session" /\ ~FailedAttempt(script[i])
                      /\ (script[i].cost > 0 => script[i].kind # "tool")
                      /\ (Countable(script[i]) => i = 2)
                      /\ (script[i].kind = "tool" /\ ~IsError(script[i]) => i = 2)
                      /\ (i = 2 => ~IsError(script[i]) /\ script[i] = after)
  BY <1>3, <1>4 DEF FailedAttempt, Countable
<1>6. Broken(script) /\ ModelBy(script, 4) /\ (ToolBackBy(script, 4) <=> after.kind = "tool")
  <2>1. 1 \in 1..4 /\ 2 \in 1..4 /\ 4 \in 1..4
    OBVIOUS
  <2> QED BY <1>3, <1>4, <1>5, <2>1 DEF Broken, ModelBy, ToolBackBy
<1>7. FailsFirst(script)
  <2>1. \A i \in 1..4 : \A j \in (i + 1)..4 : j \in 1..4 /\ j # i
    OBVIOUS
  <2> QED BY <1>2, <1>4, <1>5, <1>6, <2>1 DEF FailsFirst
<1>8. Silent(script) <=> after.kind # "tool"
  BY <1>4, <1>6 DEF Silent
<1>9. PICK g : SpentBy(script, g)
  BY <1>2, Known, ScriptsCount
<1>10. "returned" \in Outcomes /\ "returned" # "raised"
  BY DEF Outcomes
<1>11. Yields(script, "returned",
              IF Silent(script) /\ "returned" # "raised" THEN {"silent_tool_failure"} ELSE {},
              g[Len(script)])
  BY <1>7, <1>9, <1>10, BrokenYields
<1> QED BY <1>1, <1>8, <1>10, <1>11

\* A fixture of a detector, and how its replay behaves when the detector is reported
\* exactly where it should be.
IsFixture(fixture, detector, expect, ceiling, script) ==
  /\ fixture.detector = detector /\ fixture.expect = expect
  /\ fixture.ceiling = ceiling /\ fixture.script = script

LEMMA CostFixture ==
  ASSUME NEW fixture, NEW expect, NEW ceiling \in Nat, NEW script, NEW cost,
         IsFixture(fixture, "cost_ceiling", expect, ceiling, script),
         Yields(script, "returned", {}, cost), cost > ceiling <=> expect = "fires"
  PROVE  FixtureBehaves(fixture, {}, cost)
BY DEF IsFixture, FixtureBehaves, Behaved, Reported

LEMMA TypeFixture ==
  ASSUME NEW fixture, NEW detector, detector # "cost_ceiling", NEW expect, NEW ceiling \in Nat,
         NEW script, NEW cost, NEW fires,
         IsFixture(fixture, detector, expect, ceiling, script),
         Yields(script, "returned", fires, cost), detector \in fires <=> expect = "fires"
  PROVE  FixtureBehaves(fixture, fires, cost)
BY DEF IsFixture, FixtureBehaves, Behaved, Reported

\* The scripts of the fixtures.
Quiet(input, output) == Asked(input, output) \o Asked(input, output)
Pages == <<Tool("search", 1), Tool("search", 2), Tool("search", 3)>> \o AskedAsUsual
Loops == Repeat(3, <<Tool("search", 0)>>) \o AskedAsUsual
Recovers == <<BrokenTool("search", 0), Tool("lookup_scheme", 42)>> \o AskedAsUsual
Fails == <<BrokenTool("lookup_scheme", 42), Retrieval>> \o AskedAsUsual

LEMMA FixturesAre ==
  ASSUME NEW fixture \in Fixtures
  PROVE  \/ IsFixture(fixture, "cost_ceiling", "quiet", 50000, Quiet(90, 26))
         \/ IsFixture(fixture, "cost_ceiling", "fires", 50000, Quiet(900, 260))
         \/ IsFixture(fixture, "loop", "quiet", FixtureCeiling, Pages)
         \/ IsFixture(fixture, "loop", "fires", FixtureCeiling, Loops)
         \/ IsFixture(fixture, "retry_amplification", "quiet", FixtureCeiling, Repeat(2, RetriedCall))
         \/ IsFixture(fixture, "retry_amplification", "fires", FixtureCeiling, Repeat(3, RetriedCall))
         \/ IsFixture(fixture, "silent_tool_failure", "quiet", FixtureCeiling, Recovers)
         \/ IsFixture(fixture, "silent_tool_failure", "fires", FixtureCeiling, Fails)
<1>1. \A d, e, c, s : fixture = Fixture(d, e, c, s) => IsFixture(fixture, d, e, c, s)
  BY DEF Fixture, IsFixture
<1>2. Fixtures = {Fixture("cost_ceiling", "quiet", 50000, Quiet(90, 26)),
                  Fixture("cost_ceiling", "fires", 50000, Quiet(900, 260)),
                  Fixture("loop", "quiet", FixtureCeiling, Pages),
                  Fixture("loop", "fires", FixtureCeiling, Loops),
                  Fixture("retry_amplification", "quiet", FixtureCeiling, Repeat(2, RetriedCall)),
                  Fixture("retry_amplification", "fires", FixtureCeiling, Repeat(3, RetriedCall)),
                  Fixture("silent_tool_failure", "quiet", FixtureCeiling, Recovers),
                  Fixture("silent_tool_failure", "fires", FixtureCeiling, Fails)}
  BY DEF Fixtures, Quiet, Pages, Loops, Recovers, Fails
<1> QED BY <1>1, <1>2

LEMMA QuietYields ==
  ASSUME NEW input \in Nat, NEW output \in Nat, OfSpans(Quiet(input, output))
  PROVE  Yields(Quiet(input, output), "returned", {}, 2 * Price(input, output))
BY AskedTwiceYields DEF Quiet

LEMMA PagesYield ==
  ASSUME OfSpans(Pages)
  PROVE  \E cost : Yields(Pages, "returned", {}, cost)
<1> DEFINE a == 1
           b == 2
           c == 3
           same == 0
           ss == <<Tool("search", a), Tool("search", b), Tool("search", c)>> \o AskedAsUsual
<1>1. ss = Pages
  BY DEF Pages
<1>2. /\ same \in {0, 3} /\ (same = 0 => a # b /\ b # c /\ a # c)
      /\ (same = 3 => a = b /\ b = c)
  OBVIOUS
<1>3. ~(same >= LoopThreshold)
  BY ScriptsAssumption
<1>4. OfSpans(ss)
  BY <1>1
<1> HIDE DEF a, b, c, same
<1>5. \E cost : Yields(ss, "returned", IF same >= LoopThreshold THEN {"loop"} ELSE {}, cost)
  BY <1>2, <1>4, SearchesYield
<1> HIDE DEF ss
<1> QED BY <1>1, <1>3, <1>5

LEMMA LoopsYield ==
  ASSUME OfSpans(Loops)
  PROVE  \E cost : Yields(Loops, "returned", {"loop"}, cost)
<1> DEFINE a == 0
           same == 3
           t == Tool("search", a)
           ss == <<Tool("search", a), Tool("search", a), Tool("search", a)>> \o AskedAsUsual
<1>1. ss = Loops
  <2>1. Repeat(3, <<t>>) = <<t, t, t>>
    <3> HIDE DEF t
    <3> QED BY DEF Repeat
  <2> QED BY <2>1 DEF Loops
<1>2. same \in {0, 3} /\ same # 0
  OBVIOUS
<1>3. same >= LoopThreshold
  BY ScriptsAssumption
<1>4. OfSpans(ss)
  BY <1>1
<1> HIDE DEF a, same, t
<1>5. \E cost : Yields(ss, "returned", IF same >= LoopThreshold THEN {"loop"} ELSE {}, cost)
  BY <1>2, <1>4, SearchesYield
<1> HIDE DEF ss
<1> QED BY <1>1, <1>3, <1>5

LEMMA FailuresYield ==
  /\ OfSpans(Recovers) => \E cost : Yields(Recovers, "returned", {}, cost)
  /\ OfSpans(Fails) => \E cost : Yields(Fails, "returned", {"silent_tool_failure"}, cost)
<1>1. ASSUME OfSpans(Recovers)
      PROVE  \E cost : Yields(Recovers, "returned", {}, cost)
  <2> DEFINE x == BrokenTool("search", 0)
             y == Tool("lookup_scheme", 42)
  <2>1. /\ x.kind = "tool" /\ IsError(x) /\ x.cost = 0
        /\ y.kind = "tool" /\ ~IsError(y) /\ y.cost = 0
    BY DEF BrokenTool, Tool, Step, IsError
  <2>2. Recovers = <<x, y>> \o AskedAsUsual
    BY DEF Recovers
  <2> HIDE DEF x, y
  <2> QED BY <1>1, <2>1, <2>2, FailureYields
<1>2. ASSUME OfSpans(Fails)
      PROVE  \E cost : Yields(Fails, "returned", {"silent_tool_failure"}, cost)
  <2> DEFINE x == BrokenTool("lookup_scheme", 42)
             y == Retrieval
  <2>1. /\ x.kind = "tool" /\ IsError(x) /\ x.cost = 0
        /\ y.kind = "retrieval" /\ y.kind # "tool" /\ ~IsError(y) /\ y.cost = 0
    BY DEF BrokenTool, Retrieval, Step, IsError
  <2>2. Fails = <<x, y>> \o AskedAsUsual
    BY DEF Fails
  <2> HIDE DEF x, y
  <2> QED BY <1>2, <2>1, <2>2, FailureYields
<1> QED BY <1>1, <1>2

\* Every fixture behaves, in each case by what its script comes to.
LEMMA FixturesYield ==
  ASSUME NEW fixture \in Fixtures
  PROVE  \E fires, cost : FixtureBehaves(fixture, fires, cost)
<1>1. OfSpans(fixture.script)
  BY AllOfSpans
<1>2. \A d, e, c, s : IsFixture(fixture, d, e, c, s) => OfSpans(s)
  BY <1>1 DEF IsFixture
<1>3. 50000 \in Nat /\ FixtureCeiling \in Nat
  BY DEF FixtureCeiling
<1>4. /\ Price(90, 26) \in Nat /\ Price(900, 260) \in Nat /\ Price(400, 100) \in Nat
      /\ ~(2 * Price(90, 26) > 50000) /\ 2 * Price(900, 260) > 50000
  <2>1. InputPrice \in Nat /\ OutputPrice \in Nat
        /\ 2 * Price(90, 26) <= 50000 /\ 2 * Price(900, 260) > 50000
    BY ScriptsAssumption
  <2>2. Price(90, 26) \in Nat /\ Price(900, 260) \in Nat /\ Price(400, 100) \in Nat
    BY <2>1 DEF Price
  <2> QED BY <2>1, <2>2
<1>5. CASE IsFixture(fixture, "cost_ceiling", "quiet", 50000, Quiet(90, 26))
  <2> DEFINE i == 90
             o == 26
             cost == 2 * Price(i, o)
             ceiling == 50000
             expect == "quiet"
  <2>1. /\ i \in Nat /\ o \in Nat /\ ceiling \in Nat /\ expect # "fires"
        /\ ~(cost > ceiling)
        /\ IsFixture(fixture, "cost_ceiling", expect, ceiling, Quiet(i, o))
    BY <1>4, <1>5
  <2> HIDE DEF i, o, ceiling, expect
  <2>2. Yields(Quiet(i, o), "returned", {}, cost)
    BY <1>2, <2>1, QuietYields
  <2> HIDE DEF cost
  <2> QED BY <2>1, <2>2, CostFixture
<1>6. CASE IsFixture(fixture, "cost_ceiling", "fires", 50000, Quiet(900, 260))
  <2> DEFINE i == 900
             o == 260
             cost == 2 * Price(i, o)
             ceiling == 50000
             expect == "fires"
  <2>1. /\ i \in Nat /\ o \in Nat /\ ceiling \in Nat /\ expect = "fires"
        /\ cost > ceiling
        /\ IsFixture(fixture, "cost_ceiling", expect, ceiling, Quiet(i, o))
    BY <1>4, <1>6
  <2> HIDE DEF i, o, ceiling
  <2>2. Yields(Quiet(i, o), "returned", {}, cost)
    BY <1>2, <2>1, QuietYields
  <2> HIDE DEF cost, expect
  <2> QED BY <2>1, <2>2, CostFixture
<1>7. CASE IsFixture(fixture, "loop", "quiet", FixtureCeiling, Pages)
  <2>1. PICK cost : Yields(Pages, "returned", {}, cost)
    BY <1>2, <1>7, PagesYield
  <2>2. FixtureBehaves(fixture, {}, cost)
    BY <1>3, <1>7, <2>1, TypeFixture
  <2> QED BY <2>2
<1>8. CASE IsFixture(fixture, "loop", "fires", FixtureCeiling, Loops)
  <2>1. PICK cost : Yields(Loops, "returned", {"loop"}, cost)
    BY <1>2, <1>8, LoopsYield
  <2>2. FixtureBehaves(fixture, {"loop"}, cost)
    BY <1>3, <1>8, <2>1, TypeFixture
  <2> QED BY <2>2
<1>9. CASE IsFixture(fixture, "retry_amplification", "quiet", FixtureCeiling, Repeat(2, RetriedCall))
  <2> DEFINE c == Price(400, 100)
             script == Repeat(2, Call(2, Attempt(0), Model(c)))
  <2>1. c \in Nat /\ OfSpans(script) /\ script = Repeat(2, RetriedCall)
    BY <1>2, <1>4, <1>9 DEF RetriedCall
  <2> HIDE DEF c
  <2>2. PICK cost : Yields(script, "returned", {}, cost)
    BY <2>1, RetriedTwiceYields
  <2> HIDE DEF script
  <2>3. FixtureBehaves(fixture, {}, cost)
    BY <1>3, <1>9, <2>1, <2>2, TypeFixture
  <2> QED BY <2>3
<1>10. CASE IsFixture(fixture, "retry_amplification", "fires", FixtureCeiling, Repeat(3, RetriedCall))
  <2> DEFINE c == Price(400, 100)
             a == 0
             cost == 3 * a + 3 * c
             script == Repeat(3, Call(2, Attempt(a), Model(c)))
  <2>1. a \in Nat /\ c \in Nat /\ OfSpans(script) /\ script = Repeat(3, RetriedCall)
    BY <1>2, <1>4, <1>10 DEF RetriedCall
  <2> HIDE DEF a, c
  <2>2. Yields(script, "returned", {"retry_amplification"}, cost)
    BY <2>1, StormYields
  <2> HIDE DEF cost, script
  <2>3. FixtureBehaves(fixture, {"retry_amplification"}, cost)
    BY <1>3, <1>10, <2>1, <2>2, TypeFixture
  <2> QED BY <2>3
<1>11. CASE IsFixture(fixture, "silent_tool_failure", "quiet", FixtureCeiling, Recovers)
  <2>1. PICK cost : Yields(Recovers, "returned", {}, cost)
    BY <1>2, <1>11, FailuresYield
  <2>2. FixtureBehaves(fixture, {}, cost)
    BY <1>3, <1>11, <2>1, TypeFixture
  <2> QED BY <2>2
<1>12. CASE IsFixture(fixture, "silent_tool_failure", "fires", FixtureCeiling, Fails)
  <2>1. PICK cost : Yields(Fails, "returned", {"silent_tool_failure"}, cost)
    BY <1>2, <1>12, FailuresYield
  <2>2. FixtureBehaves(fixture, {"silent_tool_failure"}, cost)
    BY <1>3, <1>12, <2>1, TypeFixture
  <2> QED BY <2>2
<1> QED BY <1>5, <1>6, <1>7, <1>8, <1>9, <1>10, <1>11, <1>12, FixturesAre

\* What a session of the corpus has spent, call by call.
SpentIs(spent, costs) ==
  spent = [i \in 0..Len(costs) |-> IF i = 0 THEN 0 ELSE spent[i - 1] + costs[i]]

LEMMA SpentExists ==
  ASSUME NEW costs \in Seq(Nat)
  PROVE  /\ \E spent : SpentIs(spent, costs)
         /\ \A spent : SpentIs(spent, costs) =>
              /\ spent \in [0..Len(costs) -> Nat] /\ spent[0] = 0
              /\ \A i \in 1..Len(costs) : spent[i] = spent[i - 1] + costs[i]
<1> DEFINE m == Len(costs)
           G == [i \in 1..m |-> [x \in Nat |-> x + costs[i]]]
<1>1. m \in Nat /\ \A i \in 1..m : costs[i] \in Nat
  OBVIOUS
<1>2. PICK f : StepsOf(f, Nat, 0, m, G)
  <2>1. G \in [1..m -> [Nat -> Nat]]
    BY <1>1
  <2>2. Stepwise(Nat, 0, m, G)
    BY <1>1, <2>1 DEF Stepwise
  <2> HIDE DEF G, m
  <2> QED BY <2>2, InSteps, Zenon
<1>3. f \in [0..m -> Nat] /\ f[0] = 0 /\ \A i \in 1..m : f[i] = G[i][f[i - 1]]
  BY <1>2 DEF StepsOf
<1>4. SpentIs(f, costs)
  <2>1. ASSUME NEW i \in 0..m PROVE f[i] = IF i = 0 THEN 0 ELSE f[i - 1] + costs[i]
    <3>1. CASE i = 0
      BY <1>3, <3>1
    <3>2. CASE i # 0
      <4>1. i \in 1..m /\ i - 1 \in 0..m
        BY <1>1, <3>2
      <4>2. f[i - 1] \in Nat
        BY <1>3, <4>1
      <4> QED BY <1>3, <3>2, <4>1, <4>2
    <3> QED BY <3>1, <3>2
  <2>2. f = [i \in 0..m |-> f[i]]
    BY <1>3
  <2> QED BY <2>1, <2>2 DEF SpentIs
<1>5. ASSUME NEW spent, SpentIs(spent, costs)
      PROVE  /\ spent \in [0..m -> Nat] /\ spent[0] = 0
             /\ \A i \in 1..m : spent[i] = spent[i - 1] + costs[i]
  <2> DEFINE T == {i \in 0..m : spent[i] \in Nat}
  <2>1. /\ spent = [i \in 0..m |-> spent[i]]
        /\ \A i \in 0..m : spent[i] = IF i = 0 THEN 0 ELSE spent[i - 1] + costs[i]
    BY <1>5 DEF SpentIs
  <2>2. 0 \in 0..m /\ \A i \in 1..m : i \in 0..m /\ i # 0
    BY <1>1
  <2>3. spent[0] = 0 /\ \A i \in 1..m : spent[i] = spent[i - 1] + costs[i]
    BY <2>1, <2>2
  <2>4. 0 \in T
    BY <2>2, <2>3
  <2>5. ASSUME NEW k \in 0..(m - 1), k \in T PROVE k + 1 \in T
    <3>1. k + 1 \in 1..m /\ k + 1 \in 0..m /\ (k + 1) - 1 = k
      BY <1>1
    <3>2. spent[k + 1] = spent[k] + costs[k + 1]
      BY <2>3, <3>1
    <3> QED BY <1>1, <2>5, <3>1, <3>2
  <2>6. \A k \in 0..m : k \in T
    <3> HIDE DEF T, m
    <3> QED BY <1>1, <2>4, <2>5, Upwards
  <2>7. \A i \in 0..m : spent[i] \in Nat
    BY <2>6
  <2> QED BY <2>1, <2>3, <2>7
<1> QED BY <1>4, <1>5

\* A session without a model call comes to nothing.
LEMMA NothingYields == Yields(<<>>, "returned", {}, 0)
<1> DEFINE last == Step("session", NoCall, "returned", 0)
           full == SessionOf(<<>>, "returned")
           zero == [i \in 0..1 |-> 0]
           plan == [same |-> 0, call |-> NoCall, failed |-> zero, spent |-> zero]
<1>1. /\ last \in Span /\ last.kind = "session" /\ last.cost = 0
      /\ ~Countable(last) /\ ~FailedAttempt(last)
  BY ScriptsAssumption DEF Step, Span, Countable, FailedAttempt, Outcomes
<1> HIDE DEF last
<1>2. full = <<last>>
  BY DEF SessionOf, last
<1> HIDE DEF full
<1>3. full \in Seq(Span) /\ Len(full) = 1 /\ full[1] = last
  BY <1>1, <1>2
<1>4. ~Broken(full)
  BY <1>1, <1>3 DEF Broken
<1>5. /\ plan.same = 0 /\ plan.failed = zero /\ plan.spent = zero
      /\ zero \in [0..1 -> Nat] /\ zero[0] = 0 /\ zero[1] = 0
  OBVIOUS
<1> HIDE DEF plan, zero
<1>6. IsPlan(full, plan)
  BY <1>1, <1>3, <1>4, <1>5 DEF IsPlan
<1>7. ~(0 >= LoopThreshold) /\ ~(0 >= RetryThreshold)
  BY ScriptsAssumption
<1>8. ComesTo(full, plan, {}, 0)
  BY <1>3, <1>4, <1>5, <1>6, <1>7 DEF ComesTo, Unanswered
<1> QED BY <1>8 DEF Yields, full

\* A session of the corpus is reported for nothing but what it has spent.
LEMMA CorpusYields ==
  ASSUME NEW costs \in CorpusSessions, NEW spent, SpentIs(spent, costs)
  PROVE  Yields(Rebuilt(costs), "returned", {}, spent[Len(costs)])
<1> DEFINE m == Len(costs)
           script == Rebuilt(costs)
<1>1. costs \in Seq(Nat) /\ m \in Nat
  BY ScriptsAssumption
<1>2. /\ spent \in [0..m -> Nat] /\ spent[0] = 0
      /\ \A i \in 1..m : spent[i] = spent[i - 1] + costs[i]
  BY <1>1, SpentExists
<1>3. DOMAIN costs = 1..m /\ script = [i \in 1..m |-> Model(costs[i])]
  BY <1>1 DEF Rebuilt
<1>4. CASE m = 0
  <2>1. script = <<>>
    BY <1>3, <1>4
  <2>2. spent[m] = 0
    BY <1>2, <1>4
  <2> QED BY <2>1, <2>2, NothingYields
<1>5. CASE m # 0
  <2>1. OfSpans(script)
    BY AllOfSpans
  <2>2. Len(script) = m
    BY <1>1, <1>3
  <2>3. \A i \in 1..m : /\ script[i].kind = "model" /\ ~IsError(script[i])
                        /\ script[i].cost = costs[i]
    BY <1>3 DEF Model, Step, IsError
  <2>4. SpentBy(script, spent)
    BY <1>2, <2>2, <2>3 DEF SpentBy
  <2>5. Unfailing(script, 0, NoCall)
    <3> HIDE DEF script, m
    <3>1. \A i \in 1..m : /\ script[i].kind # "session" /\ ~IsError(script[i])
                          /\ script[i].kind # "tool"
      BY <2>3
    <3> QED BY <1>1, <1>5, <2>1, <2>2, <3>1 DEF Unfailing
  <2> HIDE DEF script
  <2>6. Yields(script, "returned", IF 0 >= LoopThreshold THEN {"loop"} ELSE {}, spent[Len(script)])
    BY <2>4, <2>5, UnfailingYields
  <2>7. ~(0 >= LoopThreshold)
    BY ScriptsAssumption
  <2> QED BY <2>2, <2>6, <2>7 DEF script
<1> QED BY <1>4, <1>5

------------------------------------------------------------------------------
(* Sessions as the programs of Harness keep them.                           *)

Begun(whose, what, script, outcome) ==
  [whose |-> whose, what |-> what, left |-> SessionOf(script, outcome),
   state |-> Fresh, fired |-> {}]

After(s, result) ==
  [s EXCEPT !.left = Tail(@), !.state = result.state,
            !.fired = @ \cup ({result.emitted} \ {None})]

IsSession(s) ==
  s = [whose |-> s.whose, what |-> s.what, left |-> s.left, state |-> s.state, fired |-> s.fired]

\* What a session of a program must have been reported for by its end, and one of a
\* host or of the traffic, by what registered the detectors.
Right(who, what, by, reported) ==
  /\ who = "false-positives" => reported = Promised(what.name, what.same)
  /\ who = "fixture-replay" => Behaved(what, reported)
  /\ who = "detector-gate" =>
       /\ \E spent : SpentIs(spent, what)
       /\ \A spent : SpentIs(spent, what) =>
            reported = IF spent[Len(what)] > CorpusCeiling THEN {"cost_ceiling"} ELSE {}
  /\ who \in {"nobody", "generate-traffic"} /\ by.what = "init" =>
       reported = SetsOff(what) \ (IF by.ceiling = NoCeiling THEN {"cost_ceiling"} ELSE {})
  /\ who \in {"nobody", "generate-traffic"} /\ by.what = "proof" =>
       reported = SetsOff(what) \cap {"loop", "silent_tool_failure"}
  /\ who = "proof-artifact" /\ reported # {} =>
       what = TRUE /\ reported = {"silent_tool_failure"}

\* The session is on its way to that.
Overseen(D, who, by, s) ==
  \E fires, cost : \E retries, limits \in BOOLEAN : \E ceiling \in Nat :
    /\ IsChain(D, retries, limits, ceiling)
    /\ Underway(s.left, s.state, s.fired, fires, cost, retries, limits, ceiling)
    /\ Right(who, s.what, by, Reported(fires, cost, retries, limits, ceiling))

\* As it is begun, whatever its script comes to.
LEMMA WatchedFirst ==
  ASSUME NEW script, NEW outcome, NEW fires, NEW cost, Yields(script, outcome, fires, cost),
         NEW retries \in BOOLEAN, NEW limits \in BOOLEAN, NEW ceiling \in Nat,
         NEW D, IsChain(D, retries, limits, ceiling),
         NEW who, NEW what, NEW by,
         Right(who, what, by, Reported(fires, cost, retries, limits, ceiling))
  PROVE  Overseen(D, who, by, Begun(who, what, script, outcome))
<1> DEFINE s == Begun(who, what, script, outcome)
<1>1. PICK plan : ComesTo(SessionOf(script, outcome), plan, fires, cost)
  BY DEF Yields
<1>2. Underway(SessionOf(script, outcome), Fresh, {}, fires, cost, retries, limits, ceiling)
  BY <1>1, SessionBegins
<1>3. s.left = SessionOf(script, outcome) /\ s.state = Fresh /\ s.fired = {} /\ s.what = what
  BY DEF Begun
<1> HIDE DEF s
<1>4. Underway(s.left, s.state, s.fired, fires, cost, retries, limits, ceiling)
  BY <1>2, <1>3
<1>5. Right(who, s.what, by, Reported(fires, cost, retries, limits, ceiling))
  BY <1>3
<1>6. Overseen(D, who, by, s)
  BY <1>4, <1>5 DEF Overseen
<1> QED BY <1>6 DEF s

\* As a span of it ends.
LEMMA WatchedNext ==
  ASSUME NEW D, NEW who, NEW by, NEW s, IsSession(s), Overseen(D, who, by, s), s.left # <<>>
  PROVE  Overseen(D, who, by, After(s, RunRegistered(D, s.state, Head(s.left))))
<1> DEFINE r == RunRegistered(D, s.state, Head(s.left))
           t == After(s, r)
<1>1. PICK fires, cost : \E retries, limits \in BOOLEAN : \E ceiling \in Nat :
        /\ IsChain(D, retries, limits, ceiling)
        /\ Underway(s.left, s.state, s.fired, fires, cost, retries, limits, ceiling)
        /\ Right(who, s.what, by, Reported(fires, cost, retries, limits, ceiling))
  BY DEF Overseen
<1>2. PICK retries \in BOOLEAN, limits \in BOOLEAN, ceiling \in Nat :
        /\ IsChain(D, retries, limits, ceiling)
        /\ Underway(s.left, s.state, s.fired, fires, cost, retries, limits, ceiling)
        /\ Right(who, s.what, by, Reported(fires, cost, retries, limits, ceiling))
  BY <1>1
<1>3. Onward(s.left, s.fired, r, fires, cost, retries, limits, ceiling)
  BY <1>2, SessionGoesOn
<1> HIDE DEF r
<1>4. /\ t.left = Tail(s.left) /\ t.state = r.state /\ t.what = s.what
      /\ t.fired = s.fired \cup ({r.emitted} \ {None})
  BY DEF IsSession, After
<1> HIDE DEF t
<1>5. Underway(t.left, t.state, t.fired, fires, cost, retries, limits, ceiling)
  BY <1>3, <1>4 DEF Onward
<1>6. Right(who, t.what, by, Reported(fires, cost, retries, limits, ceiling))
  BY <1>2, <1>4
<1>7. Overseen(D, who, by, t)
  BY <1>2, <1>5, <1>6 DEF Overseen
<1> QED BY <1>7 DEF t, r

\* And when the last has: which is the session's own.
LEMMA WatchedLast ==
  ASSUME NEW D, NEW who, NEW by, NEW s, Overseen(D, who, by, s)
  PROVE  /\ s.left = <<>> => Right(who, s.what, by, s.fired)
         /\ s.left # <<>> /\ Tail(s.left) = <<>> => Head(s.left).kind = "session"
         /\ s.left # <<>> /\ Tail(s.left) # <<>> => Head(s.left).kind # "session"
<1>1. PICK fires, cost : \E retries, limits \in BOOLEAN : \E ceiling \in Nat :
        /\ Underway(s.left, s.state, s.fired, fires, cost, retries, limits, ceiling)
        /\ Right(who, s.what, by, Reported(fires, cost, retries, limits, ceiling))
  BY DEF Overseen
<1>2. PICK retries \in BOOLEAN, limits \in BOOLEAN, ceiling \in Nat :
        /\ Underway(s.left, s.state, s.fired, fires, cost, retries, limits, ceiling)
        /\ Right(who, s.what, by, Reported(fires, cost, retries, limits, ceiling))
  BY <1>1
<1>3. s.left = <<>> => Right(who, s.what, by, s.fired)
  BY <1>2, SessionEnds
<1>4. PICK full, plan, k :
        Into(k, s.left, s.state, s.fired, full, plan, fires, cost, retries, limits, ceiling)
  BY <1>2 DEF Underway
<1> DEFINE n == Len(full)
           left == s.left
<1>5. /\ n \in Nat \ {0} /\ full[n].kind = "session"
      /\ \A i \in 1..(n - 1) : full[i].kind # "session"
      /\ k \in 0..n /\ left \in Seq(Span) /\ Len(left) = n - k
      /\ \A i \in 1..(n - k) : left[i] = full[k + i]
  BY <1>4 DEF Into, ComesTo, IsPlan
<1> HIDE DEF n, left
<1>6. ASSUME left # <<>>
      PROVE  /\ Tail(left) = <<>> => Head(left).kind = "session"
             /\ Tail(left) # <<>> => Head(left).kind # "session"
  <2>1. Len(left) # 0 /\ n - k >= 1
    BY <1>5, <1>6
  <2>2. Head(left) = full[k + 1]
    BY <1>5, <2>1
  <2>3. Tail(left) = <<>> <=> n - k = 1
    <3>1. Tail(left) \in Seq(Span) /\ Len(Tail(left)) = (n - k) - 1
      BY <1>5, <2>1
    <3> DEFINE rest == Tail(left)
    <3>2. rest \in Seq(Span) /\ Len(rest) = (n - k) - 1
      BY <3>1
    <3> HIDE DEF rest
    <3>3. rest = <<>> <=> Len(rest) = 0
      BY <3>2, EmptySeq
    <3>4. rest = <<>> <=> n - k = 1
      BY <1>5, <2>1, <3>2, <3>3
    <3> QED BY <3>4 DEF rest
  <2>4. CASE n - k = 1
    <3>1. k + 1 = n
      BY <1>5, <2>4
    <3> QED BY <1>5, <2>2, <2>3, <2>4, <3>1
  <2>5. CASE n - k # 1
    <3>1. k + 1 \in 1..(n - 1)
      BY <1>5, <2>1, <2>5
    <3> QED BY <1>5, <2>2, <2>3, <2>5, <3>1
  <2> QED BY <2>4, <2>5
<1> QED BY <1>3, <1>6 DEF left

LEMMA BegunIs ==
  ASSUME NEW who, NEW what, NEW script, OfSpans(script), NEW outcome \in Outcomes
  PROVE  LET s == Begun(who, what, script, outcome)
         IN  /\ IsSession(s) /\ s.whose = who /\ s.what = what /\ s.fired = {}
             /\ s.left \in Seq(Span) /\ s.left # <<>>
<1>1. Step("session", NoCall, outcome, 0) \in Span
  BY ScriptsAssumption DEF Step, Span
<1> DEFINE last == Step("session", NoCall, outcome, 0)
           full == SessionOf(script, outcome)
<1>2. script \in Seq(Span)
  BY Known
<1> HIDE DEF last
<1>3. full = script \o <<last>> /\ last \in Span
  BY <1>1 DEF SessionOf, last
<1>4. full \in Seq(Span) /\ full # <<>>
  <2> HIDE DEF full
  <2>1. full \in Seq(Span) /\ Len(full) = Len(script) + 1
    BY <1>2, <1>3
  <2> QED BY <1>2, <2>1
<1> HIDE DEF full
<1> QED BY <1>4 DEF Begun, IsSession, full

\* Ending a span leaves the rest of the session as it was.
LEMMA AfterIs ==
  ASSUME NEW s, IsSession(s), s.left \in Seq(Span), s.left # <<>>, NEW r
  PROVE  LET t == After(s, r)
         IN  /\ IsSession(t) /\ t.whose = s.whose /\ t.what = s.what
             /\ t.left = Tail(s.left) /\ t.left \in Seq(Span)
             /\ t.fired = s.fired \cup ({r.emitted} \ {None})
<1>1. Tail(s.left) \in Seq(Span)
  OBVIOUS
<1> DEFINE t == After(s, r)
<1>2. t = [whose |-> s.whose, what |-> s.what, left |-> Tail(s.left), state |-> r.state,
           fired |-> s.fired \cup ({r.emitted} \ {None})]
  <2> DEFINE left == s.left
             marked == {r.emitted} \ {None}
  <2>1. t = [s EXCEPT !.left = Tail(@), !.state = r.state, !.fired = @ \cup marked]
    BY DEF After
  <2> HIDE DEF marked, t
  <2> QED BY <2>1 DEF IsSession, marked
<1> HIDE DEF t
<1>3. /\ IsSession(t) /\ t.whose = s.whose /\ t.what = s.what /\ t.left = Tail(s.left)
      /\ t.fired = s.fired \cup ({r.emitted} \ {None})
  BY <1>2 DEF IsSession
<1> QED BY <1>1, <1>3 DEF t

------------------------------------------------------------------------------
(* What each program's sessions must have been reported for, they are.      *)

\* Where there is a ceiling, the expensive shape alone crosses it.
OnlyDear(shape, cost, limits, ceiling) == limits => (cost > ceiling <=> shape = "expensive")

LEMMA ShapeReported ==
  ASSUME NEW shape, NEW cost, NEW ceiling, NEW limits \in BOOLEAN,
         OnlyDear(shape, cost, limits, ceiling),
         shape \in {"healthy", "silent_tool_failure", "loop", "expensive", "retry_storm"}
  PROVE  /\ Reported(SetsOff(shape) \ {"cost_ceiling"}, cost, TRUE, limits, ceiling) =
              SetsOff(shape) \ (IF limits THEN {} ELSE {"cost_ceiling"})
         /\ Reported(SetsOff(shape) \ {"cost_ceiling"}, cost, FALSE, FALSE, ceiling) =
              SetsOff(shape) \cap {"loop", "silent_tool_failure"}
<1>1. "cost_ceiling" \in SetsOff(shape) <=> shape = "expensive"
  BY DEF SetsOff
<1>2. SetsOff(shape) \subseteq {"cost_ceiling", "retry_amplification", "loop", "silent_tool_failure"}
  BY DEF SetsOff
<1> QED BY <1>1, <1>2 DEF Reported, OnlyDear

\* A host's, and the traffic's, with the detectors of init() or of the artifact.
LEMMA HostBegins ==
  ASSUME NEW shape \in DOMAIN Shapes, NEW script \in Shapes[shape],
         NEW who \in {"nobody", "generate-traffic"}, NEW by, NEW D,
         \/ /\ by.what = "init" /\ by.ceiling \in Ceilings \cup {TrafficCeiling}
            /\ D = DefaultDetectors(by.ceiling # NoCeiling, by.ceiling)
         \/ /\ by.what = "proof" /\ D = <<LoopDetector, WatchDetector, VerdictDetector>>
  PROVE  Overseen(D, who, by, Begun(who, shape, script, "returned"))
<1>1. PICK cost : ShapeYields(shape, script, cost)
  BY ShapesYield
<1> DEFINE fires == SetsOff(shape) \ {"cost_ceiling"}
<1>2. /\ cost \in Nat /\ Yields(script, "returned", fires, cost)
      /\ \A ceiling \in (Ceilings \ {NoCeiling}) \cup {TrafficCeiling} :
           cost > ceiling <=> shape = "expensive"
  BY <1>1 DEF ShapeYields
<1>3. shape \in {"healthy", "silent_tool_failure", "loop", "expensive", "retry_storm"}
  BY DEF Shapes
<1>4. who \notin {"false-positives", "fixture-replay", "detector-gate", "proof-artifact"}
  OBVIOUS
<1> HIDE DEF fires
<1>5. CASE /\ by.what = "init" /\ by.ceiling \in Ceilings \cup {TrafficCeiling}
           /\ D = DefaultDetectors(by.ceiling # NoCeiling, by.ceiling)
  <2> DEFINE limits == by.ceiling # NoCeiling
             ceiling == by.ceiling
             R == Reported(fires, cost, TRUE, limits, ceiling)
  <2>0. Ceilings \subseteq Nat
    BY ScriptsAssumption
  <2>1. limits \in BOOLEAN /\ ceiling \in Nat
    <3>1. TrafficCeiling \in Nat
      BY DEF TrafficCeiling
    <3>2. ceiling \in Ceilings \cup {TrafficCeiling}
      BY <1>5
    <3> HIDE DEF ceiling
    <3> QED BY <2>0, <3>1, <3>2
  <2>2. IsChain(D, TRUE, limits, ceiling)
    BY <1>5, Chains
  <2>3. limits => (cost > ceiling <=> shape = "expensive")
    BY <1>2, <1>5
  <2>4. R = SetsOff(shape) \ (IF limits THEN {} ELSE {"cost_ceiling"})
    <3> HIDE DEF limits, ceiling
    <3>1. Reported(SetsOff(shape) \ {"cost_ceiling"}, cost, TRUE, limits, ceiling) =
            SetsOff(shape) \ (IF limits THEN {} ELSE {"cost_ceiling"})
      <4>1. CASE limits
        <5>1. OnlyDear(shape, cost, TRUE, ceiling)
          BY <2>3, <4>1 DEF OnlyDear
        <5>2. Reported(SetsOff(shape) \ {"cost_ceiling"}, cost, TRUE, TRUE, ceiling) = SetsOff(shape) \ {}
          BY <1>3, <5>1, ShapeReported
        <5> QED BY <2>1, <4>1, <5>2 DEF Reported
      <4>2. CASE ~limits
        <5>1. OnlyDear(shape, cost, FALSE, ceiling)
          BY DEF OnlyDear
        <5>2. Reported(SetsOff(shape) \ {"cost_ceiling"}, cost, TRUE, FALSE, ceiling) =
                SetsOff(shape) \ {"cost_ceiling"}
          BY <1>3, <5>1, ShapeReported
        <5> QED BY <2>1, <4>2, <5>2 DEF Reported
      <4> QED BY <2>1, <4>1, <4>2
    <3> QED BY <3>1 DEF fires
  <2>5. R = SetsOff(shape) \ (IF by.ceiling = NoCeiling THEN {"cost_ceiling"} ELSE {})
    BY <2>4
  <2> HIDE DEF R
  <2>6. Right(who, shape, by, R)
    BY <1>4, <1>5, <2>5 DEF Right
  <2> HIDE DEF limits, ceiling
  <2> QED BY <1>2, <2>1, <2>2, <2>6, WatchedFirst DEF R
<1>6. CASE by.what = "proof" /\ D = <<LoopDetector, WatchDetector, VerdictDetector>>
  <2> DEFINE none == FALSE
             zero == 0
             R == Reported(fires, cost, none, none, zero)
  <2>1. none \in BOOLEAN /\ zero \in Nat /\ IsChain(D, none, none, zero)
    BY <1>6, Chains
  <2>2. R = SetsOff(shape) \cap {"loop", "silent_tool_failure"}
    <3> HIDE DEF zero
    <3>1. OnlyDear(shape, cost, FALSE, zero)
      BY DEF OnlyDear
    <3> QED BY <1>3, <3>1, ShapeReported DEF fires
  <2> HIDE DEF R
  <2>3. Right(who, shape, by, R)
    BY <1>4, <1>6, <2>2 DEF Right
  <2> HIDE DEF none, zero
  <2> QED BY <1>2, <2>1, <2>3, WatchedFirst DEF R
<1> QED BY <1>5, <1>6

LEMMA PatternBegins ==
  ASSUME NEW name \in DOMAIN Patterns, NEW p \in Patterns[name], NEW by, NEW D,
         D = DefaultDetectors(FALSE, NoCeiling)
  PROVE  Overseen(D, "false-positives", by,
                 Begun("false-positives", [name |-> name, same |-> p.same], p.script, "returned"))
<1> DEFINE who == "false-positives"
           what == [name |-> name, same |-> p.same]
           fires == Promised(name, p.same)
           retries == TRUE
           limits == FALSE
           ceiling == 0
<1>1. PICK cost : Yields(p.script, "returned", fires, cost)
  BY PatternsYield
<1>2. D = DefaultDetectors(limits, ceiling)
  BY DEF DefaultDetectors
<1>3. retries \in BOOLEAN /\ limits \in BOOLEAN /\ ceiling \in Nat
      /\ IsChain(D, retries, limits, ceiling)
  BY <1>2, Chains
<1>4. Reported(fires, cost, retries, limits, ceiling) = fires
  <2> HIDE DEF fires
  <2> QED BY DEF Reported
<1>5. Right(who, what, by, fires)
  <2> HIDE DEF fires
  <2> QED BY DEF Right, fires
<1>6. Right(who, what, by, Reported(fires, cost, retries, limits, ceiling))
  BY <1>4, <1>5
<1> HIDE DEF who, what, fires, retries, limits, ceiling
<1>7. Overseen(D, who, by, Begun(who, what, p.script, "returned"))
  BY <1>1, <1>3, <1>6, WatchedFirst
<1> QED BY <1>7 DEF who, what

LEMMA FixtureBegins ==
  ASSUME NEW fixture \in Fixtures, NEW by, NEW D, D = DefaultDetectors(TRUE, fixture.ceiling)
  PROVE  Overseen(D, "fixture-replay", by,
                 Begun("fixture-replay", fixture, fixture.script, "returned"))
<1> DEFINE who == "fixture-replay"
           yes == TRUE
           ceiling == fixture.ceiling
<1>1. PICK fires, cost : FixtureBehaves(fixture, fires, cost)
  BY FixturesYield
<1>2. /\ ceiling \in Nat /\ Yields(fixture.script, "returned", fires, cost)
      /\ Behaved(fixture, Reported(fires, cost, yes, yes, ceiling))
  BY <1>1 DEF FixtureBehaves
<1>3. yes \in BOOLEAN /\ IsChain(D, yes, yes, ceiling)
  BY Chains
<1>4. Right(who, fixture, by, Reported(fires, cost, yes, yes, ceiling))
  BY <1>2 DEF Right
<1> HIDE DEF who, yes, ceiling
<1>5. Overseen(D, who, by, Begun(who, fixture, fixture.script, "returned"))
  BY <1>2, <1>3, <1>4, WatchedFirst
<1> QED BY <1>5 DEF who

LEMMA CorpusBegins ==
  ASSUME NEW costs \in CorpusSessions, NEW by, NEW D,
         D = <<LoopDetector, WatchDetector, VerdictDetector, CeilingDetector(CorpusCeiling)>>
  PROVE  Overseen(D, "detector-gate", by,
                 Begun("detector-gate", costs, Rebuilt(costs), "returned"))
<1> DEFINE who == "detector-gate"
           retries == FALSE
           limits == TRUE
           ceiling == CorpusCeiling
           m == Len(costs)
<1>1. costs \in Seq(Nat)
  BY ScriptsAssumption
<1>2. PICK spent : SpentIs(spent, costs)
  BY <1>1, SpentExists
<1>3. Yields(Rebuilt(costs), "returned", {}, spent[m])
  BY <1>2, CorpusYields
<1>4. ceiling \in Nat /\ retries \in BOOLEAN /\ limits \in BOOLEAN
      /\ IsChain(D, retries, limits, ceiling)
  <2>1. ceiling \in Nat
    BY DEF CorpusCeiling
  <2>2. IsChain(D, retries, limits, ceiling)
    <3> HIDE DEF ceiling
    <3>1. D = <<LoopDetector, WatchDetector, VerdictDetector, CeilingDetector(ceiling)>>
      BY DEF ceiling
    <3> QED BY <3>1, Chains
  <2> QED BY <2>1, <2>2
<1>5. Reported({}, spent[m], retries, limits, ceiling) =
        IF spent[m] > CorpusCeiling THEN {"cost_ceiling"} ELSE {}
  BY DEF Reported
<1>6. \A other : SpentIs(other, costs) => other[m] = spent[m]
  <2> SUFFICES ASSUME NEW other, SpentIs(other, costs) PROVE other[m] = spent[m]
    OBVIOUS
  <2>1. /\ spent[0] = 0 /\ \A i \in 1..m : spent[i] = spent[i - 1] + costs[i]
        /\ other[0] = 0 /\ \A i \in 1..m : other[i] = other[i - 1] + costs[i]
    BY <1>1, <1>2, SpentExists
  <2> DEFINE T == {i \in 0..m : other[i] = spent[i]}
  <2>2. m \in Nat /\ 0 \in T
    BY <1>1, <2>1
  <2>3. ASSUME NEW k \in 0..(m - 1), k \in T PROVE k + 1 \in T
    <3>1. k + 1 \in 1..m /\ k + 1 \in 0..m /\ (k + 1) - 1 = k
      BY <2>2
    <3> QED BY <2>1, <2>3, <3>1
  <2>4. \A k \in 0..m : k \in T
    <3> HIDE DEF T, m
    <3> QED BY <2>2, <2>3, Upwards
  <2>5. m \in 0..m
    BY <2>2
  <2> QED BY <2>4, <2>5
<1> DEFINE R == Reported({}, spent[m], retries, limits, ceiling)
<1>7. Right(who, costs, by, R)
  <2>1. \A other : SpentIs(other, costs) =>
          R = IF other[Len(costs)] > CorpusCeiling THEN {"cost_ceiling"} ELSE {}
    <3>1. R = IF spent[m] > CorpusCeiling THEN {"cost_ceiling"} ELSE {}
      BY <1>5
    <3> HIDE DEF R, retries, limits, ceiling
    <3> QED BY <1>6, <3>1
  <2> HIDE DEF R
  <2> QED BY <1>2, <2>1 DEF Right
<1> HIDE DEF who, retries, limits, ceiling, m
<1>8. Overseen(D, who, by, Begun(who, costs, Rebuilt(costs), "returned"))
  BY <1>3, <1>4, <1>7, WatchedFirst
<1> QED BY <1>8 DEF who

LEMMA RequestBegins ==
  ASSUME NEW answered \in BOOLEAN, NEW by, NEW D,
         D = <<LoopDetector, WatchDetector, VerdictDetector>>
  PROVE  Overseen(D, "proof-artifact", by,
                 Begun("proof-artifact", answered, Request(answered),
                       IF answered THEN "returned" ELSE "raised"))
<1> DEFINE who == "proof-artifact"
           none == FALSE
           zero == 0
           outcome == IF answered THEN "returned" ELSE "raised"
           fires == IF answered THEN {"silent_tool_failure"} ELSE {}
<1>1. PICK cost : Yields(Request(answered), outcome, fires, cost)
  BY RequestYields
<1>2. none \in BOOLEAN /\ zero \in Nat /\ IsChain(D, none, none, zero)
  BY Chains
<1>3. Reported(fires, cost, none, none, zero) = fires
  BY DEF Reported
<1>4. Right(who, answered, by, fires)
  BY DEF Right
<1>5. Right(who, answered, by, Reported(fires, cost, none, none, zero))
  BY <1>3, <1>4
<1> HIDE DEF who, none, zero, outcome, fires
<1>6. Overseen(D, who, by, Begun(who, answered, Request(answered), outcome))
  BY <1>1, <1>2, <1>5, WatchedFirst
<1> QED BY <1>6 DEF who, outcome

------------------------------------------------------------------------------
(* The inductive invariant of Harness.                                      *)

\* A session as it is begun.
LEMMA NewSessionIs ==
  \A whose, what, script, outcome :
    NewSession(whose, what, script, outcome) = Begun(whose, what, script, outcome)
BY DEF NewSession, Begun, SessionOf

\* Which detectors are registered is known from what registered them.
Installed ==
  /\ program \in {"nobody", "generate-traffic", "proof-artifact"} \cup Replayers
  /\ since.what \in {"start", "init", "replay", "proof"}
  /\ since.what = "start" => detectors = <<>>
  /\ since.what = "init" =>
       /\ since.ceiling \in Ceilings \cup {TrafficCeiling}
       /\ detectors = DefaultDetectors(since.ceiling # NoCeiling, since.ceiling)
  /\ since.what = "proof" => detectors = <<LoopDetector, WatchDetector, VerdictDetector>>
  /\ since.what = "replay" /\ program \notin Replayers => detectors = <<>>
  /\ program \in Replayers => since.what = "replay"
  /\ program = "fixture-replay" =>
       \E fixture \in Fixtures : detectors = DefaultDetectors(TRUE, fixture.ceiling)
  /\ program = "detector-gate" =>
       detectors = <<LoopDetector, WatchDetector, VerdictDetector, CeilingDetector(CorpusCeiling)>>
  /\ program = "false-positives" => detectors = DefaultDetectors(FALSE, NoCeiling)
  /\ program = "generate-traffic" =>
       since.what = "init" /\ since.ceiling = TrafficCeiling /\ provider # "nobody"
  /\ program = "proof-artifact" => since.what = "proof"

\* A replay has a tracer of its own, and has put aside the one it found.
Traced ==
  /\ program \in Replayers =>
       /\ tracer = program
       /\ original \in {"global", "proof-artifact"}
       /\ original = "proof-artifact" => proving
  /\ program \notin Replayers => tracer \in {"global", "proof-artifact"}
  /\ tracer = "proof-artifact" => proving

\* The session under way is the program's, and on its way to what it is to be reported
\* for; it is reported for nothing when there is nobody to report it.
Running ==
  \/ session = NoSession
  \/ /\ IsSession(session) /\ session.whose = program /\ session.left \in Seq(Span)
     /\ ~Recorded \/ detectors = <<>> => session.fired = {}
     /\ Recorded /\ detectors # <<>> => Overseen(detectors, program, since, session)

\* The traffic has counted the types of the shapes it has shown, and of the one under
\* way.
Tallied ==
  /\ program # "generate-traffic" => tally = {} /\ shown = {}
  /\ program = "generate-traffic" =>
       /\ tracer = "global" =>
            tally = (UNION {SetsOff(shape) : shape \in shown}) \cup session.fired
       /\ Idle /\ session # NoSession => session.what \in shown

Published == artifact.answered = TRUE /\ artifact.shows = {"silent_tool_failure"}

HarnessInv == Installed /\ Traced /\ Running /\ Tallied /\ Published

LEMMA NoSessionIs ==
  NoSession.fired = {} /\ NoSession.left = <<>> /\ NoSession.whose = "nobody"
BY DEF NoSession, Nobody

LEMMA InvInit == Init => HarnessInv
BY NoSessionIs DEF Init, HarnessInv, Installed, Traced, Running, Tallied, Published, By,
   Committed, Nobody, Replayers

\* A session that has ended has been reported for what it must be.
LEMMA EndedRight ==
  ASSUME HarnessInv, Idle, session # NoSession
  PROVE  /\ session.whose = program
         /\ Recorded /\ detectors # <<>> => Right(program, session.what, since, session.fired)
         /\ ~Recorded \/ detectors = <<>> => session.fired = {}
<1>1. /\ session.whose = program
      /\ ~Recorded \/ detectors = <<>> => session.fired = {}
      /\ Recorded /\ detectors # <<>> => Overseen(detectors, program, since, session)
  BY DEF HarnessInv, Running
<1>2. session.left = <<>>
  BY DEF Idle
<1> QED BY <1>1, <1>2, WatchedLast

\* The detectors of init(), of a replay and of the artifact are some.
LEMMA SomeDetectors ==
  /\ \A limits, ceiling : DefaultDetectors(limits, ceiling) # <<>>
  /\ <<LoopDetector, WatchDetector, VerdictDetector>> # <<>>
  /\ \A ceiling : <<LoopDetector, WatchDetector, VerdictDetector, CeilingDetector(ceiling)>> # <<>>
BY DEF DefaultDetectors

\* The traffic's session is on its way to its shape's types.
LEMMA TrafficRight ==
  ASSUME HarnessInv, program = "generate-traffic"
  PROVE  /\ Recorded /\ detectors # <<>>
         /\ \A what, fired : Right(program, what, since, fired) => fired = SetsOff(what)
<1>1. /\ since.what = "init" /\ since.ceiling = TrafficCeiling /\ provider # "nobody"
      /\ detectors = DefaultDetectors(since.ceiling # NoCeiling, since.ceiling)
  BY DEF HarnessInv, Installed
<1>2. Recorded /\ detectors # <<>>
  BY <1>1, SomeDetectors DEF Recorded, Nobody
<1>3. NoCeiling # TrafficCeiling
  BY ScriptsAssumption
<1> QED BY <1>1, <1>2, <1>3 DEF Right

LEMMA TallySettled ==
  ASSUME HarnessInv, Idle, program = "generate-traffic", tracer = "global"
  PROVE  tally = UNION {SetsOff(shape) : shape \in shown}
<1>1. tally = (UNION {SetsOff(shape) : shape \in shown}) \cup session.fired
  BY DEF HarnessInv, Tallied
<1>2. CASE session = NoSession
  BY <1>1, <1>2, NoSessionIs
<1>3. CASE session # NoSession
  <2>1. session.what \in shown
    BY <1>3 DEF HarnessInv, Tallied
  <2>2. session.fired = SetsOff(session.what)
    BY <1>3, EndedRight, TrafficRight
  <2> QED BY <1>1, <2>1, <2>2
<1> QED BY <1>2, <1>3

------------------------------------------------------------------------------
(* Each action keeps the invariant.                                         *)

LEMMA BeginKeeps ==
  ASSUME HarnessInv, NEW whose, NEW what, NEW script, OfSpans(script),
         BeginSession(whose, what, script),
         Recorded /\ detectors # <<>> =>
           Overseen(detectors, whose, since, Begun(whose, what, script, "returned"))
  PROVE  HarnessInv'
<1> DEFINE s == Begun(whose, what, script, "returned")
<1>1. /\ Idle /\ program = whose /\ session' = s
      /\ UNCHANGED <<provider, label, detectors, tracer, program, original, artifact,
                     tally, shown, since, proving>>
  BY NewSessionIs DEF BeginSession, global, traffic
<1>2. /\ IsSession(s) /\ s.whose = whose /\ s.fired = {} /\ s.left \in Seq(Span)
      /\ s.left # <<>>
  BY BegunIs DEF Outcomes
<1> HIDE DEF s
<1>3. Installed'
  BY <1>1 DEF HarnessInv, Installed
<1>4. Traced'
  BY <1>1 DEF HarnessInv, Traced
<1>5. Recorded' = Recorded
  BY <1>1 DEF Recorded
<1>6. Running'
  <2>1. Recorded /\ detectors # <<>> => Overseen(detectors, program, since, s)
    BY <1>1 DEF s
  <2>2. /\ IsSession(session') /\ session'.whose = program' /\ session'.left \in Seq(Span)
        /\ session'.fired = {}
    BY <1>1, <1>2
  <2>3. Recorded' /\ detectors' # <<>> => Overseen(detectors', program', since', session')
    BY <1>1, <1>5, <2>1
  <2> QED BY <2>2, <2>3 DEF Running
<1>7. Tallied'
  <2>1. CASE program = "generate-traffic"
    <3>1. tracer = "global" => tally = UNION {SetsOff(shape) : shape \in shown}
      BY <1>1, <2>1, TallySettled
    <3>2. session'.fired = {} /\ session'.left # <<>>
      BY <1>1, <1>2
    <3> QED BY <1>1, <2>1, <3>1, <3>2 DEF Tallied, Idle
  <2>2. CASE program # "generate-traffic"
    BY <1>1, <2>2 DEF HarnessInv, Tallied
  <2> QED BY <2>1, <2>2
<1>8. Published'
  BY <1>1 DEF HarnessInv, Published
<1> QED BY <1>3, <1>4, <1>6, <1>7, <1>8 DEF HarnessInv

LEMMA HostSessionKeeps ==
  ASSUME HarnessInv, HostSession \/ ShowShape
  PROVE  HarnessInv'
<1>1. PICK who \in {"nobody", "generate-traffic"} :
        \E shape \in DOMAIN Shapes : \E script \in Shapes[shape] :
          BeginSession(who, shape, script)
  BY DEF HostSession, ShowShape, Nobody
<1>2. PICK shape \in DOMAIN Shapes : \E script \in Shapes[shape] :
        BeginSession(who, shape, script)
  BY <1>1
<1>3. PICK script \in Shapes[shape] : BeginSession(who, shape, script)
  BY <1>2
<1>4. program = who
  BY <1>3 DEF BeginSession
<1>5. who \notin Replayers
  BY DEF Replayers
<1>6. OfSpans(script)
  BY AllOfSpans
<1>7. ASSUME Recorded, detectors # <<>>
      PROVE  Overseen(detectors, who, since, Begun(who, shape, script, "returned"))
  <2>1. \/ /\ since.what = "init" /\ since.ceiling \in Ceilings \cup {TrafficCeiling}
           /\ detectors = DefaultDetectors(since.ceiling # NoCeiling, since.ceiling)
        \/ /\ since.what = "proof"
           /\ detectors = <<LoopDetector, WatchDetector, VerdictDetector>>
    BY <1>4, <1>5, <1>7 DEF HarnessInv, Installed
  <2> QED BY <2>1, HostBegins
<1> QED BY <1>3, <1>6, <1>7, BeginKeeps

LEMMA ReplayKeeps ==
  ASSUME HarnessInv, ReplayPattern \/ ReplayFixture \/ ReplayCorpus
  PROVE  HarnessInv'
<1>1. CASE ReplayPattern
  <2> DEFINE who == "false-positives"
  <2>1. PICK name \in DOMAIN Patterns : \E p \in Patterns[name] :
          BeginSession(who, [name |-> name, same |-> p.same], p.script)
    BY <1>1 DEF ReplayPattern
  <2>2. PICK p \in Patterns[name] :
          BeginSession(who, [name |-> name, same |-> p.same], p.script)
    BY <2>1
  <2> DEFINE what == [name |-> name, same |-> p.same]
             script == p.script
  <2>3. OfSpans(script)
    BY AllOfSpans
  <2>4. program = who
    BY <2>2 DEF BeginSession
  <2>5. detectors = DefaultDetectors(FALSE, NoCeiling)
    BY <2>4 DEF HarnessInv, Installed
  <2>6. Overseen(detectors, who, since, Begun(who, what, script, "returned"))
    BY <2>5, PatternBegins
  <2>7. BeginSession(who, what, script)
    BY <2>2
  <2> HIDE DEF who, what, script
  <2> QED BY <2>3, <2>6, <2>7, BeginKeeps
<1>2. CASE ReplayFixture
  <2> DEFINE who == "fixture-replay"
  <2>1. PICK fixture \in Fixtures :
          /\ fixture.ceiling \in {detectors[i].ceiling : i \in DOMAIN detectors}
          /\ BeginSession(who, fixture, fixture.script)
    BY <1>2 DEF ReplayFixture
  <2> DEFINE script == fixture.script
  <2>2. OfSpans(script)
    BY AllOfSpans
  <2>3. program = who
    BY <2>1 DEF BeginSession
  <2>4. PICK other \in Fixtures : detectors = DefaultDetectors(TRUE, other.ceiling)
    BY <2>3 DEF HarnessInv, Installed
  <2>5. fixture.ceiling # 0
    <3>1. \E d, e, c, x : fixture = Fixture(d, e, c, x) /\ c # 0
      BY DEF Fixtures, FixtureCeiling
    <3> QED BY <3>1 DEF Fixture
  <2>6. fixture.ceiling = other.ceiling
    <3> DEFINE D == DefaultDetectors(TRUE, other.ceiling)
    <3>1. /\ DOMAIN D = 1..5
          /\ D[1] = LoopDetector /\ D[2] = RetryDetector /\ D[3] = WatchDetector
          /\ D[4] = VerdictDetector /\ D[5] = CeilingDetector(other.ceiling)
      BY DEF DefaultDetectors
    <3>2. /\ LoopDetector.ceiling = 0 /\ RetryDetector.ceiling = 0 /\ WatchDetector.ceiling = 0
          /\ VerdictDetector.ceiling = 0 /\ CeilingDetector(other.ceiling).ceiling = other.ceiling
      BY DEF LoopDetector, RetryDetector, WatchDetector, VerdictDetector, CeilingDetector, Detector
    <3> HIDE DEF D
    <3>3. PICK i \in 1..5 : fixture.ceiling = D[i].ceiling
      BY <2>1, <2>4, <3>1 DEF D
    <3>4. i = 1 \/ i = 2 \/ i = 3 \/ i = 4 \/ i = 5
      OBVIOUS
    <3> QED BY <2>5, <3>1, <3>2, <3>3, <3>4
  <2>7. Overseen(detectors, who, since, Begun(who, fixture, script, "returned"))
    BY <2>4, <2>6, FixtureBegins
  <2>8. BeginSession(who, fixture, script)
    BY <2>1
  <2> HIDE DEF who, script
  <2> QED BY <2>2, <2>7, <2>8, BeginKeeps
<1>3. CASE ReplayCorpus
  <2> DEFINE who == "detector-gate"
  <2>1. PICK costs \in CorpusSessions : BeginSession(who, costs, Rebuilt(costs))
    BY <1>3 DEF ReplayCorpus
  <2> DEFINE script == Rebuilt(costs)
  <2>2. OfSpans(script)
    BY AllOfSpans
  <2>3. program = who
    BY <2>1 DEF BeginSession
  <2>4. detectors = <<LoopDetector, WatchDetector, VerdictDetector, CeilingDetector(CorpusCeiling)>>
    BY <2>3 DEF HarnessInv, Installed
  <2>5. Overseen(detectors, who, since, Begun(who, costs, script, "returned"))
    BY <2>4, CorpusBegins
  <2>6. BeginSession(who, costs, script)
    BY <2>1
  <2> HIDE DEF who, script
  <2> QED BY <2>2, <2>5, <2>6, BeginKeeps
<1> QED BY <1>1, <1>2, <1>3

LEMMA EndSpanKeeps ==
  ASSUME HarnessInv, EndSpan
  PROVE  HarnessInv'
<1> DEFINE span == Head(session.left)
           result == IF Recorded THEN RunRegistered(detectors, session.state, span)
                     ELSE Unreported(session.state)
           marked == {result.emitted} \ {None}
<1>1. /\ ~Idle
      /\ session' = After(session, result)
      /\ tally' = IF program = "generate-traffic" /\ tracer = "global"
                  THEN tally \cup marked ELSE tally
      /\ shown' = IF program = "generate-traffic" /\ span.kind = "session"
                  THEN shown \cup {session.what} ELSE shown
      /\ UNCHANGED <<provider, label, detectors, tracer, artifact, program, original, since, proving>>
  BY DEF EndSpan, global, After
<1>2. session.left # <<>> /\ session # NoSession
  BY <1>1, NoSessionIs DEF Idle
<1>3. /\ IsSession(session) /\ session.whose = program /\ session.left \in Seq(Span)
      /\ ~Recorded \/ detectors = <<>> => session.fired = {}
      /\ Recorded /\ detectors # <<>> => Overseen(detectors, program, since, session)
  BY <1>2 DEF HarnessInv, Running
<1>4. ~Recorded \/ detectors = <<>> => result.emitted = None
  <2>1. CASE ~Recorded
    BY <2>1 DEF Unreported
  <2>2. CASE Recorded /\ detectors = <<>>
    <3>1. result = Unreported(AddCost(session.state, span))
      BY <2>2, NoneRegistered
    <3> QED BY <3>1 DEF Unreported
  <2> QED BY <2>1, <2>2
<1> DEFINE t == After(session, result)
<1>5. Recorded /\ detectors # <<>> => Overseen(detectors, program, since, t)
  BY <1>2, <1>3, WatchedNext
<1> HIDE DEF result
<1>6. /\ IsSession(t) /\ t.whose = session.whose /\ t.what = session.what
      /\ t.left = Tail(session.left) /\ t.left \in Seq(Span)
      /\ t.fired = session.fired \cup marked
  BY <1>2, <1>3, AfterIs
<1>7. session' = t
  BY <1>1
<1> HIDE DEF t
<1>8. Installed'
  BY <1>1 DEF HarnessInv, Installed
<1>9. Traced'
  BY <1>1 DEF HarnessInv, Traced
<1>10. Recorded' = Recorded
  BY <1>1 DEF Recorded
<1>11. Running'
  <2>1. ~Recorded \/ detectors = <<>> => t.fired = {}
    BY <1>3, <1>4, <1>6
  <2>2. ~Recorded' \/ detectors' = <<>> => session'.fired = {}
    BY <1>1, <1>7, <1>10, <2>1
  <2>3. Recorded' /\ detectors' # <<>> => Overseen(detectors', program', since', session')
    BY <1>1, <1>5, <1>7, <1>10
  <2>4. IsSession(session') /\ session'.whose = program' /\ session'.left \in Seq(Span)
    BY <1>1, <1>3, <1>6, <1>7
  <2> QED BY <2>2, <2>3, <2>4 DEF Running
<1>12. Tallied'
  <2>1. CASE program = "generate-traffic"
    <3>1. Recorded /\ detectors # <<>>
          /\ \A what, fired : Right(program, what, since, fired) => fired = SetsOff(what)
      BY <2>1, TrafficRight
    <3>2. /\ tracer = "global" =>
               tally = (UNION {SetsOff(shape) : shape \in shown}) \cup session.fired
      BY <2>1 DEF HarnessInv, Tallied
    <3>3. /\ Overseen(detectors, program, since, t)
          /\ Tail(session.left) = <<>> => span.kind = "session"
          /\ Tail(session.left) # <<>> => span.kind # "session"
      BY <1>2, <1>3, <1>5, <3>1, WatchedLast
    <3>4. t.left = <<>> => t.fired = SetsOff(session.what)
      BY <1>6, <3>1, <3>3, WatchedLast
    <3> HIDE DEF span, marked
    <3>5. CASE t.left = <<>>
      <4>1. shown' = shown \cup {session.what}
        BY <1>1, <1>6, <2>1, <3>3, <3>5
      <4>2. ASSUME tracer = "global"
            PROVE  tally' = (UNION {SetsOff(shape) : shape \in shown'}) \cup session'.fired
        <5>1. tally' = (UNION {SetsOff(shape) : shape \in shown}) \cup t.fired
          BY <1>1, <1>6, <2>1, <3>2, <4>2
        <5>2. UNION {SetsOff(shape) : shape \in shown'} =
                (UNION {SetsOff(shape) : shape \in shown}) \cup SetsOff(session.what)
          BY <4>1
        <5> QED BY <1>7, <3>4, <3>5, <5>1, <5>2
      <4> QED BY <1>1, <1>6, <1>7, <2>1, <4>1, <4>2 DEF Tallied
    <3>6. CASE t.left # <<>>
      <4>1. shown' = shown
        BY <1>1, <1>6, <3>3, <3>6
      <4>2. tracer = "global" =>
              tally' = (UNION {SetsOff(shape) : shape \in shown'}) \cup session'.fired
        BY <1>1, <1>6, <1>7, <2>1, <3>2, <4>1
      <4>3. session'.left # <<>>
        BY <1>7, <3>6
      <4> QED BY <1>1, <2>1, <4>2, <4>3 DEF Tallied, Idle
    <3> QED BY <3>5, <3>6
  <2>2. CASE program # "generate-traffic"
    BY <1>1, <2>2 DEF HarnessInv, Tallied
  <2> QED BY <2>1, <2>2
<1>13. Published'
  BY <1>1 DEF HarnessInv, Published
<1> QED BY <1>8, <1>9, <1>11, <1>12, <1>13 DEF HarnessInv

LEMMA InitHostKeeps ==
  ASSUME HarnessInv, NEW service \in Services, NEW ceiling \in Ceilings, InitHost(service, ceiling)
  PROVE  HarnessInv'
<1>1. /\ Idle /\ program = "nobody" /\ session' = NoSession
      /\ detectors' = DefaultDetectors(ceiling # NoCeiling, ceiling)
      /\ since'.what = "init" /\ since'.ceiling = ceiling
      /\ UNCHANGED <<tracer, artifact, program, original, tally, shown, proving>>
  BY DEF InitHost, Initialize, RegisterDefaultDetectors, By, Nobody,
     traffic
<1>2. Installed'
  BY <1>1 DEF Installed, Replayers
<1>3. Traced'
  BY <1>1 DEF HarnessInv, Traced
<1>4. Running'
  BY <1>1 DEF Running
<1>5. Tallied'
  BY <1>1 DEF HarnessInv, Tallied
<1>6. Published'
  BY <1>1 DEF HarnessInv, Published
<1> QED BY <1>2, <1>3, <1>4, <1>5, <1>6 DEF HarnessInv

LEMMA EnterKeeps ==
  ASSUME HarnessInv, NEW replayer, NEW ceiling, Enter(replayer, ceiling),
         \/ replayer = "fixture-replay" /\ \E fixture \in Fixtures : ceiling = fixture.ceiling
         \/ replayer = "detector-gate" /\ ceiling = CorpusCeiling
         \/ replayer = "false-positives" /\ ceiling = NoCeiling
  PROVE  HarnessInv'
<1>1. /\ Idle /\ program = "nobody" /\ session' = NoSession
      /\ program' = replayer /\ original' = tracer /\ tracer' = replayer
      /\ detectors' = DetectorsOf(replayer, ceiling)
      /\ since'.what = "replay"
      /\ UNCHANGED <<provider, artifact, tally, shown, proving>>
  BY DEF Enter, By, Nobody, traffic
<1>2. replayer \in Replayers /\ replayer # "generate-traffic" /\ replayer # "proof-artifact"
      /\ replayer # "global"
  BY DEF Replayers
<1>3. /\ replayer = "fixture-replay" => detectors' = DefaultDetectors(TRUE, ceiling)
      /\ replayer = "detector-gate" =>
           detectors' = <<LoopDetector, WatchDetector, VerdictDetector, CeilingDetector(ceiling)>>
      /\ replayer = "false-positives" => detectors' = DefaultDetectors(FALSE, ceiling)
  BY <1>1 DEF DetectorsOf
<1>4. Installed'
  BY <1>1, <1>2, <1>3 DEF Installed
<1>5. Traced'
  <2>1. program \notin Replayers
    BY <1>1 DEF Replayers
  <2> QED BY <1>1, <1>2, <2>1 DEF HarnessInv, Traced, Replayers
<1>6. Running'
  BY <1>1 DEF Running
<1>7. Tallied'
  BY <1>1, <1>2 DEF HarnessInv, Tallied
<1>8. Published'
  BY <1>1 DEF HarnessInv, Published
<1> QED BY <1>4, <1>5, <1>6, <1>7, <1>8 DEF HarnessInv

LEMMA LeaveKeeps ==
  ASSUME HarnessInv, NEW aborted \in BOOLEAN, Leave(aborted)
  PROVE  HarnessInv'
<1>1. /\ program \in Replayers /\ program' = "nobody" /\ tracer' = original
      /\ detectors' = <<>> /\ session' = NoSession
      /\ UNCHANGED <<provider, artifact, original, tally, shown, since, proving>>
  BY DEF Leave, Nobody, traffic
<1>2. since.what = "replay"
  BY <1>1 DEF HarnessInv, Installed
<1>3. Installed'
  BY <1>1, <1>2 DEF Installed, Replayers
<1>4. Traced'
  BY <1>1 DEF HarnessInv, Traced, Replayers
<1>5. Running'
  BY <1>1 DEF Running
<1>6. Tallied'
  <2>1. program # "generate-traffic"
    BY <1>1 DEF Replayers
  <2> QED BY <1>1, <2>1 DEF HarnessInv, Tallied
<1>7. Published'
  BY <1>1 DEF HarnessInv, Published
<1> QED BY <1>3, <1>4, <1>5, <1>6, <1>7 DEF HarnessInv

LEMMA StartTrafficKeeps ==
  ASSUME HarnessInv, StartTraffic
  PROVE  HarnessInv'
<1>1. /\ Idle /\ program = "nobody" /\ session' = NoSession
      /\ program' = "generate-traffic" /\ provider' # "nobody"
      /\ detectors' = DefaultDetectors(TrafficCeiling # NoCeiling, TrafficCeiling)
      /\ since'.what = "init" /\ since'.ceiling = TrafficCeiling
      /\ UNCHANGED <<tracer, artifact, original, tally, shown, proving>>
  <2>1. "spanlight-demo-agent" # "nobody"
    OBVIOUS
  <2> QED
    BY <2>1 DEF StartTraffic, Initialize,
       RegisterDefaultDetectors, By, Nobody, traffic, Traffic
<1>2. Installed'
  BY <1>1 DEF Installed, Replayers
<1>3. Traced'
  BY <1>1 DEF HarnessInv, Traced, Replayers
<1>4. Running'
  BY <1>1 DEF Running
<1>5. Tallied'
  <2>1. tally = {} /\ shown = {}
    BY <1>1 DEF HarnessInv, Tallied
  <2> QED BY <1>1, <2>1, NoSessionIs DEF Tallied
<1>6. Published'
  BY <1>1 DEF HarnessInv, Published
<1> QED BY <1>2, <1>3, <1>4, <1>5, <1>6 DEF HarnessInv

LEMMA StopTrafficKeeps ==
  ASSUME HarnessInv, StopTraffic
  PROVE  HarnessInv'
<1>1. /\ program = "generate-traffic" /\ program' = "nobody" /\ session' = NoSession
      /\ tally' = {} /\ shown' = {}
      /\ UNCHANGED <<provider, label, detectors, tracer, artifact, original, since, proving>>
  BY DEF StopTraffic, Nobody, global
<1>2. Installed'
  BY <1>1 DEF HarnessInv, Installed, Replayers
<1>3. Traced'
  BY <1>1 DEF HarnessInv, Traced, Replayers
<1>4. Running'
  BY <1>1 DEF Running
<1>5. Tallied'
  BY <1>1 DEF Tallied
<1>6. Published'
  BY <1>1 DEF HarnessInv, Published
<1> QED BY <1>2, <1>3, <1>4, <1>5, <1>6 DEF HarnessInv

LEMMA ProveKeeps ==
  ASSUME HarnessInv, NEW endpoint \in BOOLEAN, NEW answered \in BOOLEAN, Prove(endpoint, answered)
  PROVE  HarnessInv'
<1> DEFINE outcome == IF answered THEN "returned" ELSE "raised"
           s == Begun("proof-artifact", answered, Request(answered), outcome)
<1>1. /\ program = "nobody" /\ program' = "proof-artifact"
      /\ tracer' \in {tracer, "proof-artifact"} /\ proving' = TRUE
      /\ detectors' = <<LoopDetector, WatchDetector, VerdictDetector>>
      /\ since'.what = "proof" /\ session' = s
      /\ ~(tracer' = "global" /\ provider' = "nobody")
      /\ UNCHANGED <<original, tally, shown, artifact>>
  BY NewSessionIs
  DEF Prove, ArtifactDetectors, By, Nobody, traffic
<1>2. Installed'
  BY <1>1 DEF Installed, Replayers
<1>3. Traced'
  BY <1>1 DEF HarnessInv, Traced, Replayers
<1>4. Running'
  <2>1. OfSpans(Request(answered)) /\ outcome \in Outcomes
    BY AllOfSpans DEF Outcomes
  <2>2. /\ IsSession(s) /\ s.whose = "proof-artifact" /\ s.left \in Seq(Span) /\ s.fired = {}
    <3> HIDE DEF outcome
    <3> QED BY <2>1, BegunIs
  <2>3. Overseen(detectors', "proof-artifact", since', s)
    BY <1>1, RequestBegins
  <2> HIDE DEF s
  <2> QED BY <1>1, <2>2, <2>3 DEF Running
<1>5. Tallied'
  BY <1>1 DEF HarnessInv, Tallied
<1>6. Published'
  BY <1>1 DEF HarnessInv, Published
<1> QED BY <1>2, <1>3, <1>4, <1>5, <1>6 DEF HarnessInv

LEMMA PublishKeeps ==
  ASSUME HarnessInv, Publish
  PROVE  HarnessInv'
<1>1. /\ Idle /\ program = "proof-artifact" /\ program' = "nobody" /\ session' = NoSession
      /\ artifact' = IF Collected = {} THEN artifact
                     ELSE [answered |-> session.what, shows |-> Collected]
      /\ UNCHANGED <<provider, label, detectors, tracer, original, tally, shown, since, proving>>
  BY DEF Publish, Nobody, global, traffic
<1>2. Installed'
  BY <1>1 DEF HarnessInv, Installed, Replayers
<1>3. Traced'
  BY <1>1 DEF HarnessInv, Traced, Replayers
<1>4. Running'
  BY <1>1 DEF Running
<1>5. Tallied'
  BY <1>1 DEF HarnessInv, Tallied
<1>6. Published'
  <2>1. CASE Collected = {}
    BY <1>1, <2>1 DEF HarnessInv, Published
  <2>2. CASE Collected # {}
    <3>1. Collected = session.fired /\ session.fired # {} /\ session # NoSession
      BY <2>2, NoSessionIs DEF Collected
    <3>2. Right("proof-artifact", session.what, since, session.fired)
      BY <1>1, <3>1, EndedRight
    <3>3. session.what = TRUE /\ session.fired = {"silent_tool_failure"}
      BY <3>1, <3>2 DEF Right
    <3>4. artifact' = [answered |-> session.what, shows |-> session.fired]
      BY <1>1, <2>2, <3>1
    <3> QED BY <3>3, <3>4 DEF Published
  <2> QED BY <2>1, <2>2
<1> QED BY <1>2, <1>3, <1>4, <1>5, <1>6 DEF HarnessInv

LEMMA InvStutters ==
  ASSUME HarnessInv, UNCHANGED vars
  PROVE  HarnessInv'
<1>1. UNCHANGED <<provider, label, detectors, tracer, program, original, session, artifact,
                  tally, shown, since, proving>>
  BY DEF vars, global, traffic
<1>2. Recorded' = Recorded
  BY <1>1 DEF Recorded
<1>3. Installed' /\ Traced' /\ Published'
  BY <1>1 DEF HarnessInv, Installed, Traced, Published
<1>4. Running'
  BY <1>1, <1>2 DEF HarnessInv, Running
<1>5. Tallied'
  BY <1>1 DEF HarnessInv, Tallied, Idle
<1> QED BY <1>3, <1>4, <1>5 DEF HarnessInv

LEMMA InvNext == HarnessInv /\ [Next]_vars => HarnessInv'
<1> SUFFICES ASSUME HarnessInv, [Next]_vars PROVE HarnessInv'
  OBVIOUS
<1>1. CASE \E service \in Services, ceiling \in Ceilings : InitHost(service, ceiling)
  BY <1>1, InitHostKeeps
<1>2. CASE HostSession \/ ShowShape
  BY <1>2, HostSessionKeeps
<1>3. CASE EndSpan
  BY <1>3, EndSpanKeeps
<1>4. CASE \/ \E fixture \in Fixtures : Enter("fixture-replay", fixture.ceiling)
           \/ Enter("detector-gate", CorpusCeiling)
           \/ Enter("false-positives", NoCeiling)
  <2>1. PICK replayer, ceiling :
          /\ Enter(replayer, ceiling)
          /\ \/ replayer = "fixture-replay" /\ \E fixture \in Fixtures : ceiling = fixture.ceiling
             \/ replayer = "detector-gate" /\ ceiling = CorpusCeiling
             \/ replayer = "false-positives" /\ ceiling = NoCeiling
    BY <1>4
  <2> QED BY <2>1, EnterKeeps
<1>5. CASE ReplayPattern \/ ReplayFixture \/ ReplayCorpus
  BY <1>5, ReplayKeeps
<1>6. CASE \E aborted \in BOOLEAN : Leave(aborted)
  BY <1>6, LeaveKeeps
<1>7. CASE StartTraffic
  BY <1>7, StartTrafficKeeps
<1>8. CASE StopTraffic
  BY <1>8, StopTrafficKeeps
<1>9. CASE \E endpoint, answered \in BOOLEAN : Prove(endpoint, answered)
  BY <1>9, ProveKeeps
<1>10. CASE Publish
  BY <1>10, PublishKeeps
<1>11. CASE UNCHANGED vars
  BY <1>11, InvStutters
<1> QED
  BY <1>1, <1>2, <1>3, <1>4, <1>5, <1>6, <1>7, <1>8, <1>9, <1>10, <1>11 DEF Next

LEMMA InvHolds == Spec => []HarnessInv
<1>1. Init => HarnessInv
  BY InvInit
<1>2. HarnessInv /\ [Next]_vars => HarnessInv'
  BY InvNext
<1> QED BY <1>1, <1>2, PTL DEF Spec

------------------------------------------------------------------------------
(* The theorems about Harness.                                              *)

\* Whatever the process ran before, a replay's report is a fact about the session
\* replayed.
THEOREM ReplaysReportTheSession == Spec => []ReplaysAreFaithful
<1>1. HarnessInv => ReplaysAreFaithful
  <2> SUFFICES ASSUME HarnessInv, Idle PROVE ReplaysAreFaithful
    BY DEF ReplaysAreFaithful
  <2>1. CASE session.whose \notin Replayers
    BY <2>1 DEF ReplaysAreFaithful, Replayers
  <2>2. CASE session.whose \in Replayers
    <3>1. session # NoSession
      BY <2>2, NoSessionIs DEF Replayers
    <3>2. session.whose = program
      BY <3>1, EndedRight
    <3>3. Recorded /\ detectors # <<>>
      <4>1. tracer # "global"
        BY <2>2, <3>2 DEF HarnessInv, Traced, Replayers
      <4>2. detectors # <<>>
        BY <2>2, <3>2, SomeDetectors DEF HarnessInv, Installed, Replayers
      <4> QED BY <4>1, <4>2 DEF Recorded
    <3>4. Right(program, session.what, since, session.fired)
      BY <3>1, <3>3, EndedRight
    <3>5. CASE program = "false-positives"
      BY <3>2, <3>4, <3>5 DEF ReplaysAreFaithful, Right, Promised
    <3>6. CASE program = "fixture-replay"
      BY <3>2, <3>4, <3>6 DEF ReplaysAreFaithful, Right
    <3>7. CASE program = "detector-gate"
      <4> DEFINE costs == session.what
                 spent == CHOOSE g : SpentIs(g, costs)
      <4>1. /\ \E g : SpentIs(g, costs)
            /\ \A g : SpentIs(g, costs) =>
                 session.fired = IF g[Len(costs)] > CorpusCeiling THEN {"cost_ceiling"} ELSE {}
        BY <3>4, <3>7 DEF Right
      <4>2. session.fired = IF spent[Len(costs)] > CorpusCeiling THEN {"cost_ceiling"} ELSE {}
        BY <4>1
      <4> QED BY <3>2, <3>7, <4>2 DEF ReplaysAreFaithful, SpentIs
    <3> QED BY <2>2, <3>2, <3>5, <3>6, <3>7 DEF Replayers
  <2> QED BY <2>1, <2>2
<1> QED BY <1>1, InvHolds, PTL

\* What a host's session is reported for depends on its shape and on what registered
\* the detectors last, and a replay gives the tracer back.
THEOREM HostsAreWatched == Spec => []HostIsWatched
<1>1. HarnessInv => HostIsWatched
  <2> SUFFICES ASSUME HarnessInv PROVE HostIsWatched
    OBVIOUS
  <2>1. /\ program \notin Replayers => tracer \in {"global", "proof-artifact"}
        /\ tracer = "proof-artifact" => proving
    BY DEF HarnessInv, Traced
  <2>2. ASSUME Idle, program = Nobody, session # NoSession
        PROVE  session.fired =
                 CASE ~Recorded -> {}
                   [] Recorded /\ since.what = "init" ->
                        SetsOff(session.what) \
                          (IF since.ceiling = NoCeiling THEN {"cost_ceiling"} ELSE {})
                   [] Recorded /\ since.what = "proof" ->
                        SetsOff(session.what) \cap {"loop", "silent_tool_failure"}
                   [] OTHER -> {}
    <3>1. /\ Recorded /\ detectors # <<>> =>
               Right(program, session.what, since, session.fired)
          /\ ~Recorded \/ detectors = <<>> => session.fired = {}
      BY <2>2, EndedRight
    <3>2. program = "nobody" /\ program \notin Replayers
      BY <2>2 DEF Nobody, Replayers
    <3>3. CASE ~Recorded
      BY <3>1, <3>3
    <3>4. CASE Recorded /\ since.what = "init"
      <4>1. detectors # <<>>
        BY <3>4, SomeDetectors DEF HarnessInv, Installed
      <4> QED BY <3>1, <3>2, <3>4, <4>1 DEF Right
    <3>5. CASE Recorded /\ since.what = "proof"
      <4>1. detectors # <<>>
        BY <3>5, SomeDetectors DEF HarnessInv, Installed
      <4> QED BY <3>1, <3>2, <3>5, <4>1 DEF Right
    <3>6. CASE Recorded /\ since.what \notin {"init", "proof"}
      <4>1. detectors = <<>>
        BY <3>2, <3>6 DEF HarnessInv, Installed
      <4> QED BY <3>1, <3>6, <4>1
    <3> QED BY <3>3, <3>4, <3>5, <3>6
  <2> QED BY <2>1, <2>2 DEF HostIsWatched
<1> QED BY <1>1, InvHolds, PTL

\* The traffic's tally is of the shapes it has shown, and what is published shows the
\* silent failure, of a request that was answered.
THEOREM DemonstrationsShow == Spec => []DemonstrationsShowIt
<1>1. HarnessInv => DemonstrationsShowIt
  <2> SUFFICES ASSUME HarnessInv PROVE DemonstrationsShowIt
    OBVIOUS
  <2>1. artifact.answered /\ artifact.shows = {"silent_tool_failure"}
    BY DEF HarnessInv, Published
  <2>2. ASSUME Idle, program = "generate-traffic", tracer = "global"
        PROVE  tally = UNION {SetsOff(shape) : shape \in shown}
    BY <2>2, TallySettled
  <2> QED BY <2>1, <2>2 DEF DemonstrationsShowIt
<1> QED BY <1>1, InvHolds, PTL

==============================================================================
