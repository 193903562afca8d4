-------------------------- MODULE Detection_proofs --------------------------
(***************************************************************************)
(* What one span can do to a session's scratch space, for every scratch    *)
(* space and every span: the lemmas the proofs about the registry rest on. *)
(***************************************************************************)
EXTENDS Detection, WellFoundedInduction, TLAPS

\* acc is what consulting some detectors about a span of this cost may leave
\* behind: a scratch space that has summed the cost, and at most one report, of
\* a type that had not fired and now has.
Leaves(acc, state, cost, types) ==
  /\ acc = [state |-> acc.state, emitted |-> acc.emitted]
  /\ acc.state \in Scratch
  /\ acc.state.cost = state.cost + cost
  /\ \/ acc.emitted = None /\ acc.state.fired = state.fired
     \/ /\ acc.emitted \in types \ state.fired
        /\ acc.state.fired = state.fired \cup {acc.emitted}

\* A new session's scratch space is well formed.
LEMMA FreshType == Fresh \in Scratch
BY DEF Fresh, Scratch

\* A span's cost is a number and its call a known one or none.
LEMMA SpanFields ==
  ASSUME NEW span \in Span
  PROVE  /\ span.cost \in Nat
         /\ span.call \in Calls \cup {NoCall}
         /\ span.kind = "tool" => span.outcome \in Outcomes
BY DetectionAssumption DEF Span

\* Summing the cost of a span changes nothing else.
LEMMA AddCostLeaves ==
  ASSUME NEW state \in Scratch, NEW span \in Span
  PROVE  /\ AddCost(state, span) \in Scratch
         /\ AddCost(state, span).cost = state.cost + span.cost
         /\ AddCost(state, span).fired = state.fired
BY SpanFields DEF AddCost, Scratch

\* None of the three observing detectors touches the cost or what has fired.
LEMMA ObserversKeep ==
  ASSUME NEW state \in Scratch, NEW span \in Span
  PROVE  /\ CountCall(state, span) \in Scratch
         /\ CountCall(state, span).cost = state.cost
         /\ CountCall(state, span).fired = state.fired
         /\ CountFailedAttempt(state, span) \in Scratch
         /\ CountFailedAttempt(state, span).cost = state.cost
         /\ CountFailedAttempt(state, span).fired = state.fired
         /\ Watch(state, span) \in Scratch
         /\ Watch(state, span).cost = state.cost
         /\ Watch(state, span).fired = state.fired
<1>1. /\ CountCall(state, span) \in Scratch
      /\ CountCall(state, span).cost = state.cost
      /\ CountCall(state, span).fired = state.fired
  BY SpanFields DEF CountCall, Countable, Scratch
<1>2. /\ CountFailedAttempt(state, span) \in Scratch
      /\ CountFailedAttempt(state, span).cost = state.cost
      /\ CountFailedAttempt(state, span).fired = state.fired
  BY DEF CountFailedAttempt, Scratch
<1>3. /\ Watch(state, span) \in Scratch
      /\ Watch(state, span).cost = state.cost
      /\ Watch(state, span).fired = state.fired
  BY DEF Watch, Scratch
<1> QED BY <1>1, <1>2, <1>3

\* A detector that is consulted reports at most once, and only a type that has
\* not fired.
LEMMA ReportLeaves ==
  ASSUME NEW state \in Scratch, NEW seen \in Scratch, NEW cost \in Nat,
         NEW crossed, NEW types \in SUBSET Types, NEW type \in types,
         seen.cost = state.cost + cost, seen.fired = state.fired
  PROVE  Leaves(Report(Unreported(seen), type, crossed), state, cost, types)
<1>1. CASE crossed /\ type \notin seen.fired
  <2> DEFINE new == [seen EXCEPT !.fired = @ \cup {type}]
             acc == Report(Unreported(seen), type, crossed)
  <2>1. acc = [state |-> new, emitted |-> type]
    BY <1>1 DEF Report, Unreported
  <2>2. /\ new \in Scratch
        /\ new.cost = seen.cost
        /\ new.fired = seen.fired \cup {type}
    BY DEF Scratch
  <2> HIDE DEF new, acc
  <2>3. acc = [state |-> acc.state, emitted |-> acc.emitted]
          /\ acc.state = new /\ acc.emitted = type
    BY <2>1
  <2>4. Leaves(acc, state, cost, types)
    BY <1>1, <2>2, <2>3 DEF Leaves
  <2> QED BY <2>4 DEF acc
<1>2. CASE ~(crossed /\ type \notin seen.fired)
  BY <1>2 DEF Report, Unreported, Leaves
<1> QED BY <1>1, <1>2

\* What fires before the ceiling is consulted.
EarlyTypes == {"loop", "retry_amplification"}

BeforeCeiling(state, span) ==
  AfterWatch(AfterRetry(AfterLoop(AddCost(state, span), span), span), span)

\* A span that is no session span: the chain of detectors registered for spans,
\* each consulted only while the slot is free, as far as the ceiling.
LEMMA BeforeCeilingLeaves ==
  ASSUME NEW state \in Scratch, NEW span \in Span
  PROVE  Leaves(BeforeCeiling(state, span), state, span.cost, EarlyTypes)
<1> DEFINE summed == AddCost(state, span)
           loop   == AfterLoop(summed, span)
           retry  == AfterRetry(loop, span)
           watch  == AfterWatch(retry, span)
           After(acc) == Leaves(acc, state, span.cost, EarlyTypes)
<1>0. span.cost \in Nat /\ EarlyTypes \in SUBSET Types
  BY SpanFields DEF EarlyTypes, SpanTypes, Types
<1>1. summed \in Scratch /\ summed.cost = state.cost + span.cost
        /\ summed.fired = state.fired
  BY AddCostLeaves
<1>2. After(loop)
  <2>1. CountCall(summed, span) \in Scratch
          /\ CountCall(summed, span).cost = state.cost + span.cost
          /\ CountCall(summed, span).fired = state.fired
    BY <1>1, ObserversKeep
  <2>2. "loop" \in EarlyTypes
    BY DEF EarlyTypes
  <2> QED BY <1>0, <2>1, <2>2, ReportLeaves DEF AfterLoop
<1>3. After(retry)
  <2>1. CASE loop.emitted # None
    BY <1>2, <2>1 DEF AfterRetry
  <2>2. CASE loop.emitted = None
    <3>1. loop.state \in Scratch /\ loop.state.cost = state.cost + span.cost
            /\ loop.state.fired = state.fired
      BY <1>2, <2>2 DEF Leaves, None, EarlyTypes
    <3>2. CountFailedAttempt(loop.state, span) \in Scratch
            /\ CountFailedAttempt(loop.state, span).cost = state.cost + span.cost
            /\ CountFailedAttempt(loop.state, span).fired = state.fired
      BY <3>1, ObserversKeep
    <3>3. "retry_amplification" \in EarlyTypes
      BY DEF EarlyTypes
    <3> QED BY <1>0, <2>2, <3>2, <3>3, ReportLeaves DEF AfterRetry
  <2> QED BY <2>1, <2>2
<1>4. After(watch)
  <2>1. CASE retry.emitted # None
    BY <1>3, <2>1 DEF AfterWatch
  <2>2. CASE retry.emitted = None
    <3>1. retry.state \in Scratch /\ retry.state.cost = state.cost + span.cost
            /\ retry.state.fired = state.fired
      BY <1>3, <2>2 DEF Leaves, None, EarlyTypes
    <3>2. Watch(retry.state, span) \in Scratch
            /\ Watch(retry.state, span).cost = state.cost + span.cost
            /\ Watch(retry.state, span).fired = state.fired
      BY <3>1, ObserversKeep
    <3> QED BY <2>2, <3>2 DEF AfterWatch, Unreported, Leaves
  <2> QED BY <2>1, <2>2
<1> QED BY <1>4 DEF BeforeCeiling

\* ... and the ceiling last: it reports only what its own cost and the sum say, and
\* stays silent only when they say nothing or it has reported before.
LEMMA RunSpanLeaves ==
  ASSUME NEW state \in Scratch, NEW span \in Span
  PROVE  LET run  == RunSpan(state, span)
             over == CeilingSet /\ span.cost > 0 /\ state.cost + span.cost > CostCeiling
         IN  /\ Leaves(run, state, span.cost, SpanTypes)
             /\ run.emitted = "cost_ceiling" => over /\ "cost_ceiling" \notin state.fired
             /\ run.emitted = None => ~over \/ "cost_ceiling" \in state.fired
<1> DEFINE watch == BeforeCeiling(state, span)
           run   == RunSpan(state, span)
           over  == CeilingSet /\ span.cost > 0 /\ state.cost + span.cost > CostCeiling
<1>1. Leaves(watch, state, span.cost, EarlyTypes)
  BY BeforeCeilingLeaves
<1>2. run = AfterCeiling(watch, span)
  BY DEF RunSpan, BeforeCeiling
<1>3. span.cost \in Nat /\ SpanTypes \in SUBSET Types /\ "cost_ceiling" \in SpanTypes
  BY SpanFields DEF SpanTypes, Types
<1> HIDE DEF watch, run
<1>4. CASE watch.emitted # None
  <2>1. run = watch /\ watch.emitted \in EarlyTypes
    BY <1>1, <1>2, <1>4 DEF AfterCeiling, Leaves
  <2> QED
    BY <1>1, <1>4, <2>1 DEF Leaves, EarlyTypes, SpanTypes, run
<1>5. CASE watch.emitted = None
  <2>1. /\ watch = Unreported(watch.state) /\ watch.state \in Scratch
        /\ watch.state.cost = state.cost + span.cost
        /\ watch.state.fired = state.fired
    BY <1>1, <1>5 DEF Leaves, None, EarlyTypes, Unreported
  <2>2. run = Report(Unreported(watch.state), "cost_ceiling", over)
    BY <1>2, <1>5, <2>1 DEF AfterCeiling, OverCeiling
  <2>3. Leaves(run, state, span.cost, SpanTypes)
    BY <1>3, <2>1, <2>2, ReportLeaves
  <2>4. run.emitted = IF over /\ "cost_ceiling" \notin state.fired THEN "cost_ceiling" ELSE None
    <3>1. CASE over /\ "cost_ceiling" \notin watch.state.fired
      BY <2>1, <2>2, <3>1 DEF Report
    <3>2. CASE ~(over /\ "cost_ceiling" \notin watch.state.fired)
      BY <2>1, <2>2, <3>2 DEF Report, Unreported
    <3> QED
      BY <2>1, <3>1, <3>2
  <2> QED
    BY <2>3, <2>4 DEF run, None
<1> QED
  BY <1>4, <1>5

\* The session span's own detector.
LEMMA RunSessionLeaves ==
  ASSUME NEW state \in Scratch, NEW span \in Span
  PROVE  Leaves(RunSession(state, span), state, span.cost, {"silent_tool_failure"})
<1>1. span.cost \in Nat /\ {"silent_tool_failure"} \in SUBSET Types
  BY SpanFields DEF Types
<1> QED BY <1>1, AddCostLeaves, ReportLeaves DEF RunSession

------------------------------------------------------------------------------
(* What consulting the detectors about a span does, exactly.                *)

\* Two scratch spaces have the same of the session's history.
SameFacts(s, u) ==
  /\ s.calls = u.calls /\ s.failedAttempts = u.failedAttempts
  /\ s.toolFailed = u.toolFailed /\ s.recovered = u.recovered /\ s.modelAfter = u.modelAfter

\* A report changes what has fired and nothing else.
LEMMA ReportKeeps ==
  ASSUME NEW s \in Scratch, NEW type \in Types, NEW crossed \in BOOLEAN
  PROVE  LET acc == Report(Unreported(s), type, crossed)
         IN  /\ SameFacts(acc.state, s) /\ acc.state \in Scratch
             /\ acc.emitted = IF crossed /\ type \notin s.fired THEN type ELSE None
             /\ acc.emitted = None => acc = Unreported(s)
<1>1. CASE crossed /\ type \notin s.fired
  <2> DEFINE new == [s EXCEPT !.fired = @ \cup {type}]
             acc == Report(Unreported(s), type, crossed)
  <2>1. new \in Scratch /\ SameFacts(new, s)
    BY DEF Scratch, SameFacts
  <2>2. acc = [state |-> new, emitted |-> type]
    BY <1>1 DEF Report, Unreported
  <2>3. type # None
    BY DEF Types, SpanTypes, None
  <2> HIDE DEF new, acc
  <2>4. acc.state = new /\ acc.emitted = type
    BY <2>2
  <2>5. /\ SameFacts(acc.state, s) /\ acc.state \in Scratch
        /\ acc.emitted = IF crossed /\ type \notin s.fired THEN type ELSE None
        /\ acc.emitted = None => acc = Unreported(s)
    BY <1>1, <2>1, <2>3, <2>4
  <2> QED
    BY <2>5 DEF acc
<1>2. CASE ~(crossed /\ type \notin s.fired)
  BY <1>2 DEF Report, Unreported, SameFacts
<1> QED
  BY <1>1, <1>2

\* The three kinds of span the observing detectors look at exclude one another.
LEMMA OneKind ==
  ASSUME NEW span \in Span
  PROVE  /\ Countable(span) => ~FailedAttempt(span) /\ span.kind = "tool" /\ ~IsError(span)
                                 /\ span.call \in Calls
         /\ FailedAttempt(span) => span.kind = "attempt"
BY DEF Span, Countable, FailedAttempt

LEMMA ObserversCount ==
  ASSUME NEW s \in Scratch, NEW span \in Span
  PROVE  /\ SameFacts(AddCost(s, span), s)
         /\ AddCost(s, span).fired = s.fired
         /\ ~Countable(span) => CountCall(s, span) = s
         /\ Countable(span) =>
              /\ CountCall(s, span).calls = [s.calls EXCEPT ![span.call] = @ + 1]
              /\ CountCall(s, span).failedAttempts = s.failedAttempts
              /\ CountCall(s, span).toolFailed = s.toolFailed
              /\ CountCall(s, span).recovered = s.recovered
              /\ CountCall(s, span).modelAfter = s.modelAfter
         /\ ~FailedAttempt(span) => CountFailedAttempt(s, span) = s
         /\ FailedAttempt(span) =>
              /\ CountFailedAttempt(s, span).calls = s.calls
              /\ CountFailedAttempt(s, span).failedAttempts = s.failedAttempts + 1
              /\ CountFailedAttempt(s, span).toolFailed = s.toolFailed
              /\ CountFailedAttempt(s, span).recovered = s.recovered
              /\ CountFailedAttempt(s, span).modelAfter = s.modelAfter
         /\ Watch(s, span).calls = s.calls
         /\ Watch(s, span).failedAttempts = s.failedAttempts
         /\ Watch(s, span).toolFailed = (s.toolFailed \/ (span.kind = "tool" /\ IsError(span)))
         /\ Watch(s, span).recovered =
              (s.recovered \/ (span.kind = "tool" /\ ~IsError(span) /\ s.toolFailed))
         /\ Watch(s, span).modelAfter = (s.modelAfter \/ (span.kind = "model" /\ s.toolFailed))
<1>1. SameFacts(AddCost(s, span), s) /\ AddCost(s, span).fired = s.fired
  BY DEF AddCost, SameFacts, Scratch
<1>2. Countable(span) =>
        /\ CountCall(s, span).calls = [s.calls EXCEPT ![span.call] = @ + 1]
        /\ CountCall(s, span).failedAttempts = s.failedAttempts
        /\ CountCall(s, span).toolFailed = s.toolFailed
        /\ CountCall(s, span).recovered = s.recovered
        /\ CountCall(s, span).modelAfter = s.modelAfter
  BY DEF CountCall, Scratch
<1>3. FailedAttempt(span) =>
        /\ CountFailedAttempt(s, span).calls = s.calls
        /\ CountFailedAttempt(s, span).failedAttempts = s.failedAttempts + 1
        /\ CountFailedAttempt(s, span).toolFailed = s.toolFailed
        /\ CountFailedAttempt(s, span).recovered = s.recovered
        /\ CountFailedAttempt(s, span).modelAfter = s.modelAfter
  BY DEF CountFailedAttempt, Scratch
<1>4. /\ Watch(s, span).calls = s.calls
      /\ Watch(s, span).failedAttempts = s.failedAttempts
      /\ Watch(s, span).toolFailed = (s.toolFailed \/ (span.kind = "tool" /\ IsError(span)))
      /\ Watch(s, span).recovered =
           (s.recovered \/ (span.kind = "tool" /\ ~IsError(span) /\ s.toolFailed))
      /\ Watch(s, span).modelAfter = (s.modelAfter \/ (span.kind = "model" /\ s.toolFailed))
  BY DEF Watch, Scratch
<1> QED
  BY <1>1, <1>2, <1>3, <1>4 DEF CountCall, CountFailedAttempt

LEMMA RunSpanFacts ==
  ASSUME NEW s \in Scratch, NEW span \in Span
  PROVE  LET r == RunSpan(s, span)
             looped == /\ Countable(span) /\ "loop" \notin s.fired
                       /\ s.calls[span.call] + 1 >= LoopThreshold
             amplified == /\ FailedAttempt(span) /\ "retry_amplification" \notin s.fired
                          /\ s.failedAttempts + 1 >= RetryThreshold
         IN  /\ r.emitted = "loop" <=> looped
             /\ r.emitted = "retry_amplification" <=> amplified
             /\ r.state.calls = IF Countable(span)
                                THEN [s.calls EXCEPT ![span.call] = @ + 1] ELSE s.calls
             /\ r.state.failedAttempts = IF FailedAttempt(span)
                                         THEN s.failedAttempts + 1 ELSE s.failedAttempts
             /\ r.state.toolFailed = (s.toolFailed \/ (span.kind = "tool" /\ IsError(span)))
             /\ r.state.recovered = (s.recovered \/ (/\ span.kind = "tool" /\ ~IsError(span)
                                                     /\ s.toolFailed /\ ~looped))
             /\ r.state.modelAfter = (s.modelAfter \/ (span.kind = "model" /\ s.toolFailed))
<1> DEFINE summed  == AddCost(s, span)
           counted == CountCall(summed, span)
           loop    == AfterLoop(summed, span)
           retry   == AfterRetry(loop, span)
           watch   == AfterWatch(retry, span)
           r       == RunSpan(s, span)
           looped  == /\ Countable(span) /\ "loop" \notin s.fired
                      /\ s.calls[span.call] + 1 >= LoopThreshold
<1>1. summed \in Scratch /\ SameFacts(summed, s) /\ summed.fired = s.fired
  BY AddCostLeaves, ObserversCount
<1>2. counted \in Scratch /\ counted.fired = s.fired
  BY <1>1, ObserversKeep
<1>3. Looping(counted, span) \in BOOLEAN /\ (Looping(counted, span) /\ "loop" \notin s.fired <=> looped)
  <2>1. CASE Countable(span)
    <3>1. counted.calls = [s.calls EXCEPT ![span.call] = @ + 1]
      BY <1>1, <2>1, ObserversCount DEF SameFacts
    <3>2. span.call \in Calls /\ s.calls \in [Calls -> Nat]
      BY <2>1, OneKind DEF Scratch
    <3>3. counted.calls[span.call] = s.calls[span.call] + 1
      BY <3>1, <3>2
    <3> QED
      BY <2>1, <3>3 DEF Looping
  <2>2. CASE ~Countable(span)
    BY <2>2 DEF Looping
  <2> QED
    BY <2>1, <2>2
<1>4. /\ loop.state \in Scratch /\ SameFacts(loop.state, counted)
      /\ loop.emitted = IF looped THEN "loop" ELSE None
      /\ loop.emitted = None => loop = Unreported(counted)
  <2>1. "loop" \in Types
    BY DEF Types, SpanTypes
  <2> HIDE DEF looped, counted
  <2> QED
    BY <1>2, <1>3, <2>1, ReportKeeps DEF AfterLoop, counted
<1> DEFINE Outcome ==
             /\ r.emitted = "loop" <=> looped
             /\ r.emitted = "retry_amplification" <=>
                  /\ FailedAttempt(span) /\ "retry_amplification" \notin s.fired
                  /\ s.failedAttempts + 1 >= RetryThreshold
             /\ r.state.calls = IF Countable(span)
                                THEN [s.calls EXCEPT ![span.call] = @ + 1] ELSE s.calls
             /\ r.state.failedAttempts = IF FailedAttempt(span)
                                         THEN s.failedAttempts + 1 ELSE s.failedAttempts
             /\ r.state.toolFailed = (s.toolFailed \/ (span.kind = "tool" /\ IsError(span)))
             /\ r.state.recovered = (s.recovered \/ (/\ span.kind = "tool" /\ ~IsError(span)
                                                     /\ s.toolFailed /\ ~looped))
             /\ r.state.modelAfter = (s.modelAfter \/ (span.kind = "model" /\ s.toolFailed))
<1>5. s.toolFailed \in BOOLEAN /\ s.recovered \in BOOLEAN /\ s.modelAfter \in BOOLEAN
      /\ s.failedAttempts \in Nat
  BY DEF Scratch
<1>6. CASE looped
  <2>1. r = loop /\ loop.emitted = "loop"
    BY <1>4, <1>6 DEF RunSpan, AfterRetry, AfterWatch, AfterCeiling, None
  <2>2. /\ Countable(span) /\ ~FailedAttempt(span) /\ span.kind = "tool" /\ ~IsError(span)
        /\ SameFacts(r.state, counted)
    BY <1>4, <1>6, <2>1, OneKind
  <2>3. /\ counted.calls = [s.calls EXCEPT ![span.call] = @ + 1]
        /\ counted.failedAttempts = s.failedAttempts /\ counted.toolFailed = s.toolFailed
        /\ counted.recovered = s.recovered /\ counted.modelAfter = s.modelAfter
    BY <1>1, <2>2, ObserversCount DEF SameFacts
  <2> HIDE DEF counted, looped, loop, r
  <2>4. Outcome
    BY <1>5, <1>6, <2>1, <2>2, <2>3 DEF SameFacts
  <2> QED
    BY <2>4 DEF Outcome, looped, r
<1>7. CASE ~looped
  <2> DEFINE tried     == CountFailedAttempt(counted, span)
             amplified == /\ FailedAttempt(span) /\ "retry_amplification" \notin s.fired
                          /\ s.failedAttempts + 1 >= RetryThreshold
  <2>1. loop = Unreported(counted) /\ loop.emitted = None /\ loop.state = counted
    BY <1>4, <1>7 DEF Unreported
  <2>2. retry = Report(Unreported(tried), "retry_amplification", Amplifying(tried, span))
    BY <2>1 DEF AfterRetry
  <2>3. tried \in Scratch /\ tried.fired = s.fired
    BY <1>2, ObserversKeep
  <2>4. /\ tried.calls = IF Countable(span)
                         THEN [s.calls EXCEPT ![span.call] = @ + 1] ELSE s.calls
        /\ tried.failedAttempts = IF FailedAttempt(span)
                                  THEN s.failedAttempts + 1 ELSE s.failedAttempts
        /\ tried.toolFailed = s.toolFailed /\ tried.recovered = s.recovered
        /\ tried.modelAfter = s.modelAfter
    <3>1. /\ counted.calls = IF Countable(span)
                             THEN [s.calls EXCEPT ![span.call] = @ + 1] ELSE s.calls
          /\ counted.failedAttempts = s.failedAttempts
          /\ counted.toolFailed = s.toolFailed /\ counted.recovered = s.recovered
          /\ counted.modelAfter = s.modelAfter
      <4> HIDE DEF summed
      <4>1. CASE Countable(span)
        BY <1>1, <4>1, ObserversCount DEF SameFacts
      <4>2. CASE ~Countable(span)
        BY <1>1, <4>2, ObserversCount DEF SameFacts
      <4> QED
        BY <4>1, <4>2
    <3> HIDE DEF counted
    <3>2. CASE FailedAttempt(span)
      BY <1>2, <3>1, <3>2, ObserversCount
    <3>3. CASE ~FailedAttempt(span)
      BY <1>2, <3>1, <3>3, ObserversCount
    <3> QED
      BY <3>2, <3>3
  <2>5. Amplifying(tried, span) \in BOOLEAN
        /\ (Amplifying(tried, span) /\ "retry_amplification" \notin tried.fired <=> amplified)
    <3>1. FailedAttempt(span) \in BOOLEAN
      BY DEF FailedAttempt
    <3> QED
      BY <2>3, <2>4, <3>1 DEF Amplifying
  <2>6. /\ retry.state \in Scratch /\ SameFacts(retry.state, tried)
        /\ retry.emitted = IF amplified THEN "retry_amplification" ELSE None
        /\ retry.emitted = None => retry = Unreported(tried)
    <3>1. "retry_amplification" \in Types
      BY DEF Types, SpanTypes
    <3> HIDE DEF amplified, tried, retry
    <3> QED
      BY <2>2, <2>3, <2>5, <3>1, ReportKeeps
  <2>7. CASE amplified
    <3>1. r = retry /\ r.emitted = "retry_amplification"
      <4>1. retry.emitted = "retry_amplification"
        <5> HIDE DEF retry, amplified, tried
        <5> QED
          BY <2>6, <2>7
      <4>2. retry.emitted # None
        <5> HIDE DEF retry
        <5> QED
          BY <4>1 DEF None
      <4>3. watch = retry
        BY <4>2 DEF AfterWatch
      <4>4. r = AfterCeiling(watch, span)
        BY DEF RunSpan
      <4>5. r = retry
        <5> HIDE DEF retry, watch, r
        <5> QED
          BY <4>2, <4>3, <4>4 DEF AfterCeiling
      <4> HIDE DEF retry, r
      <4> QED
        BY <4>1, <4>5
    <3>2. span.kind = "attempt" /\ FailedAttempt(span) /\ ~Countable(span)
      <4>1. FailedAttempt(span)
        BY <2>7
      <4> QED
        BY <4>1, OneKind
    <3> HIDE DEF tried, retry, r, looped
    <3>3. Outcome
      BY <1>5, <1>7, <2>4, <2>6, <2>7, <3>1, <3>2 DEF SameFacts
    <3> QED
      BY <3>3 DEF Outcome, looped, r
  <2>8. CASE ~amplified
    <3> DEFINE seen == Watch(tried, span)
    <3>1. watch = Unreported(seen) /\ watch.emitted = None /\ watch.state = seen
      BY <2>6, <2>8 DEF AfterWatch, Unreported
    <3>2. r = Report(Unreported(seen), "cost_ceiling", OverCeiling(seen, span))
      BY <3>1 DEF RunSpan, AfterCeiling
    <3>3. seen \in Scratch
      BY <2>3, ObserversKeep
    <3>4. SameFacts(r.state, seen) /\ r.emitted \in {"cost_ceiling", None}
      <4>1. "cost_ceiling" \in Types /\ OverCeiling(seen, span) \in BOOLEAN
        BY DetectionAssumption DEF Types, SpanTypes, OverCeiling
      <4> HIDE DEF seen, r
      <4> QED
        BY <3>2, <3>3, <4>1, ReportKeeps
    <3>5. /\ seen.calls = tried.calls /\ seen.failedAttempts = tried.failedAttempts
          /\ seen.toolFailed = (tried.toolFailed \/ (span.kind = "tool" /\ IsError(span)))
          /\ seen.recovered =
               (tried.recovered \/ (span.kind = "tool" /\ ~IsError(span) /\ tried.toolFailed))
          /\ seen.modelAfter = (tried.modelAfter \/ (span.kind = "model" /\ tried.toolFailed))
      BY <2>3, ObserversCount
    <3> HIDE DEF tried, retry, seen, r, looped
    <3>6. Outcome
      BY <1>5, <1>7, <2>4, <2>8, <3>4, <3>5 DEF SameFacts, None
    <3> QED
      BY <3>6 DEF Outcome, looped, r
  <2> QED
    BY <2>7, <2>8
<1> QED
  BY <1>6, <1>7

\* The verdict on a session span, in terms of what the watcher kept.
LEMMA VerdictFacts ==
  ASSUME NEW s \in Scratch, NEW span \in Span, "silent_tool_failure" \notin s.fired
  PROVE  RunSession(s, span).emitted = "silent_tool_failure"
           <=> s.modelAfter /\ ~IsError(span) /\ ~s.recovered
<1> DEFINE summed == AddCost(s, span)
           crossed == SilentFailure(summed, span)
           acc == Report(Unreported(summed), "silent_tool_failure", crossed)
<1>1. summed \in Scratch /\ SameFacts(summed, s) /\ summed.fired = s.fired
  BY AddCostLeaves, ObserversCount
<1>2. s.modelAfter \in BOOLEAN /\ s.recovered \in BOOLEAN
  BY DEF Scratch
<1>3. crossed \in BOOLEAN /\ (crossed <=> s.modelAfter /\ ~IsError(span) /\ ~s.recovered)
  BY <1>1, <1>2 DEF SilentFailure, SameFacts
<1>4. "silent_tool_failure" \in Types /\ None # "silent_tool_failure"
  BY DEF Types, None
<1> HIDE DEF summed, crossed
<1>5. acc.emitted = IF crossed /\ "silent_tool_failure" \notin summed.fired
                    THEN "silent_tool_failure" ELSE None
  BY <1>1, <1>3, <1>4, ReportKeeps
<1>6. acc.emitted = "silent_tool_failure" <=> crossed
  BY <1>1, <1>4, <1>5
<1>7. RunSession(s, span) = acc
  BY DEF RunSession, summed, crossed
<1> HIDE DEF acc
<1> QED
  BY <1>3, <1>6, <1>7

------------------------------------------------------------------------------
(* The detectors as registered.                                             *)

\* f is what the first n detectors, consulted in turn, have left behind.
InTurn(f, n, detectors, state, span) ==
  f = [i \in 0..n |-> IF i = 0 THEN Unreported(AddCost(state, span))
                      ELSE Consult(f[i - 1], detectors[i], span)]

\* However many detectors there are, there is such an f: take the fewest for which
\* there were none, and consult the last of them after the others.
LEMMA InTurnExists ==
  ASSUME NEW detectors, NEW state, NEW span, NEW n \in Nat
  PROVE  \E f : InTurn(f, n, detectors, state, span)
<1> DEFINE Some(k) == \E f : InTurn(f, k, detectors, state, span)
           S == {k \in Nat : ~Some(k)}
<1>1. Some(0)
  <2> DEFINE f == [i \in 0..0 |-> Unreported(AddCost(state, span))]
  <2>1. InTurn(f, 0, detectors, state, span)
    BY DEF InTurn
  <2> QED BY <2>1
<1>2. ASSUME NEW k \in Nat, Some(k)
      PROVE  Some(k + 1)
  <2>1. PICK f : InTurn(f, k, detectors, state, span)
    BY <1>2
  <2> DEFINE g == [i \in 0..(k + 1) |-> IF i = k + 1
                                        THEN Consult(f[k], detectors[k + 1], span) ELSE f[i]]
  <2>2. ASSUME NEW i \in 0..(k + 1)
        PROVE  g[i] = IF i = 0 THEN Unreported(AddCost(state, span))
                      ELSE Consult(g[i - 1], detectors[i], span)
    <3>1. CASE i = k + 1
      BY <3>1
    <3>2. CASE i # k + 1
      <4>1. i \in 0..k /\ g[i] = f[i] /\ (i # 0 => g[i - 1] = f[i - 1])
        BY <3>2
      <4> QED BY <2>1, <4>1 DEF InTurn
    <3> QED BY <3>1, <3>2
  <2>3. InTurn(g, k + 1, detectors, state, span)
    <3> HIDE DEF g
    <3>1. g = [i \in 0..(k + 1) |-> g[i]]
      BY DEF g
    <3> QED BY <2>2, <3>1 DEF InTurn
  <2> QED BY <2>3
<1>3. S = {}
  <2> SUFFICES ASSUME S # {} PROVE FALSE
    OBVIOUS
  <2>1. PICK least \in S : \A k \in S : <<k, least>> \notin OpToRel(<, Nat)
    <3> HIDE DEF Some
    <3> QED BY NatLessThanWellFounded, WFMin
  <2> HIDE DEF Some
  <2>0. least \in Nat /\ ~Some(least)
    OBVIOUS
  <2>2. least # 0 /\ least - 1 \in Nat
    BY <1>1, <2>0
  <2>3. <<least - 1, least>> \in OpToRel(<, Nat)
    BY <2>0, <2>2 DEF OpToRel
  <2>4. Some(least - 1)
    BY <2>1, <2>2, <2>3
  <2>5. Some((least - 1) + 1)
    BY <1>2, <2>2, <2>4
  <2>6. (least - 1) + 1 = least
    BY <2>0
  <2> QED BY <2>0, <2>5, <2>6
<1> QED BY <1>3

\* The registry's loop is the detectors one after another.
LEMMA RunsInTurn ==
  ASSUME NEW detectors, Len(detectors) \in Nat, NEW state, NEW span
  PROVE  \E f : /\ f[0] = Unreported(AddCost(state, span))
                /\ \A i \in 1..Len(detectors) :
                     f[i] = Consult(f[i - 1], detectors[i], span)
                /\ RunRegistered(detectors, state, span) = f[Len(detectors)]
<1> DEFINE n == Len(detectors)
           f == CHOOSE g : InTurn(g, n, detectors, state, span)
<1>1. InTurn(f, n, detectors, state, span)
  BY InTurnExists
<1>2. RunRegistered(detectors, state, span) = f[n]
  BY DEF RunRegistered, InTurn
<1> HIDE DEF f
<1>3. f[0] = Unreported(AddCost(state, span))
  BY <1>1 DEF InTurn
<1>4. \A i \in 1..n : f[i] = Consult(f[i - 1], detectors[i], span)
  BY <1>1 DEF InTurn
<1> QED BY <1>2, <1>3, <1>4

\* With none registered a span is only paid for (_detector_framework.py:160).
LEMMA NoneRegistered ==
  ASSUME NEW state, NEW span
  PROVE  RunRegistered(<<>>, state, span) = Unreported(AddCost(state, span))
<1>1. Len(<<>>) = 0
  OBVIOUS
<1> QED BY <1>1, RunsInTurn

\* The fixed order of RunSpan and RunSession is what the registry's loop comes to for
\* the detectors init() registers (_setup.py:142-148), with a ceiling and without: of
\* every span, after whatever has happened in its session.
THEOREM DefaultsAsRegistered ==
  ASSUME NEW state \in Scratch, NEW span \in Span
  PROVE  RunRegistered(DefaultDetectors(CeilingSet, CostCeiling), state, span) =
           IF span.kind = "session" THEN RunSession(state, span) ELSE RunSpan(state, span)
<1> DEFINE D == DefaultDetectors(CeilingSet, CostCeiling)
           run == RunRegistered(D, state, span)
           start == Unreported(AddCost(state, span))
<1>1. /\ Len(D) = IF CeilingSet THEN 5 ELSE 4
      /\ D[1] = LoopDetector /\ D[2] = RetryDetector /\ D[3] = WatchDetector
      /\ D[4] = VerdictDetector /\ (CeilingSet => D[5] = CeilingDetector(CostCeiling))
  BY DetectionAssumption DEF DefaultDetectors
<1> HIDE DEF D
<1>2. PICK f : /\ f[0] = start
               /\ \A i \in 1..Len(D) : f[i] = Consult(f[i - 1], D[i], span)
               /\ run = f[Len(D)]
  BY <1>1, RunsInTurn
<1>3. /\ f[1] = Consult(start, LoopDetector, span)
      /\ f[2] = Consult(f[1], RetryDetector, span)
      /\ f[3] = Consult(f[2], WatchDetector, span)
      /\ f[4] = Consult(f[3], VerdictDetector, span)
      /\ CeilingSet => f[5] = Consult(f[4], CeilingDetector(CostCeiling), span)
      /\ run = IF CeilingSet THEN f[5] ELSE f[4]
  BY <1>1, <1>2
<1>4. start.emitted = None /\ start.state = AddCost(state, span)
  BY DEF Unreported
<1>5. CASE span.kind = "session"
  <2>1. /\ LoopDetector # VerdictDetector /\ RetryDetector # VerdictDetector
        /\ WatchDetector # VerdictDetector /\ CeilingDetector(CostCeiling) # VerdictDetector
    BY DEF LoopDetector, RetryDetector, WatchDetector, VerdictDetector, CeilingDetector, Detector
  <2>2. f[1] = start /\ f[2] = f[1] /\ f[3] = f[2]
    BY <1>3, <1>5, <2>1 DEF Consult
  <2>3. f[4] = Report(start, "silent_tool_failure", SilentFailure(start.state, span))
    BY <1>3, <1>4, <1>5, <2>2 DEF Consult, VerdictDetector, Detector
  <2>4. f[4] = RunSession(state, span)
    BY <1>4, <2>3 DEF RunSession
  <2>5. CeilingSet => f[5] = f[4]
    BY <1>3, <1>5, <2>1 DEF Consult
  <2> QED BY <1>3, <1>5, <2>4, <2>5 DEF D
<1>6. CASE span.kind # "session"
  <2>1. f[1] = AfterLoop(AddCost(state, span), span)
    BY <1>3, <1>4, <1>6 DEF Consult, LoopDetector, VerdictDetector, Detector
  <2>2. f[2] = AfterRetry(f[1], span)
    BY <1>3, <1>6 DEF Consult, RetryDetector, VerdictDetector, Detector, AfterRetry
  <2>3. f[3] = AfterWatch(f[2], span)
    BY <1>3, <1>6 DEF Consult, WatchDetector, VerdictDetector, Detector, AfterWatch
  <2>4. f[4] = f[3]
    BY <1>3, <1>6 DEF Consult
  <2>5. CASE CeilingSet
    <3>1. /\ CeilingDetector(CostCeiling) # VerdictDetector
          /\ CeilingDetector(CostCeiling).name = "cost_ceiling"
          /\ CeilingDetector(CostCeiling).ceiling = CostCeiling
      BY DEF CeilingDetector, VerdictDetector, Detector
    <3>2. f[5] = AfterCeiling(f[4], span)
      BY <1>3, <1>6, <2>5, <3>1 DEF Consult, AfterCeiling, OverCeiling
    <3>3. f[5] = RunSpan(state, span)
      BY <2>1, <2>2, <2>3, <2>4, <3>2 DEF RunSpan
    <3> QED BY <1>3, <1>6, <2>5, <3>3 DEF D
  <2>6. CASE ~CeilingSet
    <3>1. AfterCeiling(f[3], span) = f[3]
      BY <2>6 DEF AfterCeiling, OverCeiling, Report
    <3>2. RunSpan(state, span) = f[4]
      BY <2>1, <2>2, <2>3, <2>4, <3>1 DEF RunSpan
    <3> QED BY <1>3, <1>6, <2>6, <3>2 DEF D
  <2> QED BY <2>5, <2>6, DetectionAssumption
<1> QED BY <1>5, <1>6 DEF D

==============================================================================
