---------------------------- MODULE Export_proofs ----------------------------
(***************************************************************************)
(* Proofs about Export: for every queue, batch and fault, a span is in     *)
(* exactly one place, every failed batch is counted once, what fails in    *)
(* the flush of the exit is not shown, spans are rejected only by a faulty *)
(* far side, and the whole implements the channel a host is promised.      *)
(***************************************************************************)
EXTENDS Export, FiniteSetTheorems, SequenceTheorems, TLAPS

\* The reader is shut down before the processor.
HooksRun == hooks \in {<<"tracer", "meter">>, <<"tracer">>, <<>>}

\* What the backend has been told of is no more than what has failed, and no more than
\* what had failed when the processor was shut down, which the reader never outlives.
ShownIsCounted ==
  /\ HooksRun
  /\ shown <= failed
  /\ hooks = <<>> => shown <= atExit

Inv == TypeOK /\ Accounted /\ FailuresCounted /\ ShownIsCounted

\* What is left of the hooks when some have run.
LEMMA HooksLeft ==
  /\ SubSeq(<<"tracer", "meter">>, 1, 2) = <<"tracer", "meter">>
  /\ SubSeq(<<"tracer", "meter">>, 1, 1) = <<"tracer">>
  /\ SubSeq(<<"tracer", "meter">>, 1, 0) = <<>>
  /\ SubSeq(<<"tracer">>, 1, 0) = <<>>
<1> DEFINE both  == <<"tracer", "meter">>
           first == <<"tracer">>
           S     == {"tracer", "meter"}
<1>1. /\ both \in Seq(S) /\ Len(both) = 2 /\ both[1] = "tracer" /\ both[2] = "meter"
      /\ first \in Seq(S) /\ Len(first) = 1 /\ first[1] = "tracer"
  OBVIOUS
<1> HIDE DEF both, first, S
<1>2. SubSeq(both, 1, 2) = both
  <2>1. /\ SubSeq(both, 1, 2) \in Seq(S) /\ Len(SubSeq(both, 1, 2)) = 2
        /\ \A i \in 1..2 : SubSeq(both, 1, 2)[i] = both[i]
    BY <1>1
  <2> QED
    BY <1>1, <2>1, SeqEqual
<1>3. SubSeq(both, 1, 1) = first
  <2>1. /\ SubSeq(both, 1, 1) \in Seq(S) /\ Len(SubSeq(both, 1, 1)) = 1
        /\ SubSeq(both, 1, 1)[1] = both[1]
    BY <1>1
  <2>2. \A i \in 1..1 : SubSeq(both, 1, 1)[i] = first[i]
    BY <1>1, <2>1
  <2> QED
    BY <1>1, <2>1, <2>2, SeqEqual
<1>4. SubSeq(both, 1, 0) = <<>> /\ SubSeq(first, 1, 0) = <<>>
  <2>1. /\ SubSeq(both, 1, 0) \in Seq(S) /\ Len(SubSeq(both, 1, 0)) = 0
        /\ SubSeq(first, 1, 0) \in Seq(S) /\ Len(SubSeq(first, 1, 0)) = 0
    BY <1>1
  <2> QED
    BY <2>1, EmptySeq
<1> QED
  BY <1>2, <1>3, <1>4 DEF both, first

\* Of what has not run, which hooks are still to come, and what is left after the last.
LEMMA HooksAre ==
  /\ ~\E i \in DOMAIN <<>> : <<>>[i] = "meter"
  /\ ~\E i \in DOMAIN <<"tracer">> : <<"tracer">>[i] = "meter"
  /\ <<"tracer", "meter">>[Len(<<"tracer", "meter">>)] = "meter"
  /\ <<"tracer">>[Len(<<"tracer">>)] = "tracer"
  /\ SubSeq(<<"tracer", "meter">>, 1, Len(<<"tracer", "meter">>) - 1) = <<"tracer">>
  /\ SubSeq(<<"tracer">>, 1, Len(<<"tracer">>) - 1) = <<>>
  /\ <<>> # <<"tracer">> /\ <<>> # <<"tracer", "meter">> /\ <<"tracer">> # <<"tracer", "meter">>
<1>1. /\ Len(<<"tracer", "meter">>) = 2 /\ <<"tracer", "meter">>[2] = "meter"
      /\ Len(<<"tracer">>) = 1 /\ <<"tracer">>[1] = "tracer"
  OBVIOUS
<1>2. /\ SubSeq(<<"tracer", "meter">>, 1, 1) = <<"tracer">>
      /\ SubSeq(<<"tracer">>, 1, 0) = <<>>
  BY HooksLeft
<1>3. <<>> # <<"tracer">> /\ <<>> # <<"tracer", "meter">> /\ <<"tracer">> # <<"tracer", "meter">>
  <2>1. Len(<<>>) = 0
    OBVIOUS
  <2> QED
    BY <1>1, <2>1
<1>4. ~\E i \in DOMAIN <<>> : <<>>[i] = "meter"
  OBVIOUS
<1>5. ~\E i \in DOMAIN <<"tracer">> : <<"tracer">>[i] = "meter"
  OBVIOUS
<1> QED
  BY <1>1, <1>2, <1>3, <1>4, <1>5

\* The type of the hooks is the order they run in.
LEMMA HooksTyped ==
  ASSUME NEW left \in {<<"tracer", "meter">>, <<"tracer">>, <<>>}
  PROVE  left \in {SubSeq(ExitHooks, 1, n) : n \in 0..2}
<1>1. 0 \in 0..2 /\ 1 \in 0..2 /\ 2 \in 0..2
  OBVIOUS
<1> QED
  BY <1>1, HooksLeft DEF ExitHooks

\* A set of ended spans is finite, so the size of the queue is a number.
LEMMA EndedFinite ==
  ASSUME NEW n \in Nat, NEW S \in SUBSET (1..n)
  PROVE  IsFiniteSet(S) /\ Cardinality(S) \in Nat
<1>1. IsFiniteSet(1..n)
  BY FS_Interval
<1>2. IsFiniteSet(S)
  BY <1>1, FS_Subset
<1> QED
  BY <1>2, FS_CardinalityType

\* Making room for a span does not make the queue longer.
LEMMA RoomMade ==
  ASSUME NEW S, IsFiniteSet(S), NEW s, NEW old \in S \cup {s}, s \notin S
  PROVE  Cardinality((S \cup {s}) \ {old}) = Cardinality(S)
<1>1. IsFiniteSet(S \cup {s}) /\ Cardinality(S \cup {s}) = Cardinality(S) + 1
  BY FS_AddElement
<1>2. Cardinality((S \cup {s}) \ {old}) = Cardinality(S \cup {s}) - 1
  BY <1>1, FS_RemoveElement
<1> QED
  BY <1>1, <1>2, FS_CardinalityType

LEMMA InitInv == Init => Inv
<1> SUFFICES ASSUME Init PROVE Inv
  OBVIOUS
<1>1. Cardinality({}) = 0
  BY FS_EmptySet
<1>2. TypeOK
  <2>1. hooks \in {SubSeq(ExitHooks, 1, n) : n \in 0..2}
    BY HooksTyped DEF Init, ExitHooks
  <2> QED
    BY <1>1, <2>1, ExportAssumption DEF Init, TypeOK, Reasons
<1>3. Accounted
  BY DEF Init, Accounted
<1>4. FailuresCounted
  BY DEF Init, FailuresCounted, Sum, Reasons
<1>5. ShownIsCounted
  BY HooksAre DEF Init, ShownIsCounted, HooksRun, ExitHooks
<1> QED
  BY <1>2, <1>3, <1>4, <1>5 DEF Inv

\* A batch that failed adds one to the counter, whatever its reason.
LEMMA FailCountsOnce ==
  ASSUME Inv, NEW reason \in Reasons, Fail(reason)
  PROVE  /\ failures' \in [Reasons -> Nat]
         /\ Sum' = Sum + 1
<1>1. failures \in [Reasons -> Nat]
  BY DEF Inv, TypeOK
<1>2. failures' = [failures EXCEPT ![reason] = @ + 1]
  BY DEF Fail, CountExportFailure
<1>3. failures' \in [Reasons -> Nat]
  BY <1>1, <1>2
<1>4. \A r \in Reasons : failures'[r] = IF r = reason THEN failures[r] + 1 ELSE failures[r]
  BY <1>1, <1>2
<1>5. reason \in {"rejected", "timeout", "connection", "unknown"}
  BY DEF Reasons
<1>6. Sum' = Sum + 1
  BY <1>1, <1>4, <1>5 DEF Sum, Reasons
<1> QED
  BY <1>3, <1>6

LEMMA ReasonIsOne ==
  ASSUME NEW exception \in Exceptions
  PROVE  Reason(exception) \in Reasons
BY DEF Reason, Reasons

\* The same for both ways to fail: the step is one of Fail.
LEMMA FailInv ==
  ASSUME Inv, NEW reason \in Reasons, Fail(reason)
  PROVE  Inv'
<1>1. failures' \in [Reasons -> Nat] /\ Sum' = Sum + 1
  BY FailCountsOnce
<1>2. TypeOK'
  BY <1>1 DEF Inv, TypeOK, Fail, far, life
<1>3. Accounted'
  BY DEF Inv, Accounted, Fail, far
<1>4. FailuresCounted'
  BY <1>1 DEF Inv, FailuresCounted, Fail, far
<1>5. ShownIsCounted'
  BY DEF Inv, TypeOK, ShownIsCounted, HooksRun, Fail, life
<1> QED
  BY <1>2, <1>3, <1>4, <1>5 DEF Inv

\* A step that ends a span.
LEMMA EndSpanInv ==
  ASSUME Inv, EndSpan
  PROVE  Inv'
<1> DEFINE s == ended + 1
<1>1. ended \in Nat /\ queue \in SUBSET (1..ended) /\ s \notin queue
  BY ExportAssumption DEF Inv, TypeOK
<1>2. IsFiniteSet(queue) /\ Cardinality(queue) \in Nat
  BY <1>1, EndedFinite
<1>3. Cardinality(queue') <= MaxQueue
  <2>1. CASE Cardinality(queue) < MaxQueue /\ queue' = queue \cup {s}
    BY <1>1, <1>2, <2>1, FS_AddElement, ExportAssumption
  <2>2. CASE \E old \in queue \cup {s} :
               Cardinality(queue) = MaxQueue /\ queue' = (queue \cup {s}) \ {old}
    BY <1>1, <1>2, <2>2, RoomMade, ExportAssumption
  <2>3. CASE queue' = queue
    BY <2>3 DEF Inv, TypeOK
  <2> QED
    BY <2>1, <2>2, <2>3 DEF EndSpan
<1>4. ended' = s /\ s \in 1..MaxSpans
  BY <1>1, ExportAssumption DEF EndSpan
<1>5. queue' \cup lost' = queue \cup lost \cup {s} /\ queue' \cap lost' = {}
  BY <1>1 DEF EndSpan, Inv, TypeOK, Accounted
<1>6. batch' = batch /\ delivered' = delivered
  BY DEF EndSpan
<1>6a. (1..s) = (1..ended) \cup {s}
  BY <1>1
<1>6b. s \notin batch \cup delivered \cup lost
  BY <1>1 DEF Inv, TypeOK
<1>7. Accounted'
  <2>1. queue' \cup batch' \cup delivered' \cup lost' = (1..ended) \cup {s}
    BY <1>5, <1>6 DEF Inv, Accounted
  <2>2. queue' \subseteq queue \cup lost \cup {s} /\ lost' \subseteq queue \cup lost \cup {s}
    BY <1>5
  <2>3. (queue \cup lost \cup {s}) \cap (batch \cup delivered) = {}
    BY <1>6b DEF Inv, Accounted
  <2> QED
    BY <1>4, <1>5, <1>6, <1>6a, <2>1, <2>2, <2>3 DEF Inv, Accounted
<1>8. TypeOK'
  <2>1. queue' \subseteq 1..ended' /\ batch' \subseteq 1..ended'
        /\ delivered' \subseteq 1..ended' /\ lost' \subseteq 1..ended'
    BY <1>7 DEF Accounted
  <2>2. ended' \in 0..MaxSpans
    BY <1>4, <1>1
  <2> QED
    BY <1>3, <2>1, <2>2 DEF Inv, TypeOK, EndSpan, counts, life
<1>9. FailuresCounted' /\ ShownIsCounted'
  BY DEF Inv, FailuresCounted, ShownIsCounted, HooksRun, Sum, EndSpan, counts, life
<1> QED
  BY <1>7, <1>8, <1>9 DEF Inv

LEMMA TakeInv ==
  ASSUME Inv, Take
  PROVE  Inv'
<1>1. PICK S \in SUBSET queue : batch' = S /\ queue' = queue \ S
  BY DEF Take
<1>2. ended \in Nat /\ queue \in SUBSET (1..ended)
  BY ExportAssumption DEF Inv, TypeOK
<1>2a. IsFiniteSet(queue) /\ Cardinality(queue) \in Nat
  BY <1>2, EndedFinite
<1>3. Cardinality(queue') <= Cardinality(queue) /\ Cardinality(queue') \in Nat
  BY <1>1, <1>2a, FS_Subset, FS_CardinalityType
<1>4. Cardinality(queue') <= MaxQueue
  BY <1>2a, <1>3, ExportAssumption DEF Inv, TypeOK
<1>5. TypeOK'
  BY <1>1, <1>4 DEF Inv, TypeOK, Take, counts, life
<1>6. Accounted'
  BY <1>1 DEF Inv, Accounted, Take
<1>7. FailuresCounted' /\ ShownIsCounted'
  BY DEF Inv, FailuresCounted, ShownIsCounted, HooksRun, Sum, Take, counts, life
<1> QED
  BY <1>5, <1>6, <1>7 DEF Inv

LEMMA ExportInv ==
  ASSUME Inv, Export
  PROVE  Inv'
<1>1. CASE ExportSucceeds
  <2>1. TypeOK'
    BY <1>1 DEF Inv, TypeOK, ExportSucceeds, counts, life
  <2>2. Accounted'
    BY <1>1 DEF Inv, Accounted, ExportSucceeds
  <2>3. FailuresCounted' /\ ShownIsCounted'
    BY <1>1 DEF Inv, FailuresCounted, ShownIsCounted, HooksRun, Sum, ExportSucceeds, counts, life
  <2> QED
    BY <2>1, <2>2, <2>3 DEF Inv
<1>2. CASE ExportFails
  BY <1>2, FailInv DEF ExportFails, Reasons
<1>3. CASE ExportRaises
  BY <1>3, FailInv, ReasonIsOne DEF ExportRaises
<1> QED
  BY <1>1, <1>2, <1>3 DEF Export

\* A process that is killed gives up what it holds.
LEMMA KillInv ==
  ASSUME Inv, Kill
  PROVE  Inv'
<1>1. Cardinality(queue') <= MaxQueue
  BY FS_EmptySet, ExportAssumption DEF Kill
<1>2. TypeOK'
  BY <1>1 DEF Inv, TypeOK, Kill, counts
<1>3. Accounted'
  BY DEF Inv, Accounted, Kill
<1>4. FailuresCounted' /\ ShownIsCounted'
  BY DEF Inv, FailuresCounted, ShownIsCounted, HooksRun, Sum, Kill, counts
<1> QED
  BY <1>2, <1>3, <1>4 DEF Inv

\* A step that leaves the spans alone and shows no more failures than there were.
LEMMA CountsInv ==
  ASSUME Inv, UNCHANGED <<spans, failures, failed>>, shown' \in {shown, Sum},
         phase' \in {"running", "exiting", "killed"}, HooksRun', atExit' \in {atExit, failed},
         hooks' = <<>> => shown' <= atExit'
  PROVE  Inv'
<1>1. Accounted' /\ FailuresCounted'
  BY DEF Inv, Accounted, FailuresCounted, Sum, spans
<1>2. Sum \in Nat /\ Sum = failed
  BY DEF Inv, TypeOK, FailuresCounted
<1>3. hooks' \in {SubSeq(ExitHooks, 1, n) : n \in 0..2}
  BY HooksTyped DEF HooksRun
<1>4. TypeOK'
  BY <1>2, <1>3 DEF Inv, TypeOK, spans
<1>5. ShownIsCounted'
  BY <1>2 DEF Inv, TypeOK, ShownIsCounted
<1> QED
  BY <1>1, <1>4, <1>5 DEF Inv

\* The reader's export, and the exit's hooks.
LEMMA LifeInv ==
  ASSUME Inv, Collect \/ Change \/ Exit \/ ShutdownMeter \/ ShutdownTracer
  PROVE  Inv'
<1>1. /\ HooksRun /\ phase \in {"running", "exiting", "killed"} /\ shown <= failed
      /\ hooks = <<>> => shown <= atExit
  BY DEF Inv, TypeOK, ShownIsCounted
<1>2. CASE Collect
  <2>1. hooks # <<>>
    BY <1>2, HooksAre DEF Collect, Open
  <2> QED
    BY <1>1, <1>2, <2>1, CountsInv DEF Collect, ExportCounter, life, HooksRun
<1>3. CASE Change
  BY <1>1, <1>3, CountsInv DEF Change, spans, counts, life, HooksRun
<1>4. CASE Exit
  BY <1>1, <1>4, CountsInv DEF Exit, spans, counts, HooksRun
<1>5. CASE ShutdownMeter
  <2>1. hooks' = <<"tracer">>
    BY <1>1, <1>5, HooksAre DEF ShutdownMeter, RunHook, HooksRun
  <2>2. HooksRun' /\ hooks' # <<>>
    BY <2>1, HooksAre DEF HooksRun
  <2> QED
    BY <1>1, <1>5, <2>2, CountsInv DEF ShutdownMeter, RunHook, ExportCounter
<1>6. CASE ShutdownTracer
  <2>1. hooks' = <<>>
    BY <1>1, <1>6, HooksAre DEF ShutdownTracer, RunHook, HooksRun
  <2>2. HooksRun'
    BY <2>1 DEF HooksRun
  <2> QED
    BY <1>1, <1>6, <2>2, CountsInv DEF ShutdownTracer, RunHook
<1> QED
  BY <1>2, <1>3, <1>4, <1>5, <1>6

LEMMA NextInv == Inv /\ [Next]_vars => Inv'
<1> SUFFICES ASSUME Inv, [Next]_vars PROVE Inv'
  OBVIOUS
<1>1. CASE EndSpan
  BY <1>1, EndSpanInv
<1>2. CASE Take
  BY <1>2, TakeInv
<1>3. CASE Export
  BY <1>3, ExportInv
<1>4. CASE Collect \/ Change \/ Exit \/ ShutdownMeter \/ ShutdownTracer
  BY <1>4, LifeInv
<1>5. CASE Kill
  BY <1>5, KillInv
<1>6. CASE UNCHANGED vars
  BY <1>6 DEF Inv, TypeOK, Accounted, FailuresCounted, ShownIsCounted, HooksRun, Sum,
              vars, far, spans, counts, life
<1> QED
  BY <1>1, <1>2, <1>3, <1>4, <1>5, <1>6 DEF Next

LEMMA Invariance == Spec => []Inv
<1>1. Init => Inv
  BY InitInv
<1>2. Inv /\ [Next]_vars => Inv'
  BY NextInv
<1> QED
  BY <1>1, <1>2, PTL DEF Spec

\* The variables keep their types, and the queue its bound, whatever the worker and
\* the host do in between.
THEOREM TypeCorrect == Spec => []TypeOK
<1>1. Inv => TypeOK
  BY DEF Inv
<1> QED
  BY <1>1, Invariance, PTL

\* A span that has ended is queued, being exported, delivered or lost, and one of
\* these only: none is invented, forgotten or delivered and given up.
THEOREM EverySpanAccounted == Spec => []Accounted
<1>1. Inv => Accounted
  BY DEF Inv
<1> QED
  BY <1>1, Invariance, PTL

\* Every failed batch is counted once, under whatever reason (_export.py:44-54).
THEOREM FailuresAreCounted == Spec => []FailuresCounted
<1>1. Inv => FailuresCounted
  BY DEF Inv
<1> QED
  BY <1>1, Invariance, PTL

\* Failures of the exit's flush are never shown: the hook of the provider init() makes
\* first runs last, so the reader is gone before the processor (_setup.py:69, 97).
THEOREM LastFlushIsUnshown == Spec => []LastFlushUnshown
<1>1. Inv => LastFlushUnshown
  BY DEF Inv, ShownIsCounted, LastFlushUnshown, Exited
<1> QED
  BY <1>1, Invariance, PTL

------------------------------------------------------------------------------
(* Where spans are posted, and why one is ever rejected.                     *)

\* Slashes go, and nothing else: what is left of an endpoint is its base and path.
LEMMA TrimmedEndpoint ==
  ASSUME NEW url \in Seq(Segments), NEW n \in 1..Len(url),
         \A i \in 1..n : url[i] # "/", \A i \in n+1..Len(url) : url[i] = "/"
  PROVE  Trimmed(url) = SubSeq(url, 1, n)
<1> DEFINE named == {i \in DOMAIN url : url[i] # "/"}
<1>1. named = 1..n
  OBVIOUS
<1>2. n \in named /\ \A j \in named : j <= n
  BY <1>1
<1>3. \A i \in named : (\A j \in named : j <= i) => i = n
  BY <1>1
<1>4. (CHOOSE i \in named : \A j \in named : j <= i) = n
  BY <1>2, <1>3
<1> QED
  BY <1>2, <1>4 DEF Trimmed

\* The paths are two segments long, and no slashes.
LEMMA PathsTyped ==
  ASSUME NEW path \in {TracesPath, MetricsPath}
  PROVE  /\ path \in Seq(Segments) /\ Len(path) = 2
         /\ path[1] = "v1" /\ path[2] \in {"traces", "metrics"}
<1>1. CASE path = <<"v1", "traces">>
  BY <1>1 DEF Segments
<1>2. CASE path = <<"v1", "metrics">>
  BY <1>2 DEF Segments
<1> QED
  BY <1>1, <1>2 DEF TracesPath, MetricsPath

\* Whichever form init() was given, the base and perhaps a path are what is left of it.
LEMMA FormTrimmed ==
  ASSUME NEW url \in Endpoints
  PROVE  /\ Trimmed(url) \in Seq(Segments) /\ Trimmed(url)[1] = "otlp"
         /\ \/ Len(Trimmed(url)) = 1
            \/ Len(Trimmed(url)) = 3 /\ SubSeq(Trimmed(url), 2, 3) \in {TracesPath, MetricsPath}
<1> DEFINE base == Trimmed(url)
<1>1. url \in Seq(Segments) /\ IsEndpoint(url)
  BY EndpointsAssumption
<1>2. PICK path \in {<<>>, TracesPath, MetricsPath} :
        /\ Len(url) >= Len(path) + 1 /\ url[1] = "otlp"
        /\ SubSeq(url, 2, Len(path) + 1) = path
        /\ \A i \in Len(path)+2..Len(url) : url[i] = "/"
  BY <1>1 DEF IsEndpoint
<1>3. CASE path = <<>>
  <2>1. /\ 1 \in 1..Len(url) /\ \A i \in 1..1 : url[i] # "/"
        /\ \A i \in 1+1..Len(url) : url[i] = "/"
    BY <1>1, <1>2, <1>3
  <2>2. base = SubSeq(url, 1, 1)
    BY <1>1, <2>1, TrimmedEndpoint
  <2> QED
    BY <1>1, <1>2, <2>1, <2>2
<1>4. CASE path \in {TracesPath, MetricsPath}
  <2>1. Len(path) = 2 /\ path[1] = "v1" /\ path[2] \in {"traces", "metrics"}
    BY <1>4, PathsTyped
  <2>2. /\ 3 \in 1..Len(url) /\ SubSeq(url, 2, 3) = path
        /\ \A i \in 3+1..Len(url) : url[i] = "/"
    BY <1>1, <1>2, <2>1
  <2>3. SubSeq(url, 2, 3)[1] = url[2] /\ SubSeq(url, 2, 3)[2] = url[3]
    BY <1>1, <2>2
  <2>4. \A i \in 1..3 : url[i] # "/"
    BY <1>2, <2>1, <2>2, <2>3
  <2>5. base = SubSeq(url, 1, 3)
    BY <1>1, <2>2, <2>4, TrimmedEndpoint
  <2>6. base \in Seq(Segments) /\ Len(base) = 3 /\ base[1] = "otlp"
    BY <1>1, <1>2, <2>2, <2>5
  <2>7. SubSeq(base, 2, 3) = SubSeq(url, 2, 3)
    <3>1. \A i \in 1..3 : base[i] = url[i]
      BY <1>1, <2>2, <2>5
    <3> QED
      BY <1>1, <2>2, <2>6, <3>1, SeqEqual
  <2> QED
    BY <1>4, <2>2, <2>6, <2>7
<1> QED
  BY <1>2, <1>3, <1>4

LEMMA OneSegment ==
  ASSUME NEW S, NEW s \in Seq(S), Len(s) = 1
  PROVE  s = <<s[1]>>
OBVIOUS

\* Spans are posted to their own path under the base, and the counter to its own.
LEMMA EveryFormGivesThePath ==
  ASSUME NEW url \in Endpoints, NEW signal \in {TracesPath, MetricsPath}
  PROVE  SignalEndpoint(url, signal) = <<"otlp">> \o signal
<1> DEFINE base == Trimmed(url)
           n == IF HasSuffix(base, TracesPath) \/ HasSuffix(base, MetricsPath) THEN 2 ELSE 0
<1>1. /\ base \in Seq(Segments) /\ base[1] = "otlp"
      /\ \/ Len(base) = 1
         \/ Len(base) = 3 /\ SubSeq(base, 2, 3) \in {TracesPath, MetricsPath}
  BY FormTrimmed
<1> HIDE DEF base
<1>2. n = Len(base) - 1
  <2>1. CASE Len(base) = 1
    BY <1>1, <2>1, PathsTyped DEF HasSuffix
  <2>2. CASE Len(base) = 3 /\ SubSeq(base, 2, 3) \in {TracesPath, MetricsPath}
    <3>1. PICK path \in {TracesPath, MetricsPath} : SubSeq(base, 2, 3) = path
      BY <2>2
    <3>2. Len(path) = 2 /\ Len(base) - Len(path) + 1 = 2
      <4>1. Len(path) = 2
        BY PathsTyped
      <4> QED
        BY <2>2, <4>1
    <3>3. HasSuffix(base, path)
      BY <2>2, <3>1, <3>2 DEF HasSuffix
    <3>4. HasSuffix(base, TracesPath) \/ HasSuffix(base, MetricsPath)
      BY <3>1, <3>3
    <3> QED
      BY <2>2, <3>4
  <2> QED
    BY <1>1, <2>1, <2>2
<1>3. SubSeq(base, 1, Len(base) - n) = <<"otlp">>
  <2>1. Len(base) - n = 1 /\ Len(base) >= 1
    BY <1>1, <1>2
  <2>2. SubSeq(base, 1, 1) \in Seq(Segments) /\ Len(SubSeq(base, 1, 1)) = 1
        /\ SubSeq(base, 1, 1)[1] = "otlp"
    BY <1>1, <2>1
  <2>3. SubSeq(base, 1, 1) = <<"otlp">>
    BY <2>2, OneSegment
  <2> QED
    BY <2>1, <2>3
<1> QED
  BY <1>3 DEF SignalEndpoint, base

LEMMA EveryFormIsServed ==
  ASSUME NEW url \in Endpoints
  PROVE  /\ Served(SignalEndpoint(url, TracesPath), TracesPath)
         /\ Served(SignalEndpoint(url, MetricsPath), MetricsPath)
BY EveryFormGivesThePath DEF Served

\* The endpoint stays as given, a fault is remembered, and until there was one
\* nothing is rejected.
CauseInv ==
  /\ endpoint \in Endpoints
  /\ fault # "none" => faulty
  /\ RejectedForCause

LEMMA CauseStep ==
  ASSUME Inv, CauseInv, [Next]_vars
  PROVE  CauseInv'
<1>1. CASE ExportFails
  <2>1. fault # "none"
    BY <1>1, EveryFormIsServed DEF CauseInv, ExportFails, Rejects
  <2> QED
    BY <1>1, <2>1 DEF CauseInv, RejectedForCause, ExportFails, Fail, far
<1>2. CASE ExportRaises
  <2>1. PICK exception \in Exceptions : Fail(Reason(exception))
    BY <1>2 DEF ExportRaises
  <2>2. Reason(exception) # "rejected"
    BY DEF Reason
  <2>3. failures'["rejected"] = failures["rejected"]
    BY <2>1, <2>2 DEF Inv, TypeOK, Reasons, Fail, CountExportFailure
  <2> QED
    BY <2>1, <2>3 DEF CauseInv, RejectedForCause, Fail, far
<1>3. CASE ExportSucceeds \/ EndSpan \/ Take \/ Kill \/ Collect \/ Exit
           \/ ShutdownMeter \/ ShutdownTracer
  BY <1>3 DEF CauseInv, RejectedForCause, ExportSucceeds, EndSpan, Take, Kill, Collect, Exit,
              ShutdownMeter, ShutdownTracer, far, counts
<1>4. CASE Change
  BY <1>4 DEF CauseInv, RejectedForCause, Change, counts
<1>5. CASE UNCHANGED vars
  BY <1>5 DEF CauseInv, RejectedForCause, vars, far, counts
<1> QED
  BY <1>1, <1>2, <1>3, <1>4, <1>5 DEF Next, Export

\* No batch is rejected before the far side has misbehaved, whichever form of the
\* endpoint init() was given (_setup.py:43-56, _export.py:44-46).
THEOREM NoneRejectedWithoutCause == Spec => []RejectedForCause
<1>1. Init => CauseInv
  <2> SUFFICES ASSUME Init PROVE CauseInv
    OBVIOUS
  <2>1. failures["rejected"] = 0
    BY DEF Init, Reasons
  <2>2. endpoint \in Endpoints /\ faulty = (fault # "none")
    BY DEF Init
  <2>3. fault # "none" => faulty
    BY <2>2, Zenon
  <2> QED
    BY <2>1, <2>2, <2>3 DEF CauseInv, RejectedForCause
<1>2. Inv /\ CauseInv /\ [Next]_vars => CauseInv'
  BY CauseStep
<1>3. CauseInv => RejectedForCause
  BY DEF CauseInv
<1> QED
  BY <1>1, <1>2, <1>3, Invariance, PTL DEF Spec

------------------------------------------------------------------------------
(* The refinement: what a step makes of each span is a step of the channel.  *)

fate == [s \in 1..MaxSpans |-> Fate(s)]

\* Where a span is decides its fate, and its fate where it is.
FateTells ==
  \A s \in 1..MaxSpans :
    /\ Fate(s) \in Channel!Fates
    /\ Fate(s) = "unborn" <=> s \notin 1..ended
    /\ Fate(s) = "pending" <=> s \in queue \cup batch
    /\ Fate(s) = "delivered" <=> s \in delivered
    /\ Fate(s) = "lost" <=> s \in lost

LEMMA FateIs == Inv => FateTells
<1> SUFFICES ASSUME Inv, NEW s \in 1..MaxSpans
             PROVE  /\ Fate(s) \in Channel!Fates
                    /\ Fate(s) = "unborn" <=> s \notin 1..ended
                    /\ Fate(s) = "pending" <=> s \in queue \cup batch
                    /\ Fate(s) = "delivered" <=> s \in delivered
                    /\ Fate(s) = "lost" <=> s \in lost
  BY DEF FateTells
<1>1. queue \cup batch \cup delivered \cup lost = 1..ended
  BY DEF Inv, Accounted
<1>2. CASE s \in lost
  BY <1>1, <1>2 DEF Fate, Channel!Fates, Inv, Accounted
<1>3. CASE s \in delivered
  BY <1>1, <1>3 DEF Fate, Channel!Fates, Inv, Accounted
<1>4. CASE s \in queue \cup batch
  BY <1>1, <1>4 DEF Fate, Channel!Fates, Inv, Accounted
<1>5. CASE s \notin 1..ended
  BY <1>1, <1>5 DEF Fate, Channel!Fates
<1> QED
  BY <1>1, <1>2, <1>3, <1>4, <1>5

LEMMA FateIsNext == Inv' => FateTells'
BY FateIs, PTL

\* What every step starts and ends with.
LEMMA FateTyped ==
  ASSUME Inv, Inv'
  PROVE  /\ FateTells /\ FateTells'
         /\ \A s \in 1..MaxSpans : fate[s] = Fate(s) /\ fate'[s] = Fate(s)'
         /\ fate' \in [1..MaxSpans -> Channel!Fates]
<1>1. FateTells /\ FateTells'
  BY FateIs, FateIsNext
<1>2. \A s \in 1..MaxSpans : Fate(s)' \in Channel!Fates
  BY <1>1 DEF FateTells, Channel!Fates
<1> QED
  BY <1>1, <1>2 DEF fate

\* Pending spans are lost together: a failed export, a killed process.
LEMMA LosingRefines ==
  ASSUME Inv, Inv', ended' = ended, delivered' = delivered, lost \subseteq lost',
         queue' \cup batch' \subseteq queue \cup batch
  PROVE  Channel!GiveUp
<1>1. \A s \in 1..MaxSpans : fate'[s] = fate[s] \/ (fate[s] = "pending" /\ fate'[s] = "lost")
  <2> SUFFICES ASSUME NEW s \in 1..MaxSpans
               PROVE  fate'[s] = fate[s] \/ (fate[s] = "pending" /\ fate'[s] = "lost")
    OBVIOUS
  <2>1. CASE s \in lost' /\ s \notin lost
    <3>1. s \in queue \cup batch
      BY <2>1 DEF Inv, Accounted
    <3> QED
      BY <2>1, <3>1, FateTyped DEF FateTells
  <2>2. CASE s \in lost \/ s \notin lost'
    BY <2>2, FateTyped DEF FateTells, Channel!Fates
  <2> QED
    BY <2>1, <2>2
<1> QED
  BY <1>1, FateTyped DEF Channel!GiveUp, Channel!MayGiveUp, fate

\* They are delivered together.
LEMMA DeliveringRefines ==
  ASSUME Inv, Inv', ended' = ended, lost' = lost, delivered \subseteq delivered',
         queue' \cup batch' \subseteq queue \cup batch
  PROVE  Channel!Deliver
<1>1. \A s \in 1..MaxSpans :
        fate'[s] = fate[s] \/ (fate[s] = "pending" /\ fate'[s] = "delivered")
  <2> SUFFICES ASSUME NEW s \in 1..MaxSpans
               PROVE  fate'[s] = fate[s] \/ (fate[s] = "pending" /\ fate'[s] = "delivered")
    OBVIOUS
  <2>1. CASE s \in delivered' /\ s \notin delivered
    <3>1. s \in queue \cup batch
      BY <2>1 DEF Inv, Accounted
    <3> QED
      BY <2>1, <3>1, FateTyped DEF FateTells
  <2>2. CASE s \in delivered \/ s \notin delivered'
    BY <2>2, FateTyped DEF FateTells, Channel!Fates
  <2> QED
    BY <2>1, <2>2
<1> QED
  BY <1>1, FateTyped DEF Channel!Deliver, fate

\* A span that ends is taken at once, whatever is given up for it.
LEMMA EndingRefines ==
  ASSUME Inv, Inv', EndSpan
  PROVE  Channel!Accept(ended + 1)
<1> DEFINE s == ended + 1
<1>1. ended \in Nat /\ s \in 1..MaxSpans /\ s \notin 1..ended /\ ended' = s
  BY ExportAssumption DEF Inv, TypeOK, EndSpan
<1>2. batch' = batch /\ delivered' = delivered /\ lost \subseteq lost'
      /\ lost' \subseteq lost \cup queue \cup {s} /\ queue' \subseteq queue \cup {s}
      /\ s \in queue' \cup lost' /\ queue \subseteq queue' \cup lost'
  BY DEF EndSpan
<1>3. fate[s] = "unborn" /\ fate'[s] \in {"pending", "lost"}
  BY <1>1, <1>2, FateTyped DEF FateTells
<1>4. ASSUME NEW t \in 1..MaxSpans, t # s
      PROVE  fate'[t] = fate[t] \/ (fate[t] = "pending" /\ fate'[t] = "lost")
  <2>1. CASE t \in lost' /\ t \notin lost
    BY <1>2, <1>4, <2>1, FateTyped DEF FateTells
  <2>2. CASE t \in lost
    BY <1>2, <2>2, FateTyped DEF FateTells
  <2>3. CASE t \notin lost'
    <3>1. t \in queue' <=> t \in queue
      BY <1>2, <1>4, <2>3
    <3>2. t \in 1..ended' <=> t \in 1..ended
      BY <1>1, <1>4
    <3> QED
      BY <1>2, <2>3, <3>1, <3>2, FateTyped DEF FateTells, Channel!Fates
  <2> QED
    BY <2>1, <2>2, <2>3
<1> QED
  BY <1>1, <1>3, <1>4, FateTyped DEF Channel!Accept, Channel!MayGiveUp, fate

LEMMA StepRefines ==
  ASSUME Inv, Inv', [Next]_vars
  PROVE  [Channel!Next]_fate
<1>1. CASE EndSpan
  <2>1. ended + 1 \in 1..MaxSpans
    BY <1>1, ExportAssumption DEF Inv, TypeOK, EndSpan
  <2> QED
    BY <1>1, <2>1, EndingRefines DEF Channel!Next, fate
<1>2. CASE Take
  <2>1. ended' = ended /\ delivered' = delivered /\ lost' = lost
        /\ queue' \cup batch' \subseteq queue \cup batch
    BY <1>2 DEF Take
  <2> QED
    BY <2>1, LosingRefines DEF Channel!Next, fate
<1>3. CASE ExportSucceeds
  <2>1. CASE lost' = lost /\ delivered' = delivered \cup batch
    BY <1>3, <2>1, DeliveringRefines DEF ExportSucceeds, Channel!Next, fate
  <2>2. CASE lost' = lost \cup batch /\ delivered' = delivered
    BY <1>3, <2>2, LosingRefines DEF ExportSucceeds, Channel!Next, fate
  <2> QED
    BY <1>3, <2>1, <2>2 DEF ExportSucceeds
<1>4. CASE \E reason \in Reasons : Fail(reason)
  BY <1>4, LosingRefines DEF Fail, Channel!Next, fate
<1>5. CASE Kill
  BY <1>5, LosingRefines DEF Kill, Channel!Next, fate
<1>6. CASE UNCHANGED spans
  BY <1>6 DEF spans, fate, Fate
<1>7. ExportFails \/ ExportRaises => \E reason \in Reasons : Fail(reason)
  BY ReasonIsOne DEF ExportFails, ExportRaises, Reasons
<1>8. (\/ Collect \/ Change \/ Exit \/ ShutdownMeter
       \/ ShutdownTracer \/ UNCHANGED vars) => UNCHANGED spans
  BY DEF Collect, Change, Exit, ShutdownMeter, ShutdownTracer, vars, spans
<1> QED
  BY <1>1, <1>2, <1>3, <1>4, <1>5, <1>6, <1>7, <1>8 DEF Next, Export

\* Whatever the queue, the worker, the far side and the exit do, the host sees the
\* channel it is promised: a span it ends is delivered once or lost.
THEOREM PromiseIsKept == Spec => KeepsPromise
<1>1. Init => Channel!Init
  <2> SUFFICES ASSUME Init PROVE fate = [s \in 1..MaxSpans |-> "unborn"]
    BY DEF Channel!Init, fate
  <2> QED
    BY DEF Init, fate, Fate
<1>2. Inv /\ Inv' /\ [Next]_vars => [Channel!Next]_fate
  BY StepRefines
<1> QED
  BY <1>1, <1>2, Invariance, PTL DEF Spec, KeepsPromise, Channel!Spec, fate

==============================================================================
