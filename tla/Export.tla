-------------------------------- MODULE Export --------------------------------
(***************************************************************************)
(* How spans and the count of failed exports leave a process that called   *)
(* spanlight.init: the processor's bounded queue and its worker thread,    *)
(* CountedExporter (spanlight/_export.py) around the exporter the worker   *)
(* calls, the periodic reader that exports the counter, and the exit.      *)
(*                                                                         *)
(* The queue, the worker and the reader are the OpenTelemetry SDK's, as    *)
(* spanlight/_setup.py configures and relies on them; the endpoint is the  *)
(* faulty one of fault/__init__.py.  Spans are numbered in the order they  *)
(* end, so a queue is the set of its spans.                                *)
(***************************************************************************)
EXTENDS Integers, Sequences, FiniteSets

CONSTANTS
  MaxQueue,    \* max_queue_size
  MaxBatch,    \* max_export_batch_size
  Faults,      \* ways the endpoint may misbehave, of Fault
  Exceptions,  \* what an exporter may raise: what its class's name says
  Endpoints,   \* forms of the endpoint init() may be given, as path segments
  MaxSpans     \* bound: spans the host ends

ASSUME ExportAssumption ==
  /\ MaxQueue \in Nat \ {0} /\ MaxBatch \in Nat \ {0} /\ MaxSpans \in Nat
  /\ Faults \subseteq {"unreachable", "server_error", "hang", "reset",
                       "rate_limited", "malformed"}
  /\ Exceptions \subseteq [timeout : BOOLEAN, connect : BOOLEAN]

TracesPath == <<"v1", "traces">>
MetricsPath == <<"v1", "metrics">>

\* The segments of an endpoint: "otlp" is the base, "/" a slash at the end.
Segments == {"otlp", "v1", "traces", "metrics", "/"}

\* A base, alone or with the path of one signal, and any number of slashes.
IsEndpoint(url) ==
  \E path \in {<<>>, TracesPath, MetricsPath} :
    LET n == Len(path) + 1
    IN  /\ Len(url) >= n /\ url[1] = "otlp" /\ SubSeq(url, 2, n) = path
        /\ \A i \in n+1..Len(url) : url[i] = "/"

ASSUME EndpointsAssumption ==
  \A url \in Endpoints : url \in Seq(Segments) /\ IsEndpoint(url)

VARIABLES
  endpoint,   \* the endpoint init() was given
  fault,      \* how the far side behaves now: "none", or a fault
  ended,      \* how many spans the host has ended
  queue,      \* spans in the processor's queue
  batch,      \* the spans the worker is exporting
  phase,      \* of the process
  hooks,      \* the exit hooks that have not run
  failures,   \* the export-failure counter, by reason
  shown,      \* the failures the backend has been told of
  \* History, for the properties only:
  delivered,  \* spans the backend took
  lost,       \* spans that will never arrive
  failed,     \* batches that failed
  atExit,     \* the batches that had failed before the flush of the exit
  faulty      \* has the far side ever misbehaved?

spans == <<ended, queue, batch, delivered, lost>>
counts == <<failures, shown, failed, atExit>>
far == <<endpoint, fault, faulty>>
life == <<phase, hooks>>
vars == <<far, spans, counts, life>>

Reasons == {"rejected", "timeout", "connection", "unknown"}

\* Mutant: init() sets the metrics up before the traces.
ExitHooksSwapped == <<"meter", "tracer">>

\* Each provider registers its exit hook when init() makes it.
ExitHooks == <<"tracer", "meter">>

Init ==
  /\ endpoint \in Endpoints
  /\ fault \in Faults \cup {"none"}
  /\ ended = 0
  /\ queue = {} /\ batch = {} /\ delivered = {} /\ lost = {}
  /\ phase = "running" /\ hooks = ExitHooks
  /\ failures = [reason \in Reasons |-> 0]
  /\ shown = 0 /\ failed = 0 /\ atExit = 0
  /\ faulty = (fault # "none")

------------------------------------------------------------------------------
(* Where the exporters post to.                                             *)

\* endpoint.rstrip("/")
Trimmed(url) ==
  LET named == {i \in DOMAIN url : url[i] # "/"}
  IN  SubSeq(url, 1, IF named = {} THEN 0
                     ELSE CHOOSE i \in named : \A j \in named : j <= i)

HasSuffix(url, path) ==
  Len(path) <= Len(url) /\ SubSeq(url, Len(url) - Len(path) + 1, Len(url)) = path

\* Mutant: the endpoint is passed through as it is given.
SignalEndpointUnchanged(url, path) == url

\* Mutant: the path of the other signal is kept.
SignalEndpointStripsOwn(url, path) ==
  LET base == Trimmed(url)
  IN  SubSeq(base, 1, Len(base) - (IF HasSuffix(base, path) THEN Len(path) ELSE 0)) \o path

\* A base gains the path of the signal; the path of one signal gives way to
\* that of another.
SignalEndpoint(url, path) ==
  LET base == Trimmed(url)
      n    == IF HasSuffix(base, TracesPath) \/ HasSuffix(base, MetricsPath) THEN 2 ELSE 0
  IN  SubSeq(base, 1, Len(base) - n) \o path

\* The collector serves both signals under one base.
Served(url, path) == url = <<"otlp">> \o path

------------------------------------------------------------------------------
(* The host's thread.                                                       *)

\* Has the provider with this hook not been shut down?
Open(hook) == \E i \in DOMAIN hooks : hooks[i] = hook

\* A span ends: the processor queues it, and to make room gives up its oldest
\* one or this one.  After shutdown it is ignored.
EndSpan ==
  LET s == ended + 1
  IN  /\ ended < MaxSpans /\ phase # "killed"
      /\ ended' = s
      /\ \/ /\ Open("tracer") /\ Cardinality(queue) < MaxQueue
            /\ queue' = queue \cup {s}
            /\ UNCHANGED lost
         \/ /\ Open("tracer") /\ Cardinality(queue) = MaxQueue
            /\ \E old \in queue \cup {s} :
                 /\ old = s \/ \A t \in queue : old <= t
                 /\ queue' = (queue \cup {s}) \ {old}
                 /\ lost' = lost \cup {old}
         \/ /\ ~Open("tracer")
            /\ lost' = lost \cup {s}
            /\ UNCHANGED queue
      /\ UNCHANGED <<far, batch, delivered, counts, life>>

------------------------------------------------------------------------------
(* The worker's thread.                                                     *)

\* The oldest spans of the queue, as many as a batch may hold.
IsBatch(S) ==
  /\ S # {} /\ Cardinality(S) <= MaxBatch
  /\ S = queue \/ Cardinality(S) = MaxBatch
  /\ \A s \in S, t \in queue \ S : s < t

\* A batch is full, its time has come, a flush was asked for, or the process
\* is exiting.
Take ==
  /\ phase # "killed" /\ batch = {}
  /\ \E S \in SUBSET queue :
       /\ IsBatch(S)
       /\ batch' = S
       /\ queue' = queue \ S
  /\ UNCHANGED <<far, ended, delivered, lost, counts, life>>

\* _reason: a timeout is one even when it is a connection's.
Reason(exception) ==
  IF exception.timeout THEN "timeout"
  ELSE IF exception.connect THEN "connection" ELSE "unknown"

CountExportFailure(reason) == failures' = [failures EXCEPT ![reason] = @ + 1]

\* What the OTLP exporter returns: FAILURE for whatever is not a 2xx in time.
\* It does not read what a 200 says.
Rejects ==
  \/ fault \notin {"none", "malformed"}
  \/ ~Served(SignalEndpoint(endpoint, TracesPath), TracesPath)

\* Mutant: what was exported is kept for the next export as well.
ExportSucceedsKeepingBatch ==
  /\ batch # {} /\ phase # "killed" /\ ~Rejects
  /\ delivered' = delivered \cup batch
  /\ UNCHANGED <<far, ended, queue, batch, lost, counts, life>>

\* The inner export returns SUCCESS.
ExportSucceeds ==
  /\ batch # {} /\ phase # "killed" /\ ~Rejects
  /\ batch' = {}
  /\ IF fault = "none"
     THEN delivered' = delivered \cup batch /\ UNCHANGED lost
     ELSE lost' = lost \cup batch /\ UNCHANGED delivered
  /\ UNCHANGED <<far, ended, queue, counts, life>>

\* The batch is lost: nothing keeps it for another try.
Fail(reason) ==
  /\ batch # {} /\ phase # "killed"
  /\ batch' = {}
  /\ lost' = lost \cup batch
  /\ failed' = failed + 1
  /\ CountExportFailure(reason)
  /\ UNCHANGED <<far, ended, queue, delivered, shown, atExit, life>>

\* It returns FAILURE.
ExportFails == Rejects /\ Fail("rejected")

\* Mutant: the exception is counted, and what is then returned is as well.
ExportRaisesCountedTwice ==
  \E exception \in Exceptions :
    /\ batch # {} /\ phase # "killed"
    /\ batch' = {}
    /\ lost' = lost \cup batch
    /\ failed' = failed + 1
    /\ LET reason == Reason(exception)
       IN  failures' = [failures EXCEPT ![reason] = @ + 1, !["rejected"] = @ + 1]
    /\ UNCHANGED <<far, ended, queue, delivered, shown, atExit, life>>

\* It raises, as an exporter may, whatever became of the batch.
ExportRaises == \E exception \in Exceptions : Fail(Reason(exception))

------------------------------------------------------------------------------
(* The counter, the far side and the exit.                                  *)

Sum == failures["rejected"] + failures["timeout"] + failures["connection"]
         + failures["unknown"]

\* The counter goes to the same far side as the spans, under its own path.
Heard == fault = "none" /\ Served(SignalEndpoint(endpoint, MetricsPath), MetricsPath)

\* The reader exports the counter, a running total: what is not taken now is in
\* the next export as well.
ExportCounter == shown' = IF Heard THEN Sum ELSE shown

\* The periodic reader's time has come.
Collect ==
  /\ phase # "killed" /\ Open("meter")
  /\ ExportCounter
  /\ UNCHANGED <<far, spans, failures, failed, atExit, life>>

Change ==
  /\ fault' \in (Faults \cup {"none"}) \ {fault}
  /\ faulty' = TRUE
  /\ UNCHANGED <<endpoint, spans, counts, life>>

\* The process exits: the hooks run, the last registered first.
Exit ==
  /\ phase = "running"
  /\ phase' = "exiting"
  /\ UNCHANGED <<far, spans, counts, hooks>>

RunHook(hook) ==
  /\ phase = "exiting"
  /\ hooks # <<>> /\ hooks[Len(hooks)] = hook
  /\ hooks' = SubSeq(hooks, 1, Len(hooks) - 1)
  /\ UNCHANGED phase

\* The hook of a provider shut down before has flushed what the provider held.
\* The reader is shut down with a last export of the counter.
ShutdownMeter ==
  /\ RunHook("meter")
  /\ ~Open("tracer") => queue = {} /\ batch = {}
  /\ ExportCounter
  /\ UNCHANGED <<far, spans, failures, failed, atExit>>

\* The processor takes no more spans, and the worker exports those it has.
ShutdownTracer ==
  /\ RunHook("tracer")
  /\ atExit' = failed
  /\ UNCHANGED <<far, spans, failures, shown, failed>>

Exited == phase = "exiting" /\ hooks = <<>> /\ queue = {} /\ batch = {}

\* The process is killed.
Kill ==
  /\ phase # "killed" /\ ~Exited
  /\ phase' = "killed"
  /\ queue' = {} /\ batch' = {}
  /\ lost' = lost \cup queue \cup batch
  /\ UNCHANGED <<far, ended, delivered, counts, hooks>>

Export == ExportSucceeds \/ ExportFails \/ ExportRaises

Next ==
  \/ EndSpan \/ Take \/ Export \/ Collect
  \/ Exit \/ ShutdownMeter \/ ShutdownTracer \/ Change \/ Kill

\* Mutant: an export need not end.
FairnessWithoutTimeout ==
  /\ WF_vars(Take) /\ WF_vars(Collect)
  /\ WF_vars(ShutdownMeter) /\ WF_vars(ShutdownTracer)

\* The worker runs, an export ends (the exporter has a timeout), the reader's time
\* comes, and the hooks run to their end.  That anything is taken is not assumed.
Fairness ==
  /\ WF_vars(Take) /\ WF_vars(Export) /\ WF_vars(Collect)
  /\ WF_vars(ShutdownMeter) /\ WF_vars(ShutdownTracer)

Spec == Init /\ [][Next]_vars /\ Fairness

------------------------------------------------------------------------------
(* Properties                                                               *)

TypeOK ==
  /\ ended \in 0..MaxSpans
  /\ queue \subseteq 1..ended /\ batch \subseteq 1..ended
  /\ delivered \subseteq 1..ended /\ lost \subseteq 1..ended
  /\ Cardinality(queue) <= MaxQueue
  /\ failures \in [Reasons -> Nat]
  /\ shown \in Nat /\ failed \in Nat /\ atExit \in Nat
  /\ phase \in {"running", "exiting", "killed"}
  /\ hooks \in {SubSeq(ExitHooks, 1, n) : n \in 0..2}

\* A span the host has ended is in exactly one place.
Accounted ==
  /\ queue \cup batch \cup delivered \cup lost = 1..ended
  /\ queue \cap batch = {} /\ queue \cap delivered = {} /\ queue \cap lost = {}
  /\ batch \cap delivered = {} /\ batch \cap lost = {} /\ delivered \cap lost = {}

Fate(s) ==
  CASE s \in lost          -> "lost"
    [] s \in delivered     -> "delivered"
    [] s \in queue \cup batch -> "pending"
    [] OTHER               -> "unborn"

Channel == INSTANCE LossyChannel WITH
  Spans <- 1..MaxSpans,
  fate <- [s \in 1..MaxSpans |-> Fate(s)]

\* Under a queue that overflows, a far side that fails, exporters that raise and an
\* exit that races them, no more becomes of a span than one delivery or one loss.
KeepsPromise == Channel!Spec

\* Every batch that failed is counted once, whether its export returned FAILURE or
\* raised (_export.py:44-54): the counter cannot be less than the outage it is the
\* only witness of, nor more.
FailuresCounted == Sum = failed

\* A batch is rejected only if the far side has misbehaved: whichever form of the
\* endpoint init() was given, spans go where a healthy far side takes them.
RejectedForCause == failures["rejected"] > 0 => faulty

\* A span does not stay in the process: under every fault, and an exit at any time,
\* it is delivered or given up.
EverySpanLeaves ==
  \A s \in 1..MaxSpans : s \in queue \cup batch ~> s \in delivered \cup lost

\* The count of a failure gets out, in the end with the exit's last export, unless the
\* far side the count is posted to fails as well, or the process is killed: whichever
\* form of the endpoint init() was given, the counter has a path of its own under it.
CountGetsOut ==
  \A n \in 1..MaxSpans :
    failed >= n /\ Open("meter") /\ fault = "none" /\ phase # "killed"
      ~> shown >= n \/ fault # "none" \/ phase = "killed"

\* What the exit's flush fails to export is counted and never shown: the hooks of the
\* providers run in the reverse of the order init() makes them, so the last export of
\* the counter comes before the last of the spans (_setup.py:69, 97), although "the
\* count is itself a metric that has to get out" (_export.py:28-29).
LastFlushUnshown == Exited => shown <= atExit

==============================================================================
