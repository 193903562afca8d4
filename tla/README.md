# A verification development of Spanlight

Spanlight (`src/spanlight`) instruments agent runs with OpenTelemetry spans and
watches them, while they run, for four kinds of trouble: a tool called in a
loop, a cost ceiling crossed, retries amplified, a tool failure silently
answered over. The repository also holds the chat client (`src/llm`) and the
demo service (`src/app`) whose traffic it watches. This directory models the
parts whose correctness is a matter of state, order and concurrency, checks
them with TLC and proves the main results with TLAPS.

## Inventory

| Component | State | Operations | What makes it correct |
|---|---|---|---|
| Detectors, `_detectors.py` | a session's scratch space: counts per call, failed attempts, failed / recovered / model-after flags | `loop_detector`, `retry_amplification_detector`, `watch_for_silent_failure`, `cost_ceiling_detector`, `silent_tool_failure_detector` | each reports exactly when the history of the session warrants it, on the right step, once |
| Registry, `_detector_framework.py` | `_state`: an ordered dict of scratch spaces with the time of their last use | `state_for`, `_evict`, `release`, `run`, `_emit` | bounded; evicts only idle or least recently used sessions; at most one detection per span |
| Spans and sessions, `_spans.py`, `_session.py` | the current session id (a context variable), the open spans | `session`, `_span` and the span helpers | every span counts for its session; a session is released and its cost observed when it ends, whatever its outcome |
| Metrics, `_metrics.py`, `_usage.py` | counters and histograms | `count_detection`, `record_session_cost`, `record_token_usage`, `count_export_failure`, `record_usage` | detections count sessions, not steps; each cost is observed once |
| Usage and prices, `_usage.py`, `llm/providers` | list prices, quotas | `record_usage`, `cost_usd_equivalent`, `chat_completion`, `parse_retry_after`, usage parsers, `get_provider` | a reply is classified as transient or not; delays, tokens and costs are read right or not at all, unknown is not zero |
| Export, `_export.py`, `_setup.py` | the processor's queue, the exporter, the failure counter | `init`, `CountedExporter.export`, `_signal_endpoint` | an export failure is counted once and never reaches the caller; spans go where a healthy collector takes them |
| Setup, `_setup.py` | the process's tracer provider, metrics label, registered detectors | `init`, `_register_default_detectors` | what a host is watched for follows from the last `init`, however often it is called |
| Propagation, `_propagation.py`, `_session.py` | the session id and OpenTelemetry's context, per task; baggage and traceparent in headers | `headers`, `session(headers=)`, `bind` | a logical run over several tasks and services is one session and one trace; runs are never joined |
| Chat client, `llm/client.py`, `throttle.py`, `retry.py` | a cooldown per provider; the tries of a call | `complete`, `is_open`, `trip`, `retry_with_backoff` | Retry-After is honoured, only transient errors are retried, every call ends |
| Agent route, `app/routers/agent.py` | a module-level client | `run` | status, cost, reports and trace of a request tell what happened to it |
| Fault server, `fault/__init__.py` | the fault | `faulty_endpoint` | what each fault is to the exporter that meets it |
| Replays and traffic, `eval/`, `bench/false_positives.py` | the tracer they swap, the detectors they register, `docs/proof` | `replay`, `measure`, `main` | what is reported is a fact about what was replayed; the process is left as it was, or as documented |
| Field study, `study/`, `eval/detector_gate.py` | the corpus, its manifest, two label files, the baseline | `collect`, `derive_labels`, `label`, `precision`, the gate | a stopped collector resumes, and a finished corpus can be extended; labels are of the sample and given once; the gate lets no changed report through |
| Overhead and adoption benches, `replay_verdicts.py`, dashboards | files | scripts | timings, counts and I/O |

How they interact: the route opens a session, which binds the session id for the
task and for the tasks it creates. Each span, when its body ends, calls
`registry.run` from `_span`'s `finally`; the registry sums the span's cost,
consults the detectors on the session's scratch space and marks the span with
at most one detection. The chat client opens one model span around its retry
loop and an attempt span for each try; attempts that fail feed the retry
detector. When the session's block is left, its span ends (the session-phase
detector runs), the scratch space is released and its total goes to the
session-cost histogram.

A request to another service carries the session id as baggage beside the
traceparent. Ended spans go to the SDK's queue, which a worker thread empties
through `CountedExporter`; its failure counter leaves by the metrics reader, for the
same far side. The
programs of `eval/`, `bench/` and `study/` run the same library in one process
with the tests, or over files that outlive them.

What is hard: many runs share one registry, and sometimes one id, and interleave
at every await; a scratch space can be evicted under an open session, or come
back after it closed; the one detection slot of a span couples detectors that
know nothing of each other; spans end by return, exception or cancellation; the
gate of the throttle is read before a sleep and used after it, while other calls
trip it; the worker, the reader, the host's spans and the exit race each other; two
context variables must move together; a program that is aborted leaves global
state behind, a collector that is killed a half-written run. `PROJECT.json` lists
these hazards with their lines.

## Modules

| Module | What it is | Corresponds to |
|---|---|---|
| `Detection` | pure: one span's effect on a scratch space | the five detector functions, one operator each, in the order `_register_default_detectors` registers them; `RunSpan` and `RunSession` are `DetectorRegistry.run` on its two phases; `RunRegistered` is its loop over whatever detectors are registered, and `DefaultDetectors` those of `init` |
| `DetectionTrace` | one session with its whole history | `End` and `Close`: `run` on a step and on the session span |
| `Registry` | pure: the ordered dict and its bounds | `StateFor`, `Kept` (`_evict`), `Release`, `Run` |
| `Sessions` | concurrent runs over one registry | `Open`, `EndStep`, `Close`: `session()` entered, a span ended, `session()` left; `Tick` the clock |
| `SessionContract` | abstract: what one logical run is promised | no code; `Sessions!KeepsContract` refines it |
| `ChatClient` | concurrent calls of `complete()` | `Attempt` is the head of `_attempt`; `Wake`, the answers, `Retry`, `Cancel` the awaits it comes back from |
| `ProviderCall` | pure: what a name, a reply, a 429, a usage block means | `Raises` is `chat_completion`, `RetryAfter` is `parse_retry_after`, `Unreadable` where that raises, `Usage` the two parsers, `CostEquivalent` the price |
| `Agent` | concurrent requests to the route; composes `ChatClient` (as an instance), `ProviderCall` and `Detection` | `Begin` and `BeginUnknown`: the route up to `complete`; `Receive`: a reply, with everything it ends; `Cancel`: the task is cancelled |
| `Export` | spans and failure counts leaving a process | `EndSpan`, `Take`: the SDK's queue and worker; `ExportSucceeds`, `ExportFails`, `ExportRaises`: `CountedExporter.export`; `Collect` the reader, heard only if the far side is well (`Heard`); `Exit` and the hooks in `hooks`, `ShutdownMeter` and `ShutdownTracer`, in the reverse of the order `init` made them; `Kill` |
| `LossyChannel` | abstract: what becomes of a span | no code; `Export!KeepsPromise` refines it |
| `Propagation` | tasks of several services and the requests between them | `EnterSession`, `Serve`: `session()` without and with headers; `EnterStep` a span; `Leave` either's `finally`; `Call`: a request with `headers()` over a hop |
| `Scripts` | pure: the sessions the repository's own programs make | `Patterns`, `Shapes`, `Fixtures`, `Request`, `Rebuilt`; `ScriptsAssumption` is what the source's thresholds, prices and ceilings satisfy |
| `Harness` | one process and the programs that run in it | `InitHost`, `Enter` / `Leave` of a replay, `StartTraffic`, `Prove` / `Publish`, and `EndSpan`, `RunRegistered` on the detectors as registered |
| `Study` | the study's files and the programs over them | `Start`, with the target it is given, to `Finish`, `Interrupt`, `Kill`: `collect.py`, run again at will; `Derive`; `SitDown`, `Label`, `GetUp`: `label.py`; `Compare`, `UpdateBaseline`: the gate |
| `Detection_proofs`, `Sessions_proofs`, `ChatClient_proofs`, `DetectionTrace_proofs`, `Export_proofs`, `Propagation_proofs`, `Agent_proofs`, `Study_proofs` | the theorems and their lemmas | those of `Registry` open `Sessions_proofs`; those of `Scripts` and `Harness` follow those of `DetectionTrace`, whose specification is `TraceSpec` so that both can be taken together; `Agent_proofs` takes those of `ChatClient_proofs` as an instance, the way `Agent` takes `ChatClient` |
| `MC...` | constants for TLC | |

A scratch space is a record with a field for each key of the dict; a key that is
absent is a zero, `FALSE` or an empty set, as the code's `get` defaults make it.
A tool's name and fingerprint together are one identity (`Calls`); `NoCall` is a
tool span without arguments or a span of another kind. Costs are natural
numbers: the properties add and compare them, and no property depends on
rounding. The order of the `OrderedDict` is kept as the set of ids that come
after each entry, which gives move-to-end and the first key without sequences.

**Atomicity.** Runs are asyncio tasks. From the end of a span's body to the end
of `_span`, and on to the end of `session()`, there is no await, so each span
end and each session end is one action. The same holds in the chat client
between two awaits. The throttle's `asyncio.Lock` is never held across an await
and so never contended. In `Export` the host, the worker and the reader are threads:
each queue operation and each export's return is an action, so everything
interleaves with everything. In `Study` each line a program writes is an action.

**History.** `spent`, `dropped`, `created`, `lastUse`, `strayed` (`Sessions`) and
`answers`, `overtaken`, `owed`, `replaced` (`ChatClient`), `replied` (`Agent`),
`delivered`, `lost`, `failed`, `atExit`, `faulty` (`Export`), `losses` and the `run`
and `origin` of a task (`Propagation`), `since`, `shown`, `proving` (`Harness`) and
`stops`, `cut`, `begun`, `read` (`Study`; and `labels[i].of`, the number of sessions a label
was given at) exist for the properties and bounds: no guard that
stands for code reads them.

**Mutants.** An operator whose comment begins with "Mutant" is a faulty version
of the one it precedes, used only to confirm that a property can fail:
`PROJECT.json` says which property each breaks.

## Runs

Passing:

| Run | Instance | What it shows |
|---|---|---|
| `DetectionTrace` | up to 5 steps out of 9 kinds (two calls, every outcome, with and without cost), thresholds 2, ceiling 1 | each detector against a definition over the whole history: `LoopReportedAtFirstRepeat`, `RetriesReportedAtThreshold`, `CeilingReportedOncePromptly`, `SilentFailureVerdict` |
| `SessionsRegistry` | 4 runs, two of them with one id, each sampled or not, with one step each that may end after its session; cap 2, TTL 1, clock to 2 | `BoundedMemory`, `CostConserved`, `OncePerScratchSpace`, `OnlyInFlight`, `EvictsOnlyIdleOrOldest` when runs release under each other, spans end after their session, and sessions are evicted under open runs and come back |
| `SessionsContract` | 2 runs with ids of their own, every kind of step, room for both | `KeepsContract`: each run implements `SessionContract` whatever the other does |
| `ChatThrottle` | 3 calls, 2 providers, 2 attempts each, delays 1 and for ever | `OutcomeFollowsAnswers`, `SendsOnlyPastKnownCooldown`, `HonoursOwnRetryAfter`, and `EveryCallEnds` under fairness |
| `Agent` | 3 requests, two of which share a provider and its gate; one of them meets every kind of reply: among its 429s a delay in a header, in a detail, in milliseconds in the message, `nan`, `inf`, unreadable and passed over, and unreadable in the message, which raises; the third asks for an unknown name | `StatusTellsTheFault`, `SessionCostsItsAnswer`, `ReportsMatchOutcome`, `FailureTraceable`, and `EveryRequestAnswered` under fairness |
| `Export` | 3 spans, a queue and a batch of 2, a fault that fails an export and one that hides behind a 200, exceptions with and without a reason, three forms of the endpoint | `FailuresCounted`, `RejectedForCause`, `LastFlushUnshown`, `KeepsPromise`, and `EverySpanLeaves`, `CountGetsOut` under fairness |
| `Propagation` | 3 tasks, two of a traced service and one of an untraced one, 3 identifiers, blocks nested twice, 2 requests over hops that lose either header | `RunIsWhole` (one session, one trace), `RunsStayApart`, `SampledWhole`, `StampedAsItsParent` |
| `Harness` | the source's thresholds, prices, patterns, shapes and fixtures as they are; a host with and without a ceiling; corpus sessions at, just above and together at the ceiling | `HostIsWatched`, `ReplaysAreFaithful`, `DemonstrationsShowIt` |
| `Study` | a corpus of 4 sessions, finished as it is or brought to 5, extended from the one to the other or started again for nothing; runs of 2, one stop; 2 labels, a sample of 2 | `TypeOK`, `ResumesWhereItStopped`, `CountedSessionsAreWhole`, `LabelsAreTheSample`, `GateHoldsTheLine`, `ReportsAgree`, with a corpus that grows between and under the programs that read it, and `CollectionEnds` under fairness |

Type invariants. `TypeOK` of `DetectionTrace`, `Sessions`, `ChatClient`, `Export` and
`Propagation` is proved and not run again; those of `Agent` and `Study` are proved and
still checked by their runs. `EachTypeReportedOnce`, `ContextRestored` and `Accounted`
are also proved only.

Why the bounds are enough. In `Propagation` nothing happens once the
identifiers are spent: no span could be started any more, and the properties are
about spans. Thresholds of 2 with 5 steps leave room for a
crossing, a step after it and interference of another detector on the same step,
which is what the detection slot can confuse. Three ids against a cap of 2
is the least that evicts, a fourth run the least that shares one of them, and a TTL of
1 with a clock to 2 the least that expires one entry and spares another; the one step of
a run and its session span are two uses of an id, and four where it is shared. That run
reports by the ceiling alone, as a step that costs is enough to lose and gain a scratch
space; `SessionsContract` has every kind of step. In `SessionsContract` no time passes and
all sessions fit: the contract is promised only where nothing is evicted, ids are
not shared and no step outlives its session. The chat client has no bound besides
its constants: time is kept as what is left of each delay, so its state space is
finite. Three spans against a queue of 2 overflow while a batch is out, and are
enough for a failure before the exit and one after. Three identifiers make a
session, a session that serves its request and a step of that, or two runs and a
step that could be confused with either; the theorems lift the bound. In
`Harness` nothing is scaled down but the corpus, whose sessions are those at and around
its ceiling, and the ceilings a host may set; the theorems lift both.

In `Study` four sessions are the fewest with quartiles from which one can stand out, and
one run of 2 that is interrupted before, between and after its spans shows every way a
run is cut. The targets 4 and 5 make the collector stop at once, a session past its
target, extend a finished corpus, and find more than it was asked for. A sample of 2 of 4
to 8 sessions moves as the corpus grows, and two labels are one before and one after.
What a call comes to goes by the number of its session: one that costs, one that does
not parse and, after a stop, one that is refused; those of the first corpus add a slow
one and a verdict of failure.

Deadlock is checked wherever the system never stops by itself (`ChatThrottle`,
`Export`, `Harness`, `Study`: a corpus that was finished may always be started on
again). The other systems stop when their sessions have ended, or
steps or identifiers are used up, and their configurations say so.

**Fairness** is assumed where a property needs it. `ChatClient` and `Agent`: the
clock advances, a task whose sleep is over is scheduled (`Wake`, `Retry`), and a
request is answered or fails, because every request carries `DEFAULT_TIMEOUT`
(`base.py:42-45`); nothing is assumed of which answer comes. A call put to sleep
by `Retry-After: inf` is excepted (`Stuck`): it does sleep for ever. `Export`: the
worker runs, an export returns (the OTLP exporter has a timeout), the exit hooks
run to their end, and the periodic reader's time comes. All of it is weak fairness of
what a thread does by itself; that anything is taken by the far side, spans or counts, is
never assumed, so `CountGetsOut` says of an outage only that it is told of once it is
over. `Study`: a collector that runs goes on (`WF` of `Work`), and while no corpus has
been finished it is started again by who wants one; that a finished one is extended is
allowed and never assumed. Stops are bounded by `MaxStops`.
`Sessions`, `Propagation`, `Harness` and `DetectionTrace`
assume none.

### Where the code and its comments part

Three runs check what a document or a test says and TLC finds the behaviour that breaks
it; nothing is fixed in the models, which follow the code.

| Run | Says | Shows |
|---|---|---|
| `RecoverySticky` | `_detectors.py:194` the rule of a silent failure | an early recovery masks every later failure: `recovered` is never reset |
| `CleanWithoutVerdict` | `study/taxonomy.md:17`, `label.py:39` clean sessions produced a verdict | the sessions of an interrupted run carry no error and no verdict, are counted, and are labelled clean |
| `MalformedDelay` | `tests/llm/test_retry_after.py:97` parsing a 429 must not make it an unhandled exception | a message like "retry in 1.2.3s" matches the pattern and is refused by `float()` outside any `try` (`base.py:98`): `ValueError`, one attempt, 500 |

More was found on the way. The properties of the passing runs are stated so as to
say what the code does in these cases:

- The watcher comes after the loop detector in the chain, so a recovery on the very
  step that reports a loop is not seen (`_detectors.py:208`): `SilentFailureVerdict`.
- Cancelled calls end UNSET and count for a loop (`_detectors.py:54` "Only calls
  that succeeded"), and a cancelled session can be reported as one that answered:
  `LoopReportedAtFirstRepeat`, `SilentFailureVerdict`.
- Two runs that share an id release each other's scratch space, so a type can be
  reported again and the cost is observed in parts (`_metrics.py:75`):
  `OncePerScratchSpace`, `CostConserved`.
- A background task's span puts a closed session back into the registry
  (`_spans.py:174`): `OnlyInFlight`.
- The cap also takes scratch spaces from sessions that do get to their release;
  their counters and cost are lost with them.
- Another call's 429 replaces a longer cooldown by a shorter one (`client.py:48`):
  `HonoursOwnRetryAfter`. A call asleep or in flight when its provider is tripped
  does not wait (`throttle.py:9`): `SendsOnlyPastKnownCooldown`.
- The session span of a failed request records `HTTPException`, since the mapping
  is inside the session block (`agent.py:68-70`): `FailureTraceable`.
- The exit hooks run in reverse order, so what fails in the last flush is counted and
  never shown (`_export.py:28`): `LastFlushUnshown`.
- The sample is drawn anew at every sitting from the sessions there are, so extending a
  finished corpus (`study/README.md:120-123`) moves it, and what was labelled before may
  fall outside it (`label.py:10` "without losing the sample"): `LabelsAreTheSample` says
  it of the corpus a label was given on.

Seen while reading, and not run: `collect.py:128` calls a missing endpoint fine,
but without one there is no SDK provider to add a processor to; the taxonomy
excludes cold starts from A5 and `derive_labels.py` does not; a call without usage
in the corpus makes `detector_gate.replay` raise `KeyError` (`Replayable`); ratios are
compared rounded to four places (`Share`), which hides one session that is no longer
reproduced from 20000 sessions on (`GateHolds` is proved below that); an `error.details`
that is a number, or an `@type` that is no string, makes `parse_retry_after` raise as an
unreadable message does (`base.py:86-89`).

## Proofs

All assume only the constants' assumptions, which the modules name and TLC evaluates:
finite session ids, a positive cap, natural costs and delays, at least one attempt, a
positive queue and batch, a `None` or `Absent` that is nothing else; of an endpoint
that it is a base, alone or with the path of one signal (`EndpointsAssumption`); of a
first corpus that its sessions are numbered from one (`Numbered`); of a reply that it
has the fields `ProviderCall` reads, `details` a list, and that what it is charged is a natural number
(`AgentAssumption`: the total a provider names includes the prompt). The sessions of
`Scripts` are the source's own, so what is proved of them assumes what the source
chose them for (`ScriptsAssumption`): a loop is 2 or 3 identical calls and retry
amplification 5 or 6 failed attempts; of the prices, that a cheap fixture stays under
its ceiling and the dear one goes over it; and of the ceilings a host may set, that the
expensive shape crosses them and the others do not; and that the calls and costs of the
scripts are among `Calls` and `Costs`. The corpus and those ceilings are otherwise any.

*`Detection_proofs`.* Types and the effect of one span, detector by detector, for the
modules that use them; and `DefaultsAsRegistered`. `RunSpan` and `RunSession` write the
chain of detectors out in its order, where the code loops over a list that `init` has
filled; for `init`'s list, with a ceiling or without, that loop comes to exactly these,
for every span and every scratch space. The loop is a recursive function of the position
in the list (`consulted`); `RunsInTurn` says what it is for a list of given length.

*`Sessions_proofs`.* `Sessions!Spec` keeps `TypeOK`, `BoundedMemory`,
`CostConserved`, `OncePerScratchSpace` and `OnlyInFlight`, for every number of
runs however they share ids, every sampler, and steps still open when sessions
close. The inductive invariant is their conjunction with `RoomToReport`: a
scratch space that is held was created, and a type it has not fired has been
reported fewer times than scratch spaces were created. `OncePerScratchSpace` is
not inductive without it, since nothing else says that a report from a resident
scratch space has room. The argument goes bottom up: what one span does to one
scratch space (`RunSpanLeaves`: sums its cost, reports at most one type, not
fired before; proved detector by detector), what it does to the registry
(`RunRegistry`), what it does to the accounts (`RecordedAccounts`), and what a
release moves (`ReleaseAccounts`).

The memory bound is the delicate one. `Kept` says who survives `_evict` by
counting who comes later, and that this leaves at most the cap needs an oldest
entry to exist: `LeastExists`, that a finite total order has a least element, by
well-foundedness of strict inclusion on finite sets. So `TypeOK` includes that
the order kept in `after` is a total order (`InOrder`), and every operation is
shown to keep it.

Of eviction: `EvictsOnlyIdleOrOldest` is an action property, and the order of the dict
alone does not give it, since the property speaks of times. `UsedInOrder` links the two:
who comes later in `after` was used no earlier, and nobody was used in the future. Every
use of a scratch space moves it to the end, which keeps the link.

Of the contract: `KeepsContract` is false of every instance in which ids are shared,
steps are late or scratch spaces are evicted, so the refinement is proved twice. Under
distinct ids (`OwnIds`), each behaviour in which no step is late and nothing is evicted
implements `SessionContract` (`UndisturbedRunsKeepContract`); and an instance with room
for every id, a TTL no run outlives and no late steps has only such behaviours
(`ContractIsKept`). The run `SessionsContract` is an instance of the second. What the
mapping needs besides `Inv` is `Undisturbed`: nothing was dropped, and a session that has
not closed is unobserved and has reported what its scratch space has fired.

*`ChatClient_proofs`.* `TypeOK`, `OutcomeFollowsAnswers` and the two action
properties. `GateInv` is the strengthening: a call asleep at the gate that nobody
has overtaken sleeps at least as long as the cooldown lasts; a debt nobody has
replaced is no longer than the cooldown; and a sleeper that was overtaken was
replaced by the same 429, which is what links the two when it wakes.
`TriesInv` ties the answers of a call to its tries.

`EveryCallEnds` is liveness and TLC's, but the half of it that is not about scheduling is
proved: `EveryCallGetsNearer`. `WorkLeft` counts the awaits a call can still have before
it, three for every attempt it has left; each step of the call makes it smaller and
no step of another makes it larger, however often other calls trip its gate. A call that
did not end would have to stay for ever at one await.

*`DetectionTrace_proofs`, of `DetectionTrace`.* That the incremental detectors agree
with the history. The counters are not sums over a sequence but cardinalities of sets of its steps,
so a step adds one element to a set and no induction over data is needed. Even the
money spent is one: `Spent` counts the pairs of a step and a unit of its cost
(`Spendings`), to which a step of cost c adds c pairs (`Charged`), and the ceiling is
crossed on the one step on which that size passes it. The
inductive invariant has, besides the types, three parts that hold while the
session is open: the counters are those cardinalities (`Counted`); what has fired
is what was reported, and a threshold has been crossed exactly if its type has
fired (`Fired`); the watcher's flags are the facts about the history they stand
for (`Watched`). `Told` keeps, for each step already past, what it should have
reported; the verdict of the closed session follows from `Watched`.

*`DetectionTrace_proofs`, of `Harness`.* `HostIsWatched`, `ReplaysAreFaithful` and
`DemonstrationsShowIt`, for any services, ceilings and corpus, and programs run and
aborted in any order any number of times. Two arguments meet.

What the detectors make of a session is shown of its script, for any list of detectors
a program registers (`IsChain`: with or without the retry detector and the ceiling).
`IsPlan` says what matters of a script: how many identical calls it begins with, that
all its other calls differ, how many attempts have failed and what was spent by each
step, whether its first step is a tool that broke, and if so, that no loop comes of it.
`At` says what the scratch space holds after k steps of such a script; one step leads
from `At` k to `At` k + 1, and `Reported` is what the session has been reported for when
it has ended. So each shape, pattern, fixture, corpus session and request only
has to be shown to have a plan (`Yields`). Most are spelled out step by step; the loops
of the source whose length is drawn at random (`long_research` makes 5 to 16 calls) and
the corpus, whose sessions have any length, are not, and are shown by induction on the
number of steps.

What detectors a session has is the invariant (`HarnessInv`). `Installed`: the list
registered is that of whoever registered it last, and while a replay runs it is the
replay's. `Traced`: a replay runs under its own tracer, and has put aside one that is no
replay's. `Running`: the session under way is the running program's and on its way to
what it must be reported for (`Overseen`), or nobody records it. `Tallied` says what the
traffic has counted between two spans, and `Published` what the artifact shows. None of
the three properties is inductive: they speak only of sessions that have ended.

*`Export_proofs`.* `TypeOK`, `FailuresCounted`, `LastFlushUnshown`, that every span
is in exactly one place (`Accounted`), and the refinement `KeepsPromise`. The
invariant is their conjunction with what the order of the exit hooks comes to
(`ShownIsCounted`): what was shown never exceeds what has failed; the hooks left are an
initial piece of those `init` registered, so while the tracer's has not run, the reader
may still tell of everything, and once it has, the reader's had before it, and what was
shown stays within what had failed by then. For the refinement every action is shown to
move spans the way `LossyChannel` allows or to leave them where they are; the
disjointness in `Accounted` is what makes the refinement mapping, which asks where a
span is, a function of that place.

`RejectedForCause` is about an argument of `init`: whichever of the accepted forms the
endpoint has, `_signal_endpoint` makes of it the path of each signal, so that a healthy
collector never answers 404. The lemmas follow `rstrip` and the suffix test over any
number of slashes; the invariant adds that a far side that misbehaves now has been
recorded as one that did.

*`Propagation_proofs`.* `TypeOK`, the four properties of the run and
`ContextRestored`, for every number of tasks, services, hops and nested blocks. None
is inductive: what a span is stamped with depends on what tasks, frames and requests
in flight carry. `MarksAgree` says this of one mark,
a context with the session, run and origin that go with it; `Held` says it of every
task, of every frame it will return to and of what it was born with; `RequestsTell`
of every request on the wire, as far as its hop has not lost it; `SpansPlaced` and
`Nested` tie a span to its trace, its parent and its run. Freshness of identifiers
(`ids` bounds every mark) keeps runs apart.

*`Agent_proofs`.* `TypeOK` and the four properties, for any number of requests, any
providers they share and any replies. Nothing about the client is proved again: an
instance of `ChatClient_proofs` brings its invariant and the lemmas of each of its
actions, and `AgentInv` conjoins that invariant with the types of the sessions and with
what each request has to say. The four properties speak of requests that were answered,
so what is inductive is about requests that were not: `Underway(trail, n)` says what the
spans of a session add up to between two replies of its call, after n attempts have
failed. Nothing is charged yet, the scratch space counts n failed attempts, it remembers
a tool failure exactly if the tool's span recorded one, no model call has succeeded since, and
retry amplification has been reported exactly if n has reached the threshold. A reply
either keeps a request under way with one attempt more, or ends its spans one by one;
`CallFails`, `CallReturns` and `CallCancelled` say what the session then holds, from
the detectors' lemmas. `RaisesIs` and `RetryAfterType` say what a reply means, case by
case of `chat_completion` and `parse_retry_after`, and `ChargeIsOwed` that what the model
span is charged is what the properties say is owed. Every action moves one request and
leaves the others' sessions alone, though not their gate.

That the route uses the client as `ChatClient` says is a refinement,
`RouteImplementsClient`: every step of `Agent` is a step of the client or leaves it
alone, and `Agent`'s fairness is the client's. So all that is proved of `ChatClient`, and
what TLC checks of its liveness, holds of the route's calls; `RouteHonoursTheGate` states
the two action properties for them.

*`Study_proofs`.* `TypeOK` and the five invariants, for every corpus there is at first,
any targets it is brought and extended to, size of a run and number of stops, labels
and people. Nothing of the argument needs a finished corpus to stay as it is. Resuming
needs `RunIsNew` (the items of a run are in no file yet, and few enough to stay within a
run of the target); whole sessions need `CallsAreWritten`, that what a run remembers of a
call is what the corpus says. Of labels: a corpus only grows, so one of as many sessions
as a sitting read is the same corpus and has the same sample; `DeskIsUnlabelled` says
so of the sitting under way, and that what it shows nobody has labelled (`OfflineKept`
has the two cases). The gate needs only `BaselineReproduced`, that a baseline, of
whatever corpus, is one its detectors reproduced: a corpus of another size is blocked by
its size, one of the same size by its fidelity, which is then below one. Because ratios
are rounded, that is true of fewer than 20000 sessions (`RoundingShows`). What the gate
says is proved of any set of sessions (`GateBlocksEveryChange`), not just of one or two.

Induction over data is done without an induction theorem, since those take an operator:
a set of numbers without a least element is empty (well-foundedness of `<` on the
naturals). `Upwards` says so of a property given as a set, and recursive functions are
described by the equation they satisfy (`SpentIs`), a function that satisfies it being
built from below.

Only model-checked is what is liveness, which is out of the prover's reach:
`EveryCallEnds`, `EveryRequestAnswered`, `EverySpanLeaves`, `CountGetsOut`,
`CollectionEnds`. The three runs that end in a violation have nothing to prove. The mutants,
of course, are only run.

## Not modelled

- Wording, layout and logging; event payloads, attribute names, redaction and the
  salt; the token-usage histogram, which nothing reads back; parsing of the OTLP
  headers.
- tenacity, httpx, asyncio, the OpenTelemetry SDK and ShipGate beyond what the code
  relies on: their definitions are marked external in `PROJECT.json`.
- JSON of a reply whose fields are of a type the code does not expect, but for an answer
  that cannot be read at all: whatever is raised then leaves the route as a 500.
- Deleting `corpus.jsonl`, which `study/README.md` advises before a fresh collection: it
  starts the study from nothing, except that labels of the old corpus stay.
- Floating point, apart from what `float()` makes of a Retry-After. Costs are natural
  numbers in a unit small enough to be exact.
- Threads: an ASGI handler declared `def` would run the registry on a pool thread,
  without a lock. The library is written for asyncio (`_session.py:8`), the app declares
  no such handler, and nothing says what should hold if a host did, so there is no
  property for a model of it to have.
- The decorators, which only wrap the context managers.
- `bench/overhead.py` and `bench/adoption_diff.py` (timings, a count of a diff),
  `study/replay_verdicts.py` (asks a live judge and writes its answers), what the
  analysis prints, confidence intervals, the dashboards, the demo and health routes.

## Plan

Done: detectors, registry, sessions and their contract, chat client, providers and
the agent route, export and its channel, propagation, the programs of `eval/` and
`bench/`, the study. Every invariant and every action property that a passing run checks
is proved.

What could follow:

1. `Agent` over the registry `Sessions` shares between runs, instead of a scratch space
   of each request's own. `KeepsContract` already says that a run with an id of its own
   cannot tell the difference.
2. The Export pipeline's collector inside `Propagation`: traces halved by a lost batch.
3. If a host is ever to run sessions on threads: the steps of `state_for` and `_evict`
   (`get`, store, `move_to_end`, scan, delete) interleaved.
