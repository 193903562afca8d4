-------------------------------- MODULE Study --------------------------------
(***************************************************************************)
(* The field study's files and the programs that write and read them:      *)
(* collect.py appends every span to the corpus and resumes after it was    *)
(* stopped, derive_labels.py and label.py label its sessions,              *)
(* eval/detector_gate.py compares what the detectors report on it with a   *)
(* baseline.  The programs are run by a person, in any order and at any    *)
(* time, so the corpus may grow between any two of them.                   *)
(***************************************************************************)
EXTENDS Integers, Sequences, FiniteSetsExt, SequencesExt

CONSTANTS
  Targets,      \* sessions the collector may be asked for when it is started
  ItemsPerRun,  \* ITEMS_PER_RUN
  Ceiling,      \* CEILING_USD
  Collected,    \* what the calls of the sessions came to that the corpus has at first
  Answers(_),   \* what a judge's call may come to, for a session
  SampleSize,   \* SAMPLE_SIZE
  None,
  MaxStops,     \* bound: how often the collector is stopped, or a run of it raises
  MaxLabels     \* bound: labels a person gives

ASSUME Numbers ==
  /\ Targets \subseteq Nat \ {0} /\ Targets # {}
  /\ {ItemsPerRun, SampleSize} \subseteq Nat \ {0}
  /\ {Ceiling, MaxStops, MaxLabels} \subseteq Nat

\* The sessions of the corpus that is there at first are numbered from one.
ASSUME Numbered == Len(Collected) \in Nat /\ DOMAIN Collected = 1..Len(Collected)

VARIABLES
  corpus,    \* corpus.jsonl: the spans written
  collector, \* "down", "idle" between runs, or "running"
  target,    \* the sessions this collector, or the last one, was asked for
  items,     \* the sessions open in this run, and what their call came to
  done,      \* the sessions the collector counts
  opened,    \* sessions opened ever
  manifest,  \* corpus_manifest.json: the sessions of the corpus when it was finished
  derived,   \* labels_derived.jsonl
  labels,    \* labels.jsonl
  desk,      \* what a sitting with label.py has still to show
  baseline,  \* detector_baseline.json
  \* History, for the properties and bounds only:
  stops,     \* how often the collector was stopped, or a run raised
  cut,       \* the sessions that were open when a run was cut off
  begun,     \* how many sessions there were when the collector was last started
  read       \* how many there were when label.py was

state == <<collector, target, items, done, opened, manifest>>
history == <<stops, cut, begun>>
collecting == <<corpus, state, history>>
sitting == <<labels, desk, read>>
vars == <<collecting, derived, sitting, baseline>>

------------------------------------------------------------------------------
(* The corpus                                                               *)

\* How a call ends, as its span shows: a verdict and its price, or an error.
Judged(verdict, cost, latency) ==
  [verdict |-> verdict, error |-> None, cost |-> cost, latency |-> latency, usage |-> TRUE]
Unparsed == [Judged(None, 1, 1) EXCEPT !.error = "JudgeParseError"]
Refused == [Judged(None, 0, 1) EXCEPT !.error = "ProviderError", !.usage = FALSE]

\* Cancelled is not an Exception: the spans end with neither an error nor usage.
Cut == [Judged(None, 0, 1) EXCEPT !.usage = FALSE]

\* The corpus, by the session of the spans: the model span of its call, marked
\* when the session has come above its ceiling, and the item span, its own.
Written(spans, ended, answer) ==
  [s \in DOMAIN spans \cup ended |-> IF s \in ended THEN answer ELSE spans[s]]

WriteChats(log, ended, answer) ==
  [log EXCEPT
     !.chat = Written(@, ended, [answer |-> answer, marked |-> answer.cost > Ceiling])]
WriteItems(log, ended, error) == [log EXCEPT !.item = Written(@, ended, error)]

\* Mutant: the spans of calls are counted.
SessionsInByCall(log) == Cardinality(DOMAIN log.chat)

\* sessions_so_far: item spans, by their name.
SessionsIn(log) == Cardinality(DOMAIN log.item)

\* analyse.sessions: what has an item span.
Sessions == DOMAIN corpus.item

HasCall(s) == s \in DOMAIN corpus.chat
Answer(s) == corpus.chat[s].answer
Cost(s) == IF HasCall(s) THEN Answer(s).cost ELSE 0
Latency(s) == IF HasCall(s) THEN Answer(s).latency ELSE 0
Detections(s) == IF HasCall(s) /\ corpus.chat[s].marked THEN {"cost_ceiling"} ELSE {}

Init ==
  /\ corpus = [chat |-> [s \in DOMAIN Collected |->
                          [answer |-> Collected[s], marked |-> Collected[s].cost > Ceiling]],
               item |-> [s \in DOMAIN Collected |-> Collected[s].error]]
  /\ collector = "down" /\ target \in Targets
  /\ items = <<>>
  /\ done = 0 /\ opened = Len(Collected)
  /\ manifest = None /\ derived = None /\ baseline = None
  /\ labels = <<>> /\ desk = {}
  /\ stops = 0 /\ cut = {} /\ begun = Len(Collected) /\ read = 0

------------------------------------------------------------------------------
(* collect.py                                                               *)

Offline == <<derived, sitting, baseline>>

\* Mutant: a collector that is started again counts from zero.
StartAfresh(sessions) ==
  /\ collector = "down"
  /\ collector' = "idle" /\ target' = sessions
  /\ done' = 0
  /\ begun' = Cardinality(Sessions)
  /\ UNCHANGED <<corpus, items, opened, manifest, stops, cut, Offline>>

\* Without a salt, an endpoint or a real provider it stops before it has written.
\* A corpus that was finished is extended if the target is now above it.
Start(sessions) ==
  /\ collector = "down"
  /\ collector' = "idle" /\ target' = sessions
  /\ done' = SessionsIn(corpus)
  /\ begun' = Cardinality(Sessions)
  /\ UNCHANGED <<corpus, items, opened, manifest, stops, cut, Offline>>

\* A run of the gate opens a session for each of its items.
BeginRun ==
  /\ collector = "idle" /\ done < target
  /\ collector' = "running"
  /\ items' = [s \in opened + 1 .. opened + ItemsPerRun |-> None]
  /\ opened' = opened + ItemsPerRun
  /\ UNCHANGED <<corpus, target, done, manifest, history, Offline>>

\* The judge's call of an item ends, and its span is written.
EndCall(s, answer) ==
  /\ items[s] = None
  /\ items' = [items EXCEPT ![s] = answer]
  /\ corpus' = WriteChats(corpus, {s}, answer)
  /\ UNCHANGED <<collector, target, done, opened, manifest, history, Offline>>

\* Mutant: the item's span is written before the one of its call.
EndItemFirst(s) ==
  /\ corpus' = WriteItems(corpus, {s}, None)
  /\ items' = [u \in DOMAIN items \ {s} |-> items[u]]
  /\ UNCHANGED <<collector, target, done, opened, manifest, history, Offline>>

\* The session of the item ends, with the error of the call.
EndItem(s) ==
  /\ items[s] # None
  /\ corpus' = WriteItems(corpus, {s}, items[s].error)
  /\ items' = [u \in DOMAIN items \ {s} |-> items[u]]
  /\ UNCHANGED <<collector, target, done, opened, manifest, history, Offline>>

EndRun ==
  /\ collector = "running" /\ items = <<>>
  /\ collector' = "idle"
  /\ done' = SessionsIn(corpus)
  /\ UNCHANGED <<corpus, target, items, opened, manifest, history, Offline>>

\* asyncio.run cancels what is under way, and every span it ends is written: of an
\* item that waited for its turn, or was in its call, or after it.
CutItems(asked) ==
  /\ asked \subseteq {s \in DOMAIN items : items[s] = None}
  /\ corpus' = WriteItems(WriteChats(corpus, asked, Cut), DOMAIN items, None)
  /\ items' = <<>>
  /\ cut' = cut \cup DOMAIN items
  /\ UNCHANGED <<target, opened, manifest, begun, Offline>>

\* The run raises, and the collector goes on.
RaiseRun(asked) ==
  /\ collector = "running" /\ stops < MaxStops
  /\ stops' = stops + 1
  /\ CutItems(asked)
  /\ collector' = "idle"
  /\ done' = SessionsIn(corpus')

\* Ctrl-C.
Interrupt(asked) ==
  /\ collector = "running" /\ stops < MaxStops
  /\ stops' = stops + 1
  /\ CutItems(asked)
  /\ collector' = "down"
  /\ UNCHANGED done

\* A closed laptop: nothing more is written.
Kill ==
  /\ collector # "down" /\ stops < MaxStops
  /\ stops' = stops + 1
  /\ collector' = "down"
  /\ items' = <<>>
  /\ UNCHANGED <<corpus, target, done, opened, manifest, cut, begun, Offline>>

\* Mutant: the loop is left at the target only, not past it.
FinishExactly ==
  /\ collector = "idle" /\ done = target
  /\ collector' = "down"
  /\ manifest' = done
  /\ UNCHANGED <<corpus, target, items, done, opened, history, Offline>>

\* The target is reached.
Finish ==
  /\ collector = "idle" /\ done >= target
  /\ collector' = "down"
  /\ manifest' = done
  /\ UNCHANGED <<corpus, target, items, done, opened, history, Offline>>

------------------------------------------------------------------------------
(* derive_labels.py                                                         *)

\* Twice the median of a sequence in order.
TwiceMedian(ordered) ==
  LET n == Len(ordered)
  IN  ordered[(n + 1) \div 2] + ordered[n \div 2 + 1]

\* upper_fence: four times Q3 + 1.5 (Q3 - Q1), of the halves around the median.
UpperFence(values) ==
  LET ordered == SortSeq(values, <)
      n  == Len(ordered)
      q1 == TwiceMedian(SubSeq(ordered, 1, n \div 2))
      q3 == TwiceMedian(SubSeq(ordered, (n + 1) \div 2 + 1, n))
  IN  5 * q3 - 3 * q1

Each(measure) == FoldSet(LAMBDA s, all : Append(all, measure[s]), <<>>, Sessions)

\* One label per session; the first rule that matches.
Classify(s, costFence, latencyFence) ==
  CASE corpus.item[s] = "JudgeParseError"          -> "A6"
    [] corpus.item[s] \notin {None, "JudgeParseError"} -> "A2"
    [] corpus.item[s] = None ->
         IF HasCall(s) /\ Answer(s).verdict = "fail" THEN "A7"
         ELSE IF 4 * Cost(s) > costFence THEN "A4"
         ELSE IF 4 * Latency(s) > latencyFence THEN "A5"
         ELSE "A1"

\* A corpus of one session has no quartiles: statistics raises.
Derive ==
  /\ Cardinality(Sessions) >= 2
  /\ LET costFence    == UpperFence(Each([s \in Sessions |-> Cost(s)]))
         latencyFence == UpperFence(Each([s \in Sessions |-> Latency(s)]))
     IN  derived' = [s \in Sessions |-> Classify(s, costFence, latencyFence)]
  /\ UNCHANGED <<collecting, sitting, baseline>>

------------------------------------------------------------------------------
(* label.py                                                                 *)

\* Mutant: a session that was skipped is shown again.
AlreadyLabelledWithVerdict ==
  {labels[i].session : i \in {j \in DOMAIN labels : labels[j].label # "SKIP"}}

AlreadyLabelled == {labels[i].session : i \in DOMAIN labels}

\* A seeded draw from the sessions in order, some choice of places for each number
\* of them: here the first ones and the last, which a longer corpus moves.
Sample ==
  LET n      == Cardinality(Sessions)
      places == (1 .. SampleSize - 1) \cup {n}
  IN  IF n <= SampleSize THEN Sessions
      ELSE {s \in Sessions : Cardinality({u \in Sessions : u <= s}) \in places}

SitDown ==
  /\ desk = {}
  /\ Sample \ AlreadyLabelled # {}
  /\ Len(labels) < MaxLabels
  /\ desk' = Sample \ AlreadyLabelled
  /\ read' = Cardinality(Sessions)
  /\ UNCHANGED <<collecting, derived, labels, baseline>>

\* The person picks a class for the next of them, or cannot tell.
Label(label) ==
  /\ desk # {} /\ Len(labels) < MaxLabels
  /\ labels' = Append(labels, [session |-> Min(desk), label |-> label, of |-> read])
  /\ desk' = desk \ {Min(desk)}
  /\ UNCHANGED <<collecting, derived, read, baseline>>

\* And stops for today.
GetUp ==
  /\ desk # {} /\ desk' = {}
  /\ UNCHANGED <<collecting, derived, labels, read, baseline>>

------------------------------------------------------------------------------
(* detector_gate.py                                                         *)

Detectors == {"loop", "cost_ceiling", "silent_tool_failure"}

\* The labels a detector should fire on.
ShouldFire(detector) ==
  CASE detector = "cost_ceiling"        -> {"A4"}
    [] detector = "silent_tool_failure" -> {"A7"}
    [] detector = "loop"                -> {}

\* The corpus can be replayed: a call without usage raises KeyError.
Replayable ==
  /\ manifest # None /\ derived # None
  /\ \A s \in Sessions : HasCall(s) => Answer(s).usage

\* What today's detectors report of a session: what the source's do, unless they
\* have been changed in a way that alters it.
Fired(s, changed) ==
  LET source == IF Cost(s) > Ceiling THEN {"cost_ceiling"} ELSE {}
  IN  IF s \notin changed THEN source ELSE {"cost_ceiling"} \ source

\* Mutant: sessions without a label are counted as ones that should be quiet.
AgreementOfAll(detector, changed) ==
  LET fired  == {s \in Sessions : detector \in Fired(s, changed)}
      should == {s \in DOMAIN derived : derived[s] \in ShouldFire(detector)}
  IN  [fired |-> Cardinality(fired), should |-> Cardinality(should),
       both |-> Cardinality(fired \cap should)]

\* agreement: of the labelled sessions.
Agreement(detector, changed) ==
  LET fired  == {s \in DOMAIN derived : detector \in Fired(s, changed)}
      should == {s \in DOMAIN derived : derived[s] \in ShouldFire(detector)}
  IN  [fired |-> Cardinality(fired), should |-> Cardinality(should),
       both |-> Cardinality(fired \cap should)]

\* precision.py counts the same of what the collecting run recorded.
Confusion(detector) ==
  LET scored == DOMAIN derived \cap Sessions
      fired  == {s \in scored : detector \in Detections(s)}
      should == {s \in scored : derived[s] \in ShouldFire(detector)}
  IN  [tp |-> Cardinality(fired \cap should), fp |-> Cardinality(fired \ should),
       fn |-> Cardinality(should \ fired), tn |-> Cardinality(scored \ (fired \cup should))]

\* fixtures is how many there are and how many of them are broken.
Measure(changed, fixtures) ==
  [sessions  |-> Cardinality(Sessions),
   matched   |-> Cardinality({s \in Sessions : Fired(s, changed) = Detections(s)}),
   fixtures  |-> fixtures,
   agreement |-> [d \in Detectors |-> Agreement(d, changed)]]

\* round(hits / total, 4), in ten thousandths.
Share(hits, total) == (20000 * hits + total) \div (2 * total)

\* A ratio, undefined over nothing, has not dropped; and neither became nor
\* ceased to be undefined.
NoDrop(hits, total, hitsBefore, totalBefore) ==
  IF total = 0 \/ totalBefore = 0 THEN total = totalBefore
  ELSE Share(hits, total) >= Share(hitsBefore, totalBefore)

\* Mutant: only the scores are compared, not each session.
CompareScores(current, before) ==
  /\ current.fixtures.broken = 0
  /\ current.fixtures.total >= before.fixtures.total
  /\ current.sessions = before.sessions
  /\ \A d \in Detectors :
       LET now == current.agreement[d]  was == before.agreement[d]
       IN  /\ now.fired = was.fired
           /\ NoDrop(now.both, now.fired, was.both, was.fired)
           /\ NoDrop(now.both, now.should, was.both, was.should)

\* compare: any drop blocks, and so does any new firing.
Compare(current, before) ==
  /\ current.fixtures.broken = 0
  /\ current.fixtures.total >= before.fixtures.total
  /\ current.sessions = before.sessions
  /\ Share(current.matched, current.sessions) >= Share(before.matched, before.sessions)
  /\ \A d \in Detectors :
       LET now == current.agreement[d]  was == before.agreement[d]
       IN  /\ now.fired = was.fired
           /\ NoDrop(now.both, now.fired, was.both, was.fired)
           /\ NoDrop(now.both, now.should, was.both, was.should)

AllBehave == [total |-> 8, broken |-> 0]

\* --update-baseline, deliberately, of detectors that reproduce the corpus.
UpdateBaseline ==
  /\ Replayable
  /\ baseline' = Measure({}, AllBehave)
  /\ UNCHANGED <<collecting, derived, sitting>>

------------------------------------------------------------------------------
\* What a collector does until it is done.
Work ==
  \/ BeginRun \/ EndRun \/ Finish
  \/ \E s \in DOMAIN items : EndItem(s) \/ \E answer \in Answers(s) : EndCall(s, answer)

Stop ==
  \/ \E asked \in SUBSET DOMAIN items : RaiseRun(asked) \/ Interrupt(asked)
  \/ Kill

Next ==
  \/ \E sessions \in Targets : Start(sessions)
  \/ Work \/ Stop
  \/ Derive
  \/ SitDown \/ GetUp
  \/ \E label \in {"A1", "SKIP"} : Label(label)
  \/ UpdateBaseline

\* A collector goes on while it runs, its calls end (see ChatClient), and it is
\* started again while there is no finished corpus; nobody need extend one.
Fairness ==
  /\ WF_vars(Work)
  /\ WF_vars(manifest = None /\ \E sessions \in Targets : Start(sessions))

Spec == Init /\ [][Next]_vars /\ Fairness

------------------------------------------------------------------------------
(* Properties                                                               *)

TypeOK ==
  /\ DOMAIN corpus.chat \cup DOMAIN corpus.item \subseteq 1..opened
  /\ collector \in {"down", "idle", "running"}
  /\ DOMAIN items \subseteq 1..opened
  /\ target \in Targets
  /\ manifest # None => manifest \in 0..Cardinality(Sessions)
  /\ derived # None => DOMAIN derived \subseteq Sessions
  /\ desk \subseteq Sessions
  /\ done <= Cardinality(Sessions)

\* However often it was stopped, or started again with another target, the collector
\* goes on from the sessions the analysis will count, and stops within a run of what
\* it was asked for, or at once when there was as much (collect.py:106-110, 148-151).
ResumesWhereItStopped ==
  /\ collector = "idle" => done = Cardinality(Sessions)
  /\ \/ Cardinality(Sessions) < target + ItemsPerRun
     \/ Cardinality(Sessions) = begun

\* A session that is counted is whole: its call is in the corpus too, and the error of
\* the call is on it, unless it was open when its run was cut off, and then it has none.
\* Children end before their parents, so a stop in between leaves a call without a
\* session, never the reverse.
CountedSessionsAreWhole ==
  \A s \in Sessions :
    \/ HasCall(s) /\ corpus.item[s] = Answer(s).error
    \/ s \in cut /\ corpus.item[s] = None

\* Nobody is asked twice about a session, over any number of sittings and of corpora
\* that grow between or under them, and what was labelled of the corpus there is now
\* is of its sample (label.py:73-81, 112-120).  Extending the corpus moves the sample,
\* and what was labelled before may fall outside it.
LabelsAreTheSample ==
  /\ \A i, j \in DOMAIN labels : labels[i].session = labels[j].session => i = j
  /\ \A i \in DOMAIN labels :
       labels[i].of = Cardinality(Sessions) => labels[i].session \in Sample

\* Against a baseline of detectors that reproduced the corpus it was taken on, the gate
\* passes no change that alters what is reported of any session, even one that trades a
\* firing for another, and no broken or missing fixture, however the corpus has been
\* extended and its labels derived since (detector_gate.py:182-189).
GateHoldsTheLine ==
  baseline # None =>
    /\ \A s, u \in Sessions : s <= u => ~Compare(Measure({s, u}, AllBehave), baseline)
    /\ \A fixtures \in {[AllBehave EXCEPT !.total = 7], [AllBehave EXCEPT !.broken = 1]} :
         ~Compare(Measure({}, fixtures), baseline)

\* The two programs that report precision and recall never disagree, though one
\* reads what was recorded and the other replays it, and either may be run when
\* the corpus has outgrown its labels.
ReportsAgree ==
  Replayable =>
    \A d \in Detectors :
      LET gate == Agreement(d, {})  study == Confusion(d)
      IN  /\ gate.fired = study.tp + study.fp
          /\ gate.should = study.tp + study.fn
          /\ gate.both = study.tp

\* A corpus is finished, if the collector is not stopped for ever; and no collector,
\* of a first corpus or of one that is extended, goes on for ever.
CollectionEnds ==
  /\ <>(manifest # None)
  /\ collector # "down" ~> collector = "down"

\* What the taxonomy says of a session labelled clean: it produced a verdict.
CleanHasAVerdict ==
  derived # None =>
    \A s \in DOMAIN derived :
      derived[s] = "A1" => HasCall(s) /\ Answer(s).verdict # None

==============================================================================
