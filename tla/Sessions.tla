------------------------------- MODULE Sessions -------------------------------
(***************************************************************************)
(* Concurrent agent runs in one process, each inside a `with session(...)` *)
(* block of spanlight/_spans.py, sharing the process's one registry.       *)
(*                                                                         *)
(* Runs are asyncio tasks.  Everything from the end of a span's body to    *)
(* the end of _span, and from there to the end of session(), is free of    *)
(* awaits, so a step ending and a session ending are each one action, and  *)
(* those of different runs interleave freely.                              *)
(***************************************************************************)
EXTENDS Registry

CONSTANTS
  Runs,        \* executions of a `with session(...)` block
  SessionOf,   \* the id each resolves to: explicit, from baggage, or generated
  Spans,       \* the steps a run may end
  Sampling,    \* the sampler's verdicts on a run's trace, a set of BOOLEANs
  MaxSteps,    \* bound: steps ended by one run
  MaxLate,     \* bound: steps of one run still open when its session closes
  MaxTime      \* bound: clock

ASSUME SessionsAssumption ==
  /\ SessionOf \in [Runs -> Ids]
  /\ Spans \subseteq {span \in Span : span.kind # "session"}
  /\ Sampling \subseteq BOOLEAN
  /\ MaxSteps \in Nat /\ MaxLate \in Nat /\ MaxTime \in Nat

VARIABLES
  now,          \* time.monotonic()
  registry,     \* registry._state
  phase,        \* where each run is
  sampled,      \* whether each run's spans are recording
  steps,        \* steps each run has ended
  late,         \* steps in background tasks that outlive the run's session
  detections,   \* detections marked on the spans of each session id, by type
  observed,     \* what the session-cost histogram got for each id: [n, sum]
  \* History, for the properties only:
  spent,        \* cost carried by the spans each id ended
  dropped,      \* cost in the scratch spaces evicted from under each id
  created,      \* scratch spaces created for each id
  lastUse,      \* when each id last ended a span
  strayed       \* runs that ended a step after their session closed

outputs == <<detections, observed>>
history == <<spent, dropped, created, lastUse, strayed>>
vars == <<now, registry, phase, sampled, steps, late, outputs, history>>

Init ==
  /\ now = 0
  /\ registry = Empty
  /\ phase = [r \in Runs |-> "idle"]
  /\ sampled \in [Runs -> Sampling]
  /\ steps = [r \in Runs |-> 0]
  /\ late = [r \in Runs |-> 0]
  /\ detections = [id \in Ids |-> [t \in Types |-> 0]]
  /\ observed = [id \in Ids |-> [n |-> 0, sum |-> 0]]
  /\ spent = [id \in Ids |-> 0]
  /\ dropped = [id \in Ids |-> 0]
  /\ created = [id \in Ids |-> 0]
  /\ lastUse = [id \in Ids |-> 0]
  /\ strayed = {}

------------------------------------------------------------------------------

\* _emit: the attribute and event on the span, and the counter.
Emit(id, emitted) ==
  IF emitted = None THEN UNCHANGED detections
  ELSE detections' = [detections EXCEPT ![id][emitted] = @ + 1]

\* record_session_cost: a session that spent nothing is not an observation.
RecordSessionCost(id, cost) ==
  IF cost = 0 THEN UNCHANGED observed
  ELSE observed' = [observed EXCEPT ![id] = [n |-> @.n + 1, sum |-> @.sum + cost]]

\* What a span of session id leaves in the history when it ends: its cost, and
\* the scratch spaces state_for created and evicted for it.
Remember(id, span) ==
  LET kept == Kept(registry, id, now)
  IN  /\ spent' = [spent EXCEPT ![id] = @ + span.cost]
      /\ dropped' = [other \in Ids |->
           dropped[other] + IF other \in DOMAIN registry \ kept
                            THEN registry[other].state.cost ELSE 0]
      /\ created' = [created EXCEPT
           ![id] = @ + IF id \in DOMAIN registry THEN 0 ELSE 1]
      /\ lastUse' = [lastUse EXCEPT ![id] = now]

\* session() is entered: the id is bound and the session span opened.  Nothing
\* is put in the registry until a span ends.
Open(r) ==
  /\ phase[r] = "idle"
  /\ phase' = [phase EXCEPT ![r] = "open"]
  /\ UNCHANGED <<now, registry, sampled, steps, late, outputs, history>>

\* A tool, model, attempt or retrieval span of the run ends.  A task created
\* inside the session inherits its context variable, so the span of a task
\* nobody waited for still ends under the session's id after it has closed.
EndStep(r, span) ==
  LET id     == SessionOf[r]
      result == Run(registry, id, now, span)
  IN  /\ steps[r] < MaxSteps
      /\ \/ phase[r] = "open" /\ UNCHANGED late
         \/ phase[r] = "closed" /\ late[r] > 0 /\ late' = [late EXCEPT ![r] = @ - 1]
      /\ steps' = [steps EXCEPT ![r] = @ + 1]
      /\ IF sampled[r]
         THEN /\ registry' = result.registry
              /\ Emit(id, result.emitted)
              /\ Remember(id, span)
              /\ strayed' = IF phase[r] = "closed" THEN strayed \cup {r} ELSE strayed
         ELSE UNCHANGED <<registry, detections, history>>
      /\ UNCHANGED <<now, phase, sampled, observed>>

\* Mutant: the release comes before the session span ends.
CloseReleasedFirst(r, outcome, cost, open) ==
  LET id     == SessionOf[r]
      span   == [kind |-> "session", call |-> NoCall, outcome |-> outcome, cost |-> cost]
      result == Run(Release(registry, id), id, now, span)
  IN  /\ phase[r] = "open"
      /\ phase' = [phase EXCEPT ![r] = "closed"]
      /\ late' = [late EXCEPT ![r] = open]
      /\ registry' = IF sampled[r] THEN result.registry ELSE Release(registry, id)
      /\ RecordSessionCost(id, StateOf(registry, id).cost)
      /\ IF sampled[r]
         THEN Emit(id, result.emitted) /\ Remember(id, span)
         ELSE UNCHANGED <<detections, spent, dropped, created, lastUse>>
      /\ UNCHANGED <<now, sampled, steps, strayed>>

\* The `with session(...)` block is left: the session span ends, then the
\* scratch space is released and its total recorded, whatever the outcome.  A
\* span that is not recording is not run, but the release still happens.
Close(r, outcome, cost, open) ==
  LET id     == SessionOf[r]
      span   == [kind |-> "session", call |-> NoCall, outcome |-> outcome, cost |-> cost]
      result == Run(registry, id, now, span)
      ended  == IF sampled[r] THEN result.registry ELSE registry
  IN  /\ phase[r] = "open"
      /\ phase' = [phase EXCEPT ![r] = "closed"]
      /\ late' = [late EXCEPT ![r] = open]
      /\ registry' = Release(ended, id)
      /\ RecordSessionCost(id, StateOf(ended, id).cost)
      /\ IF sampled[r]
         THEN Emit(id, result.emitted) /\ Remember(id, span)
         ELSE UNCHANGED <<detections, spent, dropped, created, lastUse>>
      /\ UNCHANGED <<now, sampled, steps, strayed>>

Tick ==
  /\ now < MaxTime
  /\ now' = now + 1
  /\ UNCHANGED <<registry, phase, sampled, steps, late, outputs, history>>

Next ==
  \/ \E r \in Runs : Open(r)
  \/ \E r \in Runs, span \in Spans : EndStep(r, span)
  \/ \E r \in Runs, outcome \in Outcomes, cost \in Costs, open \in 0..MaxLate :
       Close(r, outcome, cost, open)
  \/ Tick

Spec == Init /\ [][Next]_vars

------------------------------------------------------------------------------
(* Properties                                                               *)

TypeOK ==
  /\ now \in Nat
  /\ IsRegistry(registry)
  /\ phase \in [Runs -> {"idle", "open", "closed"}]
  /\ sampled \in [Runs -> BOOLEAN]
  /\ steps \in [Runs -> Nat]
  /\ late \in [Runs -> Nat]
  /\ detections \in [Ids -> [Types -> Nat]]
  /\ observed \in [Ids -> [n : Nat, sum : Nat]]
  /\ spent \in [Ids -> Nat]
  /\ dropped \in [Ids -> Nat]
  /\ created \in [Ids -> Nat]
  /\ lastUse \in [Ids -> Nat]
  /\ strayed \subseteq Runs

\* The registry never holds more sessions than its cap, however many runs are
\* left open and however their spans interleave ("a library that claims a
\* memory bound", _detector_framework.py:89).
BoundedMemory == Cardinality(DOMAIN registry) <= MaxSessions

\* Every cost a recorded span carried is in exactly one place: recorded in the
\* session-cost histogram, still held for an open session, or evicted.  None is
\* counted twice, whichever runs share an id and in whatever order they close.
CostConserved ==
  \A id \in Ids :
    spent[id] = observed[id].sum + StateOf(registry, id).cost + dropped[id]

\* A session id reports a type at most once for each scratch space it was
\* given; in particular, at most once if it never lost one.
OncePerScratchSpace ==
  \A id \in Ids, t \in Types : detections[id][t] <= created[id]

\* The registry holds only sessions in flight (_spans.py:174): what is resident
\* belongs to a run that is open, or to one that ended a step after it closed.
OnlyInFlight ==
  \A id \in DOMAIN registry :
    \E r \in Runs : SessionOf[r] = id /\ (phase[r] = "open" \/ r \in strayed)

Closes(id) ==
  \E r \in Runs : SessionOf[r] = id /\ phase[r] = "open" /\ phase'[r] = "closed"

\* A scratch space leaves the registry only when a session of its id closes,
\* or when its id has been idle for longer than the TTL, or when the cap is
\* full of sessions used no less recently (_detector_framework.py:92-96).
EvictsOnlyIdleOrOldest ==
  [][LET used == DOMAIN registry' \cup {id \in Ids : Closes(id)}
     IN  \A id \in DOMAIN registry \ used :
           \/ lastUse[id] + Ttl < now
           \/ /\ Cardinality(used) = MaxSessions
              /\ \A other \in used : lastUse'[other] >= lastUse[id]
    ]_vars

\* The promise to a single logical run, which the registry keeps for every run
\* with an id of its own, no background steps, and room and time enough in the
\* registry.
Contract ==
  INSTANCE SessionContract WITH
    Sessions <- Runs,
    SessionTypes <- Types \ SpanTypes,
    status <- phase,
    spent <- [r \in Runs |-> spent[SessionOf[r]]],
    reports <- [r \in Runs |-> detections[SessionOf[r]]],
    observed <- [r \in Runs |-> observed[SessionOf[r]]]

\* Each run, seen on its own, behaves as the contract says: its reports are each
\* made once and its cost is observed once and whole, whatever the other runs of
\* the process do in between.
KeepsContract == Contract!Spec

==============================================================================
