------------------------------- MODULE Harness -------------------------------
(***************************************************************************)
(* What a process keeps globally and every program in it shares: the       *)
(* tracer provider and the metrics' service label spanlight.init           *)
(* (spanlight/_setup.py) installs, the registered detectors, and the       *)
(* tracer the programs of eval/ and bench/ put in its place to replay      *)
(* sessions, alone or one after another in one process.                    *)
(*                                                                         *)
(* The programs are sequential, but any of them may run after any other,   *)
(* and be aborted at any session.                                          *)
(***************************************************************************)
EXTENDS Scripts

CONSTANT Services  \* names init() may be called with

Nobody == "nobody"
Traffic == "spanlight-demo-agent"   \* SERVICE, and what create_app calls itself

VARIABLES
  provider,   \* the service whose tracer provider the SDK has, or Nobody
  label,      \* the service metrics are labelled with
  detectors,  \* registry's detectors, in order
  tracer,     \* whose spans_module.get_tracer returns: "global" or a program
  program,    \* the program that runs, or Nobody
  original,   \* the tracer it has put aside
  session,    \* the session under way, or the last one
  artifact,   \* what docs/proof shows, and of which request
  tally,      \* the types generate_traffic has counted
  \* History, for the properties only:
  since,      \* what registered the detectors, or cleared them, and the ceiling
  shown,      \* the shapes the traffic has shown
  proving     \* has proof_artifact run?

global == <<provider, label, detectors, tracer>>
traffic == <<tally, shown>>
vars == <<global, program, original, session, artifact, traffic, since, proving>>

\* A session: whose it is, what it is, the spans it has still to end, its scratch
\* space, and the types its spans were marked with.
NewSession(whose, what, script, outcome) ==
  [whose |-> whose, what |-> what,
   left |-> script \o <<Step("session", NoCall, outcome, 0)>>,
   state |-> Fresh, fired |-> {}]

NoSession == [whose |-> Nobody, what |-> Nobody, left |-> <<>>, state |-> Fresh, fired |-> {}]

\* docs/proof, as it is in the repository.
Committed == [answered |-> TRUE, shows |-> {"silent_tool_failure"}]

Idle == session.left = <<>>

By(what, ceiling) == [what |-> what, ceiling |-> ceiling]

Init ==
  /\ provider = Nobody /\ label = Nobody
  /\ detectors = <<>>
  /\ tracer = "global" /\ original = "global"
  /\ program = Nobody
  /\ session = NoSession
  /\ artifact = Committed
  /\ tally = {} /\ shown = {}
  /\ since = By("start", NoCeiling)
  /\ proving = FALSE

------------------------------------------------------------------------------
(* Spans.                                                                   *)

\* The detectors are not run on a span no provider records.
Recorded == tracer # "global" \/ provider # Nobody

\* The next span of the session ends.  generate_traffic's Tally is a processor of
\* the global provider.
EndSpan ==
  LET span   == Head(session.left)
      result == IF Recorded THEN RunRegistered(detectors, session.state, span)
                ELSE Unreported(session.state)
      marked == {result.emitted} \ {None}
  IN  /\ ~Idle
      /\ session' = [session EXCEPT !.left = Tail(@), !.state = result.state,
                                     !.fired = @ \cup marked]
      /\ tally' = IF program = "generate-traffic" /\ tracer = "global"
                  THEN tally \cup marked ELSE tally
      /\ shown' = IF program = "generate-traffic" /\ span.kind = "session"
                  THEN shown \cup {session.what} ELSE shown
      /\ UNCHANGED <<global, artifact, program, original, since, proving>>

\* A session is begun, of a host, of a program or of the artifact.
BeginSession(whose, what, script) ==
  /\ Idle /\ program = whose
  /\ session' = NewSession(whose, what, script, "returned")
  /\ UNCHANGED <<global, artifact, program, original, traffic, since, proving>>

------------------------------------------------------------------------------
(* spanlight.init                                                           *)

\* Mutant: the detectors of an earlier init() are not cleared.
RegisterDefaultDetectorsAgain(ceiling) ==
  detectors' = detectors \o DefaultDetectors(ceiling # NoCeiling, ceiling)

RegisterDefaultDetectors(ceiling) ==
  detectors' = DefaultDetectors(ceiling # NoCeiling, ceiling)

\* With an endpoint.  The SDK refuses a second tracer provider, and only logs it;
\* the label and the detectors are replaced.
Initialize(service, ceiling) ==
  /\ provider' = IF provider = Nobody THEN service ELSE provider
  /\ label' = service
  /\ RegisterDefaultDetectors(ceiling)
  /\ since' = By("init", ceiling)

\* A host calls it; without an endpoint it returns False and nothing changes.
InitHost(service, ceiling) ==
  /\ Idle /\ program = Nobody
  /\ Initialize(service, ceiling)
  /\ session' = NoSession
  /\ UNCHANGED <<tracer, artifact, program, original, traffic, proving>>

\* A session of the host's own.
HostSession ==
  \E shape \in DOMAIN Shapes : \E script \in Shapes[shape] :
    BeginSession(Nobody, shape, script)

------------------------------------------------------------------------------
(* The programs that replay sessions with detectors and a tracer of their    *)
(* own: fixture_replay.replay, detector_gate.replay, false_positives.measure.*)

Replayers == {"fixture-replay", "detector-gate", "false-positives"}

DetectorsOf(replayer, ceiling) ==
  CASE replayer = "fixture-replay"  -> DefaultDetectors(TRUE, ceiling)
    [] replayer = "detector-gate"   ->
         <<LoopDetector, WatchDetector, VerdictDetector, CeilingDetector(ceiling)>>
    [] replayer = "false-positives" -> DefaultDetectors(FALSE, ceiling)

\* Mutant: what is registered already is left in place beside its own.
EnterBeside(replayer, ceiling) ==
  /\ Idle /\ program = Nobody
  /\ program' = replayer
  /\ original' = tracer
  /\ tracer' = replayer
  /\ detectors' = detectors \o DetectorsOf(replayer, ceiling)
  /\ session' = NoSession
  /\ since' = By("replay", NoCeiling)
  /\ UNCHANGED <<provider, label, artifact, traffic, proving>>

\* Up to the try: the tracer is swapped and the detectors replaced.
Enter(replayer, ceiling) ==
  /\ Idle /\ program = Nobody
  /\ program' = replayer
  /\ original' = tracer
  /\ tracer' = replayer
  /\ detectors' = DetectorsOf(replayer, ceiling)
  /\ session' = NoSession
  /\ since' = By("replay", NoCeiling)
  /\ UNCHANGED <<provider, label, artifact, traffic, proving>>

\* A session of each, replayed when the one before has ended.
ReplayPattern ==
  \E name \in DOMAIN Patterns : \E p \in Patterns[name] :
    BeginSession("false-positives", [name |-> name, same |-> p.same], p.script)

\* replay is entered for each fixture anew, with its ceiling.
ReplayFixture ==
  \E fixture \in Fixtures :
    /\ fixture.ceiling \in {detectors[i].ceiling : i \in DOMAIN detectors}
    /\ BeginSession("fixture-replay", fixture, fixture.script)

ReplayCorpus ==
  \E costs \in CorpusSessions : BeginSession("detector-gate", costs, Rebuilt(costs))

\* The finally, of a replay that is done and of one that has raised.
Leave(aborted) ==
  /\ program \in Replayers /\ (aborted \/ Idle)
  /\ program' = Nobody
  /\ tracer' = original
  /\ detectors' = <<>>
  /\ session' = NoSession
  /\ UNCHANGED <<provider, label, artifact, original, traffic, since, proving>>

------------------------------------------------------------------------------
(* The programs that go through spanlight.init.                             *)

\* Mutant: a ceiling below what any session costs.
StartTrafficCheaply ==
  /\ Idle /\ program = Nobody
  /\ Initialize(Traffic, TrafficCeiling \div 25)
  /\ program' = "generate-traffic"
  /\ session' = NoSession
  /\ UNCHANGED <<tracer, artifact, original, traffic, proving>>

\* generate_traffic.main, up to its loop.
StartTraffic ==
  /\ Idle /\ program = Nobody
  /\ Initialize(Traffic, TrafficCeiling)
  /\ program' = "generate-traffic"
  /\ session' = NoSession
  /\ UNCHANGED <<tracer, artifact, original, traffic, proving>>

\* A session of it.
ShowShape ==
  \E shape \in DOMAIN Shapes : \E script \in Shapes[shape] :
    BeginSession("generate-traffic", shape, script)

StopTraffic ==
  /\ Idle /\ program = "generate-traffic"
  /\ program' = Nobody
  /\ session' = NoSession
  /\ tally' = {} /\ shown' = {}
  /\ UNCHANGED <<global, artifact, original, since, proving>>

ArtifactDetectors == <<LoopDetector, WatchDetector, VerdictDetector>>

\* proof_artifact.run, up to the request.  The app is created, its init() included,
\* twice: on import and by run().  With a provider, an exporter is added to it;
\* without, the tracer is swapped, and stays so.
Prove(endpoint, answered) ==
  LET configured == IF endpoint /\ provider = Nobody THEN Traffic ELSE provider
  IN  /\ Idle /\ program = Nobody
      /\ program' = "proof-artifact"
      /\ provider' = configured
      /\ label' = IF endpoint THEN Traffic ELSE label
      /\ tracer' = IF configured = Nobody THEN "proof-artifact" ELSE tracer
      /\ detectors' = ArtifactDetectors
      /\ session' = NewSession("proof-artifact", answered, Request(answered),
                               IF answered THEN "returned" ELSE "raised")
      /\ since' = By("proof", NoCeiling)
      /\ proving' = TRUE
      /\ UNCHANGED <<original, traffic, artifact>>

\* The spans its exporter was given: none, when the tracer is an earlier run's own
\* and the exporter was added to the global provider.
Collected ==
  IF tracer = "global" \/ provider = Nobody THEN session.fired ELSE {}

\* main: nothing is written, and the exit is not zero, unless a span is marked.
Publish ==
  /\ Idle /\ program = "proof-artifact"
  /\ program' = Nobody
  /\ artifact' = IF Collected = {} THEN artifact
                 ELSE [answered |-> session.what, shows |-> Collected]
  /\ session' = NoSession
  /\ UNCHANGED <<global, original, traffic, since, proving>>

Next ==
  \/ \E service \in Services, ceiling \in Ceilings : InitHost(service, ceiling)
  \/ HostSession \/ EndSpan
  \/ \E fixture \in Fixtures : Enter("fixture-replay", fixture.ceiling)
  \/ Enter("detector-gate", CorpusCeiling)
  \/ Enter("false-positives", NoCeiling)
  \/ ReplayPattern \/ ReplayFixture \/ ReplayCorpus
  \/ \E aborted \in BOOLEAN : Leave(aborted)
  \/ StartTraffic \/ ShowShape \/ StopTraffic
  \/ \E endpoint, answered \in BOOLEAN : Prove(endpoint, answered)
  \/ Publish

Spec == Init /\ [][Next]_vars

------------------------------------------------------------------------------
(* Properties                                                               *)

\* What a replay reports is a fact about the session replayed, whatever the process
\* ran before it: no healthy pattern is reported, unless its random arguments
\* came out the same LOOP_THRESHOLD times; the controls are; and every
\* fixture behaves.
ReplaysAreFaithful ==
  Idle =>
    CASE session.whose = "false-positives" ->
           session.fired =
             IF session.what.name \in DOMAIN PositiveControls
             THEN {PositiveControls[session.what.name]}
             ELSE IF session.what.same >= LoopThreshold THEN {"loop"} ELSE {}
      [] session.whose = "fixture-replay" -> Behaved(session.what, session.fired)
      [] session.whose = "detector-gate" ->
           LET costs == session.what
               spent[i \in 0..Len(costs)] ==
                 IF i = 0 THEN 0 ELSE spent[i - 1] + costs[i]
           IN  session.fired =
                 IF spent[Len(costs)] > CorpusCeiling THEN {"cost_ceiling"} ELSE {}
      [] OTHER -> TRUE

\* A host keeps its tracer, its sessions' marks depend on what ran last.  A replay,
\* done or aborted, puts the tracer back, unless the artifact was made without an
\* endpoint (false_positives.py:233-236).  After init() what is reported depends on
\* the session's shape alone, however often it was called; after a replay nothing
\* is reported any more until init() is called again, though spans are exported.
HostIsWatched ==
  /\ program \notin Replayers => tracer \in {"global", "proof-artifact"}
  /\ tracer = "proof-artifact" => proving
  /\ Idle /\ program = Nobody /\ session # NoSession =>
       session.fired =
         CASE ~Recorded -> {}
           [] Recorded /\ since.what = "init" ->
                SetsOff(session.what) \
                  (IF since.ceiling = NoCeiling THEN {"cost_ceiling"} ELSE {})
           [] Recorded /\ since.what = "proof" ->
                SetsOff(session.what) \cap {"loop", "silent_tool_failure"}
           [] OTHER -> {}

\* The scripts that demonstrate detections show what they set off.  The traffic
\* has each type exactly when its shape has come up, the ceiling being above every
\* healthy session and below the outlier (generate_traffic.py:92-100); and what is
\* published as proof has the silent failure on it, of a run whose caller was
\* answered (proof_artifact.py:136-140).
DemonstrationsShowIt ==
  /\ Idle /\ program = "generate-traffic" /\ tracer = "global" =>
       tally = UNION {SetsOff(shape) : shape \in shown}
  /\ artifact.answered /\ artifact.shows = {"silent_tool_failure"}

==============================================================================
