----------------------------- MODULE Propagation -----------------------------
(***************************************************************************)
(* One agent run across tasks and services: spanlight.session and          *)
(* spanlight.headers (spanlight/_spans.py, _propagation.py, _session.py)   *)
(* over OpenTelemetry's context.                                           *)
(*                                                                         *)
(* Two context variables have to move together: the session id that bind   *)
(* sets, and OpenTelemetry's current context, with the span above and the  *)
(* baggage.  A task has both of its own, a task it creates starts with     *)
(* copies, and a request to another service carries them in two headers,   *)
(* traceparent and baggage, of which a hop may lose either.                *)
(***************************************************************************)
EXTENDS Integers, Sequences, FiniteSets, SequencesExt

CONSTANTS
  Tasks,    \* asyncio tasks, of all the services
  Traced,   \* the tasks of services where init() has configured a provider
  Chosen,   \* session ids that hosts choose themselves
  None,     \* no session, no span, no trace
  MaxIds,   \* bound: identifiers drawn
  MaxDepth, \* bound: context managers a task is inside
  MaxCalls  \* bound: requests sent

ASSUME NoneIsNothing == None \notin Chosen \cup Tasks \cup Int
ASSUME TracedTasks == Traced \subseteq Tasks
ASSUME Bounds == {MaxIds, MaxDepth, MaxCalls} \subseteq Nat

VARIABLES
  tasks, \* the context of each task, and the context managers it is inside
  wire,  \* requests sent: a client that retries sends one again
  spans, \* every span started
  ids,   \* identifiers drawn: a fresh one is unlike any other
  sent,  \* requests sent
  \* History, for the properties only:
  losses \* what each run has lost, or has been told, on its way

vars == <<tasks, wire, spans, ids, sent, losses>>

\* OpenTelemetry's context: the span above, its trace, whether it is sampled, and
\* the session in its baggage.
Root == [span |-> None, trace |-> None, sampled |-> FALSE, baggage |-> None]

\* run and origin are history: the logical run a task works for, and the outermost
\* one that run is part of.
Idle == [context |-> Root, bound |-> None, frames |-> <<>>, run |-> None, origin |-> None,
         born |-> Root]

Init ==
  /\ tasks = [t \in Tasks |-> Idle]
  /\ wire = {} /\ spans = {}
  /\ ids = 0 /\ sent = 0
  /\ losses = <<>>

------------------------------------------------------------------------------
(* Spans                                                                    *)

\* Mutant: every service decides for itself what it samples.
StartByRatio(kind, context, session, run, origin, ratio) ==
  LET root == context.trace = None
  IN  [id |-> ids + 1, kind |-> kind, parent |-> context.span,
       trace |-> IF root THEN ids + 1 ELSE context.trace,
       sampled |-> ratio,
       session |-> session, run |-> run, origin |-> origin]

\* start_as_current_span with the sampler ParentBased(TraceIdRatioBased): a root
\* is sampled by the ratio, any other as its parent was.
Start(kind, context, session, run, origin, ratio) ==
  LET root == context.trace = None
  IN  [id |-> ids + 1, kind |-> kind, parent |-> context.span,
       trace |-> IF root THEN ids + 1 ELSE context.trace,
       sampled |-> IF root THEN ratio ELSE context.sampled,
       session |-> session, run |-> run, origin |-> origin]

Under(context, span) ==
  [context EXCEPT !.span = span.id, !.trace = span.trace, !.sampled = span.sampled]

\* Without a provider no span is started, and the context stays what it was: a
\* caller's traceparent is passed on.
Enter(t, kind, context, session, run, origin, ratio) ==
  LET span  == Start(kind, context, session, run, origin, ratio)
      frame == [context |-> tasks[t].context, bound |-> tasks[t].bound,
                run |-> tasks[t].run, origin |-> tasks[t].origin]
  IN  /\ Len(tasks[t].frames) < MaxDepth
      /\ ids < MaxIds
      /\ ids' = ids + 1
      /\ spans' = IF t \in Traced THEN spans \cup {span} ELSE spans
      /\ tasks' = [tasks EXCEPT ![t] =
           [tasks[t] EXCEPT !.context = IF t \in Traced THEN Under(context, span) ELSE context,
                            !.bound = session, !.run = run, !.origin = origin,
                            !.frames = Append(@, frame)]]

\* A tool, model, attempt or retrieval span.
EnterStep(t, ratio) ==
  /\ Enter(t, "step", tasks[t].context, tasks[t].bound, tasks[t].run, tasks[t].origin, ratio)
  /\ UNCHANGED <<wire, sent, losses>>

\* Mutant: every hop draws an id of its own.
ResolveAfresh(explicit, inbound) == IF explicit # None THEN explicit ELSE ids + 1

\* session(): an explicit id wins over the inbound one, and without either it is
\* fresh.
Resolve(explicit, inbound) ==
  IF explicit # None THEN explicit ELSE IF inbound # None THEN inbound ELSE ids + 1

\* What is lost to a run from now on.
Losing(run, lost) ==
  [r \in DOMAIN losses \cup {run} |->
     (IF r \in DOMAIN losses THEN losses[r] ELSE {}) \cup (IF r = run THEN lost ELSE {})]

Told(explicit) == IF explicit = None THEN {} ELSE {"id"}

\* A session without headers: a logical run of its own, nested or not.
EnterSession(t, explicit, ratio) ==
  LET origin == IF tasks[t].context.trace = None THEN ids + 1 ELSE tasks[t].origin
  IN  /\ Enter(t, "session", tasks[t].context, Resolve(explicit, None), ids + 1, origin, ratio)
      /\ losses' = Losing(ids + 1, Told(explicit))
      /\ UNCHANGED <<wire, sent>>

\* session(headers=...): the context of the request replaces the task's, trace and
\* baggage, for the length of the session.
Serve(t, request, explicit, ratio) ==
  LET run    == IF request.run = None THEN ids + 1 ELSE request.run
      origin == IF request.context.trace = None THEN ids + 1 ELSE request.origin
  IN  /\ Enter(t, "session", request.context,
               Resolve(explicit, request.context.baggage), run, origin, ratio)
      /\ losses' = Losing(run, request.lost \cup Told(explicit))
      /\ UNCHANGED <<wire, sent>>

\* Mutant: bind clears the session on exit, which orphans the spans after it.
LeaveCleared(t) ==
  LET frame == Last(tasks[t].frames)
  IN  /\ tasks[t].frames # <<>>
      /\ tasks' = [tasks EXCEPT ![t] =
           [tasks[t] EXCEPT !.context = frame.context, !.bound = None, !.run = frame.run,
                            !.origin = frame.origin, !.frames = Front(@)]]
      /\ UNCHANGED <<wire, spans, ids, sent, losses>>

\* The innermost block ends, or is left by an exception: the same finally.
Leave(t) ==
  LET frame == Last(tasks[t].frames)
  IN  /\ tasks[t].frames # <<>>
      /\ tasks' = [tasks EXCEPT ![t] =
           [tasks[t] EXCEPT !.context = frame.context, !.bound = frame.bound, !.run = frame.run,
                            !.origin = frame.origin, !.frames = Front(@)]]
      /\ UNCHANGED <<wire, spans, ids, sent, losses>>

------------------------------------------------------------------------------
(* Tasks and requests                                                       *)

\* asyncio.create_task: the new task starts with copies of the creator's context
\* variables, and may outlive the blocks it was created in.
Create(t, child) ==
  /\ ids < MaxIds
  /\ t # child /\ tasks[child] = Idle
  /\ tasks[t].frames # <<>> /\ (t \in Traced) = (child \in Traced)
  /\ tasks' = [tasks EXCEPT ![child] =
       [tasks[t] EXCEPT !.frames = <<>>, !.born = tasks[t].context]]
  /\ UNCHANGED <<wire, spans, ids, sent, losses>>

\* A task that is done.
Finish(t) ==
  /\ tasks[t].frames = <<>> /\ tasks[t] # Idle
  /\ tasks' = [tasks EXCEPT ![t] = Idle]
  /\ UNCHANGED <<wire, spans, ids, sent, losses>>

\* Mutant: a placeholder stands for no session.
HeadersWithPlaceholder(t) ==
  [tasks[t].context EXCEPT !.baggage = IF tasks[t].bound # None THEN tasks[t].bound ELSE -1]

\* spanlight.headers(): the session goes into the baggage of the current context,
\* outside a session the context is injected as it is.
Headers(t) ==
  IF tasks[t].bound # None THEN [tasks[t].context EXCEPT !.baggage = tasks[t].bound]
  ELSE tasks[t].context

Hops == SUBSET {"traceparent", "baggage"}

\* A hop that passes on only some headers; one of plain OpenTelemetry passes both.
Through(hop, context) ==
  [(IF "traceparent" \in hop THEN [Root EXCEPT !.baggage = context.baggage] ELSE context)
     EXCEPT !.baggage = IF "baggage" \in hop THEN None ELSE @]

\* A request with headers(), sent in a session or outside one.
Call(t, hop) ==
  LET context == Headers(t)
      lost    == hop \cup (IF context.trace = None THEN {"traceparent"} ELSE {})
  IN  /\ sent < MaxCalls /\ ids < MaxIds
      /\ tasks[t].frames # <<>>
      /\ sent' = sent + 1
      /\ wire' = wire \cup {[context |-> Through(hop, context), run |-> tasks[t].run,
                             origin |-> tasks[t].origin, lost |-> lost]}
      /\ UNCHANGED <<tasks, spans, ids, losses>>

\* A visitor's request, without either header.
Visit == [context |-> Root, run |-> None, origin |-> None, lost |-> {}]

\* The bound on identifiers also stops what could only be followed by more of them.
Next ==
  \/ \E t \in Tasks, ratio \in BOOLEAN :
       \/ EnterStep(t, ratio)
       \/ \E explicit \in Chosen \cup {None} :
            \/ EnterSession(t, explicit, ratio)
            \/ \E request \in wire \cup {Visit} : Serve(t, request, explicit, ratio)
  \/ ids < MaxIds /\ \E t \in Tasks : Leave(t) \/ Finish(t)
  \/ \E t, child \in Tasks : Create(t, child)
  \/ \E t \in Tasks, hop \in Hops : Call(t, hop)

Spec == Init /\ [][Next]_vars

------------------------------------------------------------------------------
(* Properties                                                               *)

Contexts ==
  [span : 0..MaxIds \cup {None}, trace : 0..MaxIds \cup {None}, sampled : BOOLEAN,
   baggage : 0..MaxIds \cup Chosen \cup {None}]

TypeOK ==
  /\ \A t \in Tasks : tasks[t].context \in Contexts /\ Len(tasks[t].frames) <= MaxDepth
  /\ \A request \in wire : request.context \in Contexts
  /\ ids \in 0..MaxIds /\ sent \in 0..MaxCalls
  /\ \A s \in spans : s.id \in 1..ids /\ s.trace \in 1..s.id

\* An agent run is one session however many services and tasks it goes through,
\* unless a hop lost the baggage or a host chose the id (_spans.py:151-156).
OneRunOneSession ==
  \A s, u \in spans :
    s.run = u.run /\ s.run # None /\ losses[s.run] \cap {"baggage", "id"} = {}
      => s.session = u.session

\* ... and one trace, unless a hop lost the traceparent, or the run began where
\* tracing is off.
OneRunOneTrace ==
  \A s, u \in spans :
    s.run = u.run /\ s.run # None /\ "traceparent" \notin losses[s.run]
      => s.trace = u.trace

\* A run stays whole on its way through created tasks, nested sessions and services
\* that do not trace.
RunIsWhole == OneRunOneSession /\ OneRunOneTrace

\* Runs are never joined: not by tasks that take turns in one process
\* (_session.py:7-9), and not by a task that serves one request after another.
RunsStayApart ==
  \A s, u \in spans :
    /\ s.session = u.session /\ s.session \notin Chosen \cup {None} => s.run = u.run
    /\ s.trace = u.trace => s.origin = u.origin

\* A trace is exported whole or not at all, whatever service decided
\* (_setup.py:75-80), and so is a run that has lost nothing.
SampledWhole ==
  \A s, u \in spans :
    s.trace = u.trace => s.sampled = u.sampled

\* The two context variables agree: the session a step is stamped with is the one
\* of the span above it, and a step stands outside of all sessions only at the
\* top of a trace or under another such step.
StampedAsItsParent ==
  \A s, u \in spans :
    s.kind = "step" /\ s.parent = u.id => s.session = u.session

\* A task that has left every block is back in the context it began with.
ContextRestored ==
  \A t \in Tasks : tasks[t].frames = <<>> => tasks[t].context = tasks[t].born

==============================================================================
