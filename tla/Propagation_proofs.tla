-------------------------- MODULE Propagation_proofs --------------------------
(***************************************************************************)
(* Proofs about Propagation, for any number of tasks and services.         *)
(*                                                                         *)
(* What ties a span to a run is handed on from context to context, so the  *)
(* argument is about every holder of it: the spans, the tasks, the blocks  *)
(* the tasks will return to and the requests on their way.  Each bears a   *)
(* mark, and any two marks agree.                                          *)
(***************************************************************************)
EXTENDS Propagation, SequenceTheorems, TLAPS

------------------------------------------------------------------------------
(* Types                                                                    *)

Id == 0..MaxIds \cup {None}
Session == 0..MaxIds \cup Chosen \cup {None}

Frame == [context : Contexts, bound : Session, run : Id, origin : Id]

Task ==
  [context : Contexts, bound : Session, frames : Seq(Frame), run : Id, origin : Id,
   born : Contexts]

Request ==
  [context : Contexts, run : Id, origin : Id, lost : SUBSET {"traceparent", "baggage"}]

Span ==
  [id : 1..MaxIds, kind : {"step", "session"}, parent : Id, trace : 1..MaxIds,
   sampled : BOOLEAN, session : Session, run : Id, origin : Id]

Typed ==
  /\ tasks \in [Tasks -> Task]
  /\ wire \subseteq Request
  /\ spans \subseteq Span
  /\ ids \in 0..MaxIds /\ sent \in 0..MaxCalls
  /\ \A t \in Tasks : Len(tasks[t].frames) <= MaxDepth
  /\ \A s \in spans : s.id \in 1..ids /\ s.trace \in 1..s.id
  /\ DOMAIN losses \subseteq 1..ids

------------------------------------------------------------------------------
(* Marks                                                                    *)

SpanMark(s) ==
  [trace |-> s.trace, sampled |-> s.sampled, origin |-> s.origin,
   session |-> s.session, run |-> s.run]

\* Of a task, or of a block it will return to.
HolderMark(h) ==
  [trace |-> h.context.trace, sampled |-> h.context.sampled, origin |-> h.origin,
   session |-> h.bound, run |-> h.run]

RequestMark(r) ==
  [trace |-> r.context.trace, sampled |-> r.context.sampled, origin |-> r.origin,
   session |-> r.context.baggage, run |-> r.run]

Marks ==
  {SpanMark(s) : s \in spans} \cup {RequestMark(r) : r \in wire}
    \cup {HolderMark(tasks[t]) : t \in Tasks}
    \cup UNION {{HolderMark(tasks[t].frames[i]) : i \in 1..Len(tasks[t].frames)} : t \in Tasks}

\* What a mark may be, of n identifiers, when the runs R are known.
KnownOf(m, n, R) ==
  /\ m.trace \in 1..n \cup {None}
  /\ m.session \in 1..n \cup Chosen \cup {None}
  /\ m.run \in R \cup {None}
  /\ m.run = None => m.session = None

\* A run in its sessions: nothing that made it lose its id, and nothing that made it
\* lose its trace.
KeptId(run, lost) == lost[run] \cap {"baggage", "id"} = {}
KeptTrace(run, lost) == "traceparent" \notin lost[run]

AgreeGiven(m, n, lost) ==
  /\ m.trace = n.trace /\ m.trace # None => m.sampled = n.sampled /\ m.origin = n.origin
  /\ m.session = n.session /\ m.session \notin Chosen \cup {None} => m.run = n.run
  /\ m.run = n.run /\ m.run # None =>
       /\ KeptId(m.run, lost) /\ m.session # None /\ n.session # None => m.session = n.session
       /\ KeptTrace(m.run, lost) /\ m.trace # None /\ n.trace # None => m.trace = n.trace

Known(m) == KnownOf(m, ids, DOMAIN losses)
Agree(m, n) == AgreeGiven(m, n, losses)

MarksAgree == \A m \in Marks : Known(m) /\ \A n \in Marks : Agree(m, n)

\* What a context and a session have to do with each other, in a holder.
Paired(h) ==
  /\ h.bound = None => h.context.baggage = None
  /\ h.run # None => h.bound # None

\* In a traced service the span above is one of its session, and there is one: among
\* the spans S, of which n is the last.
Placed(h, n, S) ==
  /\ h.context.span \in 1..n \cup {None}
  /\ \A u \in S : u.id = h.context.span => u.session = h.bound
  /\ h.run # None => h.context.trace # None

Held ==
  \A t \in Tasks :
    /\ Paired(tasks[t]) /\ (t \in Traced => Placed(tasks[t], ids, spans))
    /\ \A i \in 1..Len(tasks[t].frames) :
         Paired(tasks[t].frames[i]) /\ (t \in Traced => Placed(tasks[t].frames[i], ids, spans))

\* A request tells of what it lost.
RequestsTell == \A r \in wire :
  r.run # None =>
    /\ "baggage" \in r.lost \/ r.context.baggage # None
    /\ "traceparent" \in r.lost \/ r.context.trace # None

\* A span of a run is in a session, and a step in that of the span above it.
SpansPlaced ==
  \A s \in spans :
    /\ s.run # None => s.session # None
    /\ s.kind = "step" =>
         s.parent \in 1..ids \cup {None} /\ \A u \in spans : s.parent = u.id => s.session = u.session

\* The outermost block will return to the context the task began with.
Nested ==
  \A t \in Tasks :
    IF tasks[t].frames = <<>> THEN tasks[t].context = tasks[t].born
    ELSE tasks[t].frames[1].context = tasks[t].born

Inv == Typed /\ MarksAgree /\ Held /\ RequestsTell /\ SpansPlaced /\ Nested

LEMMA InitInv == Init => Inv
<1> SUFFICES ASSUME Init PROVE Inv
  OBVIOUS
<1>0. MaxIds \in Nat /\ MaxDepth \in Nat /\ MaxCalls \in Nat
  BY Bounds
<1>1. \A t \in Tasks : tasks[t] = Idle
  BY DEF Init
<1>2. Root \in Contexts /\ Idle \in Task /\ Idle.frames = <<>>
  BY DEF Root, Contexts, Idle, Task, Id, Session
<1>3. Typed
  BY <1>0, <1>1, <1>2 DEF Init, Typed
<1>4. \A m \in Marks : m = HolderMark(Idle)
  BY <1>1, <1>2 DEF Init, Marks
<1>5. MarksAgree
  BY <1>4 DEF MarksAgree, Known, KnownOf, Agree, AgreeGiven, HolderMark, Idle, Root
<1>6. Held
  BY <1>1, <1>2, NoneIsNothing DEF Init, Held, Paired, Placed, Idle, Root
<1>7. RequestsTell /\ SpansPlaced /\ Nested
  BY <1>1 DEF Init, RequestsTell, SpansPlaced, Nested, Idle
<1> QED
  BY <1>3, <1>5, <1>6, <1>7 DEF Inv

------------------------------------------------------------------------------
(* A step adds at most one mark, which is fresh or one an old mark vouches  *)
(* for; that marks go, or a run loses more, disturbs no agreement.          *)

LossesGrow ==
  \A run \in DOMAIN losses :
    /\ run \in DOMAIN losses'
    /\ losses[run] \subseteq losses'[run]

Fits(m) ==
  /\ KnownOf(m, ids', DOMAIN losses')
  /\ \/ m.trace \in {None, ids + 1}
     \/ \E n \in Marks : m.trace = n.trace /\ m.sampled = n.sampled /\ m.origin = n.origin
  /\ \/ m.session \in Chosen \cup {None, ids + 1}
     \/ \E n \in Marks : m.session = n.session /\ m.run = n.run
  /\ \/ m.run \in {None, ids + 1}
     \/ \E n \in Marks :
          /\ m.run = n.run
          /\ KeptId(m.run, losses') /\ m.session # None => m.session = n.session
          /\ KeptTrace(m.run, losses') /\ m.trace # None => m.trace = n.trace

LEMMA FitsAgrees ==
  ASSUME Typed, MarksAgree, LossesGrow, NEW m, Fits(m), NEW n \in Marks
  PROVE  AgreeGiven(m, n, losses') /\ AgreeGiven(n, m, losses')
<1>1. ids \in Nat /\ None \notin Int /\ DOMAIN losses \subseteq 1..ids
  BY Bounds, NoneIsNothing DEF Typed
<1>2. Known(n)
  BY DEF MarksAgree
<1>3. m.trace = n.trace /\ m.trace # None => m.sampled = n.sampled /\ m.origin = n.origin
  BY <1>1, <1>2 DEF Fits, MarksAgree, Agree, AgreeGiven, Known, KnownOf
<1>4. m.session = n.session /\ m.session \notin Chosen \cup {None} => m.run = n.run
  BY <1>1, <1>2 DEF Fits, MarksAgree, Agree, AgreeGiven, Known, KnownOf
<1>5. ASSUME m.run = n.run, m.run # None
      PROVE  /\ KeptId(m.run, losses') /\ m.session # None /\ n.session # None => m.session = n.session
             /\ KeptTrace(m.run, losses') /\ m.trace # None /\ n.trace # None => m.trace = n.trace
  <2>1. m.run \in DOMAIN losses /\ m.run # ids + 1
    BY <1>1, <1>2, <1>5 DEF Known, KnownOf
  <2>2. PICK k \in Marks :
          /\ m.run = k.run
          /\ KeptId(m.run, losses') /\ m.session # None => m.session = k.session
          /\ KeptTrace(m.run, losses') /\ m.trace # None => m.trace = k.trace
    BY <1>5, <2>1 DEF Fits
  <2>3. (KeptId(m.run, losses') => KeptId(m.run, losses)) /\ (KeptTrace(m.run, losses') => KeptTrace(m.run, losses))
    BY <2>1 DEF LossesGrow, KeptId, KeptTrace
  <2> QED
    BY <1>5, <2>2, <2>3 DEF MarksAgree, Agree, AgreeGiven
<1> QED
  BY <1>3, <1>4, <1>5 DEF Agree, AgreeGiven, KeptId, KeptTrace

LEMMA MarksStep ==
  ASSUME Typed, MarksAgree, LossesGrow, ids' \in {ids, ids + 1},
         NEW m, Fits(m), Marks' \subseteq Marks \cup {m}
  PROVE  MarksAgree'
<1>1. ids \in Nat
  BY Bounds DEF Typed
<1>2. ASSUME NEW n \in Marks PROVE KnownOf(n, ids', DOMAIN losses')
  BY <1>1 DEF MarksAgree, Known, KnownOf, LossesGrow
<1>3. ASSUME NEW n \in Marks, NEW k \in Marks PROVE AgreeGiven(n, k, losses')
  <2>1. Known(n) /\ Agree(n, k)
    BY DEF MarksAgree
  <2>2. n.run # None => (KeptId(n.run, losses') => KeptId(n.run, losses)) /\ (KeptTrace(n.run, losses') => KeptTrace(n.run, losses))
    BY <2>1 DEF Known, KnownOf, LossesGrow, KeptId, KeptTrace
  <2> QED
    BY <2>1, <2>2 DEF Agree, AgreeGiven
<1>4. KnownOf(m, ids', DOMAIN losses') /\ AgreeGiven(m, m, losses')
  BY DEF Fits, Agree, AgreeGiven
<1> QED
  BY <1>2, <1>3, <1>4, FitsAgrees DEF MarksAgree, Known, Agree

------------------------------------------------------------------------------
(* Entering a block                                                         *)

\* The mark of a block that is entered, and of the span it starts.
EnteredMark(t, context, session, run, origin, ratio) ==
  LET fresh == t \in Traced /\ context.trace = None
  IN  [trace |-> IF fresh THEN ids + 1 ELSE context.trace,
       sampled |-> IF fresh THEN ratio ELSE context.sampled,
       origin |-> origin, session |-> session, run |-> run]

\* What all three ways to enter a block hand to Enter.
Entered(t, kind, context, session, run, origin, ratio) ==
  /\ kind \in {"step", "session"}
  /\ context \in Contexts /\ context.trace \in 1..ids \cup {None}
  /\ session \in 1..ids + 1 \cup Chosen \cup {None}
  /\ run \in 1..ids + 1 \cup {None} /\ origin \in Id
  /\ ratio \in BOOLEAN
  /\ Enter(t, kind, context, session, run, origin, ratio)
  /\ UNCHANGED <<wire, sent>>

\* The task, after it.
LEMMA EnterTask ==
  ASSUME Typed, NEW t \in Tasks, NEW kind, NEW context, NEW session, NEW run, NEW origin,
         NEW ratio, Entered(t, kind, context, session, run, origin, ratio)
  PROVE  LET h == tasks'[t]
             f == tasks[t].frames
             g == h.frames
         IN  /\ ids \in Nat /\ ids' = ids + 1 /\ ids + 1 \in 1..MaxIds
             /\ \A u \in Tasks : u # t => tasks'[u] = tasks[u]
             /\ tasks' \in [Tasks -> Task]
             /\ h.context = IF t \in Traced
                            THEN Under(context, Start(kind, context, session, run, origin, ratio))
                            ELSE context
             /\ h.bound = session /\ h.run = run /\ h.origin = origin
             /\ h.born = tasks[t].born
             /\ Len(g) = Len(f) + 1 /\ Len(g) <= MaxDepth
             /\ \A i \in 1..Len(f) : g[i] = f[i]
             /\ g[Len(f) + 1].context = tasks[t].context /\ g[Len(f) + 1].bound = tasks[t].bound
             /\ g[Len(f) + 1].run = tasks[t].run /\ g[Len(f) + 1].origin = tasks[t].origin
<1> DEFINE span  == Start(kind, context, session, run, origin, ratio)
           above == IF t \in Traced THEN Under(context, span) ELSE context
           frame == [context |-> tasks[t].context, bound |-> tasks[t].bound,
                     run |-> tasks[t].run, origin |-> tasks[t].origin]
<1>1. ids \in Nat /\ ids' = ids + 1 /\ ids + 1 \in 1..MaxIds /\ MaxIds \in Nat
      /\ MaxDepth \in Nat
  BY Bounds DEF Typed, Entered, Enter
<1>2. tasks[t] \in Task /\ frame \in Frame /\ tasks[t].frames \in Seq(Frame)
  BY DEF Typed, Task, Frame, Entered
<1>3. above \in Contexts
  <2>1. context \in Contexts
    BY DEF Entered
  <2>2. span.id \in 0..MaxIds /\ span.trace \in 0..MaxIds \cup {None} /\ span.sampled \in BOOLEAN
    BY <1>1, <2>1 DEF Start, Contexts, Entered
  <2>3. Under(context, span) \in Contexts
    BY <2>1, <2>2 DEF Under, Contexts
  <2> QED
    BY <2>1, <2>3
<1>4. session \in Session /\ run \in Id /\ origin \in Id
  <2>1. \A i \in 1..ids + 1 : i \in 0..MaxIds
    BY <1>1
  <2> QED
    BY <2>1 DEF Entered, Session, Id
<1>5. Append(tasks[t].frames, frame) \in Seq(Frame)
  BY <1>2
<1>6. tasks' = [tasks EXCEPT ![t] =
          [tasks[t] EXCEPT !.context = above, !.bound = session, !.run = run,
                           !.origin = origin, !.frames = Append(tasks[t].frames, frame)]]
  BY DEF Entered, Enter
<1> HIDE DEF span, above, frame
<1> DEFINE next == [tasks[t] EXCEPT !.context = above, !.bound = session, !.run = run,
                           !.origin = origin, !.frames = Append(tasks[t].frames, frame)]
<1>7. next \in Task
  BY <1>2, <1>3, <1>4, <1>5 DEF Task
<1>8. tasks \in [Tasks -> Task]
  BY DEF Typed
<1>9. tasks'[t] = next /\ tasks' \in [Tasks -> Task]
      /\ \A u \in Tasks : u # t => tasks'[u] = tasks[u]
  BY <1>6, <1>7, <1>8
<1>10. /\ next.context = above /\ next.bound = session /\ next.run = run /\ next.origin = origin
       /\ next.frames = Append(tasks[t].frames, frame) /\ next.born = tasks[t].born
  BY <1>2 DEF Task
<1>11. Len(tasks[t].frames) < MaxDepth
  BY DEF Entered, Enter
<1> HIDE DEF next
<1>12. frame.context = tasks[t].context /\ frame.bound = tasks[t].bound
       /\ frame.run = tasks[t].run /\ frame.origin = tasks[t].origin
  BY DEF frame
<1>13. /\ Len(Append(tasks[t].frames, frame)) = Len(tasks[t].frames) + 1
       /\ \A i \in 1..Len(tasks[t].frames) : Append(tasks[t].frames, frame)[i] = tasks[t].frames[i]
       /\ Append(tasks[t].frames, frame)[Len(tasks[t].frames) + 1] = frame
       /\ Len(tasks[t].frames) \in Nat
  BY <1>2
<1> QED
  BY <1>1, <1>9, <1>10, <1>11, <1>12, <1>13 DEF above, span

\* The spans, after it: the new one is told from the old by its id.
LEMMA EnterSpans ==
  ASSUME Typed, NEW t \in Tasks, NEW kind, NEW context, NEW session, NEW run, NEW origin,
         NEW ratio, Entered(t, kind, context, session, run, origin, ratio)
  PROVE  LET span == Start(kind, context, session, run, origin, ratio)
             mark == EnteredMark(t, context, session, run, origin, ratio)
         IN  /\ spans' = IF t \in Traced THEN spans \cup {span} ELSE spans
             /\ t \in Traced =>
                  /\ span.id = ids + 1 /\ span.kind = kind /\ span.parent = context.span
                  /\ span.session = session /\ span.run = run
                  /\ span.trace = IF context.trace = None THEN ids + 1 ELSE context.trace
                  /\ SpanMark(span) = mark
             /\ \A u \in spans : u.id \in 1..ids
<1> DEFINE span == Start(kind, context, session, run, origin, ratio)
<1>1. ids \in Nat /\ ids + 1 \in 1..MaxIds
  BY EnterTask
<1>2. spans' = IF t \in Traced THEN spans \cup {span} ELSE spans
  BY DEF Entered, Enter
<1>3. span.id = ids + 1 /\ span.kind = kind /\ span.parent = context.span
      /\ span.session = session /\ span.run = run
      /\ span.trace = IF context.trace = None THEN ids + 1 ELSE context.trace
  BY DEF Start
<1>4. t \in Traced => SpanMark(span) = EnteredMark(t, context, session, run, origin, ratio)
  BY DEF SpanMark, EnteredMark, Start
<1>5. \A u \in spans : u.id \in 1..ids
  BY DEF Typed
<1> QED
  BY <1>2, <1>3, <1>4, <1>5

LEMMA EnterTyped ==
  ASSUME Typed, NEW t \in Tasks, NEW kind, NEW context, NEW session, NEW run, NEW origin,
         NEW ratio, Entered(t, kind, context, session, run, origin, ratio),
         DOMAIN losses' \subseteq 1..ids'
  PROVE  Typed'
<1> DEFINE span == Start(kind, context, session, run, origin, ratio)
<1>1. /\ ids \in Nat /\ ids' = ids + 1 /\ ids + 1 \in 1..MaxIds /\ MaxIds \in Nat
      /\ tasks' \in [Tasks -> Task] /\ Len(tasks'[t].frames) <= MaxDepth
      /\ \A u \in Tasks : u # t => tasks'[u] = tasks[u]
  BY EnterTask, Bounds
<1>2. \A u \in Tasks : Len(tasks'[u].frames) <= MaxDepth
  BY <1>1 DEF Typed
<1>3. spans' \subseteq spans \cup {span} /\ (t \notin Traced => spans' = spans)
  BY EnterSpans
<1>4. t \in Traced => span \in Span /\ span.id = ids + 1 /\ span.trace \in 1..ids + 1
  <2>1. /\ context.span \in Id /\ context.sampled \in BOOLEAN
        /\ context.trace \in 1..ids \cup {None}
        /\ kind \in {"step", "session"} /\ ratio \in BOOLEAN /\ origin \in Id
    BY DEF Entered, Contexts, Id
  <2>2. session \in Session /\ run \in Id
    <3>1. \A i \in 1..ids + 1 : i \in 0..MaxIds
      BY <1>1
    <3> QED
      BY <3>1 DEF Entered, Session, Id
  <2>3. ids + 1 \in 1..MaxIds /\ \A i \in 1..ids + 1 : i \in 1..MaxIds
    BY <1>1
  <2>4. \A i \in 1..ids : i \in 1..ids + 1
    BY <1>1
  <2> QED
    BY <1>1, <2>1, <2>2, <2>3, <2>4 DEF Start, Span
<1>5. \A s \in spans : s \in Span /\ s.id \in 1..ids + 1 /\ s.trace \in 1..s.id
  BY <1>1 DEF Typed
<1>6. spans' \subseteq Span /\ \A s \in spans' : s.id \in 1..ids' /\ s.trace \in 1..s.id
  BY <1>1, <1>3, <1>4, <1>5
<1>7. wire' \subseteq Request /\ sent' \in 0..MaxCalls
  BY DEF Entered, Typed
<1> QED
  BY <1>1, <1>2, <1>6, <1>7 DEF Typed

\* The one mark it adds.
LEMMA EnterMarks ==
  ASSUME Typed, NEW t \in Tasks, NEW kind, NEW context, NEW session, NEW run, NEW origin,
         NEW ratio, Entered(t, kind, context, session, run, origin, ratio)
  PROVE  Marks' \subseteq Marks \cup {EnteredMark(t, context, session, run, origin, ratio)}
<1> DEFINE span == Start(kind, context, session, run, origin, ratio)
           mark == EnteredMark(t, context, session, run, origin, ratio)
<1> SUFFICES ASSUME NEW m \in Marks' PROVE m \in Marks \/ m = mark
  OBVIOUS
<1>1. CASE \E s \in spans' : m = SpanMark(s)
  BY <1>1, EnterSpans DEF Marks
<1>2. CASE \E r \in wire' : m = RequestMark(r)
  BY <1>2 DEF Marks, Entered
<1>3. CASE \E u \in Tasks : m = HolderMark(tasks'[u])
  <2>1. PICK u \in Tasks : m = HolderMark(tasks'[u])
    BY <1>3
  <2>2. CASE u = t
    <3>1. /\ tasks'[t].bound = session /\ tasks'[t].run = run /\ tasks'[t].origin = origin
          /\ tasks'[t].context = IF t \in Traced THEN Under(context, span) ELSE context
      BY EnterTask
    <3>2. context \in Contexts
      BY DEF Entered
    <3>3. /\ Under(context, span).trace = span.trace
          /\ Under(context, span).sampled = span.sampled
      BY <3>2 DEF Under, Contexts
    <3> QED
      BY <2>1, <2>2, <3>1, <3>3 DEF HolderMark, EnteredMark, Start
  <2>3. CASE u # t
    BY <2>1, <2>3, EnterTask DEF Marks
  <2> QED
    BY <2>2, <2>3
<1>4. CASE \E u \in Tasks : \E i \in 1..Len(tasks'[u].frames) : m = HolderMark(tasks'[u].frames[i])
  <2>0. PICK u \in Tasks : \E i \in 1..Len(tasks'[u].frames) : m = HolderMark(tasks'[u].frames[i])
    BY <1>4
  <2>1. PICK i \in 1..Len(tasks'[u].frames) : m = HolderMark(tasks'[u].frames[i])
    BY <2>0
  <2>2. CASE u = t
    <3>1. Len(tasks[t].frames) \in Nat
      BY DEF Typed, Task
    <3>2. /\ Len(tasks'[t].frames) = Len(tasks[t].frames) + 1
          /\ \A j \in 1..Len(tasks[t].frames) : tasks'[t].frames[j] = tasks[t].frames[j]
      BY EnterTask
    <3>3. HolderMark(tasks'[t].frames[Len(tasks[t].frames) + 1]) = HolderMark(tasks[t])
      BY EnterTask DEF HolderMark
    <3>4. i \in 1..Len(tasks[t].frames) \/ i = Len(tasks[t].frames) + 1
      BY <2>2, <3>1, <3>2
    <3>5. CASE i \in 1..Len(tasks[t].frames)
      BY <2>1, <2>2, <3>2, <3>5 DEF Marks
    <3>6. CASE i = Len(tasks[t].frames) + 1
      BY <2>1, <2>2, <3>3, <3>6 DEF Marks
    <3> QED
      BY <3>4, <3>5, <3>6
  <2>3. CASE u # t
    <3>1. tasks'[u] = tasks[u]
      BY <2>3, EnterTask
    <3> QED
      BY <2>1, <3>1 DEF Marks
  <2> QED
    BY <2>2, <2>3
<1> QED
  BY <1>1, <1>2, <1>3, <1>4 DEF Marks

\* The context and the session of a block, and of a step those of the block above.
Fitting(t, kind, context, session, run) ==
  /\ session = None => context.baggage = None
  /\ run # None => session # None
  /\ t \in Traced /\ kind = "step" =>
       /\ context.span \in 1..ids \cup {None}
       /\ \A u \in spans : u.id = context.span => u.session = session

\* A new span is above nothing that was there before.
LEMMA PlacedBefore ==
  ASSUME Typed, NEW t \in Tasks, NEW kind, NEW context, NEW session, NEW run, NEW origin,
         NEW ratio, Entered(t, kind, context, session, run, origin, ratio),
         NEW h, Placed(h, ids, spans)
  PROVE  Placed(h, ids', spans')
<1>1. ids \in Nat /\ ids' = ids + 1 /\ None \notin Int
  BY EnterTask, NoneIsNothing
<1>2. \A u \in spans' : u \in spans \/ u.id = ids + 1
  BY EnterSpans
<1>3. h.context.span \in 1..ids \cup {None} /\ h.context.span # ids + 1
  BY <1>1 DEF Placed
<1>4. h.context.span \in 1..ids' \cup {None}
  BY <1>1, <1>3
<1> QED
  BY <1>2, <1>3, <1>4 DEF Placed

LEMMA EnterHeld ==
  ASSUME Typed, Held, NEW t \in Tasks, NEW kind, NEW context, NEW session, NEW run, NEW origin,
         NEW ratio, Entered(t, kind, context, session, run, origin, ratio),
         Fitting(t, kind, context, session, run)
  PROVE  Held'
<1> DEFINE span == Start(kind, context, session, run, origin, ratio)
           f == tasks[t].frames
           h == tasks'[t]
           g == h.frames
<1>1. /\ ids \in Nat /\ ids' = ids + 1 /\ None \notin Int /\ Len(f) \in Nat
      /\ \A u \in Tasks : u # t => tasks'[u] = tasks[u]
      /\ Len(g) = Len(f) + 1 /\ \A i \in 1..Len(f) : g[i] = f[i]
      /\ g[Len(f) + 1].context = tasks[t].context /\ g[Len(f) + 1].bound = tasks[t].bound
      /\ g[Len(f) + 1].run = tasks[t].run
      /\ h.context = IF t \in Traced THEN Under(context, span) ELSE context
      /\ h.bound = session /\ h.run = run
  <2>1. Len(f) \in Nat
    BY DEF Typed, Task
  <2> QED
    BY <2>1, EnterTask, NoneIsNothing
<1>2. /\ context \in Contexts
      /\ Under(context, span).baggage = context.baggage
      /\ Under(context, span).span = span.id /\ Under(context, span).trace = span.trace
  <2>1. context \in Contexts
    BY DEF Entered
  <2> QED
    BY <2>1 DEF Under, Contexts
<1>3. \A u \in spans : u.id \in 1..ids
  BY DEF Typed
<1>4. Paired(h)
  BY <1>1, <1>2 DEF Paired, Fitting
<1>5. ASSUME t \in Traced PROVE Placed(h, ids', spans')
  <2>1. spans' = spans \cup {span} /\ span.id = ids + 1 /\ span.session = session
        /\ span.trace = IF context.trace = None THEN ids + 1 ELSE context.trace
    BY <1>5, EnterSpans
  <2>2. h.context.span = ids + 1 /\ ids + 1 \in 1..ids' /\ h.context.trace # None
    BY <1>1, <1>2, <1>5, <2>1
  <2>3. \A u \in spans' : u.id = ids + 1 => u.session = session
    BY <1>1, <1>3, <2>1
  <2> QED
    BY <1>1, <2>2, <2>3 DEF Placed
<1>6. \A i \in 1..Len(f) : Paired(g[i]) /\ (t \in Traced => Placed(g[i], ids', spans'))
  <2> SUFFICES ASSUME NEW i \in 1..Len(f)
               PROVE  Paired(g[i]) /\ (t \in Traced => Placed(g[i], ids', spans'))
    OBVIOUS
  <2>1. g[i] = f[i] /\ Paired(f[i]) /\ (t \in Traced => Placed(f[i], ids, spans))
    BY <1>1 DEF Held
  <2>2. ASSUME t \in Traced, NEW k, k = f[i] PROVE Placed(k, ids', spans')
    BY <2>1, <2>2, PlacedBefore
  <2> QED
    BY <2>1, <2>2 DEF Placed
<1>7. Paired(g[Len(f) + 1]) /\ (t \in Traced => Placed(g[Len(f) + 1], ids', spans'))
  <2>1. Paired(tasks[t]) /\ (t \in Traced => Placed(tasks[t], ids, spans))
    BY DEF Held
  <2>2. ASSUME t \in Traced, NEW k, k = tasks[t] PROVE Placed(k, ids', spans')
    BY <2>1, <2>2, PlacedBefore
  <2> QED
    BY <1>1, <2>1, <2>2 DEF Paired, Placed
<1>8. \A i \in 1..Len(g) : i \in 1..Len(f) \/ i = Len(f) + 1
  BY <1>1
<1>9. ASSUME NEW u \in Tasks, u # t
      PROVE  /\ Paired(tasks'[u]) /\ (u \in Traced => Placed(tasks'[u], ids', spans'))
             /\ \A i \in 1..Len(tasks'[u].frames) :
                  Paired(tasks'[u].frames[i]) /\ (u \in Traced => Placed(tasks'[u].frames[i], ids', spans'))
  <2>1. tasks'[u] = tasks[u]
    BY <1>1, <1>9
  <2>2. ASSUME u \in Traced, NEW k, k = tasks[u] PROVE Placed(k, ids', spans')
    BY <2>2, PlacedBefore DEF Held
  <2>3. ASSUME u \in Traced, NEW i \in 1..Len(tasks[u].frames), NEW k, k = tasks[u].frames[i]
        PROVE  Placed(k, ids', spans')
    BY <2>3, PlacedBefore DEF Held
  <2> QED
    BY <2>1, <2>2, <2>3 DEF Held, Placed
<1> QED
  BY <1>4, <1>5, <1>6, <1>7, <1>8, <1>9 DEF Held, Paired

LEMMA EnterSpansPlaced ==
  ASSUME Typed, SpansPlaced, NEW t \in Tasks, NEW kind, NEW context, NEW session, NEW run,
         NEW origin, NEW ratio, Entered(t, kind, context, session, run, origin, ratio),
         Fitting(t, kind, context, session, run)
  PROVE  SpansPlaced'
<1> DEFINE span == Start(kind, context, session, run, origin, ratio)
<1>1. ids \in Nat /\ ids' = ids + 1 /\ None \notin Int
  BY EnterTask, NoneIsNothing
<1>2. CASE t \notin Traced
  <2>1. spans' = spans
    BY <1>2, EnterSpans
  <2> QED
    BY <1>1, <2>1 DEF SpansPlaced
<1>3. CASE t \in Traced
  <2>1. /\ spans' = spans \cup {span} /\ span.id = ids + 1 /\ span.kind = kind
        /\ span.parent = context.span /\ span.session = session /\ span.run = run
    BY <1>3, EnterSpans
  <2>2. \A u \in spans : u.id \in 1..ids
    BY DEF Typed
  <2>3. \A s \in spans : s.kind = "step" => s.parent \in 1..ids' \cup {None} /\ s.parent # ids + 1
    BY <1>1 DEF SpansPlaced
  <2>4. kind = "step" => span.parent \in 1..ids' \cup {None} /\ span.parent # ids + 1
    BY <1>1, <1>3, <2>1 DEF Fitting
  <2>5. \A s \in spans' : s.run # None => s.session # None
    BY <2>1 DEF SpansPlaced, Fitting
  <2>6. \A s, u \in spans' : s.kind = "step" /\ s.parent = u.id => s.session = u.session
    BY <1>3, <2>1, <2>2, <2>3, <2>4 DEF SpansPlaced, Fitting
  <2> QED
    BY <2>1, <2>3, <2>4, <2>5, <2>6 DEF SpansPlaced
<1> QED
  BY <1>2, <1>3

LEMMA EnterNested ==
  ASSUME Typed, Nested, NEW t \in Tasks, NEW kind, NEW context, NEW session, NEW run, NEW origin,
         NEW ratio, Entered(t, kind, context, session, run, origin, ratio)
  PROVE  Nested'
<1> DEFINE f == tasks[t].frames
           g == tasks'[t].frames
<1>1. f \in Seq(Frame) /\ g \in Seq(Frame)
  <2>1. tasks \in [Tasks -> Task] /\ tasks' \in [Tasks -> Task]
    BY EnterTask DEF Typed
  <2> QED
    BY <2>1 DEF Task
<1>2. /\ Len(g) = Len(f) + 1 /\ \A i \in 1..Len(f) : g[i] = f[i]
      /\ g[Len(f) + 1].context = tasks[t].context /\ tasks'[t].born = tasks[t].born
      /\ \A u \in Tasks : u # t => tasks'[u] = tasks[u]
  BY EnterTask
<1>3. g # <<>>
  BY <1>1, <1>2
<1>4. CASE f = <<>>
  BY <1>2, <1>3, <1>4 DEF Nested
<1>5. CASE f # <<>>
  <2>1. g[1] = f[1]
    BY <1>1, <1>2, <1>5
  <2> QED
    BY <1>2, <1>3, <1>5, <2>1 DEF Nested
<1> QED
  BY <1>4, <1>5

LEMMA EnterInv ==
  ASSUME Inv, NEW t \in Tasks, NEW kind, NEW context, NEW session, NEW run, NEW origin,
         NEW ratio, Entered(t, kind, context, session, run, origin, ratio),
         Fitting(t, kind, context, session, run),
         Fits(EnteredMark(t, context, session, run, origin, ratio)),
         LossesGrow, DOMAIN losses' \subseteq 1..ids'
  PROVE  Inv'
<1> USE DEF Inv
<1>1. Typed'
  BY EnterTyped
<1>2. ids' \in {ids, ids + 1}
  BY EnterTask
<1>3. MarksAgree'
  BY <1>2, EnterMarks, MarksStep
<1>4. Held' /\ SpansPlaced' /\ Nested'
  BY EnterHeld, EnterSpansPlaced, EnterNested
<1>5. RequestsTell'
  BY DEF RequestsTell, Entered
<1> QED
  BY <1>1, <1>3, <1>4, <1>5

\* A block is entered under the task's context, whose mark is known.
LEMMA TaskKnown ==
  ASSUME Inv, NEW t \in Tasks
  PROVE  /\ HolderMark(tasks[t]) \in Marks /\ Known(HolderMark(tasks[t]))
         /\ tasks[t] \in Task /\ tasks[t].context \in Contexts
         /\ tasks[t].context.trace \in 1..ids \cup {None}
         /\ tasks[t].bound \in 1..ids \cup Chosen \cup {None}
         /\ tasks[t].run \in 1..ids \cup {None} /\ tasks[t].origin \in Id
         /\ tasks[t].run \in (DOMAIN losses) \cup {None}
         /\ tasks[t].run = None => tasks[t].bound = None
         /\ Paired(tasks[t]) /\ (t \in Traced => Placed(tasks[t], ids, spans))
<1>1. HolderMark(tasks[t]) \in Marks
  BY DEF Marks
<1>2. Known(HolderMark(tasks[t]))
  BY <1>1 DEF Inv, MarksAgree
<1>3. DOMAIN losses \subseteq 1..ids /\ tasks[t] \in Task
  BY DEF Inv, Typed
<1> QED
  BY <1>1, <1>2, <1>3 DEF Known, KnownOf, HolderMark, Inv, Held, Task

LEMMA EnterStepInv ==
  ASSUME Inv, NEW t \in Tasks, NEW ratio \in BOOLEAN, EnterStep(t, ratio)
  PROVE  Inv'
<1> DEFINE h == tasks[t]
           m == EnteredMark(t, h.context, h.bound, h.run, h.origin, ratio)
<1>1. ids \in Nat /\ losses' = losses /\ DOMAIN losses \subseteq 1..ids
  BY Bounds DEF Inv, Typed, EnterStep
<1>2. Entered(t, "step", h.context, h.bound, h.run, h.origin, ratio)
  <2>1. \A i \in 1..ids : i \in 1..ids + 1
    BY <1>1
  <2> QED
    BY <2>1, TaskKnown DEF Entered, EnterStep
<1>3. ids' = ids + 1
  BY <1>2, EnterTask DEF Inv
<1>4. Fitting(t, "step", h.context, h.bound, h.run)
  BY TaskKnown DEF Fitting, Paired, Placed
<1>5. LossesGrow /\ DOMAIN losses' \subseteq 1..ids'
  BY <1>1, <1>3 DEF LossesGrow
<1>6. Fits(m)
  <2>1. /\ m.session = h.bound /\ m.run = h.run /\ m.origin = h.origin
        /\ \/ m.trace = h.context.trace /\ m.sampled = h.context.sampled
           \/ m.trace = ids + 1 /\ h.context.trace = None /\ t \in Traced
    BY DEF EnteredMark
  <2>2. KnownOf(m, ids', DOMAIN losses')
    BY <1>1, <1>3, <2>1, TaskKnown DEF Known, KnownOf
  <2>3. h.run # None => m.trace = h.context.trace
    BY <2>1, TaskKnown DEF Placed
  <2> QED
    BY <2>1, <2>2, <2>3, TaskKnown DEF Fits, HolderMark
<1> QED
  BY <1>2, <1>4, <1>5, <1>6, EnterInv

\* What a run loses, it has lost for good; what others lost does not change.
LEMMA LosingGrows ==
  ASSUME Inv, NEW run, NEW lost, losses' = Losing(run, lost)
  PROVE  /\ LossesGrow /\ DOMAIN losses' = DOMAIN losses \cup {run}
         /\ lost \subseteq losses'[run]
BY DEF Losing, LossesGrow

LEMMA EnterSessionInv ==
  ASSUME Inv, NEW t \in Tasks, NEW explicit \in Chosen \cup {None}, NEW ratio \in BOOLEAN,
         EnterSession(t, explicit, ratio)
  PROVE  Inv'
<1> DEFINE h       == tasks[t]
           origin  == IF h.context.trace = None THEN ids + 1 ELSE h.origin
           session == Resolve(explicit, None)
           m       == EnteredMark(t, h.context, session, ids + 1, origin, ratio)
<1>1. ids \in Nat /\ MaxIds \in Nat /\ ids < MaxIds /\ DOMAIN losses \subseteq 1..ids
      /\ losses' = Losing(ids + 1, Told(explicit)) /\ None \notin Int \cup Chosen
  BY Bounds, NoneIsNothing DEF Inv, Typed, EnterSession, Enter
<1>2. session \in Chosen \cup {ids + 1} /\ session # None
  BY <1>1 DEF Resolve
<1>3. origin \in Id
  <2>1. ids + 1 \in 0..MaxIds
    BY <1>1
  <2> QED
    BY <2>1, TaskKnown DEF Id
<1>4. Entered(t, "session", h.context, session, ids + 1, origin, ratio)
  <2>1. ids + 1 \in 1..ids + 1
    BY <1>1
  <2> QED
    BY <1>2, <1>3, <2>1, TaskKnown DEF Entered, EnterSession
<1>5. ids' = ids + 1
  BY <1>4, EnterTask DEF Inv
<1>6. Fitting(t, "session", h.context, session, ids + 1)
  BY <1>2 DEF Fitting
<1>7. LossesGrow /\ DOMAIN losses' = DOMAIN losses \cup {ids + 1}
  BY <1>1, LosingGrows
<1>8. DOMAIN losses' \subseteq 1..ids'
  BY <1>1, <1>5, <1>7
<1>9. Fits(m)
  <2>1. /\ m.session = session /\ m.run = ids + 1 /\ m.origin = origin
        /\ \/ m.trace = h.context.trace /\ m.sampled = h.context.sampled
           \/ m.trace = ids + 1
    BY DEF EnteredMark
  <2>2. \A i \in 1..ids + 1 : i \in 1..ids'
    BY <1>5
  <2>3. ids + 1 \in 1..ids' /\ ids + 1 # None /\ \A i \in 1..ids : i \in 1..ids'
    BY <1>1, <1>5
  <2>4. KnownOf(m, ids', DOMAIN losses')
    BY <1>1, <1>2, <1>7, <2>1, <2>3, TaskKnown DEF Known, KnownOf
  <2>5. m.trace \notin {None, ids + 1} =>
          m.trace = h.context.trace /\ m.sampled = h.context.sampled /\ m.origin = h.origin
    BY <2>1
  <2> QED
    BY <1>2, <2>1, <2>4, <2>5, TaskKnown DEF Fits, HolderMark
<1> QED
  BY <1>4, <1>6, <1>7, <1>8, <1>9, EnterInv

LEMMA ServeInv ==
  ASSUME Inv, NEW t \in Tasks, NEW request \in wire \cup {Visit},
         NEW explicit \in Chosen \cup {None}, NEW ratio \in BOOLEAN,
         Serve(t, request, explicit, ratio)
  PROVE  Inv'
<1> DEFINE context == request.context
           run     == IF request.run = None THEN ids + 1 ELSE request.run
           origin  == IF context.trace = None THEN ids + 1 ELSE request.origin
           session == Resolve(explicit, context.baggage)
           m       == EnteredMark(t, context, session, run, origin, ratio)
           n       == RequestMark(request)
           told    == request.lost \cup Told(explicit)
<1>1. ids \in Nat /\ MaxIds \in Nat /\ ids < MaxIds /\ DOMAIN losses \subseteq 1..ids
      /\ losses' = Losing(run, told) /\ None \notin Int \cup Chosen
  BY Bounds, NoneIsNothing DEF Inv, Typed, Serve, Enter
<1>2. /\ context \in Contexts /\ request.origin \in Id
      /\ context.trace \in 1..ids \cup {None}
      /\ context.baggage \in 1..ids \cup Chosen \cup {None}
      /\ request.run \in (DOMAIN losses) \cup {None}
      /\ request.run = None => context.baggage = None
      /\ request.run # None =>
           /\ request \in wire
           /\ "baggage" \in request.lost \/ context.baggage # None
           /\ "traceparent" \in request.lost \/ context.trace # None
      /\ n \in Marks \/ (context.trace = None /\ context.baggage = None /\ request.run = None)
  <2>1. CASE request \in wire
    <3>1. n \in Marks
      BY <2>1 DEF Marks
    <3>2. Known(n) /\ request \in Request
      BY <2>1, <3>1 DEF Inv, MarksAgree, Typed
    <3> QED
      BY <2>1, <3>1, <3>2 DEF Known, KnownOf, RequestMark, Request, Inv, RequestsTell
  <2>2. CASE request = Visit
    BY <2>2 DEF Visit, Root, Contexts, Id
  <2> QED
    BY <2>1, <2>2
<1>3. session \in 1..ids + 1 \cup Chosen /\ session # None
  <2>1. \A i \in 1..ids + 1 : i # None
    BY <1>1
  <2>2. ids + 1 \in 1..ids + 1 /\ \A i \in 1..ids : i \in 1..ids + 1
    BY <1>1
  <2> QED
    BY <1>1, <1>2, <2>1, <2>2 DEF Resolve
<1>4. run \in 1..ids + 1
  BY <1>1, <1>2
<1>5. origin \in Id
  <2>1. ids + 1 \in 0..MaxIds
    BY <1>1
  <2> QED
    BY <1>2, <2>1 DEF Id
<1>6. Entered(t, "session", context, session, run, origin, ratio)
  BY <1>2, <1>3, <1>4, <1>5 DEF Entered, Serve
<1>7. ids' = ids + 1
  BY <1>6, EnterTask DEF Inv
<1>8. Fitting(t, "session", context, session, run)
  BY <1>3 DEF Fitting
<1>9. LossesGrow /\ DOMAIN losses' = DOMAIN losses \cup {run} /\ told \subseteq losses'[run]
  <2> HIDE DEF run, told
  <2> QED
    BY <1>1, LosingGrows
<1>10. DOMAIN losses' \subseteq 1..ids'
  BY <1>1, <1>4, <1>7, <1>9
<1>11. Fits(m)
  <2>1. /\ m.session = session /\ m.run = run /\ m.origin = origin
        /\ \/ m.trace = context.trace /\ m.sampled = context.sampled
           \/ m.trace = ids + 1 /\ context.trace = None
    BY DEF EnteredMark
  <2>2. ids + 1 \in 1..ids' /\ \A i \in 1..ids + 1 : i \in 1..ids' /\ i # None
    BY <1>1, <1>7
  <2>3. \A i \in 1..ids : i \in 1..ids'
    BY <1>1, <1>7
  <2>4. KnownOf(m, ids', DOMAIN losses')
    BY <1>2, <1>3, <1>4, <1>9, <2>1, <2>2, <2>3 DEF KnownOf
  <2>5. m.trace \notin {None, ids + 1} =>
          n \in Marks /\ m.trace = n.trace /\ m.sampled = n.sampled /\ m.origin = n.origin
    BY <1>2, <2>1 DEF RequestMark
  <2>6. m.session \notin Chosen \cup {None, ids + 1} =>
          n \in Marks /\ m.session = n.session /\ m.run = n.run
    BY <1>2, <2>1 DEF RequestMark, Resolve
  <2>7. m.run \notin {None, ids + 1} =>
          /\ n \in Marks /\ m.run = n.run
          /\ KeptId(m.run, losses') => m.session = n.session
          /\ KeptTrace(m.run, losses') => m.trace = n.trace
    <3>1. CASE m.run \in {None, ids + 1}
      BY <3>1
    <3>2. CASE m.run \notin {None, ids + 1}
      <4>1. request.run # None /\ m.run = request.run /\ n \in Marks /\ m.run = n.run
        BY <1>2, <2>1, <3>2 DEF RequestMark
      <4>2. ASSUME KeptId(m.run, losses') PROVE m.session = n.session
        <5>1. "baggage" \notin request.lost /\ explicit = None
          BY <1>9, <2>1, <4>2 DEF KeptId, Told
        <5> QED
          BY <1>2, <2>1, <4>1, <5>1 DEF Resolve, RequestMark
      <4>3. ASSUME KeptTrace(m.run, losses') PROVE m.trace = n.trace
        <5>1. "traceparent" \notin request.lost
          BY <1>9, <2>1, <4>3 DEF KeptTrace
        <5> QED
          BY <1>2, <2>1, <4>1, <5>1 DEF RequestMark
      <4> QED
        BY <4>1, <4>2, <4>3
    <3> QED
      BY <3>1, <3>2
  <2> QED
    BY <2>4, <2>5, <2>6, <2>7 DEF Fits
<1> QED
  BY <1>6, <1>8, <1>9, <1>10, <1>11, EnterInv

------------------------------------------------------------------------------
(* Leaving a block, tasks and requests                                      *)

\* A task becomes h, whose blocks were among its own, and nothing else changes.
LEMMA BecomesInv ==
  ASSUME Inv, NEW t \in Tasks, NEW h \in Task, tasks' = [tasks EXCEPT ![t] = h],
         UNCHANGED <<wire, spans, ids, sent, losses>>,
         Len(h.frames) <= Len(tasks[t].frames),
         \A i \in 1..Len(h.frames) : h.frames[i] = tasks[t].frames[i],
         IF h.frames = <<>> THEN h.context = h.born ELSE h.frames[1].context = h.born,
         Paired(h), t \in Traced => Placed(h, ids, spans),
         Fits(HolderMark(h))
  PROVE  Inv'
<1> USE DEF Inv
<1>1. /\ tasks' \in [Tasks -> Task] /\ tasks'[t] = h
      /\ \A u \in Tasks : u # t => tasks'[u] = tasks[u]
      /\ Len(h.frames) \in Nat /\ Len(tasks[t].frames) \in Nat /\ MaxDepth \in Nat
  BY Bounds DEF Typed, Task
<1>2. \A i \in 1..Len(h.frames) : i \in 1..Len(tasks[t].frames)
  BY <1>1
<1>3. Typed'
  <2>1. \A u \in Tasks : Len(tasks'[u].frames) <= MaxDepth
    BY <1>1 DEF Typed
  <2> QED
    BY <1>1, <2>1 DEF Typed
<1>4. Held'
  BY <1>1, <1>2 DEF Held
<1>5. RequestsTell' /\ SpansPlaced'
  BY DEF RequestsTell, SpansPlaced
<1>6. Nested'
  BY <1>1 DEF Nested
<1>7. Marks' \subseteq Marks \cup {HolderMark(h)}
  <2>1. \A u \in Tasks : \A i \in 1..Len(tasks'[u].frames) :
          i \in 1..Len(tasks[u].frames) /\ tasks'[u].frames[i] = tasks[u].frames[i]
    BY <1>1, <1>2
  <2>2. \A u \in Tasks : tasks'[u] = tasks[u] \/ tasks'[u] = h
    BY <1>1
  <2>3. spans' = spans /\ wire' = wire
    OBVIOUS
  <2> QED
    BY <2>1, <2>2, <2>3 DEF Marks
<1>8. LossesGrow /\ ids' \in {ids, ids + 1}
  BY DEF LossesGrow
<1>9. MarksAgree'
  BY <1>7, <1>8, MarksStep
<1> QED
  BY <1>3, <1>4, <1>5, <1>6, <1>9

LEMMA OldMarkFits ==
  ASSUME Inv, NEW m \in Marks, UNCHANGED <<ids, losses>>
  PROVE  Fits(m)
BY DEF Inv, MarksAgree, Known, Fits

LEMMA LeaveInv ==
  ASSUME Inv, NEW t \in Tasks, Leave(t)
  PROVE  Inv'
<1> DEFINE f     == tasks[t].frames
           frame == Last(f)
           h     == [tasks[t] EXCEPT !.context = frame.context, !.bound = frame.bound,
                                     !.run = frame.run, !.origin = frame.origin,
                                     !.frames = Front(f)]
<1>1. tasks[t] \in Task /\ f \in Seq(Frame) /\ f # <<>>
  BY DEF Inv, Typed, Task, Leave
<1>2. Len(f) \in Nat \ {0} /\ frame = f[Len(f)] /\ frame \in Frame
      /\ Front(f) \in Seq(Frame) /\ Len(Front(f)) = Len(f) - 1
      /\ \A i \in 1..Len(f) - 1 : Front(f)[i] = f[i]
  BY <1>1 DEF Last, Front
<1>3. /\ h \in Task /\ h.context = frame.context /\ h.bound = frame.bound /\ h.run = frame.run
      /\ h.origin = frame.origin /\ h.frames = Front(f) /\ h.born = tasks[t].born
  BY <1>1, <1>2 DEF Task, Frame
<1>4. tasks' = [tasks EXCEPT ![t] = h] /\ UNCHANGED <<wire, spans, ids, sent, losses>>
  BY DEF Leave
<1> HIDE DEF h, frame
<1>5. Len(f) \in 1..Len(f)
  BY <1>2
<1>6. Paired(frame) /\ (t \in Traced => Placed(frame, ids, spans))
  BY <1>2, <1>5 DEF Inv, Held
<1>7. Paired(h) /\ (t \in Traced => Placed(h, ids, spans))
  BY <1>3, <1>6 DEF Paired, Placed
<1>8. HolderMark(h) = HolderMark(f[Len(f)]) /\ HolderMark(h) \in Marks
  <2>1. HolderMark(h) = HolderMark(f[Len(f)])
    BY <1>2, <1>3 DEF HolderMark
  <2>2. \A i \in 1..Len(f) : HolderMark(f[i]) \in Marks
    BY DEF Marks
  <2> QED
    BY <1>5, <2>1, <2>2
<1>9. Fits(HolderMark(h))
  BY <1>4, <1>8, OldMarkFits
<1>10. IF h.frames = <<>> THEN h.context = h.born ELSE h.frames[1].context = h.born
  <2>1. f[1].context = tasks[t].born
    BY <1>1 DEF Inv, Nested
  <2>2. CASE Len(f) = 1
    BY <1>2, <1>3, <2>1, <2>2
  <2>3. CASE Len(f) # 1
    <3>1. 1 \in 1..Len(f) - 1
      <4>1. ASSUME NEW k \in Nat, k # 0, k # 1 PROVE 1 \in 1..k - 1
        BY <4>1
      <4> QED
        BY <1>2, <2>3, <4>1
    <3>2. h.frames # <<>>
      <4>1. ASSUME NEW k \in Nat, k # 1 PROVE k - 1 # 0
        BY <4>1
      <4>2. Len(h.frames) # 0
        BY <1>2, <1>3, <2>3, <4>1
      <4> QED
        BY <4>2
    <3> QED
      BY <1>2, <1>3, <2>1, <3>1, <3>2
  <2> QED
    BY <2>2, <2>3
<1>11. Len(h.frames) <= Len(f) /\ \A i \in 1..Len(h.frames) : h.frames[i] = f[i]
  BY <1>2, <1>3
<1> QED
  BY <1>3, <1>4, <1>7, <1>9, <1>10, <1>11, BecomesInv

LEMMA FinishInv ==
  ASSUME Inv, NEW t \in Tasks, Finish(t)
  PROVE  Inv'
<1>1. Root \in Contexts /\ Idle \in Task
  BY DEF Root, Contexts, Idle, Task, Id, Session
<1>2. Paired(Idle) /\ Placed(Idle, ids, spans)
  <2>1. \A u \in spans : u.id # None
    BY NoneIsNothing DEF Inv, Typed
  <2> QED
    BY <2>1 DEF Paired, Placed, Idle, Root
<1>3. Fits(HolderMark(Idle))
  BY DEF Fits, KnownOf, HolderMark, Idle, Root
<1>4. Idle.frames = <<>> /\ Idle.context = Idle.born /\ tasks[t].frames \in Seq(Frame)
  BY DEF Idle, Inv, Typed, Task
<1>5. tasks' = [tasks EXCEPT ![t] = Idle] /\ UNCHANGED <<wire, spans, ids, sent, losses>>
  BY DEF Finish
<1>6. Len(Idle.frames) <= Len(tasks[t].frames)
      /\ \A i \in 1..Len(Idle.frames) : Idle.frames[i] = tasks[t].frames[i]
  BY <1>4
<1> QED
  BY <1>1, <1>2, <1>3, <1>4, <1>5, <1>6, BecomesInv

LEMMA CreateInv ==
  ASSUME Inv, NEW t \in Tasks, NEW child \in Tasks, Create(t, child)
  PROVE  Inv'
<1> DEFINE h == [tasks[t] EXCEPT !.frames = <<>>, !.born = tasks[t].context]
<1>1. tasks[t] \in Task /\ tasks[child].frames \in Seq(Frame)
      /\ Paired(tasks[t]) /\ (t \in Traced => Placed(tasks[t], ids, spans))
      /\ HolderMark(tasks[t]) \in Marks
  BY TaskKnown DEF Inv, Typed, Task
<1>2. /\ h \in Task /\ h.frames = <<>> /\ h.born = h.context /\ h.context = tasks[t].context
      /\ h.bound = tasks[t].bound /\ h.run = tasks[t].run /\ h.origin = tasks[t].origin
  <2>1. <<>> \in Seq(Frame)
    OBVIOUS
  <2> QED
    BY <1>1, <2>1 DEF Task
<1>3. tasks' = [tasks EXCEPT ![child] = h] /\ UNCHANGED <<wire, spans, ids, sent, losses>>
      /\ (t \in Traced <=> child \in Traced)
  BY DEF Create
<1> HIDE DEF h
<1>4. Paired(h) /\ (child \in Traced => Placed(h, ids, spans))
  BY <1>1, <1>2, <1>3 DEF Paired, Placed
<1>5. Fits(HolderMark(h))
  <2>1. HolderMark(h) = HolderMark(tasks[t])
    BY <1>2 DEF HolderMark
  <2> QED
    BY <1>1, <1>3, <2>1, OldMarkFits
<1>6. Len(h.frames) <= Len(tasks[child].frames)
      /\ \A i \in 1..Len(h.frames) : h.frames[i] = tasks[child].frames[i]
  BY <1>1, <1>2
<1> QED
  BY <1>2, <1>3, <1>4, <1>5, <1>6, BecomesInv

LEMMA CallInv ==
  ASSUME Inv, NEW t \in Tasks, NEW hop \in Hops, Call(t, hop)
  PROVE  Inv'
<1> DEFINE context == Headers(t)
           lost    == hop \cup (IF context.trace = None THEN {"traceparent"} ELSE {})
           request == [context |-> Through(hop, context), run |-> tasks[t].run,
                       origin |-> tasks[t].origin, lost |-> lost]
           m       == RequestMark(request)
           n       == HolderMark(tasks[t])
<1> USE DEF Inv
<1>1. /\ UNCHANGED <<tasks, spans, ids, losses>> /\ wire' = wire \cup {request}
      /\ sent' = sent + 1 /\ sent < MaxCalls /\ MaxCalls \in Nat
  BY Bounds DEF Call
<1>2. /\ tasks[t] \in Task /\ tasks[t].context \in Contexts /\ n \in Marks /\ Known(n)
      /\ Paired(tasks[t])
      /\ tasks[t].run = None => tasks[t].bound = None
  BY TaskKnown
<1>3. tasks[t].bound \in Session /\ tasks[t].run \in Id /\ tasks[t].origin \in Id
  BY <1>2 DEF Task
<1>4. /\ context \in Contexts /\ context.trace = tasks[t].context.trace
      /\ context.sampled = tasks[t].context.sampled
      /\ context.baggage = tasks[t].bound
  <2>1. CASE tasks[t].bound # None
    BY <1>2, <1>3, <2>1 DEF Headers, Contexts, Session
  <2>2. CASE tasks[t].bound = None
    BY <1>2, <2>2 DEF Headers, Paired
  <2> QED
    BY <2>1, <2>2
<1> HIDE DEF context
<1>5. /\ Through(hop, context) \in Contexts
      /\ \/ Through(hop, context).trace = None /\ "traceparent" \in hop
         \/ Through(hop, context).trace = context.trace
            /\ Through(hop, context).sampled = context.sampled
      /\ \/ Through(hop, context).baggage = None /\ "baggage" \in hop
         \/ Through(hop, context).baggage = context.baggage
  BY <1>4 DEF Through, Contexts, Root
<1>6. lost \subseteq {"traceparent", "baggage"}
  BY DEF Hops
<1>7. request \in Request
  BY <1>3, <1>5, <1>6 DEF Request
<1>8. Typed'
  <2> HIDE DEF request
  <2>1. sent' \in 0..MaxCalls /\ wire' \subseteq Request
    BY <1>1, <1>7 DEF Typed
  <2> QED
    BY <1>1, <2>1 DEF Typed
<1>9. Held' /\ SpansPlaced' /\ Nested'
  BY <1>1 DEF Held, SpansPlaced, Nested
<1>10. RequestsTell'
  <2>1. request.run # None =>
          /\ "baggage" \in request.lost \/ request.context.baggage # None
          /\ "traceparent" \in request.lost \/ request.context.trace # None
    BY <1>2, <1>4, <1>5 DEF Paired
  <2> QED
    BY <1>1, <2>1 DEF RequestsTell
<1>11. Marks' \subseteq Marks \cup {m}
  <2> HIDE DEF request
  <2>1. wire' = wire \cup {request} /\ spans' = spans /\ tasks' = tasks
    BY <1>1
  <2> QED
    BY <2>1 DEF Marks
<1>12. Fits(m)
  <2>1. /\ m.trace = None \/ (m.trace = n.trace /\ m.sampled = n.sampled)
        /\ m.session = None \/ m.session = n.session
        /\ m.run = n.run /\ m.origin = n.origin
    BY <1>4, <1>5 DEF RequestMark, HolderMark
  <2>2. KnownOf(m, ids', DOMAIN losses')
    BY <1>1, <1>2, <2>1 DEF KnownOf, Known
  <2> HIDE DEF m, n
  <2> QED
    BY <1>2, <2>1, <2>2 DEF Fits
<1>13. MarksAgree'
  <2>1. LossesGrow /\ ids' \in {ids, ids + 1}
    BY <1>1 DEF LossesGrow
  <2> QED
    BY <1>11, <1>12, <2>1, MarksStep
<1> QED
  BY <1>8, <1>9, <1>10, <1>13

------------------------------------------------------------------------------
(* Theorems                                                                 *)

LEMMA NextInv == Inv /\ [Next]_vars => Inv'
<1> SUFFICES ASSUME Inv, [Next]_vars PROVE Inv'
  OBVIOUS
<1>1. ASSUME NEW t \in Tasks, NEW ratio \in BOOLEAN, EnterStep(t, ratio) PROVE Inv'
  BY <1>1, EnterStepInv
<1>2. ASSUME NEW t \in Tasks, NEW ratio \in BOOLEAN, NEW explicit \in Chosen \cup {None},
             EnterSession(t, explicit, ratio)
      PROVE  Inv'
  BY <1>2, EnterSessionInv
<1>3. ASSUME NEW t \in Tasks, NEW ratio \in BOOLEAN, NEW explicit \in Chosen \cup {None},
             NEW request \in wire \cup {Visit}, Serve(t, request, explicit, ratio)
      PROVE  Inv'
  BY <1>3, ServeInv
<1>4. ASSUME NEW t \in Tasks, Leave(t) \/ Finish(t) PROVE Inv'
  BY <1>4, LeaveInv, FinishInv
<1>5. ASSUME NEW t \in Tasks, NEW child \in Tasks, Create(t, child) PROVE Inv'
  BY <1>5, CreateInv
<1>6. ASSUME NEW t \in Tasks, NEW hop \in Hops, Call(t, hop) PROVE Inv'
  BY <1>6, CallInv
<1>7. CASE UNCHANGED vars
  <2>1. Marks' = Marks
    BY <1>7 DEF Marks, vars
  <2>2. MarksAgree'
    BY <1>7, <2>1 DEF Inv, MarksAgree, Known, Agree, vars
  <2> QED
    BY <1>7, <2>2 DEF Inv, Typed, Held, RequestsTell, SpansPlaced, Nested, vars
<1> QED
  BY <1>1, <1>2, <1>3, <1>4, <1>5, <1>6, <1>7 DEF Next

LEMMA Invariance == Spec => []Inv
<1>1. Init => Inv
  BY InitInv
<1>2. Inv /\ [Next]_vars => Inv'
  BY NextInv
<1> QED
  BY <1>1, <1>2, PTL DEF Spec

\* What two spans' marks agree on.
LEMMA SpansAgree ==
  ASSUME Inv, NEW s \in spans, NEW u \in spans
  PROVE  /\ s.trace # None /\ u.trace # None
         /\ s.trace = u.trace => s.sampled = u.sampled /\ s.origin = u.origin
         /\ s.session = u.session /\ s.session \notin Chosen \cup {None} => s.run = u.run
         /\ s.run = u.run /\ s.run # None =>
              /\ losses[s.run] \cap {"baggage", "id"} = {} => s.session = u.session
              /\ "traceparent" \notin losses[s.run] => s.trace = u.trace
<1>1. SpanMark(s) \in Marks /\ SpanMark(u) \in Marks
  BY DEF Marks
<1>2. Agree(SpanMark(s), SpanMark(u))
  BY <1>1 DEF Inv, MarksAgree
<1>3. s.trace # None /\ u.trace # None
  BY NoneIsNothing DEF Inv, Typed, Span
<1>4. s.run # None => s.session # None
  BY DEF Inv, SpansPlaced
<1>5. u.run # None => u.session # None
  BY DEF Inv, SpansPlaced
<1> QED
  BY <1>2, <1>3, <1>4, <1>5 DEF Agree, AgreeGiven, KeptId, KeptTrace, SpanMark

\* The contexts, the requests and the spans keep their types.
THEOREM TypeCorrect == Spec => []TypeOK
<1>1. Inv => TypeOK
  BY DEF Inv, Typed, TypeOK, Task, Request
<1> QED
  BY <1>1, Invariance, PTL

\* However many tasks and services a run goes through, it is one session, unless a
\* hop lost the baggage or a host chose the id (_spans.py:151-156), and one trace,
\* unless a hop lost the traceparent (_propagation.py:36-38).
THEOREM RunsAreWhole == Spec => []RunIsWhole
<1>1. Inv => OneRunOneSession
  BY SpansAgree DEF OneRunOneSession
<1>2. Inv => OneRunOneTrace
  BY SpansAgree DEF OneRunOneTrace
<1>3. Inv => RunIsWhole
  BY <1>1, <1>2 DEF RunIsWhole
<1> QED
  BY <1>3, Invariance, PTL

\* No two runs are ever joined by a session id or a trace (_session.py:7-9).
THEOREM RunsAreApart == Spec => []RunsStayApart
<1>1. Inv => RunsStayApart
  BY SpansAgree DEF RunsStayApart
<1> QED
  BY <1>1, Invariance, PTL

\* A trace is exported whole or not at all (_setup.py:75-80).
THEOREM TraceIsSampledWhole == Spec => []SampledWhole
<1>1. Inv => SampledWhole
  BY SpansAgree DEF SampledWhole
<1> QED
  BY <1>1, Invariance, PTL

\* A step is stamped with the session of the span above it (_session.py:17-33).
THEOREM StepIsStampedAsItsParent == Spec => []StampedAsItsParent
<1>1. Inv => StampedAsItsParent
  BY DEF Inv, SpansPlaced, StampedAsItsParent
<1> QED
  BY <1>1, Invariance, PTL

\* Whatever blocks a task went through, it ends in the context it began with.
THEOREM ContextIsRestored == Spec => []ContextRestored
<1>1. Inv => ContextRestored
  BY DEF Inv, Nested, ContextRestored
<1> QED
  BY <1>1, Invariance, PTL

===============================================================================
