--------------------------- MODULE Sessions_proofs ---------------------------
(***************************************************************************)
(* Every execution of Sessions keeps its types, its memory bound, its cost *)
(* accounting and its reports, and evicts only what has been idle longest, *)
(* for every set of runs, however they share ids, for every cap, TTL,      *)
(* sampler and set of detectable spans.                                    *)
(***************************************************************************)
EXTENDS Sessions, Detection_proofs, FiniteSetTheorems, WellFoundedInduction

------------------------------------------------------------------------------
(* What the operations of the registry preserve, for every cap, TTL and set *)
(* of session ids.                                                          *)

\* A finite total order has a least element: one that everything else follows.
LEMMA LeastExists ==
  ASSUME NEW S, IsFiniteSet(S), S # {}, NEW after,
         \A x, y \in S :
           /\ after[x] \subseteq S \ {x}
           /\ x = y \/ x \in after[y] \/ y \in after[x]
           /\ y \in after[x] => after[y] \subseteq after[x]
  PROVE  \E x \in S : after[x] = S \ {x}
<1> DEFINE upTo(x) == S \ after[x]
           T == {upTo(x) : x \in S}
<1>1. T # {} /\ T \subseteq FiniteSubsetsOf(S)
  <2>1. \A x \in S : upTo(x) \in SUBSET S /\ IsFiniteSet(upTo(x))
    BY FS_Subset
  <2>2. \A x \in S : upTo(x) \in FiniteSubsetsOf(S)
    BY <2>1 DEF FiniteSubsetsOf
  <2>3. PICK x \in S : TRUE
    OBVIOUS
  <2>4. upTo(x) \in T
    BY <2>3
  <2> HIDE DEF upTo
  <2> QED BY <2>2, <2>4
<1>2. PICK least \in T : \A U \in T : <<U, least>> \notin StrictSubsetOrdering(S)
  <2> HIDE DEF T
  <2>1. IsWellFoundedOn(StrictSubsetOrdering(S), FiniteSubsetsOf(S))
    BY FS_StrictSubsetOrderingWellFounded
  <2> QED BY <1>1, <2>1, WFMin
<1>3. PICK x \in S : least = upTo(x)
  BY <1>2
<1>4. ASSUME NEW y \in S, y # x, y \notin after[x]
      PROVE  FALSE
  <2>1. x \in after[y] /\ after[x] \subseteq after[y] /\ y \notin after[y]
    BY <1>4
  <2>2. upTo(y) \subseteq upTo(x) /\ upTo(y) # upTo(x)
    BY <1>3, <2>1
  <2>3. <<upTo(y), upTo(x)>> \in StrictSubsetOrdering(S)
    BY <2>2 DEF StrictSubsetOrdering
  <2> QED BY <1>2, <1>3, <2>3
<1> QED BY <1>4

\* What a span of session id finds alive is what was resident, and its own entry: at
\* most one more than the cap.
LEMMA LiveBounded ==
  ASSUME NEW reg, IsRegistry(reg), NEW id \in Ids, NEW time \in Nat,
         Cardinality(DOMAIN reg) <= MaxSessions
  PROVE  LET live == Unexpired(reg, id, time)
         IN  /\ live \subseteq DOMAIN reg \cup {id} /\ id \in live
             /\ IsFiniteSet(live) /\ Cardinality(live) \in Nat
             /\ Cardinality(live) <= MaxSessions + 1
<1> DEFINE live == Unexpired(reg, id, time)
           D == DOMAIN reg
<1>1. live \subseteq D \cup {id} /\ id \in live
  BY DEF Unexpired
<1>2. IsFiniteSet(D) /\ Cardinality(D) \in Nat /\ Cardinality(D) <= MaxSessions
  BY RegistryAssumption, FS_Subset, FS_CardinalityType DEF IsRegistry
<1> HIDE DEF D, live
<1>3. IsFiniteSet(D \cup {id})
        /\ Cardinality(D \cup {id}) = IF id \in D THEN Cardinality(D) ELSE Cardinality(D) + 1
  BY <1>2, FS_AddElement
<1>4. Cardinality(D \cup {id}) \in Nat /\ Cardinality(D \cup {id}) <= MaxSessions + 1
  BY <1>2, <1>3, RegistryAssumption
<1>5. IsFiniteSet(live) /\ Cardinality(live) \in Nat /\ Cardinality(live) <= MaxSessions + 1
  BY <1>1, <1>3, <1>4, FS_Subset, FS_CardinalityType, RegistryAssumption
<1> QED BY <1>1, <1>5 DEF D, live

\* After any span of session id the registry is within its cap again: at most
\* one entry was new, and then the first in the order had the whole cap after it.
LEMMA KeptBounded ==
  ASSUME NEW reg, IsRegistry(reg), NEW id \in Ids, NEW time \in Nat,
         Cardinality(DOMAIN reg) <= MaxSessions
  PROVE  /\ IsFiniteSet(Kept(reg, id, time))
         /\ Cardinality(Kept(reg, id, time)) <= MaxSessions
<1> DEFINE live == Unexpired(reg, id, time)
           after(x) == AfterTouch(reg, id, x) \cap live
           kept == Kept(reg, id, time)
<1>2. /\ live \subseteq DOMAIN reg \cup {id} /\ id \in live
      /\ IsFiniteSet(live) /\ Cardinality(live) \in Nat
      /\ Cardinality(live) <= MaxSessions + 1
      /\ kept \subseteq live
  BY LiveBounded DEF Kept
<1>3. /\ IsFiniteSet(live) /\ IsFiniteSet(kept)
      /\ Cardinality(live) \in Nat /\ Cardinality(kept) \in Nat
      /\ Cardinality(live) <= MaxSessions + 1
      /\ Cardinality(kept) <= Cardinality(live)
  BY <1>2, FS_Subset, FS_CardinalityType
<1>4. CASE Cardinality(live) <= MaxSessions
  BY <1>3, <1>4, RegistryAssumption
<1>5. CASE Cardinality(live) = MaxSessions + 1
  <2>1. \A x, y \in live :
           /\ after(x) \subseteq live \ {x}
           /\ x = y \/ x \in after(y) \/ y \in after(x)
           /\ y \in after(x) => after(y) \subseteq after(x)
    BY <1>2 DEF AfterTouch, IsRegistry, InOrder
  <2>2. PICK oldest \in live : after(oldest) = live \ {oldest}
    <3> DEFINE f == [x \in live |-> after(x)]
    <3>1. \A x \in live : f[x] = after(x)
      OBVIOUS
    <3> HIDE DEF live, after, f
    <3>2. \E x \in live : f[x] = live \ {x}
      BY <1>2, <1>3, <2>1, <3>1, LeastExists
    <3> QED BY <3>1, <3>2
  <2>3. Cardinality(live \ {oldest}) = MaxSessions /\ IsFiniteSet(live \ {oldest})
    <3> HIDE DEF live
    <3>1. /\ IsFiniteSet(live \ {oldest})
          /\ Cardinality(live \ {oldest})
               = IF oldest \in live THEN Cardinality(live) - 1 ELSE Cardinality(live)
      BY <1>3, FS_RemoveElement
    <3> QED BY <1>3, <1>5, <2>2, <3>1, RegistryAssumption
  <2>4. oldest # id
    <3>1. after(id) = {}
      BY DEF AfterTouch
    <3> QED BY <2>2, <2>3, <3>1, FS_EmptySet, RegistryAssumption
  <2>5. kept \subseteq live \ {oldest}
    BY <1>2, <2>2, <2>3, <2>4, RegistryAssumption DEF Kept
  <2> QED BY <1>3, <2>3, <2>5, FS_Subset
<1> QED BY <1>3, <1>4, <1>5, RegistryAssumption

\* state_for keeps the registry well formed, drops everybody it does not keep,
\* and leaves the scratch spaces of those it keeps as they were.
LEMMA StateForRegistry ==
  ASSUME NEW reg, IsRegistry(reg), NEW id \in Ids, NEW time \in Nat
  PROVE  /\ IsRegistry(StateFor(reg, id, time))
         /\ DOMAIN StateFor(reg, id, time) = Kept(reg, id, time)
         /\ id \in Kept(reg, id, time)
         /\ Kept(reg, id, time) \subseteq DOMAIN reg \cup {id}
         /\ \A other \in Kept(reg, id, time) :
              StateFor(reg, id, time)[other].state = StateOf(reg, other)
<1> DEFINE kept == Kept(reg, id, time)
           held == StateFor(reg, id, time)
<1>1. id \in kept /\ kept \subseteq DOMAIN reg \cup {id} /\ kept \subseteq Ids
  BY DEF Kept, Unexpired, IsRegistry
<1>2. DOMAIN held = kept
  BY DEF StateFor
<1>3. ASSUME NEW other \in kept
      PROVE  /\ held[other] = [touched |-> IF other = id THEN time ELSE reg[other].touched,
                               after   |-> AfterTouch(reg, id, other) \cap kept,
                               state   |-> StateOf(reg, other)]
             /\ held[other] \in Entry
             /\ held[other].state = StateOf(reg, other)
             /\ held[other].after = AfterTouch(reg, id, other) \cap kept
  <2>1. held[other] = [touched |-> IF other = id THEN time ELSE reg[other].touched,
                       after   |-> AfterTouch(reg, id, other) \cap kept,
                       state   |-> StateOf(reg, other)]
    BY DEF StateFor
  <2>2. StateOf(reg, other) \in Scratch
    BY FreshType DEF StateOf, IsRegistry, Entry
  <2>3. (IF other = id THEN time ELSE reg[other].touched) \in Nat
    BY <1>1 DEF IsRegistry, Entry
  <2> HIDE DEF held
  <2>4. AfterTouch(reg, id, other) \cap kept \in SUBSET Ids
    BY <1>1
  <2> QED BY <2>1, <2>2, <2>3, <2>4 DEF Entry
<1>4. InOrder(held)
  <2> HIDE DEF held, kept
  <2> SUFFICES ASSUME NEW x \in kept, NEW y \in kept
               PROVE  /\ held[x].after \subseteq kept \ {x}
                      /\ x = y \/ x \in held[y].after \/ y \in held[x].after
                      /\ y \in held[x].after => held[y].after \subseteq held[x].after
    BY <1>2 DEF InOrder
  <2>1. /\ held[x].after = AfterTouch(reg, id, x) \cap kept
        /\ held[y].after = AfterTouch(reg, id, y) \cap kept
    BY <1>3
  <2> QED BY <1>1, <2>1 DEF AfterTouch, IsRegistry, InOrder
<1>5. held \in [kept -> Entry]
  <2>1. held = [other \in kept |-> held[other]]
    BY DEF StateFor
  <2> HIDE DEF held
  <2> QED BY <1>3, <2>1
<1> HIDE DEF kept, held
<1> QED BY <1>1, <1>2, <1>3, <1>4, <1>5 DEF IsRegistry, kept, held

\* Running the detectors for a span of session id changes no other scratch
\* space, and its own as RunSpan and RunSession say.
LEMMA RunRegistry ==
  ASSUME NEW reg, IsRegistry(reg), NEW id \in Ids, NEW time \in Nat,
         NEW span \in Span
  PROVE  LET result == Run(reg, id, time, span)
             types  == IF span.kind = "session" THEN {"silent_tool_failure"} ELSE SpanTypes
         IN  /\ IsRegistry(result.registry)
             /\ DOMAIN result.registry = Kept(reg, id, time)
             /\ \A other \in Kept(reg, id, time) \ {id} :
                  result.registry[other].state = reg[other].state
             /\ Leaves([state |-> result.registry[id].state, emitted |-> result.emitted],
                       StateOf(reg, id), span.cost, types)
<1> DEFINE kept  == Kept(reg, id, time)
           held  == StateFor(reg, id, time)
           types == IF span.kind = "session" THEN {"silent_tool_failure"} ELSE SpanTypes
           ran   == IF span.kind = "session" THEN RunSession(held[id].state, span)
                                             ELSE RunSpan(held[id].state, span)
           new   == [held EXCEPT ![id].state = ran.state]
<1>1. /\ IsRegistry(held) /\ DOMAIN held = kept /\ id \in kept
      /\ kept \subseteq DOMAIN reg \cup {id}
      /\ \A other \in kept : held[other].state = StateOf(reg, other)
  BY StateForRegistry
<1>2. StateOf(reg, id) \in Scratch
  BY FreshType DEF StateOf, IsRegistry, Entry
<1>3. Leaves(ran, StateOf(reg, id), span.cost, types)
  BY <1>1, <1>2, RunSpanLeaves, RunSessionLeaves
<1>4. Run(reg, id, time, span) = [registry |-> new, emitted |-> ran.emitted]
  BY DEF Run
<1> HIDE DEF kept, held, types, ran
<1>5. /\ DOMAIN new = kept
      /\ new[id].state = ran.state
      /\ \A other \in kept \ {id} : new[other] = held[other]
      /\ \A other \in kept : new[other].after = held[other].after
      /\ new \in [kept -> Entry]
  BY <1>1, <1>3 DEF IsRegistry, Entry, Leaves
<1>6. IsRegistry(new)
  <2> HIDE DEF new
  <2> QED BY <1>1, <1>5 DEF IsRegistry, InOrder
<1>7. \A other \in kept \ {id} : new[other].state = reg[other].state
  BY <1>1, <1>5 DEF StateOf
<1>8. Leaves([state |-> ran.state, emitted |-> ran.emitted],
             StateOf(reg, id), span.cost, types)
  BY <1>3 DEF Leaves
<1> HIDE DEF new
<1> QED BY <1>4, <1>5, <1>6, <1>7, <1>8 DEF kept, types

\* release takes one session out and leaves the order of the rest.
LEMMA ReleaseRegistry ==
  ASSUME NEW reg, IsRegistry(reg), NEW id \in Ids
  PROVE  /\ IsRegistry(Release(reg, id))
         /\ DOMAIN Release(reg, id) = DOMAIN reg \ {id}
         /\ \A other \in DOMAIN reg \ {id} :
              Release(reg, id)[other].state = reg[other].state
<1> DEFINE rest == DOMAIN reg \ {id}
           new  == Release(reg, id)
<1>1. DOMAIN new = rest
  BY DEF Release
<1>2. ASSUME NEW other \in rest
      PROVE  /\ new[other] \in Entry
             /\ new[other].state = reg[other].state
             /\ new[other].after = reg[other].after \ {id}
  BY DEF Release, IsRegistry, Entry
<1>3. new \in [rest -> Entry]
  <2>1. new = [other \in rest |-> new[other]]
    BY DEF Release
  <2> HIDE DEF new, rest
  <2> QED BY <1>2, <2>1
<1>4. InOrder(new)
  <2> HIDE DEF new
  <2> QED BY <1>1, <1>2 DEF InOrder, IsRegistry
<1> HIDE DEF new
<1> QED BY <1>1, <1>2, <1>3, <1>4 DEF IsRegistry, new

\* A span of session id stamps its entry and moves it to the end, and leaves the
\* stamps and the order of the others.
LEMMA RunOrder ==
  ASSUME NEW reg, IsRegistry(reg), NEW id \in Ids, NEW time \in Nat,
         NEW span \in Span
  PROVE  LET new  == Run(reg, id, time, span).registry
             kept == Kept(reg, id, time)
         IN  /\ new[id].touched = time
             /\ \A other \in kept \ {id} : new[other].touched = reg[other].touched
             /\ \A other \in kept :
                  new[other].after = AfterTouch(reg, id, other) \cap kept
<1> DEFINE kept == Kept(reg, id, time)
           held == StateFor(reg, id, time)
           ran  == IF span.kind = "session" THEN RunSession(held[id].state, span)
                                            ELSE RunSpan(held[id].state, span)
           new  == [held EXCEPT ![id].state = ran.state]
<1>1. DOMAIN held = kept /\ id \in kept
  BY StateForRegistry
<1>2. \A other \in kept :
        /\ held[other].touched = IF other = id THEN time ELSE reg[other].touched
        /\ held[other].after = AfterTouch(reg, id, other) \cap kept
  BY DEF StateFor
<1>3. held[id] = [touched |-> held[id].touched, after |-> held[id].after,
                  state |-> held[id].state]
  BY <1>1 DEF StateFor
<1>4. Run(reg, id, time, span).registry = new
  BY DEF Run
<1> HIDE DEF kept, held, ran
<1>5. /\ new[id].touched = held[id].touched /\ new[id].after = held[id].after
      /\ \A other \in kept \ {id} : new[other] = held[other]
  BY <1>1, <1>3
<1> HIDE DEF new
<1> QED BY <1>1, <1>2, <1>4, <1>5 DEF kept

\* Releasing a session leaves the stamps of the rest, and their order.
LEMMA ReleaseOrder ==
  ASSUME NEW reg, IsRegistry(reg), NEW id \in Ids
  PROVE  \A other \in DOMAIN reg \ {id} :
           /\ Release(reg, id)[other].touched = reg[other].touched
           /\ Release(reg, id)[other].after = reg[other].after \ {id}
BY DEF Release, IsRegistry, Entry

\* An entry that is not kept had expired, or it is the one that was over the cap: it
\* came first of all that are alive, and those that follow it fill the cap.
LEMMA NotKept ==
  ASSUME NEW reg, IsRegistry(reg), NEW id \in Ids, NEW time \in Nat,
         Cardinality(DOMAIN reg) <= MaxSessions,
         NEW old \in DOMAIN reg, old \notin Kept(reg, id, time)
  PROVE  \/ reg[old].touched + Ttl < time
         \/ /\ Cardinality(Kept(reg, id, time)) = MaxSessions
            /\ Kept(reg, id, time) \subseteq reg[old].after \cup {id}
<1> DEFINE live == Unexpired(reg, id, time)
           after(x) == AfterTouch(reg, id, x) \cap live
           kept == Kept(reg, id, time)
<1>1. reg[old].touched \in Nat /\ Ttl \in Nat /\ MaxSessions \in Nat
  BY RegistryAssumption DEF IsRegistry, Entry
<1>2. CASE old \notin live
  BY <1>1, <1>2 DEF Unexpired
<1>3. CASE old \in live
  <2>1. old # id /\ ~(Cardinality(after(old)) < MaxSessions)
    BY <1>3 DEF Kept
  <2>2. /\ live \subseteq DOMAIN reg \cup {id} /\ id \in live
        /\ kept \subseteq live
    BY LiveBounded DEF Kept
  <2>3. IsFiniteSet(live) /\ Cardinality(live) \in Nat
          /\ Cardinality(live) <= MaxSessions + 1
    BY LiveBounded
  <2>4. \A x \in live :
          /\ after(x) \subseteq live \ {x}
          /\ x \in after(old) => after(x) \subseteq after(old) \ {x}
    BY <1>3, <2>1, <2>2 DEF AfterTouch, IsRegistry, InOrder
  <2> HIDE DEF live, after
  <2>5. IsFiniteSet(live \ {old}) /\ Cardinality(live \ {old}) = Cardinality(live) - 1
    BY <1>3, <2>3, FS_RemoveElement
  <2>6. after(old) = live \ {old} /\ Cardinality(after(old)) = MaxSessions
          /\ IsFiniteSet(after(old))
    <3>1. after(old) \subseteq live \ {old}
      BY <1>3, <2>4
    <3>2. /\ IsFiniteSet(after(old))
          /\ Cardinality(after(old)) <= Cardinality(live \ {old})
          /\ Cardinality(live \ {old}) = Cardinality(after(old)) => live \ {old} = after(old)
      BY <2>5, <3>1, FS_Subset
    <3>3. Cardinality(after(old)) \in Nat
      BY <3>2, FS_CardinalityType
    <3> QED BY <1>1, <2>1, <2>3, <2>5, <3>2, <3>3
  <2>7. after(old) \subseteq kept
    <3> SUFFICES ASSUME NEW x \in after(old), x # id PROVE x \in kept
      BY <2>2, <2>6 DEF Kept, live
    <3>1. x \in live /\ after(x) \subseteq after(old) \ {x}
      BY <2>4, <2>6
    <3>2. /\ IsFiniteSet(after(old) \ {x})
          /\ Cardinality(after(old) \ {x}) = MaxSessions - 1
      BY <2>6, FS_RemoveElement
    <3>3. Cardinality(after(x)) <= MaxSessions - 1 /\ Cardinality(after(x)) \in Nat
      BY <3>1, <3>2, FS_Subset, FS_CardinalityType
    <3>4. Cardinality(after(x)) < MaxSessions
      BY <1>1, <3>3
    <3> QED BY <3>1, <3>4 DEF Kept, live, after
  <2>8. kept = after(old)
    <3>1. old \notin kept
      OBVIOUS
    <3> QED BY <2>2, <2>6, <2>7, <3>1
  <2>9. kept \subseteq reg[old].after \cup {id}
    BY <2>1, <2>8 DEF after, AfterTouch
  <2> QED BY <2>6, <2>8, <2>9
<1> QED BY <1>2, <1>3

------------------------------------------------------------------------------
(* The invariant of the runs.                                               *)

\* The parts of the inductive invariant that are not properties themselves.

\* A scratch space that is held was created, and a type it has not yet reported
\* is one that this id has reported fewer times than it was given spaces.
RoomToReport ==
  \A id \in DOMAIN registry :
    /\ created[id] >= 1
    /\ \A t \in Types \ registry[id].state.fired : detections[id][t] < created[id]

\* The stamp of an entry is when its id last ended a span, and what follows it in the
\* order did so no earlier: the order of insertion and the order of time agree.
InRecency(reg, used) ==
  \A id \in DOMAIN reg :
    /\ reg[id].touched = used[id]
    /\ \A other \in reg[id].after : used[other] >= used[id]

UsedInOrder ==
  /\ InRecency(registry, lastUse)
  /\ \A id \in Ids : lastUse[id] <= now

Inv ==
  /\ TypeOK
  /\ BoundedMemory
  /\ CostConserved
  /\ OncePerScratchSpace
  /\ RoomToReport
  /\ OnlyInFlight
  /\ UsedInOrder

------------------------------------------------------------------------------

\* The span a run ends, and the session span that closes it, are spans.
LEMMA StepSpan ==
  ASSUME NEW span \in Spans
  PROVE  span \in Span /\ span.kind # "session"
BY SessionsAssumption

\* The session span that Close ends.
LEMMA SessionSpan ==
  ASSUME NEW outcome \in Outcomes, NEW cost \in Costs
  PROVE  LET span == [kind |-> "session", call |-> NoCall,
                      outcome |-> outcome, cost |-> cost]
         IN  span \in Span /\ span.kind = "session" /\ span.cost = cost /\ cost \in Nat
BY DetectionAssumption DEF Span

\* A new registry is empty, and an empty registry is well formed.
LEMMA InitInv == Init => Inv
<1> SUFFICES ASSUME Init PROVE Inv
  OBVIOUS
<1> USE DEF Init
<1>1. DOMAIN registry = {}
  BY DEF Empty
<1>2. TypeOK
  <2>1. IsRegistry(registry)
    <3>1. registry \in [{} -> Entry]
      BY DEF Empty
    <3> QED BY <1>1, <3>1 DEF IsRegistry, InOrder
  <2>2. sampled \in [Runs -> BOOLEAN]
    BY SessionsAssumption
  <2> QED BY <2>1, <2>2 DEF TypeOK
<1>3. BoundedMemory
  BY <1>1, FS_EmptySet, RegistryAssumption DEF BoundedMemory
<1>4. CostConserved
  BY <1>1 DEF CostConserved, StateOf, Fresh
<1>5. OncePerScratchSpace
  BY DEF OncePerScratchSpace
<1>6. RoomToReport /\ OnlyInFlight /\ UsedInOrder
  BY <1>1 DEF RoomToReport, OnlyInFlight, UsedInOrder, InRecency
<1> QED BY <1>2, <1>3, <1>4, <1>5, <1>6 DEF Inv

------------------------------------------------------------------------------
(* One recorded span of session id: what running it, emitting its report    *)
(* and remembering it does to everything the invariant speaks of, before    *)
(* any release.  "ended" is the registry it leaves.                         *)

Recorded(id, span, ended) ==
  /\ ended = Run(registry, id, now, span).registry
  /\ Emit(id, Run(registry, id, now, span).emitted)
  /\ Remember(id, span)

\* What the registry, the reports and the history promise each other, of a
\* registry that need not be the current one.
Accounts(reg, det, obs, spt, drp, crt) ==
  /\ \A id \in Ids : spt[id] = obs[id].sum + StateOf(reg, id).cost + drp[id]
  /\ \A id \in Ids, t \in Types : det[id][t] <= crt[id]
  /\ \A id \in DOMAIN reg :
       /\ crt[id] >= 1
       /\ \A t \in Types \ reg[id].state.fired : det[id][t] < crt[id]

\* A recorded span keeps the registry, the reports and the history typed and
\* the memory bounded.
LEMMA RecordedTypes ==
  ASSUME Inv, NEW id \in Ids, NEW span \in Span, NEW ended, Recorded(id, span, ended)
  PROVE  /\ IsRegistry(ended)
         /\ Cardinality(DOMAIN ended) <= MaxSessions
         /\ id \in DOMAIN ended
         /\ DOMAIN ended \subseteq DOMAIN registry \cup {id}
         /\ detections' \in [Ids -> [Types -> Nat]]
         /\ spent' \in [Ids -> Nat]
         /\ dropped' \in [Ids -> Nat]
         /\ created' \in [Ids -> Nat]
         /\ lastUse' \in [Ids -> Nat]
<1> DEFINE result == Run(registry, id, now, span)
           kept == Kept(registry, id, now)
           types == IF span.kind = "session" THEN {"silent_tool_failure"} ELSE SpanTypes
<1>1. IsRegistry(registry) /\ now \in Nat
  BY DEF Inv, TypeOK
<1>2. /\ IsRegistry(ended) /\ DOMAIN ended = kept
      /\ Leaves([state |-> ended[id].state, emitted |-> result.emitted],
                StateOf(registry, id), span.cost, types)
  BY <1>1, RunRegistry DEF Recorded
<1>3. id \in kept /\ kept \subseteq DOMAIN registry \cup {id}
  BY <1>1, StateForRegistry
<1>4. Cardinality(kept) <= MaxSessions
  BY <1>1, KeptBounded DEF Inv, BoundedMemory
<1>5. detections' \in [Ids -> [Types -> Nat]]
  <2> DEFINE emitted == result.emitted
  <2>1. emitted = None \/ emitted \in Types
    <3> HIDE DEF result
    <3> QED BY <1>2 DEF Leaves, SpanTypes, Types
  <2>2. Emit(id, emitted)
    BY DEF Recorded
  <2>3. detections \in [Ids -> [Types -> Nat]]
    BY DEF Inv, TypeOK
  <2> HIDE DEF emitted, result
  <2>4. CASE emitted = None
    BY <2>2, <2>3, <2>4 DEF Emit
  <2>5. CASE emitted # None
    <3>1. emitted \in Types
            /\ detections' = [detections EXCEPT ![id][emitted] = @ + 1]
      BY <2>1, <2>2, <2>5 DEF Emit
    <3>2. detections[id] \in [Types -> Nat] /\ detections[id][emitted] \in Nat
      BY <2>3, <3>1
    <3> QED BY <2>3, <3>1, <3>2
  <2> QED BY <2>4, <2>5
<1>6. /\ spent' \in [Ids -> Nat]
      /\ dropped' \in [Ids -> Nat]
      /\ created' \in [Ids -> Nat]
      /\ lastUse' \in [Ids -> Nat]
  <2>1. \A other \in DOMAIN registry : registry[other].state.cost \in Nat
    BY <1>1 DEF IsRegistry, Entry, Scratch
  <2>2. span.cost \in Nat
    BY SpanFields
  <2>3. Remember(id, span)
    BY DEF Recorded
  <2>4. spent' \in [Ids -> Nat]
    BY <2>2, <2>3 DEF Remember, Inv, TypeOK
  <2>5. dropped' \in [Ids -> Nat]
    <3> HIDE DEF kept
    <3> QED BY <2>1, <2>3 DEF Remember, Inv, TypeOK
  <2>6. created' \in [Ids -> Nat] /\ lastUse' \in [Ids -> Nat]
    BY <2>3 DEF Remember, Inv, TypeOK
  <2> QED BY <2>4, <2>5, <2>6
<1> QED BY <1>2, <1>3, <1>4, <1>5, <1>6

\* A recorded span keeps the accounts: the cost it carried is in its session's
\* scratch space, that of an evicted space is in "dropped", and a report was
\* made only of a type its scratch space had room for.
LEMMA RecordedAccounts ==
  ASSUME Inv, NEW id \in Ids, NEW span \in Span, NEW ended, Recorded(id, span, ended)
  PROVE  Accounts(ended, detections', observed, spent', dropped', created')
<1> DEFINE result == Run(registry, id, now, span)
           kept == Kept(registry, id, now)
           types == IF span.kind = "session" THEN {"silent_tool_failure"} ELSE SpanTypes
           before == StateOf(registry, id)
<1>1. IsRegistry(registry) /\ now \in Nat
  BY DEF Inv, TypeOK
<1>2. /\ DOMAIN ended = kept
      /\ \A other \in kept \ {id} : ended[other].state = registry[other].state
      /\ Leaves([state |-> ended[id].state, emitted |-> result.emitted],
                before, span.cost, types)
  BY <1>1, RunRegistry DEF Recorded
<1>3. id \in kept /\ kept \subseteq DOMAIN registry \cup {id}
        /\ DOMAIN registry \subseteq Ids
  BY <1>1, StateForRegistry DEF IsRegistry
<1>4. /\ ended[id].state.cost = before.cost + span.cost
      /\ \/ result.emitted = None /\ ended[id].state.fired = before.fired
         \/ /\ result.emitted \in Types \ before.fired
            /\ ended[id].state.fired = before.fired \cup {result.emitted}
  BY <1>2 DEF Leaves, SpanTypes, Types
<1>5. Emit(id, result.emitted) /\ Remember(id, span)
  BY DEF Recorded
<1>6. span.cost \in Nat /\ before.cost \in Nat
        /\ \A other \in DOMAIN registry : registry[other].state.cost \in Nat
  BY <1>1, SpanFields, FreshType DEF StateOf, IsRegistry, Entry, Scratch
<1>7. /\ \A other \in Ids : spent[other] \in Nat /\ dropped[other] \in Nat
                              /\ created[other] \in Nat /\ observed[other].sum \in Nat
      /\ \A other \in Ids, t \in Types : detections[other][t] \in Nat
      /\ spent \in [Ids -> Nat] /\ created \in [Ids -> Nat]
      /\ detections \in [Ids -> [Types -> Nat]]
  BY DEF Inv, TypeOK
<1>8. /\ spent'[id] = spent[id] + span.cost
      /\ \A other \in Ids \ {id} : spent'[other] = spent[other]
      /\ \A other \in Ids : dropped'[other] =
           dropped[other] + IF other \in DOMAIN registry \ kept
                            THEN registry[other].state.cost ELSE 0
      /\ created'[id] = created[id] + IF id \in DOMAIN registry THEN 0 ELSE 1
      /\ \A other \in Ids \ {id} : created'[other] = created[other]
  <2> HIDE DEF kept
  <2> QED BY <1>5, <1>7 DEF Remember, kept
<1>9. \A other \in Ids, t \in Types :
        detections'[other][t] = detections[other][t]
          + IF other = id /\ t = result.emitted THEN 1 ELSE 0
  <2> HIDE DEF result
  <2>1. None \notin Types
    BY DEF None, Types, SpanTypes
  <2> QED BY <1>5, <1>7, <2>1 DEF Emit, result
<1>10. \A other \in Ids :
         spent'[other] = observed[other].sum + StateOf(ended, other).cost + dropped'[other]
  <2> SUFFICES ASSUME NEW other \in Ids
               PROVE  spent'[other] = observed[other].sum
                        + StateOf(ended, other).cost + dropped'[other]
    OBVIOUS
  <2>1. spent[other] = observed[other].sum + StateOf(registry, other).cost + dropped[other]
    BY DEF Inv, CostConserved
  <2> HIDE DEF kept, result, types
  <2>2. CASE other = id
    <3>1. StateOf(ended, other).cost = before.cost + span.cost
      BY <1>2, <1>3, <1>4, <2>2 DEF StateOf
    <3>2. dropped'[other] = dropped[other]
      BY <1>3, <1>7, <1>8, <2>2
    <3> QED BY <1>6, <1>7, <1>8, <2>1, <2>2, <3>1, <3>2
  <2>3. CASE other # id
    <3>1. CASE other \in kept
      BY <1>2, <1>3, <1>7, <1>8, <2>1, <2>3, <3>1 DEF StateOf
    <3>2. CASE other \in DOMAIN registry \ kept
      BY <1>2, <1>6, <1>7, <1>8, <2>1, <2>3, <3>2 DEF StateOf, Fresh
    <3>3. CASE other \notin DOMAIN registry /\ other \notin kept
      BY <1>2, <1>6, <1>7, <1>8, <2>1, <2>3, <3>3 DEF StateOf, Fresh
    <3> QED BY <3>1, <3>2, <3>3
  <2> QED BY <2>2, <2>3
<1>11. \A other \in Ids, t \in Types : detections[other][t] <= created[other]
  BY DEF Inv, OncePerScratchSpace
<1>12. \A other \in DOMAIN registry :
         /\ created[other] >= 1
         /\ \A t \in Types \ registry[other].state.fired : detections[other][t] < created[other]
  BY DEF Inv, RoomToReport
<1> HIDE DEF kept, result, types
<1>13. ASSUME NEW t \in Types
       PROVE  /\ detections'[id][t] <= created'[id]
              /\ t \notin ended[id].state.fired => detections'[id][t] < created'[id]
  <2>1. detections[id][t] \in Nat /\ created[id] \in Nat
          /\ detections[id][t] <= created[id]
    BY <1>7, <1>11
  <2>2. t \notin before.fired => detections[id][t] < created'[id]
    <3>1. CASE id \in DOMAIN registry
      <4>1. before.fired = registry[id].state.fired /\ created'[id] = created[id]
        BY <1>8, <2>1, <3>1 DEF StateOf
      <4> QED BY <1>12, <3>1, <4>1
    <3>2. CASE id \notin DOMAIN registry
      BY <1>8, <2>1, <3>2
    <3> QED BY <3>1, <3>2
  <2>3. created'[id] \in Nat /\ created[id] <= created'[id]
    BY <1>8, <2>1
  <2> HIDE DEF before
  <2>4. CASE t = result.emitted
    <3>1. t # None
      BY DEF None, Types, SpanTypes
    <3>2. t \notin before.fired /\ t \in ended[id].state.fired
      BY <1>4, <2>4, <3>1
    <3>3. detections'[id][t] = detections[id][t] + 1
      BY <1>9, <2>4
    <3> QED BY <2>1, <2>2, <2>3, <3>2, <3>3
  <2>5. CASE t # result.emitted
    <3>1. detections'[id][t] = detections[id][t]
      BY <1>9, <2>1, <2>5
    <3>2. t \notin ended[id].state.fired => t \notin before.fired
      BY <1>4
    <3> QED BY <2>1, <2>2, <2>3, <3>1, <3>2
  <2> QED BY <2>4, <2>5
<1>14. created'[id] >= 1
  BY <1>7, <1>8, <1>12
<1>15. \A other \in Ids \ {id}, t \in Types : detections'[other][t] <= created'[other]
  BY <1>7, <1>8, <1>9, <1>11
<1>16. ASSUME NEW other \in kept \ {id}
       PROVE  /\ created'[other] >= 1
              /\ \A t \in Types \ ended[other].state.fired :
                   detections'[other][t] < created'[other]
  BY <1>2, <1>3, <1>7, <1>8, <1>9, <1>12
<1>17. \A other \in Ids, t \in Types : detections'[other][t] <= created'[other]
  BY <1>13, <1>15
<1>18. \A other \in DOMAIN ended :
         /\ created'[other] >= 1
         /\ \A t \in Types \ ended[other].state.fired :
              detections'[other][t] < created'[other]
  BY <1>2, <1>13, <1>14, <1>16
<1> QED BY <1>10, <1>17, <1>18 DEF Accounts

\* A recorded span is the last use of its session there is, and evicts another only
\* when it has expired or when what stays has been used no less recently.
LEMMA RecordedOrder ==
  ASSUME Inv, NEW id \in Ids, NEW span \in Span, NEW ended, Recorded(id, span, ended)
  PROVE  /\ InRecency(ended, lastUse')
         /\ \A other \in Ids : lastUse'[other] <= now
         /\ id \in DOMAIN ended
         /\ \A old \in DOMAIN registry \ DOMAIN ended :
              \/ lastUse[old] + Ttl < now
              \/ /\ Cardinality(DOMAIN ended) = MaxSessions
                 /\ \A other \in DOMAIN ended : lastUse'[other] >= lastUse[old]
<1> DEFINE kept == Kept(registry, id, now)
<1>1. IsRegistry(registry) /\ now \in Nat /\ lastUse \in [Ids -> Nat]
        /\ Cardinality(DOMAIN registry) <= MaxSessions
  BY DEF Inv, TypeOK, BoundedMemory
<1>2. /\ DOMAIN ended = kept
      /\ ended[id].touched = now
      /\ \A other \in kept \ {id} : ended[other].touched = registry[other].touched
      /\ \A other \in kept : ended[other].after = AfterTouch(registry, id, other) \cap kept
  <2>1. ended = Run(registry, id, now, span).registry
    BY DEF Recorded
  <2>2. DOMAIN ended = kept
    BY <1>1, <2>1, RunRegistry
  <2> QED BY <1>1, <2>1, <2>2, RunOrder
<1>3. id \in kept /\ kept \subseteq DOMAIN registry \cup {id} /\ DOMAIN registry \subseteq Ids
  BY <1>1, StateForRegistry DEF IsRegistry
<1>4. /\ lastUse'[id] = now
      /\ \A other \in Ids \ {id} : lastUse'[other] = lastUse[other]
      /\ \A other \in Ids : lastUse'[other] \in Nat
  BY <1>1 DEF Recorded, Remember
<1>5. /\ \A other \in Ids : lastUse[other] <= now /\ lastUse[other] \in Nat
      /\ \A other \in DOMAIN registry :
           /\ registry[other].touched = lastUse[other]
           /\ \A x \in registry[other].after : lastUse[x] >= lastUse[other]
           /\ registry[other].after \subseteq DOMAIN registry
  BY <1>1 DEF Inv, UsedInOrder, InRecency, IsRegistry, InOrder
<1>6. \A other \in Ids : lastUse'[other] <= now
  BY <1>1, <1>4, <1>5
<1>7. \A old \in DOMAIN registry \ kept :
        \/ registry[old].touched + Ttl < now
        \/ /\ Cardinality(kept) = MaxSessions
           /\ kept \subseteq registry[old].after \cup {id}
  BY <1>1, NotKept
<1> HIDE DEF kept
<1>8. InRecency(ended, lastUse')
  <2> SUFFICES ASSUME NEW other \in kept
               PROVE  /\ ended[other].touched = lastUse'[other]
                      /\ \A x \in ended[other].after : lastUse'[x] >= lastUse'[other]
    BY <1>2 DEF InRecency
  <2>1. CASE other = id
    BY <1>2, <1>4, <2>1 DEF AfterTouch
  <2>2. CASE other # id
    <3>1. other \in DOMAIN registry /\ lastUse'[other] = lastUse[other]
      BY <1>3, <1>4, <2>2
    <3>2. ended[other].touched = lastUse'[other]
      BY <1>2, <1>5, <2>2, <3>1
    <3>3. ended[other].after \subseteq registry[other].after \cup {id}
      BY <1>2, <2>2 DEF AfterTouch
    <3>4. ASSUME NEW x \in registry[other].after \cup {id}
          PROVE  lastUse'[x] >= lastUse'[other]
      <4>1. CASE x = id
        BY <1>3, <1>4, <1>5, <3>1, <4>1
      <4>2. CASE x # id
        BY <1>3, <1>4, <1>5, <3>1, <3>4, <4>2
      <4> QED BY <4>1, <4>2
    <3> QED BY <3>2, <3>3, <3>4
  <2> QED BY <2>1, <2>2
<1>9. ASSUME NEW old \in DOMAIN registry \ kept
      PROVE  \/ lastUse[old] + Ttl < now
             \/ /\ Cardinality(kept) = MaxSessions
                /\ \A other \in kept : lastUse'[other] >= lastUse[old]
  <2>1. CASE registry[old].touched + Ttl < now
    BY <1>5, <2>1
  <2>2. CASE /\ Cardinality(kept) = MaxSessions
             /\ kept \subseteq registry[old].after \cup {id}
    <3> SUFFICES ASSUME NEW other \in kept PROVE lastUse'[other] >= lastUse[old]
      BY <2>2
    <3>1. CASE other = id
      BY <1>3, <1>4, <1>5, <3>1
    <3>2. CASE other # id
      BY <1>3, <1>4, <1>5, <2>2, <3>2
    <3> QED BY <3>1, <3>2
  <2> QED BY <1>7, <2>1, <2>2
<1> QED BY <1>2, <1>3, <1>6, <1>8, <1>9

------------------------------------------------------------------------------
(* Actions.                                                                 *)

\* An action that moves runs along and records nothing keeps the invariant, as
\* long as no open run with a resident session goes anywhere.
LEMMA OpenInv == ASSUME Inv, NEW r \in Runs, Open(r) PROVE Inv'
<1> USE DEF Open, outputs, history
<1>1. TypeOK'
  BY DEF Inv, TypeOK, IsRegistry, InOrder
<1>2. BoundedMemory' /\ CostConserved' /\ OncePerScratchSpace' /\ RoomToReport'
  BY DEF Inv, BoundedMemory, CostConserved, OncePerScratchSpace, RoomToReport, StateOf
<1>3. OnlyInFlight'
  BY DEF Inv, OnlyInFlight, TypeOK
<1>4. UsedInOrder'
  BY DEF Inv, UsedInOrder, InRecency
<1> QED BY <1>1, <1>2, <1>3, <1>4 DEF Inv

\* The clock.
LEMMA TickInv == ASSUME Inv, Tick PROVE Inv'
<1> USE DEF Tick, outputs, history
<1>1. TypeOK'
  BY DEF Inv, TypeOK, IsRegistry, InOrder
<1>2. BoundedMemory' /\ CostConserved' /\ OncePerScratchSpace' /\ RoomToReport'
  BY DEF Inv, BoundedMemory, CostConserved, OncePerScratchSpace, RoomToReport, StateOf
<1>3. OnlyInFlight'
  BY DEF Inv, OnlyInFlight, TypeOK
<1>4. UsedInOrder'
  BY DEF Inv, UsedInOrder, InRecency, TypeOK
<1> QED BY <1>1, <1>2, <1>3, <1>4 DEF Inv

\* A step ends: recorded when its trace is sampled, nothing otherwise.
LEMMA EndStepInv ==
  ASSUME Inv, NEW r \in Runs, NEW span \in Spans, EndStep(r, span)
  PROVE  Inv'
<1> DEFINE id == SessionOf[r]
<1>1. id \in Ids /\ span \in Span
  BY SessionsAssumption, StepSpan
<1>2. /\ steps' \in [Runs -> Nat] /\ late' \in [Runs -> Nat]
      /\ UNCHANGED <<now, phase, sampled, observed>>
      /\ phase[r] = "open" \/ phase[r] = "closed"
  BY DEF EndStep, Inv, TypeOK
<1>3. CASE sampled[r]
  <2>1. Recorded(id, span, registry')
    BY <1>3 DEF EndStep, Recorded
  <2>2. strayed' = IF phase[r] = "closed" THEN strayed \cup {r} ELSE strayed
    BY <1>3 DEF EndStep
  <2> HIDE DEF id
  <2>3. /\ IsRegistry(registry')
        /\ Cardinality(DOMAIN registry') <= MaxSessions
        /\ DOMAIN registry' \subseteq DOMAIN registry \cup {id}
        /\ detections' \in [Ids -> [Types -> Nat]]
        /\ spent' \in [Ids -> Nat] /\ dropped' \in [Ids -> Nat]
        /\ created' \in [Ids -> Nat] /\ lastUse' \in [Ids -> Nat]
    BY <1>1, <2>1, RecordedTypes
  <2>4. Accounts(registry', detections', observed', spent', dropped', created')
    BY <1>1, <1>2, <2>1, RecordedAccounts
  <2>5. TypeOK'
    BY <1>2, <2>2, <2>3 DEF Inv, TypeOK, IsRegistry, InOrder
  <2>6. OnlyInFlight'
    BY <1>2, <2>2, <2>3 DEF Inv, OnlyInFlight, id
  <2>7. UsedInOrder'
    <3>1. InRecency(registry', lastUse') /\ \A other \in Ids : lastUse'[other] <= now
      BY <1>1, <2>1, RecordedOrder
    <3> QED BY <1>2, <3>1 DEF UsedInOrder, InRecency
  <2> QED BY <2>3, <2>4, <2>5, <2>6, <2>7
       DEF Inv, Accounts, BoundedMemory, CostConserved, OncePerScratchSpace,
           RoomToReport, StateOf
<1>4. CASE ~sampled[r]
  <2>1. UNCHANGED <<registry, detections, history, observed, phase>>
    BY <1>2, <1>4 DEF EndStep
  <2>2. TypeOK'
    BY <1>2, <2>1 DEF Inv, TypeOK, IsRegistry, InOrder, history
  <2>3. UsedInOrder'
    BY <1>2, <2>1 DEF Inv, UsedInOrder, InRecency, history
  <2> QED BY <2>1, <2>2, <2>3
       DEF Inv, BoundedMemory, CostConserved, OncePerScratchSpace, RoomToReport,
           OnlyInFlight, StateOf, history
<1> QED BY <1>3, <1>4

\* The histogram after record_session_cost.
Observe(obs, id, cost) ==
  IF cost = 0 THEN obs
  ELSE [obs EXCEPT ![id] = [n |-> @.n + 1, sum |-> @.sum + cost]]

\* Releasing a session and recording what its scratch space held moves that
\* cost from the registry to the histogram and leaves the rest of the accounts.
LEMMA ReleaseAccounts ==
  ASSUME NEW reg, IsRegistry(reg), NEW id \in Ids,
         NEW det, NEW obs \in [Ids -> [n : Nat, sum : Nat]],
         NEW spt, NEW drp \in [Ids -> Nat], NEW crt,
         Accounts(reg, det, obs, spt, drp, crt)
  PROVE  /\ Accounts(Release(reg, id), det, Observe(obs, id, StateOf(reg, id).cost),
                     spt, drp, crt)
         /\ Observe(obs, id, StateOf(reg, id).cost) \in [Ids -> [n : Nat, sum : Nat]]
<1> DEFINE new == Release(reg, id)
           cost == StateOf(reg, id).cost
           obs2 == Observe(obs, id, cost)
<1>1. /\ DOMAIN new = DOMAIN reg \ {id}
      /\ \A other \in DOMAIN reg \ {id} : new[other].state = reg[other].state
  BY ReleaseRegistry
<1>2. \A other \in Ids : StateOf(reg, other).cost \in Nat
  BY FreshType DEF StateOf, IsRegistry, Entry, Scratch
<1>3. /\ obs2 \in [Ids -> [n : Nat, sum : Nat]]
      /\ obs2[id].sum = obs[id].sum + cost
      /\ \A other \in Ids \ {id} : obs2[other] = obs[other]
  <2>1. cost \in Nat
    BY <1>2
  <2> HIDE DEF cost
  <2>2. CASE cost = 0
    BY <2>1, <2>2 DEF Observe
  <2>3. CASE cost # 0
    <3>1. obs2 = [obs EXCEPT ![id] = [n |-> @.n + 1, sum |-> @.sum + cost]]
      BY <2>3 DEF Observe
    <3> QED BY <2>1, <3>1
  <2> QED BY <2>2, <2>3
<1> HIDE DEF new, obs2
<1>4. ASSUME NEW other \in Ids
      PROVE  spt[other] = obs2[other].sum + StateOf(new, other).cost + drp[other]
  <2>1. spt[other] = obs[other].sum + StateOf(reg, other).cost + drp[other]
    BY DEF Accounts
  <2>2. CASE other = id
    <3>1. StateOf(new, other).cost = 0
      BY <1>1, <2>2 DEF StateOf, Fresh
    <3>2. obs[id].sum \in Nat /\ cost \in Nat /\ drp[id] \in Nat
      BY <1>2
    <3> QED BY <1>3, <2>1, <2>2, <3>1, <3>2
  <2>3. CASE other # id
    <3>1. StateOf(new, other).cost = StateOf(reg, other).cost
      BY <1>1, <2>3 DEF StateOf
    <3> QED BY <1>3, <2>1, <2>3, <3>1
  <2> QED BY <2>2, <2>3
<1>5. \A other \in DOMAIN new :
        /\ crt[other] >= 1
        /\ \A t \in Types \ new[other].state.fired : det[other][t] < crt[other]
  BY <1>1 DEF Accounts
<1>6. \A other \in Ids, t \in Types : det[other][t] <= crt[other]
  BY DEF Accounts
<1> QED BY <1>3, <1>4, <1>5, <1>6 DEF Accounts, new, obs2

\* A session closes: its span is recorded when its trace is sampled, and its
\* scratch space is released either way.
LEMMA CloseInv ==
  ASSUME Inv, NEW r \in Runs, NEW outcome \in Outcomes, NEW cost \in Costs,
         NEW open \in 0..MaxLate, Close(r, outcome, cost, open)
  PROVE  Inv'
<1> DEFINE id == SessionOf[r]
           span == [kind |-> "session", call |-> NoCall, outcome |-> outcome, cost |-> cost]
           ended == IF sampled[r] THEN Run(registry, id, now, span).registry ELSE registry
<1>1. id \in Ids /\ span \in Span
  BY SessionsAssumption, SessionSpan
<1>2. /\ phase' = [phase EXCEPT ![r] = "closed"]
      /\ late' = [late EXCEPT ![r] = open]
      /\ UNCHANGED <<now, sampled, steps, strayed>>
      /\ registry' = Release(ended, id)
      /\ RecordSessionCost(id, StateOf(ended, id).cost)
  BY DEF Close
<1>3. /\ IsRegistry(ended)
      /\ Cardinality(DOMAIN ended) <= MaxSessions
      /\ DOMAIN ended \subseteq DOMAIN registry \cup {id}
      /\ detections' \in [Ids -> [Types -> Nat]]
      /\ spent' \in [Ids -> Nat] /\ dropped' \in [Ids -> Nat]
      /\ created' \in [Ids -> Nat] /\ lastUse' \in [Ids -> Nat]
      /\ Accounts(ended, detections', observed, spent', dropped', created')
      /\ InRecency(ended, lastUse') /\ \A other \in Ids : lastUse'[other] <= now
  <2>1. CASE sampled[r]
    <3>1. Recorded(id, span, ended)
      BY <2>1 DEF Close, Recorded
    <3> HIDE DEF id, span, ended
    <3> QED BY <1>1, <3>1, RecordedTypes, RecordedAccounts, RecordedOrder
  <2>2. CASE ~sampled[r]
    <3>1. ended = registry /\ UNCHANGED <<detections, spent, dropped, created, lastUse>>
      BY <2>2 DEF Close
    <3> HIDE DEF ended
    <3>2. Accounts(registry, detections, observed, spent, dropped, created)
      BY DEF Inv, CostConserved, OncePerScratchSpace, RoomToReport, Accounts
    <3>3. InRecency(registry, lastUse) /\ \A other \in Ids : lastUse[other] <= now
      BY DEF Inv, UsedInOrder
    <3> QED BY <3>1, <3>2, <3>3 DEF Inv, TypeOK, BoundedMemory
  <2> QED BY <2>1, <2>2
<1> HIDE DEF ended
<1>4. /\ IsRegistry(registry')
      /\ DOMAIN registry' = DOMAIN ended \ {id}
  BY <1>1, <1>2, <1>3, ReleaseRegistry
<1>5. /\ Accounts(registry', detections', observed', spent', dropped', created')
      /\ observed' \in [Ids -> [n : Nat, sum : Nat]]
  <2>1. observed' = Observe(observed, id, StateOf(ended, id).cost)
    BY <1>2 DEF RecordSessionCost, Observe
  <2>2. observed \in [Ids -> [n : Nat, sum : Nat]]
    BY DEF Inv, TypeOK
  <2>3. /\ id \in Ids /\ IsRegistry(ended) /\ dropped' \in [Ids -> Nat]
        /\ Accounts(ended, detections', observed, spent', dropped', created')
        /\ registry' = Release(ended, id)
    BY <1>1, <1>2, <1>3
  <2> HIDE DEF id
  <2> QED BY <2>1, <2>2, <2>3, ReleaseAccounts
<1>6. Cardinality(DOMAIN registry') <= MaxSessions
  <2>1. IsFiniteSet(DOMAIN ended)
    BY <1>3, RegistryAssumption, FS_Subset DEF IsRegistry
  <2>2. /\ Cardinality(DOMAIN registry') <= Cardinality(DOMAIN ended)
        /\ Cardinality(DOMAIN registry') \in Nat /\ Cardinality(DOMAIN ended) \in Nat
    BY <1>4, <2>1, FS_Subset, FS_CardinalityType
  <2> QED BY <1>3, <2>2, RegistryAssumption
<1>7. TypeOK'
  <2>1. late' \in [Runs -> Nat] /\ phase' \in [Runs -> {"idle", "open", "closed"}]
    BY <1>2, SessionsAssumption DEF Inv, TypeOK
  <2> QED BY <1>2, <1>3, <1>4, <1>5, <2>1 DEF Inv, TypeOK, IsRegistry, InOrder
<1>8. OnlyInFlight'
  <2> SUFFICES ASSUME NEW other \in DOMAIN registry'
               PROVE  \E q \in Runs : SessionOf[q] = other
                                      /\ (phase'[q] = "open" \/ q \in strayed')
    BY DEF OnlyInFlight
  <2>1. other \in DOMAIN registry /\ other # id
    BY <1>3, <1>4
  <2>2. PICK q \in Runs : SessionOf[q] = other /\ (phase[q] = "open" \/ q \in strayed)
    BY <2>1 DEF Inv, OnlyInFlight
  <2>3. phase'[q] = phase[q]
    BY <1>2, <2>1, <2>2 DEF Inv, TypeOK
  <2> QED BY <1>2, <2>2, <2>3
<1>9. UsedInOrder'
  <2>1. \A other \in DOMAIN registry' :
          /\ registry'[other].touched = ended[other].touched
          /\ registry'[other].after = ended[other].after \ {id}
    BY <1>1, <1>2, <1>3, <1>4, ReleaseOrder
  <2>2. InRecency(registry', lastUse')
    BY <1>3, <1>4, <2>1 DEF InRecency
  <2> QED BY <1>2, <1>3, <2>2 DEF UsedInOrder, InRecency
<1> QED BY <1>5, <1>6, <1>7, <1>8, <1>9
     DEF Inv, Accounts, BoundedMemory, CostConserved, OncePerScratchSpace, RoomToReport

------------------------------------------------------------------------------

\* The conjunction of the invariants is inductive.
THEOREM Invariant == Spec => []Inv
<1>1. Inv /\ [Next]_vars => Inv'
  <2> SUFFICES ASSUME Inv, [Next]_vars PROVE Inv'
    OBVIOUS
  <2>1. CASE \E r \in Runs : Open(r)
    BY <2>1, OpenInv
  <2>2. CASE \E r \in Runs, span \in Spans : EndStep(r, span)
    BY <2>2, EndStepInv
  <2>3. CASE \E r \in Runs, outcome \in Outcomes, cost \in Costs, open \in 0..MaxLate :
                Close(r, outcome, cost, open)
    BY <2>3, CloseInv
  <2>4. CASE Tick
    BY <2>4, TickInv
  <2>5. CASE UNCHANGED vars
    BY <2>5 DEF vars, outputs, history, Inv, TypeOK, BoundedMemory, CostConserved,
                OncePerScratchSpace, RoomToReport, OnlyInFlight, UsedInOrder, InRecency,
                StateOf, IsRegistry, InOrder
  <2> QED BY <2>1, <2>2, <2>3, <2>4, <2>5 DEF Next
<1> QED BY InitInv, <1>1, PTL DEF Spec

\* Every variable keeps its type, and the registry stays a total order of
\* resident sessions.
THEOREM TypeCorrect == Spec => []TypeOK
BY Invariant, PTL DEF Inv

\* However many runs are left open, the registry never exceeds its cap.
THEOREM MemoryBounded == Spec => []BoundedMemory
BY Invariant, PTL DEF Inv

\* Every recorded cost is observed, held or evicted, and never counted twice.
THEOREM CostIsConserved == Spec => []CostConserved
BY Invariant, PTL DEF Inv

\* No session reports a type twice from one scratch space.
THEOREM ReportedOncePerScratchSpace == Spec => []OncePerScratchSpace
BY Invariant, PTL DEF Inv

\* The registry holds nothing of a run that has ended and left no background
\* steps behind.
THEOREM HoldsOnlySessionsInFlight == Spec => []OnlyInFlight
BY Invariant, PTL DEF Inv

------------------------------------------------------------------------------
(* Eviction.                                                                *)

\* The ids a step leaves in use: those still resident, and one that closed.
Used == DOMAIN registry' \cup {id \in Ids : Closes(id)}

EvictionStep ==
  \A id \in DOMAIN registry \ Used :
    \/ lastUse[id] + Ttl < now
    \/ /\ Cardinality(Used) = MaxSessions
       /\ \A other \in Used : lastUse'[other] >= lastUse[id]

LEMMA EndStepEvicts ==
  ASSUME Inv, NEW r \in Runs, NEW span \in Spans, EndStep(r, span)
  PROVE  EvictionStep
<1> DEFINE id == SessionOf[r]
<1>1. id \in Ids /\ span \in Span
  BY SessionsAssumption, StepSpan
<1>2. phase' = phase
  BY DEF EndStep
<1>3. Used = DOMAIN registry'
  BY <1>2 DEF Used, Closes
<1>4. CASE sampled[r]
  <2>1. Recorded(id, span, registry')
    BY <1>4 DEF EndStep, Recorded
  <2> HIDE DEF id
  <2> QED BY <1>1, <1>3, <2>1, RecordedOrder DEF EvictionStep
<1>5. CASE ~sampled[r]
  <2>1. registry' = registry
    BY <1>5 DEF EndStep
  <2> QED BY <1>3, <2>1 DEF EvictionStep
<1> QED BY <1>4, <1>5

LEMMA CloseEvicts ==
  ASSUME Inv, NEW r \in Runs, NEW outcome \in Outcomes, NEW cost \in Costs,
         NEW open \in 0..MaxLate, Close(r, outcome, cost, open)
  PROVE  EvictionStep
<1> DEFINE id == SessionOf[r]
           span == [kind |-> "session", call |-> NoCall, outcome |-> outcome, cost |-> cost]
           ended == IF sampled[r] THEN Run(registry, id, now, span).registry ELSE registry
<1>1. id \in Ids /\ span \in Span
  BY SessionsAssumption, SessionSpan
<1>2. /\ phase[r] = "open" /\ phase' = [phase EXCEPT ![r] = "closed"]
      /\ registry' = Release(ended, id)
      /\ phase \in [Runs -> {"idle", "open", "closed"}]
  BY DEF Close, Inv, TypeOK
<1>3. {other \in Ids : Closes(other)} = {id}
  BY <1>1, <1>2 DEF Closes
<1>4. DOMAIN registry' = DOMAIN ended \ {id}
  BY <1>2 DEF Release
<1>5. Used = DOMAIN ended \cup {id}
  <2> HIDE DEF ended, id
  <2> QED BY <1>3, <1>4 DEF Used
<1>6. CASE sampled[r]
  <2>1. Recorded(id, span, ended)
    BY <1>6 DEF Close, Recorded
  <2> HIDE DEF id, span, ended
  <2>2. /\ id \in DOMAIN ended
        /\ \A old \in DOMAIN registry \ DOMAIN ended :
             \/ lastUse[old] + Ttl < now
             \/ /\ Cardinality(DOMAIN ended) = MaxSessions
                /\ \A other \in DOMAIN ended : lastUse'[other] >= lastUse[old]
    BY <1>1, <2>1, RecordedOrder
  <2>3. Used = DOMAIN ended
    BY <1>5, <2>2
  <2> QED BY <2>2, <2>3 DEF EvictionStep
<1>7. CASE ~sampled[r]
  <2>1. ended = registry
    BY <1>7
  <2> QED BY <1>5, <2>1 DEF EvictionStep
<1> QED BY <1>6, <1>7

LEMMA StepEvicts == Inv /\ [Next]_vars => EvictionStep \/ UNCHANGED vars
<1> SUFFICES ASSUME Inv, Next PROVE EvictionStep
  OBVIOUS
<1>1. CASE (\E r \in Runs : Open(r)) \/ Tick
  <2>1. registry' = registry
    BY <1>1 DEF Open, Tick
  <2> QED BY <2>1 DEF EvictionStep, Used
<1>2. CASE \E r \in Runs, span \in Spans : EndStep(r, span)
  BY <1>2, EndStepEvicts
<1>3. CASE \E r \in Runs, outcome \in Outcomes, cost \in Costs, open \in 0..MaxLate :
              Close(r, outcome, cost, open)
  BY <1>3, CloseEvicts
<1> QED BY <1>1, <1>2, <1>3 DEF Next

\* What is evicted has been idle for longer than the TTL, or longest of all in a
\* registry that is full.
THEOREM EvictsIdleOrOldest == Spec => EvictsOnlyIdleOrOldest
<1>1. Inv /\ [Next]_vars => EvictionStep \/ UNCHANGED vars
  BY StepEvicts
<1>2. EvictionStep => LET used == DOMAIN registry' \cup {id \in Ids : Closes(id)}
                      IN  \A id \in DOMAIN registry \ used :
                            \/ lastUse[id] + Ttl < now
                            \/ /\ Cardinality(used) = MaxSessions
                               /\ \A other \in used : lastUse'[other] >= lastUse[id]
  BY DEF EvictionStep, Used
<1> QED BY <1>1, <1>2, Invariant, PTL DEF Spec, EvictsOnlyIdleOrOldest

------------------------------------------------------------------------------
(* The refinement: each run seen on its own, while nothing disturbs it.     *)

\* Every run has an id of its own.
OwnIds == \A r, q \in Runs : r # q => SessionOf[r] # SessionOf[q]

\* No step of a run is still open when its session closes.
NoneLate == \A r \in Runs : late[r] = 0

\* A scratch space leaves the registry when its session closes, and no sooner.
NothingEvicted == DOMAIN registry \subseteq Used

\* What is then true besides the invariant: no cost is dropped, and a session that has
\* not closed is unobserved and has reported exactly the types that have fired.
Undisturbed ==
  /\ strayed = {}
  /\ \A id \in Ids : dropped[id] = 0
  /\ \A r \in Runs : phase[r] # "closed" =>
       /\ observed[SessionOf[r]] = [n |-> 0, sum |-> 0]
       /\ \A t \in Types : detections[SessionOf[r]][t] =
            IF t \in StateOf(registry, SessionOf[r]).fired THEN 1 ELSE 0

spentBy == [r \in Runs |-> spent[SessionOf[r]]]
reportsOf == [r \in Runs |-> detections[SessionOf[r]]]
observedOf == [r \in Runs |-> observed[SessionOf[r]]]

\* What a recorded span changes of its own id, that it changes nothing of another, and
\* that it drops nothing when nothing is evicted.
LEMMA RecordedOwn ==
  ASSUME Inv, NEW id \in Ids, NEW span \in Span, NEW ended, Recorded(id, span, ended),
         DOMAIN registry \subseteq DOMAIN ended
  PROVE  LET fired == StateOf(registry, id).fired
             types == IF span.kind = "session" THEN {"silent_tool_failure"} ELSE SpanTypes
         IN  /\ \A other \in Ids : dropped'[other] = dropped[other]
             /\ spent' = [spent EXCEPT ![id] = @ + span.cost]
             /\ \A other \in Ids \ {id} : StateOf(ended, other) = StateOf(registry, other)
             /\ \/ /\ detections' = detections
                   /\ StateOf(ended, id).fired = fired
                \/ \E t \in types \ fired :
                     /\ detections' = [detections EXCEPT ![id][t] = @ + 1]
                     /\ StateOf(ended, id).fired = fired \cup {t}
<1> DEFINE result == Run(registry, id, now, span)
           kept == Kept(registry, id, now)
           types == IF span.kind = "session" THEN {"silent_tool_failure"} ELSE SpanTypes
           fired == StateOf(registry, id).fired
<1>1. IsRegistry(registry) /\ now \in Nat /\ DOMAIN registry \subseteq Ids
      /\ dropped \in [Ids -> Nat]
  BY DEF Inv, TypeOK, IsRegistry
<1>2. /\ DOMAIN ended = kept
      /\ \A other \in kept \ {id} : ended[other].state = registry[other].state
      /\ Leaves([state |-> ended[id].state, emitted |-> result.emitted],
                StateOf(registry, id), span.cost, types)
  BY <1>1, RunRegistry DEF Recorded
<1>3. id \in kept /\ kept \subseteq DOMAIN registry \cup {id}
  BY <1>1, StateForRegistry
<1>4. Emit(id, result.emitted) /\ Remember(id, span)
  BY DEF Recorded
<1>5. \A other \in Ids : dropped'[other] = dropped[other]
  <2>1. DOMAIN registry \ kept = {}
    BY <1>2
  <2>2. dropped' = [other \in Ids |->
           dropped[other] + IF other \in DOMAIN registry \ kept
                            THEN registry[other].state.cost ELSE 0]
    BY <1>4 DEF Remember
  <2> HIDE DEF kept
  <2> QED BY <1>1, <2>1, <2>2
<1>6. spent' = [spent EXCEPT ![id] = @ + span.cost]
  BY <1>4 DEF Remember
<1>7. StateOf(ended, id) = ended[id].state
  BY <1>2, <1>3 DEF StateOf
<1>8. /\ \/ result.emitted = None /\ ended[id].state.fired = fired
         \/ /\ result.emitted \in types \ fired
            /\ ended[id].state.fired = fired \cup {result.emitted}
      /\ None \notin types
  BY <1>2 DEF Leaves, SpanTypes, None
<1> HIDE DEF kept, result, types, fired
<1>9. \A other \in Ids \ {id} : StateOf(ended, other) = StateOf(registry, other)
  BY <1>2, <1>3 DEF StateOf
<1>10. CASE result.emitted = None
  BY <1>4, <1>5, <1>6, <1>7, <1>8, <1>9, <1>10 DEF Emit, types, fired
<1>11. CASE result.emitted # None
  <2>1. detections' = [detections EXCEPT ![id][result.emitted] = @ + 1]
    BY <1>4, <1>11 DEF Emit
  <2> QED BY <1>5, <1>6, <1>7, <1>8, <1>9, <1>11, <2>1 DEF types, fired
<1> QED BY <1>10, <1>11

\* A recorded span of an undisturbed run is, to the contract, at most one report, of a
\* type the run has not made, and the span's cost.
LEMMA RecordedKeepsContract ==
  ASSUME Inv, Undisturbed, OwnIds, NEW r \in Runs, phase[r] # "closed", NEW span \in Span,
         NEW ended, Recorded(SessionOf[r], span, ended), DOMAIN registry \subseteq DOMAIN ended
  PROVE  LET types == IF span.kind = "session" THEN {"silent_tool_failure"} ELSE SpanTypes
         IN  /\ \/ reportsOf' = reportsOf
                \/ \E t \in types : /\ reportsOf[r][t] = 0
                                    /\ reportsOf' = [reportsOf EXCEPT ![r][t] = 1]
             /\ spentBy' = [spentBy EXCEPT ![r] = @ + span.cost]
             /\ \A t \in Types : detections'[SessionOf[r]][t] =
                  IF t \in StateOf(ended, SessionOf[r]).fired THEN 1 ELSE 0
             /\ \A q \in Runs \ {r} : detections'[SessionOf[q]] = detections[SessionOf[q]]
<1> DEFINE id == SessionOf[r]
           fired == StateOf(registry, id).fired
           types == IF span.kind = "session" THEN {"silent_tool_failure"} ELSE SpanTypes
<1>1. /\ id \in Ids /\ \A q \in Runs : SessionOf[q] \in Ids
      /\ \A q \in Runs \ {r} : SessionOf[q] # id
  BY SessionsAssumption DEF OwnIds
<1>2. /\ spent \in [Ids -> Nat] /\ detections \in [Ids -> [Types -> Nat]]
      /\ \A t \in Types : detections[id][t] = IF t \in fired THEN 1 ELSE 0
  BY DEF Inv, TypeOK, Undisturbed
<1>3. /\ spent' = [spent EXCEPT ![id] = @ + span.cost]
      /\ \/ /\ detections' = detections
            /\ StateOf(ended, id).fired = fired
         \/ \E t \in types \ fired :
              /\ detections' = [detections EXCEPT ![id][t] = @ + 1]
              /\ StateOf(ended, id).fired = fired \cup {t}
  <2>1. Recorded(id, span, ended) /\ id \in Ids
    BY <1>1
  <2> HIDE DEF id
  <2> QED BY <2>1, RecordedOwn
<1>4. types \subseteq Types
  BY DEF Types
<1> HIDE DEF id, types, fired
<1>5. spentBy' = [spentBy EXCEPT ![r] = @ + span.cost]
  BY <1>1, <1>2, <1>3 DEF spentBy, id
<1>6. CASE detections' = detections /\ StateOf(ended, id).fired = fired
  <2>1. reportsOf' = reportsOf
    BY <1>6 DEF reportsOf
  <2> QED BY <1>2, <1>5, <1>6, <2>1 DEF id, types
<1>7. CASE \E t \in types \ fired :
             /\ detections' = [detections EXCEPT ![id][t] = @ + 1]
             /\ StateOf(ended, id).fired = fired \cup {t}
  <2>1. PICK t \in types \ fired :
          /\ detections' = [detections EXCEPT ![id][t] = @ + 1]
          /\ StateOf(ended, id).fired = fired \cup {t}
    BY <1>7
  <2>2. t \in Types /\ detections[id][t] = 0
    BY <1>2, <1>4, <2>1
  <2>3. detections'[id] = [detections[id] EXCEPT ![t] = 1]
    BY <1>1, <1>2, <2>1, <2>2
  <2>4. \A other \in Ids \ {id} : detections'[other] = detections[other]
    BY <1>2, <2>1
  <2>5. reportsOf[r][t] = 0
    BY <2>2 DEF reportsOf, id
  <2>6. reportsOf' = [reportsOf EXCEPT ![r][t] = 1]
    <3>1. reportsOf' = [q \in Runs |-> detections'[SessionOf[q]]]
      BY DEF reportsOf
    <3>2. \A q \in Runs : detections'[SessionOf[q]] =
            IF q = r THEN [detections[id] EXCEPT ![t] = 1] ELSE detections[SessionOf[q]]
      BY <1>1, <2>3, <2>4 DEF id
    <3> QED BY <3>1, <3>2 DEF reportsOf, id
  <2>7. \A u \in Types : detections'[id][u] = IF u \in StateOf(ended, id).fired THEN 1 ELSE 0
    <3> SUFFICES ASSUME NEW u \in Types
                 PROVE  detections'[id][u] = IF u \in StateOf(ended, id).fired THEN 1 ELSE 0
      OBVIOUS
    <3>1. detections[id] \in [Types -> Nat]
      BY <1>1, <1>2 DEF id
    <3>2. detections'[id][u] = IF u = t THEN 1 ELSE detections[id][u]
      BY <2>3, <3>1
    <3> QED BY <1>2, <2>1, <3>2
  <2>8. \A q \in Runs \ {r} : detections'[SessionOf[q]] = detections[SessionOf[q]]
    BY <1>1, <2>4
  <2> QED BY <1>5, <2>1, <2>5, <2>6, <2>7, <2>8 DEF id, types
<1> QED BY <1>3, <1>6, <1>7

LEMMA EndStepRefines ==
  ASSUME Inv, Undisturbed, OwnIds, NoneLate, NothingEvicted,
         NEW r \in Runs, NEW span \in Spans, EndStep(r, span)
  PROVE  Undisturbed' /\ [Contract!Next]_(Contract!vars)
<1> DEFINE id == SessionOf[r]
<1>1. /\ id \in Ids /\ span \in Span /\ span.kind # "session"
      /\ \A q \in Runs : SessionOf[q] \in Ids
      /\ \A q \in Runs \ {r} : SessionOf[q] # id
  BY SessionsAssumption, StepSpan DEF OwnIds
<1>2. phase[r] = "open" /\ UNCHANGED <<phase, observed>>
  BY DEF EndStep, NoneLate, Inv, TypeOK
<1>3. CASE sampled[r]
  <2>1. Recorded(id, span, registry') /\ strayed' = strayed
    BY <1>2, <1>3 DEF EndStep, Recorded
  <2>2. DOMAIN registry \subseteq DOMAIN registry'
    BY <1>2 DEF NothingEvicted, Used, Closes
  <2>3. /\ \/ reportsOf' = reportsOf
           \/ \E t \in SpanTypes : /\ reportsOf[r][t] = 0
                                   /\ reportsOf' = [reportsOf EXCEPT ![r][t] = 1]
        /\ spentBy' = [spentBy EXCEPT ![r] = @ + span.cost]
        /\ \A t \in Types : detections'[id][t] =
             IF t \in StateOf(registry', id).fired THEN 1 ELSE 0
        /\ \A q \in Runs \ {r} : detections'[SessionOf[q]] = detections[SessionOf[q]]
    BY <1>1, <1>2, <2>1, <2>2, RecordedKeepsContract
  <2>4. /\ \A other \in Ids : dropped'[other] = dropped[other]
        /\ \A other \in Ids \ {id} : StateOf(registry', other) = StateOf(registry, other)
    <3> HIDE DEF id
    <3> QED BY <1>1, <2>1, <2>2, RecordedOwn
  <2>5. ASSUME NEW q \in Runs, phase'[q] # "closed"
        PROVE  /\ observed'[SessionOf[q]] = [n |-> 0, sum |-> 0]
               /\ \A t \in Types : detections'[SessionOf[q]][t] =
                    IF t \in StateOf(registry', SessionOf[q]).fired THEN 1 ELSE 0
    <3>1. CASE q = r
      BY <1>2, <2>3, <2>5, <3>1 DEF Undisturbed
    <3>2. CASE q # r
      BY <1>1, <1>2, <2>3, <2>4, <2>5, <3>2 DEF Undisturbed
    <3> QED BY <3>1, <3>2
  <2>6. Undisturbed'
    BY <2>1, <2>4, <2>5 DEF Undisturbed, StateOf
  <2>7. observedOf' = observedOf
    BY <1>2 DEF observedOf
  <2>8. span.cost \in Costs \cup {0}
    BY <1>1 DEF Span
  <2>9. Contract!Step(r)
    BY <1>2, <2>3, <2>7, <2>8
       DEF Contract!Step, Contract!MayReport, Contract!MaySpend,
           spentBy, reportsOf, observedOf
  <2> QED BY <2>6, <2>9 DEF Contract!Next
<1>4. CASE ~sampled[r]
  <2>1. UNCHANGED <<registry, detections, spent, dropped, strayed>>
    BY <1>4 DEF EndStep, history
  <2> QED BY <1>2, <2>1 DEF Undisturbed, StateOf, Contract!vars
<1> QED BY <1>3, <1>4

LEMMA CloseRefines ==
  ASSUME Inv, Undisturbed, OwnIds, NothingEvicted,
         NEW r \in Runs, NEW outcome \in Outcomes, NEW cost \in Costs,
         NEW open \in 0..MaxLate, Close(r, outcome, cost, open)
  PROVE  Undisturbed' /\ [Contract!Next]_(Contract!vars)
<1> DEFINE id == SessionOf[r]
           span == [kind |-> "session", call |-> NoCall, outcome |-> outcome, cost |-> cost]
           ended == IF sampled[r] THEN Run(registry, id, now, span).registry ELSE registry
           total == StateOf(ended, id).cost
<1>1. /\ id \in Ids /\ span \in Span /\ span.kind = "session" /\ span.cost = cost
      /\ \A q \in Runs : SessionOf[q] \in Ids
      /\ \A q \in Runs \ {r} : SessionOf[q] # id
  BY SessionsAssumption, SessionSpan DEF OwnIds
<1>2. /\ phase[r] = "open" /\ phase' = [phase EXCEPT ![r] = "closed"]
      /\ strayed' = strayed
      /\ registry' = Release(ended, id)
      /\ RecordSessionCost(id, total)
      /\ phase \in [Runs -> {"idle", "open", "closed"}]
      /\ observed \in [Ids -> [n : Nat, sum : Nat]]
      /\ observed[id] = [n |-> 0, sum |-> 0] /\ \A other \in Ids : dropped[other] = 0
  BY DEF Close, Inv, TypeOK, Undisturbed
<1>3. DOMAIN registry \subseteq DOMAIN ended \cup {id}
  <2>1. Used = DOMAIN registry' \cup {id}
    <3>1. {other \in Ids : Closes(other)} = {id}
      BY <1>1, <1>2 DEF Closes
    <3> QED BY <3>1 DEF Used
  <2>2. DOMAIN registry' = DOMAIN ended \ {id}
    BY <1>2 DEF Release
  <2> HIDE DEF ended
  <2> QED BY <2>1, <2>2 DEF NothingEvicted
<1>4. /\ \/ reportsOf' = reportsOf
         \/ \E t \in {"silent_tool_failure"} :
              /\ reportsOf[r][t] = 0
              /\ reportsOf' = [reportsOf EXCEPT ![r][t] = 1]
      /\ \E c \in Costs \cup {0} : spentBy' = [spentBy EXCEPT ![r] = @ + c]
      /\ \A q \in Runs \ {r} : detections'[SessionOf[q]] = detections[SessionOf[q]]
      /\ \A other \in Ids : dropped'[other] = 0
      /\ \A other \in Ids \ {id} : StateOf(ended, other) = StateOf(registry, other)
      /\ spent'[id] = total /\ total \in Nat
  <2>1. CASE sampled[r]
    <3>1. Recorded(id, span, ended)
      BY <2>1 DEF Close, Recorded
    <3> HIDE DEF id, span, ended
    <3>2. id \in DOMAIN ended
      BY <1>1, <3>1, RecordedTypes
    <3>3. DOMAIN registry \subseteq DOMAIN ended
      BY <1>3, <3>2
    <3>4. /\ \A other \in Ids : dropped'[other] = dropped[other]
          /\ \A other \in Ids \ {id} : StateOf(ended, other) = StateOf(registry, other)
      BY <1>1, <3>1, <3>3, RecordedOwn
    <3>5. Accounts(ended, detections', observed, spent', dropped', created')
      BY <1>1, <3>1, RecordedAccounts
    <3>6. spent'[id] = total /\ total \in Nat
      <4>1. spent'[id] = observed[id].sum + total + dropped'[id] /\ total \in Nat
        <5>1. IsRegistry(ended)
          BY <1>1, <3>1, RecordedTypes
        <5>2. total \in Nat
          BY <3>2, <5>1 DEF StateOf, IsRegistry, Entry, Scratch
        <5> QED BY <1>1, <3>5, <5>2 DEF Accounts
      <4> QED BY <1>1, <1>2, <3>4, <4>1
    <3>7. /\ \/ reportsOf' = reportsOf
             \/ \E t \in {"silent_tool_failure"} :
                  /\ reportsOf[r][t] = 0
                  /\ reportsOf' = [reportsOf EXCEPT ![r][t] = 1]
          /\ spentBy' = [spentBy EXCEPT ![r] = @ + span.cost]
          /\ \A q \in Runs \ {r} : detections'[SessionOf[q]] = detections[SessionOf[q]]
      BY <1>1, <1>2, <3>1, <3>3, RecordedKeepsContract DEF id
    <3> HIDE DEF total
    <3> QED BY <1>1, <1>2, <3>4, <3>6, <3>7
  <2>2. CASE ~sampled[r]
    <3>1. ended = registry /\ UNCHANGED <<detections, spent, dropped>>
      BY <2>2 DEF Close
    <3>2. spentBy' = [spentBy EXCEPT ![r] = @ + 0] /\ reportsOf' = reportsOf
      <4>1. \A q \in Runs : spent[SessionOf[q]] \in Nat
        BY <1>1 DEF Inv, TypeOK
      <4> QED BY <3>1, <4>1 DEF spentBy, reportsOf
    <3>3. spent[id] = total /\ total \in Nat
      <4>1. spent[id] = observed[id].sum + StateOf(registry, id).cost + dropped[id]
        BY <1>1 DEF Inv, CostConserved
      <4>2. StateOf(registry, id).cost \in Nat
        BY FreshType DEF Inv, TypeOK, StateOf, IsRegistry, Entry, Scratch
      <4> HIDE DEF id
      <4> QED BY <1>1, <1>2, <3>1, <4>1, <4>2
    <3> HIDE DEF ended, total, id
    <3> QED BY <1>1, <1>2, <3>1, <3>2, <3>3
  <2> QED BY <2>1, <2>2
<1> HIDE DEF ended, total, span
<1>5. observedOf' = [observedOf EXCEPT
        ![r] = IF spentBy'[r] = 0 THEN @ ELSE [n |-> 1, sum |-> spentBy'[r]]]
  <2>1. spentBy'[r] = total
    BY <1>4 DEF spentBy
  <2>2. CASE total = 0
    BY <1>2, <2>1, <2>2 DEF RecordSessionCost, observedOf
  <2>3. CASE total # 0
    <3>1. observed' = [observed EXCEPT ![id] = [n |-> 1, sum |-> total]]
      BY <1>1, <1>2, <1>4, <2>3 DEF RecordSessionCost
    <3> QED BY <1>1, <1>2, <2>1, <2>3, <3>1 DEF observedOf
  <2> QED BY <2>2, <2>3
<1>6. Contract!Finish(r)
  <2>1. Types \ SpanTypes = {"silent_tool_failure"}
    BY DEF Types, SpanTypes
  <2> QED BY <1>2, <1>4, <1>5, <2>1
       DEF Contract!Finish, Contract!Move, Contract!MayReport, Contract!MaySpend,
           spentBy, reportsOf, observedOf
<1>7. ASSUME NEW q \in Runs, phase'[q] # "closed"
      PROVE  /\ observed'[SessionOf[q]] = [n |-> 0, sum |-> 0]
             /\ \A t \in Types : detections'[SessionOf[q]][t] =
                  IF t \in StateOf(registry', SessionOf[q]).fired THEN 1 ELSE 0
  <2>1. q # r /\ SessionOf[q] # id /\ SessionOf[q] \in Ids /\ phase[q] # "closed"
    BY <1>1, <1>2, <1>7
  <2>2. observed'[SessionOf[q]] = observed[SessionOf[q]]
    BY <1>2, <2>1 DEF RecordSessionCost
  <2>3. StateOf(registry', SessionOf[q]).fired = StateOf(registry, SessionOf[q]).fired
    <3>1. StateOf(Release(ended, id), SessionOf[q]).fired = StateOf(ended, SessionOf[q]).fired
      BY <2>1 DEF StateOf, Release
    <3> QED BY <1>2, <1>4, <2>1, <3>1
  <2> QED BY <1>4, <2>1, <2>2, <2>3 DEF Undisturbed
<1>8. Undisturbed'
  BY <1>2, <1>4, <1>7 DEF Undisturbed, StateOf
<1> QED BY <1>6, <1>8 DEF Contract!Next

\* A step of the process is a step of one run, or is none.
LEMMA StepRefines ==
  ASSUME Inv, Undisturbed, OwnIds, NoneLate, [NothingEvicted]_vars, [Next]_vars
  PROVE  Undisturbed' /\ [Contract!Next]_(Contract!vars)
<1>1. CASE UNCHANGED vars
  BY <1>1 DEF vars, outputs, history, Undisturbed, StateOf, Contract!vars
<1>2. ASSUME NEW r \in Runs, Open(r)
      PROVE  Undisturbed' /\ [Contract!Next]_(Contract!vars)
  <2>1. /\ phase[r] = "idle" /\ phase' = [phase EXCEPT ![r] = "open"]
        /\ UNCHANGED <<registry, detections, observed, spent, dropped, strayed>>
        /\ phase \in [Runs -> {"idle", "open", "closed"}]
    BY <1>2 DEF Open, outputs, history, Inv, TypeOK
  <2>2. \A q \in Runs : phase'[q] # "closed" => phase[q] # "closed"
    BY <2>1
  <2>3. Undisturbed'
    BY <2>1, <2>2 DEF Undisturbed, StateOf
  <2>4. Contract!Begin(r)
    BY <2>1 DEF Contract!Begin, Contract!Move
  <2> QED BY <2>3, <2>4 DEF Contract!Next
<1>3. CASE Tick
  BY <1>3 DEF Tick, outputs, history, Undisturbed, StateOf, Contract!vars
<1>4. CASE ~UNCHANGED vars /\ ~Tick /\ ~\E r \in Runs : Open(r)
  <2>1. NothingEvicted
    BY <1>4
  <2>2. CASE \E r \in Runs, span \in Spans : EndStep(r, span)
    BY <2>1, <2>2, EndStepRefines
  <2>3. CASE \E r \in Runs, outcome \in Outcomes, cost \in Costs, open \in 0..MaxLate :
                Close(r, outcome, cost, open)
    BY <2>1, <2>3, CloseRefines
  <2> QED BY <1>4, <2>2, <2>3 DEF Next
<1> QED BY <1>1, <1>2, <1>3, <1>4

LEMMA StartRefines == Init => Undisturbed /\ Contract!Init
<1> SUFFICES ASSUME Init PROVE Undisturbed /\ Contract!Init
  OBVIOUS
<1>1. \A r \in Runs : SessionOf[r] \in Ids
  BY SessionsAssumption
<1>2. Undisturbed
  BY <1>1 DEF Init, Undisturbed, StateOf, Empty, Fresh
<1>3. Contract!Types = Types
  BY DEF Contract!Types, Types
<1>4. Contract!Init
  BY <1>1, <1>3 DEF Init, Contract!Init
<1> QED BY <1>2, <1>4

\* Of runs with ids of their own, none of which leaves a step behind or loses a
\* scratch space, each is reported and observed as if it ran alone, however their spans
\* interleave in the one registry.
THEOREM UndisturbedRunsKeepContract ==
  ASSUME OwnIds
  PROVE  Spec /\ []NoneLate /\ [][NothingEvicted]_vars => KeepsContract
<1>1. Init => Undisturbed /\ Contract!Init
  BY StartRefines
<1>2. Inv /\ Undisturbed /\ NoneLate /\ [NothingEvicted]_vars /\ [Next]_vars
        => Undisturbed' /\ [Contract!Next]_(Contract!vars)
  BY StepRefines
<1> QED BY <1>1, <1>2, Invariant, PTL DEF Spec, KeepsContract, Contract!Spec

\* Room for every session id and time enough for every run: neither bound of the
\* registry is ever met, and no background step outlives its session.
RoomAndTime == Cardinality(Ids) <= MaxSessions /\ MaxTime <= Ttl /\ MaxLate = 0

InTime == now <= MaxTime /\ \A r \in Runs : late[r] = 0

LEMMA StaysInTime == ASSUME MaxLate = 0 PROVE Spec => []InTime
<1>1. Init => InTime
  BY SessionsAssumption DEF Init, InTime
<1>2. TypeOK /\ InTime /\ [Next]_vars => InTime'
  <2> SUFFICES ASSUME TypeOK, InTime, [Next]_vars PROVE InTime'
    OBVIOUS
  <2>1. CASE UNCHANGED vars
    BY <2>1 DEF vars, InTime
  <2>2. CASE \E r \in Runs : Open(r)
    BY <2>2 DEF Open, InTime
  <2>3. ASSUME NEW r \in Runs, NEW span \in Spans, EndStep(r, span) PROVE InTime'
    BY <2>3 DEF EndStep, InTime, TypeOK
  <2>4. ASSUME NEW r \in Runs, NEW outcome \in Outcomes, NEW cost \in Costs,
               NEW open \in 0..MaxLate, Close(r, outcome, cost, open)
        PROVE  InTime'
    <3>1. open = 0
      OBVIOUS
    <3> QED BY <2>4, <3>1 DEF Close, InTime, TypeOK
  <2>5. CASE Tick
    BY <2>5, SessionsAssumption DEF Tick, InTime, TypeOK
  <2> QED BY <2>1, <2>2, <2>3, <2>4, <2>5 DEF Next
<1> QED BY <1>1, <1>2, TypeCorrect, PTL DEF Spec

\* What is evicted has expired, or the cap was full without it.
LEMMA RoomKeepsAll ==
  ASSUME RoomAndTime, Inv, Inv', InTime, EvictionStep
  PROVE  NothingEvicted
<1> SUFFICES ASSUME NEW id \in DOMAIN registry \ Used PROVE FALSE
  BY DEF NothingEvicted
<1>1. id \in Ids /\ lastUse[id] \in Nat /\ now \in Nat /\ now <= MaxTime
      /\ MaxTime \in Nat /\ Ttl \in Nat /\ MaxSessions \in Nat
  BY RegistryAssumption, SessionsAssumption DEF Inv, TypeOK, IsRegistry, InTime
<1>2. ~(lastUse[id] + Ttl < now)
  BY <1>1 DEF RoomAndTime
<1>3. Cardinality(Used) = MaxSessions
  BY <1>2 DEF EvictionStep
<1> QED
  <2>1. Used \cup {id} \subseteq Ids
    BY <1>1 DEF Used, Inv, TypeOK, IsRegistry
  <2>2. IsFiniteSet(Used \cup {id}) /\ Cardinality(Used \cup {id}) <= Cardinality(Ids)
    BY <2>1, RegistryAssumption, FS_Subset
  <2>3. IsFiniteSet(Used)
    BY <2>2, FS_Subset
  <2>4. Cardinality(Used \cup {id}) = MaxSessions + 1
    BY <1>3, <2>3, FS_AddElement
  <2>5. Cardinality(Ids) \in Nat
    BY RegistryAssumption, FS_CardinalityType
  <2> QED BY <1>1, <2>2, <2>4, <2>5 DEF RoomAndTime

\* A registry with room and time enough for its runs keeps the contract with each.
THEOREM ContractIsKept ==
  ASSUME OwnIds, RoomAndTime
  PROVE  Spec => KeepsContract
<1>1. Spec => []InTime
  BY StaysInTime DEF RoomAndTime
<1>2. InTime => NoneLate
  BY DEF InTime, NoneLate
<1>3. Inv /\ Inv' /\ InTime /\ (EvictionStep \/ UNCHANGED vars) => [NothingEvicted]_vars
  BY RoomKeepsAll
<1>4. Inv /\ [Next]_vars => EvictionStep \/ UNCHANGED vars
  BY StepEvicts
<1>5. Spec => []NoneLate /\ [][NothingEvicted]_vars
  BY <1>1, <1>2, <1>3, <1>4, Invariant, PTL DEF Spec
<1> QED BY <1>5, UndisturbedRunsKeepContract

==============================================================================
