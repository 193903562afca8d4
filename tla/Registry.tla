------------------------------- MODULE Registry -------------------------------
(***************************************************************************)
(* DetectorRegistry._state of spanlight/_detector_framework.py: an         *)
(* OrderedDict from session id to (touched, scratch space), least recently *)
(* used first, bounded by an LRU cap and by a TTL.                         *)
(*                                                                         *)
(* A registry is a function whose domain is the set of resident ids.  The  *)
(* order of the OrderedDict is kept as "after": the resident sessions that *)
(* come later in it, so the first key is the one with the largest "after". *)
(***************************************************************************)
EXTENDS Detection, FiniteSets

CONSTANTS
  Ids,           \* session ids
  MaxSessions,   \* max_sessions
  Ttl            \* ttl_seconds

ASSUME RegistryAssumption ==
  /\ IsFiniteSet(Ids)
  /\ MaxSessions \in Nat \ {0}
  /\ Ttl \in Nat

Entry == [touched : Nat, after : SUBSET Ids, state : Scratch]

\* "after" is what an order on the resident ids leaves to the right of each.
InOrder(registry) ==
  \A id, other \in DOMAIN registry :
    /\ registry[id].after \subseteq DOMAIN registry \ {id}
    /\ id = other \/ id \in registry[other].after \/ other \in registry[id].after
    /\ other \in registry[id].after => registry[other].after \subseteq registry[id].after

IsRegistry(registry) ==
  /\ DOMAIN registry \subseteq Ids
  /\ registry \in [DOMAIN registry -> Entry]
  /\ InOrder(registry)

Empty == [id \in {} |-> Fresh]

\* The dict of a session, new if it has none.
StateOf(registry, id) ==
  IF id \in DOMAIN registry THEN registry[id].state ELSE Fresh

\* Mutant: only a new key goes to the end, one that is used again stays put.
AfterInsertion(registry, id, other) ==
  IF id \in DOMAIN registry THEN registry[other].after
  ELSE IF other = id THEN {} ELSE registry[other].after \cup {id}

\* move_to_end(id): every other key now has id after it.
AfterTouch(registry, id, other) ==
  IF other = id THEN {} ELSE registry[other].after \cup {id}

\* The first half of _evict: an entry idle for longer than the TTL goes,
\* except the one in use.
Unexpired(registry, id, now) ==
  {other \in DOMAIN registry : registry[other].touched + Ttl >= now} \cup {id}

\* Mutant: `while len > max_sessions + 1`.
KeptAndOneMore(registry, id, now) ==
  LET live == Unexpired(registry, id, now)
  IN  {other \in live :
         \/ other = id
         \/ Cardinality(AfterTouch(registry, id, other) \cap live) <= MaxSessions}

\* The second half: `while len > max_sessions` deletes the first key, which is
\* never the one in use, until only the last MaxSessions are left.
Kept(registry, id, now) ==
  LET live == Unexpired(registry, id, now)
  IN  {other \in live :
         \/ other = id
         \/ Cardinality(AfterTouch(registry, id, other) \cap live) < MaxSessions}

\* Mutant: the entry in use gets a new scratch space every time.
StateForFresh(registry, id, now) ==
  LET kept == Kept(registry, id, now)
  IN  [other \in kept |->
        [touched |-> IF other = id THEN now ELSE registry[other].touched,
         after   |-> AfterTouch(registry, id, other) \cap kept,
         state   |-> IF other = id THEN Fresh ELSE StateOf(registry, other)]]

\* state_for: the entry is created or found, stamped, moved to the end, and the
\* rest of the registry is brought back within its bounds.
StateFor(registry, id, now) ==
  LET kept == Kept(registry, id, now)
  IN  [other \in kept |->
        [touched |-> IF other = id THEN now ELSE registry[other].touched,
         after   |-> AfterTouch(registry, id, other) \cap kept,
         state   |-> StateOf(registry, other)]]

\* release: the entry is popped; its dict is StateOf(registry, id).
Release(registry, id) ==
  [other \in DOMAIN registry \ {id} |-> [registry[other] EXCEPT !.after = @ \ {id}]]

\* run, for a recording span of session id: state_for, then the detectors of
\* the phase on the dict it returned.
Run(registry, id, now, span) ==
  LET held   == StateFor(registry, id, now)
      result == IF span.kind = "session"
                THEN RunSession(held[id].state, span)
                ELSE RunSpan(held[id].state, span)
  IN  [registry |-> [held EXCEPT ![id].state = result.state],
       emitted  |-> result.emitted]

==============================================================================
