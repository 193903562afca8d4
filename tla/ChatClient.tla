------------------------------ MODULE ChatClient ------------------------------
(***************************************************************************)
(* ChatClient.complete of llm/client.py: concurrent chat completions of    *)
(* one process, each a retry loop (llm/retry.py) around the gate of        *)
(* InMemoryThrottle (llm/throttle.py) and the provider's HTTP call         *)
(* (llm/providers/base.py).                                                *)
(*                                                                         *)
(* Calls are asyncio tasks: what runs between two awaits is one action.    *)
(* The throttle's lock is never held across an await, so reading the gate  *)
(* and tripping it are parts of such an action.  Time is kept as what is   *)
(* left of each delay; Tick lets one unit pass, at any moment, so a task   *)
(* may also wake later than it asked to.                                   *)
(***************************************************************************)
EXTENDS Integers, Sequences, FiniteSets

CONSTANTS
  Chats,            \* invocations of complete()
  Providers,        \* names of registered providers
  ProviderOf,       \* the provider each invocation names
  RetryAfters,      \* delays a 429 may ask for
  Forever,          \* a delay that is never over: Retry-After: inf
  DefaultCooldown,  \* InMemoryThrottle(default_cooldown)
  MaxAttempts,      \* ChatClient(max_retry_attempts)
  MaxWait           \* retry_with_backoff(max_wait)

ASSUME ChatAssumption ==
  /\ ProviderOf \in [Chats -> Providers]
  /\ Forever \in Nat \ {0}
  /\ RetryAfters \subseteq 0..Forever
  /\ DefaultCooldown \in 0..(Forever - 1)
  /\ MaxAttempts \in Nat \ {0}
  /\ MaxWait \in 0..(Forever - 1)

VARIABLES
  cooldown,   \* what is left of each provider's _cooldown_until
  pc,         \* where each call is
  timer,      \* what is left of the sleep a call is in
  tries,      \* tries[0]
  \* History, for the properties only:
  answers,    \* what the provider answered each call, in order
  overtaken,  \* calls whose provider was rate limited since they read the gate
  owed,       \* what is left of the delay set by the call's own last 429
  replaced    \* calls whose provider another call's 429 has since cooled down

history == <<answers, overtaken, owed, replaced>>
vars == <<cooldown, pc, timer, tries, history>>

Running == {"sleeping", "sent", "backoff"}
Ended == {"done", "failed", "cancelled"}

Init ==
  /\ cooldown = [p \in Providers |-> 0]
  /\ pc = [c \in Chats |-> "idle"]
  /\ timer = [c \in Chats |-> 0]
  /\ tries = [c \in Chats |-> 0]
  /\ answers = [c \in Chats |-> <<>>]
  /\ overtaken = {}
  /\ owed = [c \in Chats |-> 0]
  /\ replaced = {}

------------------------------------------------------------------------------

\* wait_random_exponential(multiplier=1, max=MaxWait): the longest backoff
\* after n attempts; the shortest is none.
Backoff(n) == IF 2 ^ (n - 1) < MaxWait THEN 2 ^ (n - 1) ELSE MaxWait

\* Mutant: the gate is read once, before the retry loop.
AttemptGatedOnce(c) ==
  LET wait == IF tries[c] = 0 THEN cooldown[ProviderOf[c]] ELSE 0
  IN  /\ tries' = [tries EXCEPT ![c] = @ + 1]
      /\ pc' = [pc EXCEPT ![c] = IF wait > 0 THEN "sleeping" ELSE "sent"]
      /\ timer' = [timer EXCEPT ![c] = wait]
      /\ overtaken' = overtaken \ {c}
      /\ UNCHANGED <<cooldown, answers, owed, replaced>>

\* The head of _attempt, up to its first await: count the try, read the gate,
\* and either sleep for what it says or go straight to the provider.
Attempt(c) ==
  LET wait == cooldown[ProviderOf[c]]
  IN  /\ tries' = [tries EXCEPT ![c] = @ + 1]
      /\ pc' = [pc EXCEPT ![c] = IF wait > 0 THEN "sleeping" ELSE "sent"]
      /\ timer' = [timer EXCEPT ![c] = wait]
      /\ overtaken' = overtaken \ {c}
      /\ UNCHANGED <<cooldown, answers, owed, replaced>>

\* complete() is called.
Start(c) ==
  /\ pc[c] = "idle"
  /\ Attempt(c)

\* The throttle sleep is over: the request is sent, the gate not read again.
Wake(c) ==
  /\ pc[c] = "sleeping" /\ timer[c] = 0
  /\ pc' = [pc EXCEPT ![c] = "sent"]
  /\ UNCHANGED <<cooldown, timer, tries, history>>

\* Mutant: the delay the provider asked for is ignored.
TripByDefault(c, delay) ==
  LET p == ProviderOf[c]
      sharing == {other \in Chats \ {c} : ProviderOf[other] = p}
  IN  /\ cooldown' = [cooldown EXCEPT ![p] = DefaultCooldown]
      /\ overtaken' = overtaken \cup sharing
      /\ owed' = [owed EXCEPT ![c] = delay]
      /\ replaced' = (replaced \cup sharing) \ {c}

\* trip(provider, retry_after): whatever cooldown was running is replaced.
Trip(c, delay) ==
  LET p == ProviderOf[c]
      sharing == {other \in Chats \ {c} : ProviderOf[other] = p}
  IN  /\ cooldown' = [cooldown EXCEPT ![p] = delay]
      /\ overtaken' = overtaken \cup sharing
      /\ owed' = [owed EXCEPT ![c] = delay]
      /\ replaced' = (replaced \cup sharing) \ {c}

\* tenacity's decision after a transient error.
AfterTransient(c) ==
  IF tries[c] < MaxAttempts
  THEN \E wait \in 0..Backoff(tries[c]) :
         /\ pc' = [pc EXCEPT ![c] = "backoff"]
         /\ timer' = [timer EXCEPT ![c] = wait]
  ELSE pc' = [pc EXCEPT ![c] = "failed"] /\ UNCHANGED timer

Answered(c, answer) ==
  /\ pc[c] = "sent"
  /\ answers' = [answers EXCEPT ![c] = Append(@, answer)]
  /\ UNCHANGED tries

\* A 2xx with a body that can be read.
Succeed(c) ==
  /\ Answered(c, "ok")
  /\ pc' = [pc EXCEPT ![c] = "done"]
  /\ UNCHANGED <<cooldown, timer, overtaken, owed, replaced>>

\* A 429: RateLimitError, with the delay it asks for or the default one.
RateLimited(c) ==
  /\ Answered(c, "limited")
  /\ \E delay \in RetryAfters \cup {DefaultCooldown} : Trip(c, delay)
  /\ AfterTransient(c)

\* A 5xx or a network error, a timeout among them: ProviderError.
Unavailable(c) ==
  /\ Answered(c, "unavailable")
  /\ AfterTransient(c)
  /\ UNCHANGED <<cooldown, overtaken, owed, replaced>>

\* Mutant: every exception is retried.
RefusedRetried(c) ==
  /\ Answered(c, "refused")
  /\ AfterTransient(c)
  /\ UNCHANGED <<cooldown, overtaken, owed, replaced>>

\* Any other 4xx (ProviderClientError), a missing key (ProviderConfigError), a
\* body that cannot be read: not a ProviderError, so never retried.
Refused(c) ==
  /\ Answered(c, "refused")
  /\ pc' = [pc EXCEPT ![c] = "failed"]
  /\ UNCHANGED <<cooldown, timer, overtaken, owed, replaced>>

\* The backoff is over: tenacity invokes _attempt again.
Retry(c) ==
  /\ pc[c] = "backoff" /\ timer[c] = 0
  /\ Attempt(c)

\* The caller gives up (a timeout around complete()): CancelledError is raised
\* at whichever await the call is in, and nothing catches it.
Cancel(c) ==
  /\ pc[c] \in Running
  /\ pc' = [pc EXCEPT ![c] = "cancelled"]
  /\ UNCHANGED <<cooldown, timer, tries, history>>

\* A unit of time less of a delay.
Less(n) == IF n \in {0, Forever} THEN n ELSE n - 1

Tick ==
  /\ cooldown' = [p \in Providers |-> Less(cooldown[p])]
  /\ timer' = [c \in Chats |-> Less(timer[c])]
  /\ owed' = [c \in Chats |-> Less(owed[c])]
  /\ UNCHANGED <<pc, tries, answers, overtaken, replaced>>

Answer(c) == Succeed(c) \/ RateLimited(c) \/ Unavailable(c) \/ Refused(c)

Next ==
  \/ \E c \in Chats : Start(c) \/ Wake(c) \/ Answer(c) \/ Retry(c) \/ Cancel(c)
  \/ Tick

\* Mutant: requests have no timeout.
FairnessWithoutTimeout ==
  /\ WF_vars(Tick)
  /\ \A c \in Chats : WF_vars(Wake(c)) /\ WF_vars(Retry(c))

\* Time passes, a task whose sleep is over is scheduled, and a request is
\* answered or fails: every request has DEFAULT_TIMEOUT.
Fairness ==
  /\ WF_vars(Tick)
  /\ \A c \in Chats : WF_vars(Wake(c)) /\ WF_vars(Answer(c)) /\ WF_vars(Retry(c))

Spec == Init /\ [][Next]_vars /\ Fairness

------------------------------------------------------------------------------
(* Properties                                                               *)

TypeOK ==
  /\ cooldown \in [Providers -> 0..Forever]
  /\ pc \in [Chats -> {"idle"} \cup Running \cup Ended]
  /\ timer \in [Chats -> Nat]
  /\ tries \in [Chats -> 0..MaxAttempts]
  /\ answers \in [Chats -> Seq({"ok", "limited", "unavailable", "refused"})]
  /\ overtaken \subseteq Chats
  /\ owed \in [Chats -> 0..Forever]
  /\ replaced \subseteq Chats

\* An answer that is not transient is the last one a call gets, and a call ends
\* by itself only with one, or when it has had all its attempts (retry.py:16).
OutcomeFollowsAnswers ==
  \A c \in Chats :
    LET n == Len(answers[c])
        Last == answers[c][n]
    IN  /\ \A i \in 1..(n - 1) : answers[c][i] \in {"limited", "unavailable"}
        /\ pc[c] = "backoff" =>
             n < MaxAttempts /\ Last \in {"limited", "unavailable"}
        /\ pc[c] = "done" <=> n > 0 /\ Last = "ok"
        /\ pc[c] = "failed" <=>
             n > 0 /\ (Last = "refused" \/ (Last # "ok" /\ n = MaxAttempts))

Sends(c) == pc[c] # "sent" /\ pc'[c] = "sent"

\* A request goes out during its provider's cooldown only when the cooldown was
\* set, by another call, after the request had read the gate: no call sends
\* into a cooldown it was told of.
SendsOnlyPastKnownCooldown ==
  [][\A c \in Chats :
       Sends(c) /\ cooldown[ProviderOf[c]] > 0 => c \in overtaken]_vars

\* A call that was rate limited sends again only when the delay its own 429
\* asked for (or the default, if it asked for none) has passed, unless another
\* call's 429 has replaced the cooldown: the promise of client.py:48-50 holds no
\* further than that.
HonoursOwnRetryAfter ==
  [][\A c \in Chats : Sends(c) /\ owed[c] > 0 => c \in replaced]_vars

\* A call that read a gate tripped for good: the next one to trip it may set a
\* shorter delay, but the sleep has been taken.
Stuck(c) == pc[c] = "sleeping" /\ timer[c] = Forever

\* Every call that is made ends: in a response, an error or a cancellation.
\* In particular no call starves at the gate, however often others trip it: it
\* sleeps once for each of its attempts, and then goes out.  The one exception
\* is a sleep that read Retry-After: inf, which nothing bounds (base.py:66).
EveryCallEnds ==
  \A c \in Chats : pc[c] # "idle" ~> pc[c] \in Ended \/ Stuck(c)

==============================================================================
