-------------------------- MODULE ChatClient_proofs --------------------------
(***************************************************************************)
(* What the gate and the retry loop guarantee every call, for every set of *)
(* calls and providers, every delay a 429 may ask for and every number of  *)
(* attempts.  Liveness (EveryCallEnds) is left to TLC.                     *)
(***************************************************************************)
EXTENDS ChatClient, TLAPS

Transient == {"limited", "unavailable"}

\* What the cooldown of a call's provider cannot have outgrown: the sleep of a
\* call nobody has overtaken, and the delay owed to a call nobody has replaced.
\* A sleeping call that was overtaken was replaced by the same 429.
GateInv ==
  \A c \in Chats :
    /\ pc[c] = "sleeping" => timer[c] <= Forever
    /\ pc[c] = "sleeping" /\ c \notin overtaken => cooldown[ProviderOf[c]] <= timer[c]
    /\ pc[c] = "sleeping" /\ c \in overtaken => c \in replaced
    /\ owed[c] > 0 /\ c \notin replaced => owed[c] <= cooldown[ProviderOf[c]]

\* A call's tries and its answers count the same attempts.
TriesInv ==
  \A c \in Chats :
    /\ pc[c] = "idle" => tries[c] = 0 /\ answers[c] = <<>>
    /\ pc[c] \in {"sleeping", "sent"} =>
         /\ tries[c] >= 1 /\ Len(answers[c]) = tries[c] - 1
         /\ \A i \in 1..Len(answers[c]) : answers[c][i] \in Transient
    /\ pc[c] = "backoff" =>
         /\ tries[c] < MaxAttempts /\ Len(answers[c]) = tries[c] /\ tries[c] >= 1
         /\ \A i \in 1..Len(answers[c]) : answers[c][i] \in Transient
    /\ pc[c] \in Ended =>
         /\ Len(answers[c]) <= tries[c]
         /\ \A i \in 1..(Len(answers[c]) - 1) : answers[c][i] \in Transient
    /\ pc[c] = "done" => Len(answers[c]) > 0 /\ answers[c][Len(answers[c])] = "ok"
    /\ pc[c] = "failed" =>
         /\ Len(answers[c]) > 0
         /\ \/ answers[c][Len(answers[c])] = "refused"
            \/ /\ answers[c][Len(answers[c])] \in Transient
               /\ Len(answers[c]) = MaxAttempts
    /\ pc[c] = "cancelled" =>
         /\ \A i \in 1..Len(answers[c]) : answers[c][i] \in Transient
         /\ Len(answers[c]) < MaxAttempts

Inv == TypeOK /\ TriesInv /\ GateInv

------------------------------------------------------------------------------

\* Before any call is made.
LEMMA InitInv == Init => Inv
BY ChatAssumption DEF Init, Inv, TypeOK, TriesInv, GateInv, Running, Ended

\* The head of an attempt, from idle or from a backoff that is over, keeps the
\* types, the tries and the gate: the call sleeps for exactly the cooldown.
LEMMA AttemptInv ==
  ASSUME Inv, NEW c \in Chats, Attempt(c), pc[c] \in {"idle", "backoff"}
  PROVE  Inv'
<1> DEFINE wait == cooldown[ProviderOf[c]]
<1>1. wait \in 0..Forever /\ Forever \in Nat
  BY ChatAssumption DEF Inv, TypeOK
<1>2. /\ tries' = [tries EXCEPT ![c] = @ + 1]
      /\ pc' = [pc EXCEPT ![c] = IF wait > 0 THEN "sleeping" ELSE "sent"]
      /\ timer' = [timer EXCEPT ![c] = wait]
      /\ overtaken' = overtaken \ {c}
      /\ UNCHANGED <<cooldown, answers, owed, replaced>>
  BY DEF Attempt
<1> HIDE DEF wait
<1>3. tries[c] \in Nat /\ tries[c] < MaxAttempts
  BY ChatAssumption DEF Inv, TypeOK, TriesInv
<1>4. TypeOK'
  BY <1>1, <1>2, <1>3, ChatAssumption DEF Inv, TypeOK, Running, Ended
<1>5. TriesInv'
  <2> SUFFICES ASSUME NEW d \in Chats PROVE TriesInv!(d)'
    BY DEF TriesInv
  <2>1. CASE d = c
    BY <1>2, <1>3, <2>1 DEF Inv, TypeOK, TriesInv, Ended
  <2>2. CASE d # c
    BY <1>2, <2>2 DEF Inv, TypeOK, TriesInv
  <2> QED BY <2>1, <2>2
<1>6. GateInv'
  <2> SUFFICES ASSUME NEW d \in Chats PROVE GateInv!(d)'
    BY DEF GateInv
  <2>1. CASE d = c
    BY <1>1, <1>2, <2>1 DEF Inv, TypeOK, GateInv, wait
  <2>2. CASE d # c
    BY <1>2, <2>2 DEF Inv, TypeOK, GateInv
  <2> QED BY <2>1, <2>2
<1> QED BY <1>4, <1>5, <1>6 DEF Inv

\* A call that stops running because nothing more will come: it is sent, or it
\* gives up, and nothing else changes.
LEMMA WakeInv == ASSUME Inv, NEW c \in Chats, Wake(c) PROVE Inv'
<1> USE DEF Wake, history
<1>1. TypeOK'
  BY DEF Inv, TypeOK, Running
<1>2. TriesInv'
  BY DEF Inv, TypeOK, TriesInv, Ended
<1>3. GateInv'
  BY DEF Inv, TypeOK, GateInv
<1> QED BY <1>1, <1>2, <1>3 DEF Inv

\* A cancelled call had fewer answers than attempts allowed.
LEMMA CancelInv == ASSUME Inv, NEW c \in Chats, Cancel(c) PROVE Inv'
<1> USE DEF Cancel, history
<1>1. TypeOK'
  BY DEF Inv, TypeOK, Ended
<1>2. TriesInv'
  <2> SUFFICES ASSUME NEW d \in Chats PROVE TriesInv!(d)'
    BY DEF TriesInv
  <2>1. CASE d = c
    BY <2>1, ChatAssumption DEF Inv, TypeOK, TriesInv, Ended, Running
  <2>2. CASE d # c
    BY <2>2 DEF Inv, TypeOK, TriesInv
  <2> QED BY <2>1, <2>2
<1>3. GateInv'
  BY DEF Inv, TypeOK, GateInv
<1> QED BY <1>1, <1>2, <1>3 DEF Inv

\* A unit of time keeps a delay a delay, and the order of two that are not
\* longer than Forever.
LEMMA LessDelay ==
  /\ \A n \in Nat : Less(n) \in Nat
  /\ \A n \in 0..Forever : Less(n) \in 0..Forever /\ Less(n) <= n
  /\ \A m, n \in 0..Forever : m <= n => Less(m) <= Less(n)
BY ChatAssumption DEF Less

\* The clock shortens the cooldown, the sleeps and the debts alike.
LEMMA TickInv == ASSUME Inv, Tick PROVE Inv'
<1>1. /\ cooldown' = [p \in Providers |-> Less(cooldown[p])]
      /\ timer' = [c \in Chats |-> Less(timer[c])]
      /\ owed' = [c \in Chats |-> Less(owed[c])]
      /\ UNCHANGED <<pc, tries, answers, overtaken, replaced>>
  BY DEF Tick
<1>2. TypeOK'
  BY <1>1, LessDelay DEF Inv, TypeOK
<1>3. TriesInv'
  BY <1>1 DEF Inv, TriesInv
<1>4. GateInv'
  <2> SUFFICES ASSUME NEW c \in Chats PROVE GateInv!(c)'
    BY DEF GateInv
  <2>1. /\ cooldown[ProviderOf[c]] \in 0..Forever /\ owed[c] \in 0..Forever
        /\ timer[c] \in Nat /\ Forever \in Nat
        /\ cooldown'[ProviderOf[c]] = Less(cooldown[ProviderOf[c]])
        /\ timer'[c] = Less(timer[c]) /\ owed'[c] = Less(owed[c])
    BY <1>1, ChatAssumption DEF Inv, TypeOK
  <2>2. Less(owed[c]) > 0 => owed[c] > 0
    BY <2>1, ChatAssumption DEF Less
  <2> QED BY <1>1, <2>1, <2>2, LessDelay DEF Inv, GateInv
<1> QED BY <1>2, <1>3, <1>4 DEF Inv

------------------------------------------------------------------------------
(* Answers.                                                                 *)

\* A call that was sent has one answer more, and is in a state that goes with it.
LEMMA AnsweredTries ==
  ASSUME Inv, NEW c \in Chats, NEW answer \in {"ok", "limited", "unavailable", "refused"},
         Answered(c, answer), pc' = [pc EXCEPT ![c] = pc'[c]],
         \/ answer = "ok" /\ pc'[c] = "done"
         \/ answer = "refused" /\ pc'[c] = "failed"
         \/ answer \in Transient /\ tries[c] < MaxAttempts /\ pc'[c] = "backoff"
         \/ answer \in Transient /\ tries[c] >= MaxAttempts /\ pc'[c] = "failed"
  PROVE  /\ TriesInv'
         /\ answers' \in [Chats -> Seq({"ok", "limited", "unavailable", "refused"})]
         /\ tries' \in [Chats -> 0..MaxAttempts]
         /\ pc' \in [Chats -> {"idle"} \cup Running \cup Ended]
<1> DEFINE All == {"ok", "limited", "unavailable", "refused"}
<1>1. /\ pc[c] = "sent" /\ tries' = tries
      /\ answers' = [answers EXCEPT ![c] = Append(@, answer)]
      /\ answers \in [Chats -> Seq(All)] /\ tries \in [Chats -> 0..MaxAttempts]
      /\ pc \in [Chats -> {"idle"} \cup Running \cup Ended]
      /\ MaxAttempts \in Nat
  BY ChatAssumption DEF Answered, Inv, TypeOK
<1>2. /\ answers' \in [Chats -> Seq(All)]
      /\ pc' \in [Chats -> {"idle"} \cup Running \cup Ended]
  <2>1. Append(answers[c], answer) \in Seq(All)
    BY <1>1
  <2>2. pc'[c] \in {"idle"} \cup Running \cup Ended
    BY DEF Running, Ended
  <2>3. pc' = [pc EXCEPT ![c] = pc'[c]]
    OBVIOUS
  <2>4. answers' \in [Chats -> Seq(All)]
    <3> HIDE DEF All
    <3> QED BY <1>1, <2>1
  <2>5. pc' \in [Chats -> {"idle"} \cup Running \cup Ended]
    <3> DEFINE States == {"idle"} \cup Running \cup Ended
               next == pc'[c]
    <3>1. pc' = [pc EXCEPT ![c] = next] /\ next \in States /\ pc \in [Chats -> States]
      BY <1>1, <2>2, <2>3
    <3> HIDE DEF States, next
    <3>2. pc' \in [Chats -> States]
      BY <3>1
    <3> QED BY <3>2 DEF States
  <2> QED BY <2>4, <2>5
<1>3. /\ answers[c] \in Seq(All) /\ tries[c] \in 0..MaxAttempts
      /\ tries[c] >= 1 /\ Len(answers[c]) = tries[c] - 1
      /\ \A i \in 1..Len(answers[c]) : answers[c][i] \in Transient
  BY <1>1 DEF Inv, TriesInv
<1>4. /\ Len(answers'[c]) = tries[c]
      /\ answers'[c][tries[c]] = answer
      /\ \A i \in 1..(tries[c] - 1) : answers'[c][i] \in Transient
  <2>1. answers'[c] = Append(answers[c], answer) /\ tries[c] \in Nat
    BY <1>1, <1>3
  <2> HIDE DEF All
  <2>2. Len(answers'[c]) = Len(answers[c]) + 1
          /\ answers'[c][Len(answers[c]) + 1] = answer
          /\ \A i \in 1..Len(answers[c]) : answers'[c][i] = answers[c][i]
    BY <1>3, <2>1
  <2> QED BY <1>3, <2>1, <2>2
<1>5. TriesInv'
  <2> SUFFICES ASSUME NEW d \in Chats PROVE TriesInv!(d)'
    BY DEF TriesInv
  <2>1. CASE d = c
    <3>1. CASE pc'[c] = "done"
      BY <1>1, <1>3, <1>4, <2>1, <3>1 DEF Ended, Transient
    <3>2. CASE pc'[c] = "failed"
      BY <1>1, <1>3, <1>4, <2>1, <3>2 DEF Ended, Transient
    <3>3. CASE pc'[c] = "backoff"
      BY <1>1, <1>3, <1>4, <2>1, <3>3 DEF Ended, Transient
    <3> QED BY <3>1, <3>2, <3>3
  <2>2. CASE d # c
    <3>1. pc'[d] = pc[d] /\ tries'[d] = tries[d] /\ answers'[d] = answers[d]
      BY <1>1, <2>2
    <3> QED BY <3>1 DEF Inv, TriesInv
  <2> QED BY <2>1, <2>2
<1> QED BY <1>1, <1>2, <1>5

\* A transient error leads to a backoff or to the end.
LEMMA TransientOutcome ==
  ASSUME Inv, NEW c \in Chats, AfterTransient(c)
  PROVE  /\ pc' = [pc EXCEPT ![c] = pc'[c]]
         /\ timer' \in [Chats -> Nat]
         /\ \/ tries[c] < MaxAttempts /\ pc'[c] = "backoff"
            \/ tries[c] >= MaxAttempts /\ pc'[c] = "failed"
         /\ \A d \in Chats \ {c} : timer'[d] = timer[d] /\ pc'[d] = pc[d]
<1>1. pc \in [Chats -> {"idle"} \cup Running \cup Ended] /\ timer \in [Chats -> Nat]
      /\ tries[c] \in Nat /\ MaxAttempts \in Nat
  BY ChatAssumption DEF Inv, TypeOK
<1>2. CASE tries[c] < MaxAttempts
  <2>1. PICK wait \in 0..Backoff(tries[c]) :
          /\ pc' = [pc EXCEPT ![c] = "backoff"]
          /\ timer' = [timer EXCEPT ![c] = wait]
    BY <1>2 DEF AfterTransient
  <2>2. wait \in Nat
    OBVIOUS
  <2> QED BY <1>1, <1>2, <2>1, <2>2
<1>3. CASE ~(tries[c] < MaxAttempts)
  BY <1>1, <1>3 DEF AfterTransient
<1> QED BY <1>2, <1>3

\* An answer that trips nothing leaves the gate as it was, for the calls that
\* sleep at it and for those it owes a delay.
LEMMA GateUndisturbed ==
  ASSUME Inv, NEW c \in Chats, pc'[c] # "sleeping",
         UNCHANGED <<cooldown, overtaken, owed, replaced>>,
         \A d \in Chats \ {c} : timer'[d] = timer[d] /\ pc'[d] = pc[d]
  PROVE  GateInv'
BY DEF Inv, GateInv

\* A response, or an error that is not retried.
LEMMA FinalInv ==
  ASSUME Inv, NEW c \in Chats, Succeed(c) \/ Refused(c)
  PROVE  Inv'
<1>1. CASE Succeed(c)
  <2>1. /\ Answered(c, "ok") /\ pc' = [pc EXCEPT ![c] = "done"]
        /\ UNCHANGED <<cooldown, timer, overtaken, owed, replaced>>
        /\ pc \in [Chats -> {"idle"} \cup Running \cup Ended]
    BY <1>1 DEF Succeed, Inv, TypeOK
  <2>2. pc'[c] = "done" /\ pc' = [pc EXCEPT ![c] = pc'[c]]
    BY <2>1
  <2>3. GateInv'
    BY <2>1, <2>2, GateUndisturbed
  <2> QED BY <2>1, <2>2, <2>3, AnsweredTries DEF Inv, TypeOK
<1>2. CASE Refused(c)
  <2>1. /\ Answered(c, "refused") /\ pc' = [pc EXCEPT ![c] = "failed"]
        /\ UNCHANGED <<cooldown, timer, overtaken, owed, replaced>>
        /\ pc \in [Chats -> {"idle"} \cup Running \cup Ended]
    BY <1>2 DEF Refused, Inv, TypeOK
  <2>2. pc'[c] = "failed" /\ pc' = [pc EXCEPT ![c] = pc'[c]]
    BY <2>1
  <2>3. GateInv'
    BY <2>1, <2>2, GateUndisturbed
  <2> QED BY <2>1, <2>2, <2>3, AnsweredTries DEF Inv, TypeOK
<1> QED BY <1>1, <1>2

\* A transient error that says nothing about when to come back.
LEMMA UnavailableInv == ASSUME Inv, NEW c \in Chats, Unavailable(c) PROVE Inv'
<1>1. /\ Answered(c, "unavailable") /\ AfterTransient(c)
      /\ UNCHANGED <<cooldown, overtaken, owed, replaced>>
  BY DEF Unavailable
<1>2. GateInv'
  BY <1>1, TransientOutcome, GateUndisturbed
<1>3. TriesInv' /\ TypeOK'
  BY <1>1, TransientOutcome, AnsweredTries DEF Inv, TypeOK, Transient
<1> QED BY <1>2, <1>3 DEF Inv

\* A 429 replaces the cooldown of its provider: the calls that share it are
\* overtaken and replaced, and those of other providers see no difference.
LEMMA RateLimitedInv == ASSUME Inv, NEW c \in Chats, RateLimited(c) PROVE Inv'
<1>1. PICK delay \in RetryAfters \cup {DefaultCooldown} :
        Answered(c, "limited") /\ Trip(c, delay) /\ AfterTransient(c)
  BY DEF RateLimited
<1>2. delay \in 0..Forever /\ Forever \in Nat
  BY ChatAssumption
<1> DEFINE p == ProviderOf[c]
           sharing == {d \in Chats \ {c} : ProviderOf[d] = p}
<1>3. /\ cooldown' = [cooldown EXCEPT ![p] = delay]
      /\ overtaken' = overtaken \cup sharing
      /\ owed' = [owed EXCEPT ![c] = delay]
      /\ replaced' = (replaced \cup sharing) \ {c}
  BY <1>1 DEF Trip
<1>4. /\ pc' = [pc EXCEPT ![c] = pc'[c]]
      /\ timer' \in [Chats -> Nat]
      /\ \/ tries[c] < MaxAttempts /\ pc'[c] = "backoff"
         \/ tries[c] >= MaxAttempts /\ pc'[c] = "failed"
      /\ \A d \in Chats \ {c} : timer'[d] = timer[d] /\ pc'[d] = pc[d]
  BY <1>1, TransientOutcome
<1>5. p \in Providers
  BY ChatAssumption
<1>6. TypeOK'
  <2>1. /\ cooldown' \in [Providers -> 0..Forever] /\ owed' \in [Chats -> 0..Forever]
        /\ overtaken' \subseteq Chats /\ replaced' \subseteq Chats
    BY <1>2, <1>3, <1>5 DEF Inv, TypeOK
  <2> QED BY <1>1, <1>4, <2>1, AnsweredTries DEF TypeOK, Transient
<1>7. TriesInv'
  BY <1>1, <1>4, AnsweredTries DEF Transient
<1>8. GateInv'
  <2> SUFFICES ASSUME NEW d \in Chats PROVE GateInv!(d)'
    BY DEF GateInv
  <2>1. CASE d = c
    <3>1. pc'[c] # "sleeping" /\ owed'[c] = delay /\ cooldown'[p] = delay
      BY <1>3, <1>4, <1>5 DEF Inv, TypeOK
    <3> QED BY <1>2, <2>1, <3>1
  <2>2. CASE d # c /\ ProviderOf[d] = p
    <3>1. /\ d \in overtaken' /\ d \in replaced'
          /\ pc'[d] = pc[d] /\ timer'[d] = timer[d]
      BY <1>3, <1>4, <2>2
    <3> QED BY <3>1 DEF Inv, GateInv
  <2>3. CASE d # c /\ ProviderOf[d] # p
    <3>1. /\ cooldown'[ProviderOf[d]] = cooldown[ProviderOf[d]]
          /\ owed'[d] = owed[d] /\ pc'[d] = pc[d] /\ timer'[d] = timer[d]
          /\ d \in overtaken' <=> d \in overtaken
          /\ d \in replaced' <=> d \in replaced
      BY <1>3, <1>4, <2>3, ChatAssumption DEF Inv, TypeOK
    <3> QED BY <3>1 DEF Inv, GateInv
  <2> QED BY <2>1, <2>2, <2>3
<1> QED BY <1>6, <1>7, <1>8 DEF Inv

------------------------------------------------------------------------------

\* The invariant is inductive.
LEMMA NextInv == Inv /\ [Next]_vars => Inv'
<1> SUFFICES ASSUME Inv, [Next]_vars PROVE Inv'
  OBVIOUS
<1>1. ASSUME NEW c \in Chats, Start(c) PROVE Inv'
  BY <1>1, AttemptInv DEF Start
<1>2. ASSUME NEW c \in Chats, Wake(c) PROVE Inv'
  BY <1>2, WakeInv
<1>3. ASSUME NEW c \in Chats, Answer(c) PROVE Inv'
  BY <1>3, FinalInv, RateLimitedInv, UnavailableInv DEF Answer
<1>4. ASSUME NEW c \in Chats, Retry(c) PROVE Inv'
  BY <1>4, AttemptInv DEF Retry
<1>5. ASSUME NEW c \in Chats, Cancel(c) PROVE Inv'
  BY <1>5, CancelInv
<1>6. CASE Tick
  BY <1>6, TickInv
<1>7. CASE UNCHANGED vars
  BY <1>7 DEF vars, history, Inv, TypeOK, TriesInv, GateInv
<1> QED BY <1>1, <1>2, <1>3, <1>4, <1>5, <1>6, <1>7 DEF Next

\* Types, answers and the gate, in every reachable state.
THEOREM Invariant == Spec => []Inv
BY InitInv, NextInv, PTL DEF Spec

\* No call makes more than MaxAttempts attempts, and every variable keeps its
\* type.
THEOREM TypeCorrect == Spec => []TypeOK
BY Invariant, PTL DEF Inv

\* Only transient errors are retried, and a call fails only for an error that
\* is not transient or when all its attempts are spent.
THEOREM OutcomesFollow == Spec => []OutcomeFollowsAnswers
<1>1. Inv => OutcomeFollowsAnswers
  <2> SUFFICES ASSUME Inv, NEW c \in Chats PROVE OutcomeFollowsAnswers!(c)
    BY DEF OutcomeFollowsAnswers
  <2>1. /\ answers[c] \in Seq({"ok", "limited", "unavailable", "refused"})
        /\ Len(answers[c]) \in Nat /\ tries[c] \in 0..MaxAttempts /\ MaxAttempts \in Nat
        /\ pc[c] \in {"idle"} \cup Running \cup Ended
    BY ChatAssumption DEF Inv, TypeOK
  <2>2. TriesInv!(c)
    BY DEF Inv, TriesInv
  <2> DEFINE n == Len(answers[c])
             Last == answers[c][n]
  <2>3. n > 0 => Last \in {"ok", "limited", "unavailable", "refused"}
    BY <2>1
  <2>4. \A i \in 1..(n - 1) : answers[c][i] \in Transient
    BY <2>1, <2>2 DEF Running, Ended
  <2>5. pc[c] = "backoff" => n < MaxAttempts /\ Last \in Transient
    BY <2>1, <2>2
  <2>6. pc[c] = "done" <=> n > 0 /\ Last = "ok"
    BY <2>1, <2>2 DEF Running, Ended, Transient
  <2>7. pc[c] = "failed" <=> n > 0 /\ (Last = "refused" \/ (Last # "ok" /\ n = MaxAttempts))
    BY <2>1, <2>2, <2>3 DEF Running, Ended, Transient
  <2> HIDE DEF n, Last
  <2> QED BY <2>4, <2>5, <2>6, <2>7 DEF Transient, n, Last
<1> QED BY <1>1, Invariant, PTL

\* A call's attempt goes out in one of two ways.
LEMMA SendsAre ==
  ASSUME Inv, [Next]_vars, NEW c \in Chats, Sends(c)
  PROVE  \/ pc[c] = "sleeping" /\ timer[c] = 0
         \/ cooldown[ProviderOf[c]] = 0
<1> USE DEF Sends, Inv, TypeOK
<1>1. ASSUME NEW d \in Chats, Attempt(d)
      PROVE  cooldown[ProviderOf[c]] = 0
  <2>1. d = c /\ ~(cooldown[ProviderOf[c]] > 0)
    BY <1>1 DEF Attempt
  <2> QED BY <2>1, ChatAssumption
<1>2. ASSUME NEW d \in Chats, Wake(d)
      PROVE  pc[c] = "sleeping" /\ timer[c] = 0
  BY <1>2 DEF Wake
<1>3. ASSUME NEW d \in Chats, Answer(d)
      PROVE  FALSE
  BY <1>3, TransientOutcome DEF Answer, Succeed, Refused, RateLimited, Unavailable, Answered
<1>4. ASSUME NEW d \in Chats, Cancel(d)
      PROVE  FALSE
  BY <1>4 DEF Cancel
<1>5. CASE Tick \/ UNCHANGED vars
  BY <1>5 DEF Tick, vars
<1> QED BY <1>1, <1>2, <1>3, <1>4, <1>5 DEF Next, Start, Retry

\* What a step may send: nothing into a cooldown set before the gate was read, nor
\* before the delay of the call's own last 429 is over.
LEMMA SendsPastKnownCooldown ==
  ASSUME Inv, [Next]_vars, NEW c \in Chats, Sends(c), cooldown[ProviderOf[c]] > 0
  PROVE  c \in overtaken
<1>1. cooldown[ProviderOf[c]] \in Nat /\ timer[c] \in Nat
  BY ChatAssumption DEF Inv, TypeOK
<1> QED BY <1>1, SendsAre DEF Inv, GateInv

LEMMA SendsPastOwnDelay ==
  ASSUME Inv, [Next]_vars, NEW c \in Chats, Sends(c), owed[c] > 0
  PROVE  c \in replaced
<1>1. cooldown[ProviderOf[c]] \in Nat /\ timer[c] \in Nat /\ owed[c] \in Nat
  BY ChatAssumption DEF Inv, TypeOK
<1> QED BY <1>1, SendsAre DEF Inv, GateInv

\* No request goes out into a cooldown that was set before it read the gate.
THEOREM NoSendIntoKnownCooldown == Spec => SendsOnlyPastKnownCooldown
<1>1. Inv /\ [Next]_vars =>
        [\A c \in Chats :
           Sends(c) /\ cooldown[ProviderOf[c]] > 0 => c \in overtaken]_vars
  BY SendsPastKnownCooldown
<1> QED BY <1>1, Invariant, PTL DEF Spec, SendsOnlyPastKnownCooldown

\* No request goes out before the delay its own last 429 set is over, unless
\* another call's 429 has replaced it.
THEOREM OwnRetryAfterHonoured == Spec => HonoursOwnRetryAfter
<1>1. Inv /\ [Next]_vars =>
        [\A c \in Chats : Sends(c) /\ owed[c] > 0 => c \in replaced]_vars
  BY SendsPastOwnDelay
<1> QED BY <1>1, Invariant, PTL DEF Spec, HonoursOwnRetryAfter

------------------------------------------------------------------------------
(* Why every call ends.                                                     *)

\* What a call has still to do, in awaits: three for each attempt it has left, and
\* those of the one it is in.
WorkLeft(c) ==
  IF pc[c] \in Ended THEN 0
  ELSE 3 * (MaxAttempts - tries[c]) +
       (CASE pc[c] = "sleeping" -> 2 [] pc[c] = "sent" -> 1 [] OTHER -> 0)

\* However the calls are interleaved, and whatever they are answered, a call that
\* moves has less to do than before, and one that does not, as much: nobody else's
\* 429 sends a call back to the gate it has passed (client.py:55-57).  So a call
\* takes at most 3 * MaxAttempts steps; that it takes them is the fairness TLC
\* checks EveryCallEnds with.
WorkShrinks ==
  [][\A c \in Chats :
       /\ WorkLeft(c) \in Nat
       /\ IF pc'[c] = pc[c] THEN WorkLeft(c)' = WorkLeft(c)
          ELSE WorkLeft(c)' < WorkLeft(c)]_vars

\* The awaits an attempt begins are among those it had left.
LEMMA AttemptWorks ==
  ASSUME Inv, NEW d \in Chats, Attempt(d), pc[d] \in {"idle", "backoff"}
  PROVE  /\ pc'[d] # pc[d] /\ WorkLeft(d)' < WorkLeft(d)
         /\ \A c \in Chats \ {d} : pc'[c] = pc[c] /\ tries'[c] = tries[c]
<1>1. /\ pc \in [Chats -> {"idle"} \cup Running \cup Ended]
      /\ tries \in [Chats -> 0..MaxAttempts] /\ MaxAttempts \in Nat
  BY ChatAssumption DEF Inv, TypeOK
<1>2. /\ pc'[d] \in {"sleeping", "sent"} /\ tries'[d] = tries[d] + 1
      /\ \A c \in Chats \ {d} : pc'[c] = pc[c] /\ tries'[c] = tries[c]
  BY <1>1 DEF Attempt
<1>3. WorkLeft(d) = 3 * (MaxAttempts - tries[d])
  BY <1>1 DEF WorkLeft, Ended
<1>4. \E awaits \in 1..2 : WorkLeft(d)' = 3 * (MaxAttempts - (tries[d] + 1)) + awaits
  BY <1>1, <1>2 DEF WorkLeft, Ended
<1> QED BY <1>1, <1>2, <1>3, <1>4

\* Any other await is one of the attempt a call is in.
LEMMA MoveWorks ==
  ASSUME Inv, NEW d \in Chats, Wake(d) \/ Answer(d) \/ Cancel(d)
  PROVE  /\ pc'[d] # pc[d] /\ WorkLeft(d)' < WorkLeft(d)
         /\ \A c \in Chats \ {d} : pc'[c] = pc[c] /\ tries'[c] = tries[c]
<1>1. /\ pc \in [Chats -> {"idle"} \cup Running \cup Ended]
      /\ tries \in [Chats -> 0..MaxAttempts] /\ MaxAttempts \in Nat
  BY ChatAssumption DEF Inv, TypeOK
<1>2. pc[d] = "backoff" => tries[d] < MaxAttempts
  BY DEF Inv, TriesInv
<1>3. /\ tries' = tries
      /\ \A c \in Chats \ {d} : pc'[c] = pc[c]
      /\ \/ pc[d] = "sleeping" /\ pc'[d] = "sent"
         \/ pc[d] = "sent" /\ pc'[d] \in {"backoff"} \cup Ended
         \/ pc[d] \in Running /\ pc'[d] \in Ended
  <2>1. CASE Wake(d)
    BY <1>1, <2>1 DEF Wake
  <2>2. CASE Answer(d)
    <3>1. pc[d] = "sent" /\ tries' = tries
      BY <2>2 DEF Answer, Succeed, RateLimited, Unavailable, Refused, Answered
    <3>2. CASE AfterTransient(d)
      <4>1. /\ pc'[d] \in {"backoff", "failed"}
            /\ \A c \in Chats \ {d} : pc'[c] = pc[c]
        BY <3>2, TransientOutcome
      <4> QED BY <3>1, <4>1 DEF Ended
    <3>3. CASE Succeed(d) \/ Refused(d)
      BY <1>1, <3>1, <3>3 DEF Succeed, Refused, Ended
    <3> QED BY <2>2, <3>2, <3>3 DEF Answer, RateLimited, Unavailable
  <2>3. CASE Cancel(d)
    BY <1>1, <2>3 DEF Cancel, Ended
  <2> QED BY <2>1, <2>2, <2>3
<1>4. CASE pc[d] = "sleeping" /\ pc'[d] = "sent"
  BY <1>1, <1>3, <1>4 DEF WorkLeft, Ended
<1>5. CASE pc[d] = "sent" /\ pc'[d] = "backoff"
  BY <1>1, <1>3, <1>5 DEF WorkLeft, Ended
<1>6. CASE pc[d] \in Running /\ pc'[d] \in Ended
  <2>1. WorkLeft(d)' = 0 /\ pc'[d] # pc[d]
    BY <1>6 DEF WorkLeft, Running, Ended
  <2>2. WorkLeft(d) > 0
    BY <1>1, <1>2, <1>6 DEF WorkLeft, Running, Ended
  <2> QED BY <1>3, <2>1, <2>2
<1> QED BY <1>3, <1>4, <1>5, <1>6 DEF Running

\* The safety half of EveryCallEnds: a call cannot go round for ever.
THEOREM EveryCallGetsNearer == Spec => WorkShrinks
<1> DEFINE Shrinks ==
      \A c \in Chats :
        /\ WorkLeft(c) \in Nat
        /\ IF pc'[c] = pc[c] THEN WorkLeft(c)' = WorkLeft(c)
           ELSE WorkLeft(c)' < WorkLeft(c)
<1>1. Inv /\ [Next]_vars => [Shrinks]_vars
  <2> SUFFICES ASSUME Inv, Next PROVE Shrinks
    OBVIOUS
  <2> HIDE DEF Shrinks
  <2>1. \A c \in Chats : WorkLeft(c) \in Nat
    BY ChatAssumption DEF Inv, TypeOK, WorkLeft
  <2>2. ASSUME NEW d \in Chats, pc'[d] # pc[d], WorkLeft(d)' < WorkLeft(d),
               \A c \in Chats \ {d} : pc'[c] = pc[c] /\ tries'[c] = tries[c]
        PROVE  Shrinks
    <3>1. \A c \in Chats \ {d} : WorkLeft(c)' = WorkLeft(c)
      BY <2>2 DEF WorkLeft
    <3> QED BY <2>1, <2>2, <3>1 DEF Shrinks
  <2>3. ASSUME NEW d \in Chats, Start(d) \/ Retry(d)
        PROVE  Shrinks
    <3>1. Attempt(d) /\ pc[d] \in {"idle", "backoff"}
      BY <2>3 DEF Start, Retry
    <3> QED BY <3>1, <2>2, AttemptWorks
  <2>4. ASSUME NEW d \in Chats, Wake(d) \/ Answer(d) \/ Cancel(d)
        PROVE  Shrinks
    BY <2>2, <2>4, MoveWorks
  <2>5. CASE Tick
    BY <2>1, <2>5 DEF Tick, WorkLeft, Shrinks
  <2> QED BY <2>3, <2>4, <2>5 DEF Next
<1> QED BY <1>1, Invariant, PTL DEF Spec, WorkShrinks

==============================================================================
