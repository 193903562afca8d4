-------------------------------- MODULE Agent --------------------------------
(***************************************************************************)
(* Concurrent requests to POST /agent/run (app/routers/agent.py) in one    *)
(* process: each is a session with a tool step, a retrieval step and a     *)
(* model call made through the process's one ChatClient, whose throttle    *)
(* and provider the requests share.                                        *)
(*                                                                         *)
(* Composes ChatClient, for the retry loop, with ProviderCall, for what a  *)
(* reply means, and Detection, for what the session's spans make the       *)
(* detectors report.  Each session generates its id, so its scratch space  *)
(* is its own; Sessions has the registry the spaces live in.               *)
(***************************************************************************)
EXTENDS Detection, ProviderCall, FiniteSets

CONSTANTS
  Requests,         \* requests to the route
  Setting,          \* settings.llm_provider, as each request reads it
  ToolFails,        \* whether a prompt makes the tool fail: a set of BOOLEANs each
  Replies,          \* what each request's provider may reply to it
  DefaultCooldown,  \* InMemoryThrottle(default_cooldown)
  MaxAttempts,      \* settings.llm_max_retry_attempts
  MaxWait           \* retry_with_backoff(max_wait)

VARIABLES
  cooldown, pc, timer, tries, answers, overtaken, owed, replaced,  \* ChatClient
  scratch,   \* each session's scratch space
  reports,   \* the types each session's spans were marked with
  observed,  \* what the session-cost histogram got for each session, in order
  errors,    \* the error.type values on each session's spans, by kind of span
  status,    \* the HTTP status of each response
  \* History, for the properties only:
  replied    \* the last reply of the provider to each request

chat == <<cooldown, pc, timer, tries, answers, overtaken, owed, replaced>>
session == <<scratch, reports, observed, errors, status, replied>>
vars == <<chat, session>>

Names == {Setting[r] : r \in Requests}

\* The delays a 429 may ask for.
Delays ==
  {RetryAfter(reply) : reply \in UNION {Replies[r] : r \in Requests}} \ {Absent, Unreadable}

Chat == INSTANCE ChatClient WITH
  Chats <- Requests,
  Providers <- Names,
  ProviderOf <- Setting,
  RetryAfters <- Delays

\* The names of exceptions that spans record.
Classes == {"SchemeIndexUnavailable", "ProviderConfigError", "ProviderClientError",
            "ProviderError", "RateLimitError", "KeyError", "ValueError", "HTTPException"}

Kinds == {"tool", "retrieval", "attempt", "model", "session"}

Init ==
  /\ Chat!Init
  /\ scratch = [r \in Requests |-> Fresh]
  /\ reports = [r \in Requests |-> {}]
  /\ observed = [r \in Requests |-> <<>>]
  /\ errors = [r \in Requests |-> {}]
  /\ status = [r \in Requests |-> Absent]
  /\ replied = [r \in Requests |-> Absent]

------------------------------------------------------------------------------
(* Spans.                                                                   *)

\* A span that is about to end, with the class of the exception that ends it.
Ending(kind, call, outcome, cost, error) ==
  [span |-> [kind |-> kind, call |-> call, outcome |-> outcome, cost |-> cost],
   error |-> error]

Returning(kind, cost) == Ending(kind, NoCall, "returned", cost, Absent)
Raising(kind, error) == Ending(kind, NoCall, "raised", 0, error)
Cancelled(kind) == Ending(kind, NoCall, "cancelled", 0, Absent)

\* What the spans of request r that have ended so far amount to.
SoFar(r) == [scratch |-> scratch[r], reports |-> reports[r], errors |-> errors[r]]

\* One more span ends: the detectors are consulted and its error is recorded.
After(trail, ending) ==
  LET result == IF ending.span.kind = "session"
                THEN RunSession(trail.scratch, ending.span)
                ELSE RunSpan(trail.scratch, ending.span)
  IN  [scratch |-> result.state,
       reports |-> trail.reports \cup ({result.emitted} \ {None}),
       errors  |-> trail.errors \cup
                     ({<<ending.span.kind, ending.error>>} \ {<<ending.span.kind, Absent>>})]

\* The detections and the errors the spans of the trail were marked with.
Mark(r, trail) ==
  /\ reports' = [reports EXCEPT ![r] = trail.reports]
  /\ errors' = [errors EXCEPT ![r] = trail.errors]

\* Spans of request r have ended, in the order of the trail.
End(r, trail) ==
  /\ Mark(r, trail)
  /\ scratch' = [scratch EXCEPT ![r] = trail.scratch]
  /\ UNCHANGED observed

\* The session span was the last of them: its total is recorded, and the scratch
\* space released.
EndSession(r, trail) ==
  /\ Mark(r, trail)
  /\ scratch' = [scratch EXCEPT ![r] = Fresh]
  /\ observed' = [observed EXCEPT ![r] =
                    IF trail.scratch.cost = 0 THEN @ ELSE Append(@, trail.scratch.cost)]

\* What record_usage puts on the model span.
Charge(r, reply) ==
  LET cost == CostEquivalent(Setting[r], Usage(Setting[r], reply.usage))
  IN  IF cost = Absent THEN 0 ELSE cost

\* The costs are natural numbers: a total includes the prompt it is the total of.
ASSUME AgentAssumption ==
  /\ Setting \in [Requests -> Names]
  /\ ToolFails \in [Requests -> SUBSET BOOLEAN]
  /\ MaxAttempts \in Nat \ {0}
  /\ {DefaultCooldown, MaxWait} \subseteq 0..(Forever - 1)
  /\ Absent \notin Classes
  /\ 0 \in Costs
  /\ \A r \in Requests : \A reply \in Replies[r] :
       reply # Absent /\ IsReply(reply) /\ Charge(r, reply) \in Costs

------------------------------------------------------------------------------
(* The route.                                                               *)

\* The except clauses: each class of chat error has a status, and what is
\* none of them is the framework's to answer.
HttpStatus(error) ==
  CASE error = "ProviderConfigError" -> 500
    [] error = "ProviderClientError" -> 400
    [] error \in Transient           -> 502
    [] OTHER                         -> 500

\* What no except clause names: a body without the fields, a delay that is no number.
Unforeseen == {"KeyError", "ValueError"}

\* The HTTPException is raised inside the session block.
Converted(error) == IF error \in Unforeseen THEN error ELSE "HTTPException"

\* Mutant: the mapping is moved out of the session block, the error caught in it.
FailAfterSession(r, trail, error) ==
  /\ EndSession(r, After(trail, Returning("session", 0)))
  /\ status' = [status EXCEPT ![r] = HttpStatus(error)]

\* The call has raised for good, and the session ends with it.
Fail(r, trail, error) ==
  /\ EndSession(r, After(trail, Raising("session", Converted(error))))
  /\ status' = [status EXCEPT ![r] = HttpStatus(error)]

\* The tool and the retrieval, up to the call of complete().  The tool's
\* failure is suppressed.
Steps(r, call, toolFails) ==
  LET tool == Ending("tool", call, IF toolFails THEN "raised" ELSE "returned", 0,
                     IF toolFails THEN "SchemeIndexUnavailable" ELSE Absent)
  IN  After(After(SoFar(r), tool), Returning("retrieval", 0))

\* The request comes in, and the model call is made.
Begin(r, call, toolFails) ==
  /\ status[r] = Absent /\ Setting[r] \in Registered
  /\ Chat!Start(r)
  /\ End(r, Steps(r, call, toolFails))
  /\ UNCHANGED <<status, replied>>

\* get_provider refuses a name it does not know, before there is a model span.
BeginUnknown(r, call, toolFails) ==
  /\ status[r] = Absent /\ Setting[r] \notin Registered
  /\ Fail(r, Steps(r, call, toolFails), "ProviderConfigError")
  /\ UNCHANGED <<chat, replied>>

\* The route has answered: the attempt, the model span and the session have returned.
Succeeded(r, attempt, model) ==
  /\ EndSession(r, After(After(After(SoFar(r), Returning("attempt", attempt)),
                               Returning("model", model)),
                         Returning("session", 0)))
  /\ status' = [status EXCEPT ![r] = 200]

\* Mutant: the usage is recorded inside each attempt as well.
RespondRecordingTwice(r, reply) ==
  Chat!Succeed(r) /\ Succeeded(r, Charge(r, reply), Charge(r, reply))

\* The usage is recorded on the model span, whose attempts have ended by then.
Respond(r, reply) ==
  Chat!Succeed(r) /\ Succeeded(r, 0, Charge(r, reply))

\* The attempt raised: a transient error may be retried, the rest end the call.
Raise(r, reply, error) ==
  /\ CASE error = "RateLimitError" ->
            /\ Chat!RateLimited(r)
            /\ cooldown'[Setting[r]] =
                 IF RetryAfter(reply) = Absent THEN DefaultCooldown ELSE RetryAfter(reply)
       [] error = "ProviderError" -> Chat!Unavailable(r)
       [] OTHER                   -> Chat!Refused(r)
  /\ LET tried == After(SoFar(r), Raising("attempt", error))
     IN  IF pc'[r] = "failed"
         THEN Fail(r, After(tried, Raising("model", error)), error)
         ELSE End(r, tried) /\ UNCHANGED status

\* The provider replies, or the attempt to call it fails.
Receive(r, reply) ==
  LET error == Raises(reply)
  IN  /\ pc[r] = "sent"
      /\ IF error = Absent THEN Respond(r, reply) ELSE Raise(r, reply, error)
      /\ replied' = [replied EXCEPT ![r] = reply]

\* The throttle sleep or the backoff of a request's call is over.
Resume(r) ==
  /\ Chat!Wake(r) \/ Chat!Retry(r)
  /\ UNCHANGED session

\* The request's task is cancelled: no reply is sent.
Cancel(r) ==
  /\ Chat!Cancel(r)
  /\ LET tried == IF pc[r] = "sent" THEN After(SoFar(r), Cancelled("attempt"))
                  ELSE SoFar(r)
     IN  EndSession(r, After(After(tried, Cancelled("model")), Cancelled("session")))
  /\ UNCHANGED <<status, replied>>

Tick == Chat!Tick /\ UNCHANGED session

Next ==
  \/ \E r \in Requests, call \in Calls : \E toolFails \in ToolFails[r] :
       Begin(r, call, toolFails) \/ BeginUnknown(r, call, toolFails)
  \/ \E r \in Requests : \E reply \in Replies[r] : Receive(r, reply)
  \/ \E r \in Requests : Resume(r) \/ Cancel(r)
  \/ Tick

\* Every step of a request that changes its call is a step of the call, so the
\* fairness is that of the calls.
Spec == Init /\ [][Next]_vars /\ Chat!Fairness

------------------------------------------------------------------------------
(* Properties                                                               *)

TypeOK ==
  /\ Chat!TypeOK
  /\ scratch \in [Requests -> Scratch]
  /\ reports \in [Requests -> SUBSET Types]
  /\ observed \in [Requests -> Seq(Nat \ {0})]
  /\ errors \in [Requests -> SUBSET (Kinds \X Classes)]
  /\ status \in [Requests -> {Absent, 200, 400, 500, 502}]
  /\ DOMAIN replied = Requests
  /\ \A r \in Requests : replied[r] \in Replies[r] \cup {Absent}

\* A 429 whose only word of a delay is one in its message that is no number,
\* "retry in 1.2.3s": base.py:98 raises ValueError on it.
Garbled(reply) ==
  /\ reply.status = 429 /\ reply.body /\ reply.message = Unreadable
  /\ reply.header \in {Absent, Unreadable}
  /\ \A i \in DOMAIN reply.details : reply.details[i] \in {Absent, Unreadable}

\* The status of a response says whose fault a failure was, whatever happened on
\* the way to it: 502 only when every attempt the retry loop allows was spent on
\* errors that may pass, 400 only when the provider refused the request itself,
\* 500 when the answer, or the wait a rate limit asks for, could not be read.
StatusTellsTheFault ==
  \A r \in Requests : status[r] # Absent =>
    LET given  == IF replied[r] = Absent THEN Absent ELSE replied[r].status
    IN  /\ given = Absent => status[r] = 500
        /\ given \in {0, 429} \cup 500..599 =>
             IF given = 429 /\ Garbled(replied[r]) THEN status[r] = 500
             ELSE status[r] = 502 /\ Len(answers[r]) = MaxAttempts
        /\ given \in 400..499 \ {429} => status[r] = 400
        /\ given \in 200..399 =>
             status[r] = IF replied[r].body THEN 200 ELSE 500

\* What tests/llm/test_retry_after.py:97-98 asks of a rate limit: that reading it
\* does not turn a 429, which may pass, into an exception nobody handles.
RateLimitIsTransient ==
  \A r \in Requests :
    status[r] # Absent /\ replied[r] # Absent /\ replied[r].status = 429 => status[r] = 502

\* A total is what a provider bills that itemises less than it charges (base.py:105).
TotalCounts(r) ==
  LET usage == replied[r].usage
  IN  /\ usage.total # Absent /\ Setting[r] \in TotalAware
      /\ usage.completion = Absent \/ usage.total > usage.prompt + usage.completion

\* What a reply was worth: nothing unless the price and both counts are known.
Owed(r) ==
  LET usage  == replied[r].usage
      price  == ListPrices[Setting[r]]
      output == IF TotalCounts(r) THEN usage.total - usage.prompt ELSE usage.completion
  IN  IF \/ Setting[r] \notin DOMAIN ListPrices \/ usage.prompt = Absent
         \/ output = Absent \/ Absent \in {price.input, price.output}
      THEN 0 ELSE usage.prompt * price.input + output * price.output

\* A session's cost is what the one answer it got was worth, observed once when
\* it ended: not again for the span inside the model span, not for the attempts
\* that failed, not missing the tokens only the total shows, and not at all when
\* what it was worth is not known.
SessionCostsItsAnswer ==
  \A r \in Requests :
    observed[r] = IF status[r] # 200 \/ Owed(r) = 0 THEN <<>> ELSE <<Owed(r)>>

\* Of a request that got a response: the tool failure is reported exactly when
\* the route answered over it, and never when the caller was told of an error;
\* retries are reported exactly when enough attempts failed.
ReportsMatchOutcome ==
  \A r \in Requests : status[r] # Absent =>
    /\ "silent_tool_failure" \in reports[r] <=>
         status[r] = 200 /\ \E e \in errors[r] : e[1] = "tool"
    /\ "retry_amplification" \in reports[r] <=>
         Cardinality({i \in DOMAIN answers[r] : answers[r][i] # "ok"}) >= RetryThreshold

\* Every request that was begun is answered or cancelled, however often those it
\* shares the throttle with trip it; unless it went to sleep for ever at a gate
\* tripped by Retry-After: inf.
EveryRequestAnswered ==
  \A r \in Requests :
    pc[r] # "idle" ~> status[r] # Absent \/ pc[r] = "cancelled" \/ Chat!Stuck(r)

\* What the trace of a failed request shows (agent.py:68-70 has it the other way
\* round for the session span): the session is marked failed but with the class the
\* route converted the error to, unless it did not foresee it, so the class that
\* explains the failure is found on the model span, and nowhere when the name was
\* unknown and there is none.
FailureTraceable ==
  \A r \in Requests : status[r] \in {400, 500, 502} =>
    LET On(kind) == {e[2] : e \in {f \in errors[r] : f[1] = kind}}
        why == IF replied[r] = Absent THEN "ProviderConfigError" ELSE Raises(replied[r])
    IN  /\ On("session") =
             {IF why \in {"KeyError", "ValueError"} THEN why ELSE "HTTPException"}
        /\ why \in On("model") <=> Setting[r] \in Registered

==============================================================================
