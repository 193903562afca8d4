----------------------------- MODULE ProviderCall -----------------------------
(***************************************************************************)
(* One call of a provider, as pure operators: which names are providers    *)
(* (llm/providers/registry.py), what an HTTP reply means, how long a 429   *)
(* asks to wait, how many tokens a response used (llm/providers/base.py)   *)
(* and what they cost (spanlight/_usage.py).                               *)
(***************************************************************************)
EXTENDS Integers, Sequences

CONSTANTS
  Absent,      \* a header or field that is absent, a value that is not known
  Unreadable,  \* a text float() refuses, an HTTP date for instance
  NaN, Inf,    \* the texts "nan" and "inf", which float() accepts
  Forever,     \* the delay Inf stands for
  Quotas,      \* the entries of quotas.yaml
  TotalAware,  \* the entries with usage_parser: total_aware
  ListPrices   \* list_prices.yaml: name -> [input, output], Absent for null

ASSUME ProviderAssumption ==
  /\ Forever \in Nat \ {0}
  /\ TotalAware \subseteq Quotas
  /\ Absent \notin Int \cup {Unreadable, NaN, Inf}
  /\ Unreadable \notin Int
  /\ \A name \in DOMAIN ListPrices :
       {ListPrices[name].input, ListPrices[name].output} \subseteq Nat \cup {Absent}

\* load_providers: the mock is always there.
Registered == Quotas \cup {"mock"}

\* Of a 429: the Retry-After header, the retryDelay of each RetryInfo in
\* error.details, and the delay in the message, with its unit.  "status" 0 is
\* a request that got no reply (httpx.RequestError, a timeout among them),
\* Absent one that was not made because the provider's key is not set; "body"
\* tells whether the body is JSON with the fields the code indexes.
Reply(status, body, header, details, message, unit, usage) ==
  [status |-> status, body |-> body, header |-> header, details |-> details,
   message |-> message, unit |-> unit, usage |-> usage]

NoUsage == [prompt |-> Absent, completion |-> Absent, total |-> Absent]

------------------------------------------------------------------------------

\* What the throttle makes of a delay: never a wait for nan, since nan > 0 is
\* false, nor for a negative number; and a wait that is never over for inf.
Delay(text) ==
  IF text = Inf THEN Forever
  ELSE IF text = NaN THEN 0
  ELSE IF text < 0 THEN 0 ELSE text

\* The message's delay in whole units of the model's clock (seconds).
InMessage(reply) ==
  IF reply.message \in Int /\ reply.unit = "ms"
  THEN (reply.message + 999) \div 1000
  ELSE reply.message

\* What an endpoint may reply: a status httpx gives a response, delays the model's
\* clock can tell from Forever, counts of tokens.
IsReply(reply) ==
  LET Text == {Absent, Unreadable, NaN, Inf} \cup {n \in Int : n < Forever}
  IN  /\ reply.status \in {Absent, 0} \cup 200..599
      /\ reply.body \in BOOLEAN
      /\ reply.header \in Text /\ reply.details \in Seq(Text)
      /\ InMessage(reply) \in Text
      /\ {reply.usage.prompt, reply.usage.completion, reply.usage.total}
           \subseteq Nat \cup {Absent}

\* The fields of a 429 that may say how long to wait, in the order they are read.
Asked(reply) == <<reply.header>> \o (IF reply.body THEN reply.details ELSE <<>>)

\* The first of them that is there and is a number; else what the message has,
\* number or not: it is searched for digits and dots, and what it has of them is
\* read outside any try.
FirstGiven(asked, inMessage) ==
  LET given == {i \in DOMAIN asked : asked[i] \notin {Absent, Unreadable}}
  IN  IF given = {} THEN inMessage
      ELSE asked[CHOOSE i \in given : \A j \in given : i <= j]

DelayGiven(reply, inMessage) ==
  LET text == FirstGiven(Asked(reply), IF reply.body THEN inMessage ELSE Absent)
  IN  IF text \in {Absent, Unreadable} THEN text ELSE Delay(text)

\* Mutant: milliseconds are read as seconds, as any number in the message is.
RetryAfterUnitless(reply) == DelayGiven(reply, reply.message)

\* parse_retry_after: a delay, Absent if none is given, Unreadable if it raises.
RetryAfter(reply) == DelayGiven(reply, InMessage(reply))

\* Mutant: a 429 is taken for one more 4xx.
RaisesClientError(reply) ==
  CASE reply.status = Absent          -> "ProviderConfigError"
    [] reply.status \in {0} \cup 500..599 -> "ProviderError"
    [] reply.status \in 400..499      -> "ProviderClientError"
    [] reply.status \in 200..399      -> IF reply.body THEN Absent ELSE "KeyError"

\* chat_completion: the class of the exception it raises, Absent if it returns.
Raises(reply) ==
  CASE reply.status = Absent          -> "ProviderConfigError"
    [] reply.status = 429             ->
         IF RetryAfter(reply) = Unreadable THEN "ValueError" ELSE "RateLimitError"
    [] reply.status \in {0} \cup 500..599 -> "ProviderError"
    [] reply.status \in 400..499 \ {429}  -> "ProviderClientError"
    [] reply.status \in 200..399      -> IF reply.body THEN Absent ELSE "KeyError"

\* The subclasses of ProviderError: what retry_with_backoff retries.
Transient == {"ProviderError", "RateLimitError"}

------------------------------------------------------------------------------

\* default_usage_parser and total_aware_usage_parser: a provider that bills
\* reasoning tokens in the total only has its output derived from the total.
Usage(provider, usage) ==
  LET derived == usage.total - usage.prompt
  IN  [input  |-> usage.prompt,
       output |-> IF /\ provider \in TotalAware
                     /\ usage.prompt # Absent /\ usage.total # Absent
                     /\ usage.completion = Absent \/ derived > usage.completion
                  THEN derived ELSE usage.completion]

\* cost_usd_equivalent: unknown, not zero, when a token count or a price is.
CostEquivalent(provider, tokens) ==
  IF \/ provider \notin DOMAIN ListPrices
     \/ Absent \in {tokens.input, tokens.output}
     \/ Absent \in {ListPrices[provider].input, ListPrices[provider].output}
  THEN Absent
  ELSE tokens.input * ListPrices[provider].input
         + tokens.output * ListPrices[provider].output

===============================================================================
