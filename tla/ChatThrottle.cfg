CONSTANTS
  c1 = c1
  c2 = c2
  c3 = c3
  groq = groq
  gemini = gemini
  Chats = {c1, c2, c3}
  Providers = {groq, gemini}
  ProviderOf <- TwoProviders
  RetryAfters = {1, 9}
  Forever = 9
  DefaultCooldown = 2
  MaxAttempts = 2
  MaxWait = 2
SPECIFICATION Spec
INVARIANTS
  OutcomeFollowsAnswers
PROPERTIES
  SendsOnlyPastKnownCooldown
  HonoursOwnRetryAfter
  EveryCallEnds
