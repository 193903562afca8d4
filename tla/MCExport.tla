------------------------------- MODULE MCExport -------------------------------
(* An instance of Export for TLC.                                           *)
EXTENDS Export

\* The base, and the endpoint of one signal given for both, once with a slash.
SomeEndpoints ==
  {<<"otlp">>, <<"otlp", "v1", "traces">>, <<"otlp", "v1", "metrics", "/">>}

\* requests.ConnectTimeout, which is both; and an exception that is neither.
SomeExceptions ==
  {[timeout |-> TRUE, connect |-> TRUE], [timeout |-> FALSE, connect |-> FALSE]}

===============================================================================
