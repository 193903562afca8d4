--------------------------- MODULE SessionContract ---------------------------
(***************************************************************************)
(* What Spanlight promises about one logical agent run, with no registry,  *)
(* no scratch space and no other runs in sight: while the run is open its  *)
(* steps may each report one type not reported before; when it ends, the   *)
(* session span may report a silent tool failure and the session-cost      *)
(* histogram gets one observation of everything the run spent; after that  *)
(* nothing is reported or recorded for it again.                           *)
(***************************************************************************)
EXTENDS Naturals

CONSTANTS
  Sessions,      \* logical runs, by session id
  Costs,         \* what a single span may cost
  SpanTypes,     \* the types a step may report
  SessionTypes   \* the types the end of a session may report

VARIABLES
  status,        \* "idle", "open" or "closed"
  spent,         \* what each session's recorded spans have cost so far
  reports,       \* how often each session has reported each type
  observed       \* observations of its cost: how many, and their sum

vars == <<status, spent, reports, observed>>

Types == SpanTypes \cup SessionTypes

Init ==
  /\ status = [s \in Sessions |-> "idle"]
  /\ spent = [s \in Sessions |-> 0]
  /\ reports = [s \in Sessions |-> [t \in Types |-> 0]]
  /\ observed = [s \in Sessions |-> [n |-> 0, sum |-> 0]]

Move(s, from, to) == status[s] = from /\ status' = [status EXCEPT ![s] = to]

\* At most one report, of a type the session has not reported.
MayReport(s, types) ==
  \/ UNCHANGED reports
  \/ \E t \in types : /\ reports[s][t] = 0
                      /\ reports' = [reports EXCEPT ![s][t] = 1]

\* The cost of one more span.
MaySpend(s) ==
  \E cost \in Costs \cup {0} : spent' = [spent EXCEPT ![s] = @ + cost]

Begin(s) ==
  /\ Move(s, "idle", "open")
  /\ UNCHANGED <<spent, reports, observed>>

Step(s) ==
  /\ status[s] = "open"
  /\ MayReport(s, SpanTypes)
  /\ MaySpend(s)
  /\ UNCHANGED <<status, observed>>

Finish(s) ==
  /\ Move(s, "open", "closed")
  /\ MayReport(s, SessionTypes)
  /\ MaySpend(s)
  /\ observed' = [observed EXCEPT
       ![s] = IF spent'[s] = 0 THEN @ ELSE [n |-> 1, sum |-> spent'[s]]]

Next == \E s \in Sessions : Begin(s) \/ Step(s) \/ Finish(s)

Spec == Init /\ [][Next]_vars

==============================================================================
