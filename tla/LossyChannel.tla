----------------------------- MODULE LossyChannel -----------------------------
(***************************************************************************)
(* What tracing promises of each span a host ends: whatever the endpoint   *)
(* does, it is delivered once or lost; nothing is invented, delivered      *)
(* twice or delivered after it was given up.                               *)
(***************************************************************************)
EXTENDS Naturals

CONSTANT Spans

VARIABLE fate

Fates == {"unborn", "pending", "delivered", "lost"}

Init == fate = [s \in Spans |-> "unborn"]

\* The spans of S but s keep their fate, or are given up.
MayGiveUp(S) ==
  \A t \in S : fate'[t] = fate[t] \/ (fate[t] = "pending" /\ fate'[t] = "lost")

\* The host ends a span, and others may be given up for it.
Accept(s) ==
  /\ fate[s] = "unborn"
  /\ fate' \in [Spans -> Fates]
  /\ fate'[s] \in {"pending", "lost"}
  /\ MayGiveUp(Spans \ {s})

\* Spans that are pending are delivered together.
Deliver ==
  /\ fate' \in [Spans -> Fates]
  /\ \A t \in Spans :
       fate'[t] = fate[t] \/ (fate[t] = "pending" /\ fate'[t] = "delivered")

\* Spans that are pending are lost together.
GiveUp == fate' \in [Spans -> Fates] /\ MayGiveUp(Spans)

Next == (\E s \in Spans : Accept(s)) \/ Deliver \/ GiveUp

Spec == Init /\ [][Next]_fate

===============================================================================
