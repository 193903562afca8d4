---------------------------- MODULE MCPropagation ----------------------------
(* An instance of Propagation for TLC.                                       *)
EXTENDS Propagation, TLC

\* Tasks of the same service are interchangeable.
SameService == Permutations(Traced)

==============================================================================
