------------------------------- MODULE MCStudy -------------------------------
(* An instance of Study for TLC: a corpus of four sessions, enough for one   *)
(* of them, or of those that follow, to stand out from its peers.            *)
EXTENDS Study

FirstAnswers ==
  <<Judged("pass", 1, 1), Judged("pass", 1, 9), Judged("fail", 1, 1), Unparsed>>

\* What later calls come to goes by the number of the session, so that a run of two
\* has one of each; a run that follows one that was cut off has a call refused, and
\* its corpus cannot be replayed.
SomeAnswers(s) ==
  {IF s % 2 = 0 THEN Unparsed ELSE IF s = 5 THEN Judged("pass", 9, 1) ELSE Refused}

==============================================================================
