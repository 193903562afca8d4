---------------------------- MODULE Study_proofs ----------------------------
(***************************************************************************)
(* Proofs about Study: for every target, batch, ceiling and first corpus,  *)
(* for any calls of the judge and any interleaving of collecting,          *)
(* stopping, extending, labelling and gating, the collector resumes where  *)
(* it was stopped, what is counted is whole, nobody is asked twice, the    *)
(* gate lets no change of what is reported pass, and it and the precision  *)
(* report count the same of the corpus there is.                           *)
(***************************************************************************)
EXTENDS Study, FiniteSetTheorems, WellFoundedInduction, TLAPS

------------------------------------------------------------------------------
(* The parts of the inductive invariant that are not properties themselves. *)

\* A corpus is a record of these two fields.
IsCorpus(log) == log = [chat |-> log.chat, item |-> log.item]

\* The corpus and the collector's counts have their types.
CollectorTyped ==
  /\ opened \in Nat /\ stops \in Nat /\ done \in Nat /\ begun \in Nat
  /\ collector \in {"down", "idle", "running"}
  /\ target \in Targets
  /\ manifest # None => manifest \in 0..Cardinality(Sessions)
  /\ IsCorpus(corpus)
  /\ DOMAIN corpus.chat \subseteq 1..opened
  /\ Sessions \subseteq 1..opened
  /\ DOMAIN items \subseteq 1..opened
  /\ done <= Cardinality(Sessions)

\* And so have the labels, which are of sessions.
LabelsTyped ==
  /\ labels \in Seq([session : Nat, label : {"A1", "SKIP"}, of : Nat])
  /\ derived # None => Sessions # {} /\ DOMAIN derived \subseteq Sessions
  /\ desk \subseteq Sessions

\* The items of a run are in no file yet, and there are few enough of them to stay
\* within a run of the target.
RunIsNew ==
  /\ DOMAIN items \cap Sessions = {}
  /\ collector # "running" => DOMAIN items = {}
  /\ \/ Cardinality(Sessions) + Cardinality(DOMAIN items) < target + ItemsPerRun
     \/ Cardinality(Sessions) = begun /\ DOMAIN items = {}

\* What an item's call came to is what its span in the corpus says.
CallsAreWritten ==
  \A s \in DOMAIN items :
    items[s] # None => HasCall(s) /\ Answer(s) = items[s]

\* A span is marked by the collecting detectors when its cost is above the ceiling.
MarkedAboveCeiling ==
  \A s \in DOMAIN corpus.chat :
    corpus.chat[s] = [answer |-> Answer(s), marked |-> Answer(s).cost > Ceiling]

\* What is on the desk has not been labelled, and was drawn of a corpus no larger than
\* there is now: while it is as large, it is the same one and the sample is its sample.
DeskIsUnlabelled ==
  /\ desk \cap AlreadyLabelled = {}
  /\ read \in 0..Cardinality(Sessions)
  /\ read = Cardinality(Sessions) => desk \subseteq Sample
  /\ \A i \in DOMAIN labels : labels[i].of <= Cardinality(Sessions)

\* A baseline is of detectors that reproduced some corpus session by session.
BaselineReproduced ==
  baseline # None =>
    /\ baseline.sessions \in Nat \ {0}
    /\ baseline.matched = baseline.sessions
    /\ baseline.fixtures = AllBehave

\* What is true of the corpus and its collector, and of the programs that read it.
CollectorInv ==
  /\ CollectorTyped
  /\ ResumesWhereItStopped /\ RunIsNew
  /\ CountedSessionsAreWhole /\ CallsAreWritten /\ MarkedAboveCeiling

OfflineInv ==
  /\ LabelsTyped
  /\ LabelsAreTheSample /\ DeskIsUnlabelled
  /\ BaselineReproduced

Inv == CollectorInv /\ OfflineInv

------------------------------------------------------------------------------
(* Lemmas.                                                                  *)

\* What is in the corpus, or open, has been opened: there are finitely many.
LEMMA Finitely ==
  ASSUME CollectorTyped
  PROVE  /\ IsFiniteSet(Sessions) /\ Cardinality(Sessions) \in Nat
         /\ IsFiniteSet(DOMAIN items) /\ Cardinality(DOMAIN items) \in Nat
<1>1. Sessions \subseteq 1..opened /\ DOMAIN items \subseteq 1..opened
        /\ opened \in Int
  BY DEF CollectorTyped
<1>2. IsFiniteSet(1..opened)
  BY <1>1, FS_Interval
<1> QED BY <1>1, <1>2, FS_Subset, FS_CardinalityType

\* Writing the spans of calls leaves the spans of items, and the reverse.
LEMMA WritingChats ==
  ASSUME NEW log, IsCorpus(log), NEW ended, NEW answer
  PROVE  LET new == WriteChats(log, ended, answer)
         IN  /\ IsCorpus(new)
             /\ new.item = log.item
             /\ DOMAIN new.chat = DOMAIN log.chat \cup ended
             /\ \A s \in ended :
                  new.chat[s] = [answer |-> answer, marked |-> answer.cost > Ceiling]
             /\ \A s \in DOMAIN log.chat \ ended : new.chat[s] = log.chat[s]
<1> DEFINE span == [answer |-> answer, marked |-> answer.cost > Ceiling]
           chats == Written(log.chat, ended, span)
<1>1. WriteChats(log, ended, answer) = [chat |-> chats, item |-> log.item]
  BY DEF WriteChats, IsCorpus
<1>2. /\ DOMAIN chats = DOMAIN log.chat \cup ended
      /\ \A s \in ended : chats[s] = span
      /\ \A s \in DOMAIN log.chat \ ended : chats[s] = log.chat[s]
  BY DEF Written
<1> HIDE DEF chats
<1> QED BY <1>1, <1>2 DEF IsCorpus

LEMMA WritingItems ==
  ASSUME NEW log, IsCorpus(log), NEW ended, NEW fault
  PROVE  LET new == WriteItems(log, ended, fault)
         IN  /\ IsCorpus(new)
             /\ new.chat = log.chat
             /\ DOMAIN new.item = DOMAIN log.item \cup ended
             /\ \A s \in ended : new.item[s] = fault
             /\ \A s \in DOMAIN log.item \ ended : new.item[s] = log.item[s]
<1> DEFINE spans == Written(log.item, ended, fault)
<1>1. WriteItems(log, ended, fault) = [chat |-> log.chat, item |-> spans]
  BY DEF WriteItems, IsCorpus
<1>2. /\ DOMAIN spans = DOMAIN log.item \cup ended
      /\ \A s \in ended : spans[s] = fault
      /\ \A s \in DOMAIN log.item \ ended : spans[s] = log.item[s]
  BY DEF Written
<1> HIDE DEF spans
<1> QED BY <1>1, <1>2 DEF IsCorpus

\* What the offline programs hold stays true of a corpus that grows: its sample may
\* move, but then it is larger than what was read of it.
LEMMA OfflineKept ==
  ASSUME OfflineInv, UNCHANGED Offline, Sessions \subseteq Sessions',
         IsFiniteSet(Sessions), IsFiniteSet(Sessions')
  PROVE  OfflineInv'
<1> USE DEF Offline, sitting, OfflineInv
<1>1. UNCHANGED <<derived, labels, desk, read, baseline>>
  OBVIOUS
<1>2. LabelsTyped' /\ BaselineReproduced'
  BY <1>1 DEF LabelsTyped, BaselineReproduced
<1>3. AlreadyLabelled' = AlreadyLabelled
  BY <1>1 DEF AlreadyLabelled
<1>4. CASE Sessions' = Sessions
  <2>1. Sample' = Sample
    BY <1>4 DEF Sample
  <2> QED BY <1>1, <1>2, <1>3, <1>4, <2>1 DEF LabelsAreTheSample, DeskIsUnlabelled
<1>5. CASE Sessions' # Sessions
  <2>1. Cardinality(Sessions) < Cardinality(Sessions')
    <3>1. /\ Cardinality(Sessions) <= Cardinality(Sessions')
          /\ Cardinality(Sessions) # Cardinality(Sessions')
      BY <1>5, FS_Subset
    <3>2. Cardinality(Sessions) \in Nat /\ Cardinality(Sessions') \in Nat
      BY FS_CardinalityType
    <3> QED BY <3>1, <3>2
  <2>2. Cardinality(Sessions) \in Nat /\ Cardinality(Sessions') \in Nat
    BY FS_CardinalityType
  <2>3. \A i \in DOMAIN labels : labels[i].of \in Nat
    <3> DEFINE row == [session : Nat, label : {"A1", "SKIP"}, of : Nat]
    <3>1. labels \in Seq(row)
      BY DEF LabelsTyped
    <3>2. \A r \in row : r.of \in Nat
      OBVIOUS
    <3> HIDE DEF row
    <3>3. \A i \in DOMAIN labels : labels[i] \in row
      BY ONLY <3>1
    <3> QED BY <3>2, <3>3
  <2>4. \A i \in DOMAIN labels : /\ labels[i].of <= Cardinality(Sessions')
                                 /\ labels[i].of # Cardinality(Sessions')
    BY <2>1, <2>2, <2>3 DEF DeskIsUnlabelled
  <2>5. read \in 0..Cardinality(Sessions') /\ read # Cardinality(Sessions')
    BY <2>1, <2>2 DEF DeskIsUnlabelled
  <2> QED BY <1>1, <1>2, <1>3, <2>4, <2>5 DEF LabelsAreTheSample, DeskIsUnlabelled
<1> QED BY <1>4, <1>5

LEMMA InitInv == Init => Inv
<1> SUFFICES ASSUME Init PROVE Inv
  OBVIOUS
<1> USE DEF Init
<1>1. /\ Sessions = 1..Len(Collected) /\ DOMAIN corpus.chat = 1..Len(Collected)
      /\ Len(Collected) \in Nat /\ DOMAIN items = {}
  BY Numbered DEF Sessions
<1>2. Cardinality(Sessions) = Len(Collected) /\ Cardinality(DOMAIN items) = 0
  <2>1. Cardinality(1..Len(Collected)) = Len(Collected)
    <3> DEFINE n == Len(Collected)
    <3>1. n \in Nat
      BY <1>1
    <3> HIDE DEF n
    <3>2. Cardinality(1..n) = IF 1 > n THEN 0 ELSE n - 1 + 1
      BY <3>1, FS_Interval
    <3>3. Cardinality(1..n) = n
      BY <3>1, <3>2
    <3> QED BY <3>3 DEF n
  <2> QED BY <1>1, <2>1, FS_EmptySet
<1>3. CollectorTyped
  <2>1. IsCorpus(corpus)
    BY DEF IsCorpus
  <2> QED BY <1>1, <1>2, <2>1, Numbers DEF CollectorTyped
<1>4. LabelsTyped
  <2>1. labels \in Seq([session : Nat, label : {"A1", "SKIP"}, of : Nat])
    OBVIOUS
  <2> QED BY <2>1 DEF LabelsTyped
<1>5. ResumesWhereItStopped /\ RunIsNew
  BY <1>1, <1>2 DEF ResumesWhereItStopped, RunIsNew
<1>6. CountedSessionsAreWhole
  BY <1>1 DEF CountedSessionsAreWhole, HasCall, Answer
<1>7. CallsAreWritten /\ MarkedAboveCeiling
  BY <1>1 DEF CallsAreWritten, MarkedAboveCeiling, Answer
<1>8. LabelsAreTheSample /\ DeskIsUnlabelled /\ BaselineReproduced
  BY <1>1, <1>2 DEF LabelsAreTheSample, DeskIsUnlabelled, AlreadyLabelled, BaselineReproduced
<1> QED BY <1>3, <1>4, <1>5, <1>6, <1>7, <1>8 DEF Inv, CollectorInv, OfflineInv

------------------------------------------------------------------------------
(* The steps of the collector.                                              *)

\* Steps that write nothing to the corpus.
LEMMA StartInv == ASSUME Inv, NEW sessions \in Targets, Start(sessions) PROVE Inv'
<1> USE DEF Start, Inv
<1>1. Sessions' = Sessions
  BY DEF Sessions
<1>2. IsFiniteSet(Sessions) /\ Cardinality(Sessions) \in Nat
  BY Finitely DEF CollectorInv
<1>3. OfflineInv'
  BY <1>1, <1>2, OfflineKept
<1>4. CollectorTyped'
  BY <1>1, <1>2 DEF CollectorInv, CollectorTyped, SessionsIn, Sessions
<1>5. ResumesWhereItStopped' /\ RunIsNew'
  BY <1>1 DEF CollectorInv, ResumesWhereItStopped, RunIsNew, SessionsIn, Sessions
<1>6. CountedSessionsAreWhole' /\ CallsAreWritten' /\ MarkedAboveCeiling'
  BY <1>1 DEF CollectorInv, CountedSessionsAreWhole, CallsAreWritten, MarkedAboveCeiling,
              HasCall, Answer
<1> QED BY <1>3, <1>4, <1>5, <1>6 DEF CollectorInv

LEMMA EndRunInv == ASSUME Inv, EndRun PROVE Inv'
<1> USE DEF EndRun, Inv, history
<1>1. Sessions' = Sessions /\ DOMAIN items = {}
  BY DEF Sessions
<1>2. IsFiniteSet(Sessions) /\ Cardinality(Sessions) \in Nat
  BY Finitely DEF CollectorInv
<1>3. OfflineInv'
  BY <1>1, <1>2, OfflineKept
<1>4. CollectorTyped'
  BY <1>1, <1>2 DEF CollectorInv, CollectorTyped, SessionsIn, Sessions
<1>5. ResumesWhereItStopped' /\ RunIsNew'
  BY <1>1 DEF CollectorInv, ResumesWhereItStopped, RunIsNew, SessionsIn, Sessions
<1>6. CountedSessionsAreWhole' /\ CallsAreWritten' /\ MarkedAboveCeiling'
  BY <1>1 DEF CollectorInv, CountedSessionsAreWhole, CallsAreWritten, MarkedAboveCeiling,
              HasCall, Answer
<1> QED BY <1>3, <1>4, <1>5, <1>6 DEF CollectorInv

LEMMA FinishInv == ASSUME Inv, Finish PROVE Inv'
<1> USE DEF Finish, Inv, history
<1>1. Sessions' = Sessions
  BY DEF Sessions
<1>2. IsFiniteSet(Sessions) /\ Cardinality(Sessions) \in Nat
  BY Finitely DEF CollectorInv
<1>3. OfflineInv'
  BY <1>1, <1>2, OfflineKept
<1>4. CollectorTyped'
  BY <1>1, <1>2 DEF CollectorInv, CollectorTyped, SessionsIn, Sessions
<1>5. ResumesWhereItStopped' /\ RunIsNew'
  BY <1>1 DEF CollectorInv, ResumesWhereItStopped, RunIsNew, SessionsIn, Sessions
<1>6. CountedSessionsAreWhole' /\ CallsAreWritten' /\ MarkedAboveCeiling'
  BY <1>1 DEF CollectorInv, CountedSessionsAreWhole, CallsAreWritten, MarkedAboveCeiling,
              HasCall, Answer
<1> QED BY <1>3, <1>4, <1>5, <1>6 DEF CollectorInv

LEMMA KillInv == ASSUME Inv, Kill PROVE Inv'
<1> USE DEF Kill, Inv
<1>1. Sessions' = Sessions /\ DOMAIN items' = {}
  BY DEF Sessions
<1>2. OfflineInv'
  BY <1>1, Finitely, OfflineKept DEF CollectorInv
<1>3. CollectorTyped'
  BY <1>1 DEF CollectorInv, CollectorTyped
<1>4. ResumesWhereItStopped'
  BY <1>1 DEF CollectorInv, ResumesWhereItStopped
<1>5. RunIsNew'
  <2>1. Cardinality(DOMAIN items') = 0
    BY <1>1, FS_EmptySet
  <2>2. Cardinality(Sessions) \in Nat
    BY Finitely DEF CollectorInv
  <2>3. target + ItemsPerRun \in Nat
    BY Numbers DEF CollectorInv, CollectorTyped
  <2> QED BY <1>1, <2>1, <2>2, <2>3 DEF CollectorInv, RunIsNew, ResumesWhereItStopped
<1>6. CountedSessionsAreWhole' /\ CallsAreWritten' /\ MarkedAboveCeiling'
  BY <1>1 DEF CollectorInv, CollectorTyped, CountedSessionsAreWhole, CallsAreWritten,
              MarkedAboveCeiling, HasCall, Answer
<1> QED BY <1>2, <1>3, <1>4, <1>5, <1>6 DEF CollectorInv

\* A run opens sessions that no file has yet, and no more of them than a run's.
LEMMA BeginRunInv == ASSUME Inv, BeginRun PROVE Inv'
<1> USE DEF BeginRun, Inv, history
<1> DEFINE new == opened + 1 .. opened + ItemsPerRun
<1>1. Sessions' = Sessions /\ DOMAIN items' = new
        /\ \A s \in new : items'[s] = None
  BY DEF Sessions
<1>2. OfflineInv'
  BY <1>1, Finitely, OfflineKept DEF CollectorInv
<1>3. opened \in Nat /\ ItemsPerRun \in Nat \ {0} /\ target \in Nat
  BY Numbers DEF CollectorInv, CollectorTyped
<1>4. CollectorTyped'
  BY <1>1, <1>3 DEF CollectorInv, CollectorTyped
<1>5. ResumesWhereItStopped'
  BY <1>1 DEF CollectorInv, ResumesWhereItStopped
<1>6. RunIsNew'
  <2>1. Cardinality(new) = ItemsPerRun
    BY <1>3, FS_Interval
  <2>2. Cardinality(Sessions) \in Nat /\ Cardinality(Sessions) < target
    BY Finitely DEF CollectorInv, ResumesWhereItStopped
  <2>3. new \cap Sessions = {}
    BY <1>3 DEF CollectorInv, CollectorTyped
  <2> QED BY <1>1, <1>3, <2>1, <2>2, <2>3 DEF RunIsNew
<1>7. CountedSessionsAreWhole' /\ CallsAreWritten' /\ MarkedAboveCeiling'
  BY <1>1 DEF CollectorInv, CountedSessionsAreWhole, CallsAreWritten,
              MarkedAboveCeiling, HasCall, Answer
<1> QED BY <1>2, <1>4, <1>5, <1>6, <1>7 DEF CollectorInv

\* The call of an open item writes a span of a session that is not counted yet.
LEMMA EndCallInv ==
  ASSUME Inv, NEW s \in DOMAIN items, NEW answer, EndCall(s, answer)
  PROVE  Inv'
<1> USE DEF EndCall, Inv, history
<1>1. /\ IsCorpus(corpus')
      /\ corpus'.item = corpus.item
      /\ DOMAIN corpus'.chat = DOMAIN corpus.chat \cup {s}
      /\ corpus'.chat[s] = [answer |-> answer, marked |-> answer.cost > Ceiling]
      /\ \A u \in DOMAIN corpus.chat \ {s} : corpus'.chat[u] = corpus.chat[u]
  <2>1. IsCorpus(corpus)
    BY DEF CollectorInv, CollectorTyped
  <2>2. corpus' = WriteChats(corpus, {s}, answer) /\ s \in {s}
    OBVIOUS
  <2> QED BY ONLY <2>1, <2>2, WritingChats
<1>2. /\ Sessions' = Sessions /\ DOMAIN items' = DOMAIN items
      /\ items'[s] = answer /\ \A u \in DOMAIN items \ {s} : items'[u] = items[u]
  BY <1>1 DEF Sessions
<1>3. collector = "running" /\ s \notin Sessions
  BY DEF CollectorInv, CollectorTyped, RunIsNew
<1>4. OfflineInv'
  BY <1>2, Finitely, OfflineKept DEF CollectorInv
<1>5. CollectorTyped'
  BY <1>1, <1>2 DEF CollectorInv, CollectorTyped
<1>6. ResumesWhereItStopped' /\ RunIsNew'
  BY <1>2 DEF CollectorInv, ResumesWhereItStopped, RunIsNew
<1>7. CountedSessionsAreWhole'
  BY <1>1, <1>2, <1>3 DEF CollectorInv, CountedSessionsAreWhole, HasCall, Answer, Sessions
<1>8. CallsAreWritten'
  <2> SUFFICES ASSUME NEW u \in DOMAIN items, items'[u] # None
               PROVE  u \in DOMAIN corpus'.chat /\ corpus'.chat[u].answer = items'[u]
    BY <1>2 DEF CallsAreWritten, HasCall, Answer
  <2>1. CASE u = s
    BY <1>1, <1>2, <2>1
  <2>2. CASE u # s
    <3>1. items[u] # None /\ items'[u] = items[u]
      BY <1>2, <2>2
    <3>2. u \in DOMAIN corpus.chat /\ corpus.chat[u].answer = items[u]
      BY <3>1 DEF CollectorInv, CallsAreWritten, HasCall, Answer
    <3> QED BY <1>1, <2>2, <3>1, <3>2
  <2> QED BY <2>1, <2>2
<1>9. MarkedAboveCeiling'
  <2> SUFFICES ASSUME NEW u \in DOMAIN corpus'.chat
               PROVE  corpus'.chat[u] =
                        [answer |-> corpus'.chat[u].answer,
                         marked |-> corpus'.chat[u].answer.cost > Ceiling]
    BY DEF MarkedAboveCeiling, Answer
  <2>1. CASE u = s
    <3>1. corpus'.chat[s] = [answer |-> answer, marked |-> answer.cost > Ceiling]
      BY <1>1
    <3> QED BY <2>1, <3>1
  <2>2. CASE u # s
    <3>1. corpus'.chat[u] = corpus.chat[u] /\ u \in DOMAIN corpus.chat
      BY <1>1, <2>2
    <3> QED BY <3>1 DEF CollectorInv, MarkedAboveCeiling, Answer
  <2> QED BY <2>1, <2>2
<1> QED BY <1>4, <1>5, <1>6, <1>7, <1>8, <1>9 DEF CollectorInv

\* An item that ends is counted, and its call is there already.
LEMMA EndItemInv ==
  ASSUME Inv, NEW s \in DOMAIN items, EndItem(s)
  PROVE  Inv'
<1> USE DEF EndItem, Inv, history
<1>1. /\ IsCorpus(corpus')
      /\ corpus'.chat = corpus.chat
      /\ DOMAIN corpus'.item = DOMAIN corpus.item \cup {s}
      /\ corpus'.item[s] = items[s].error
      /\ \A u \in DOMAIN corpus.item \ {s} : corpus'.item[u] = corpus.item[u]
  <2>1. IsCorpus(corpus)
    BY DEF CollectorInv, CollectorTyped
  <2>2. corpus' = WriteItems(corpus, {s}, items[s].error) /\ s \in {s}
    OBVIOUS
  <2> QED BY ONLY <2>1, <2>2, WritingItems
<1>2. /\ Sessions' = Sessions \cup {s}
      /\ DOMAIN items' = DOMAIN items \ {s}
      /\ \A u \in DOMAIN items' : items'[u] = items[u]
  BY <1>1 DEF Sessions
<1>3. collector = "running" /\ s \notin Sessions
  BY DEF CollectorInv, CollectorTyped, RunIsNew
<1>4. OfflineInv'
  BY <1>2, Finitely, FS_AddElement, OfflineKept DEF CollectorInv
<1>5. /\ Cardinality(Sessions) \in Nat /\ Cardinality(DOMAIN items) \in Nat
      /\ Cardinality(Sessions') = Cardinality(Sessions) + 1
      /\ Cardinality(DOMAIN items') = Cardinality(DOMAIN items) - 1
      /\ Cardinality(DOMAIN items') \in Nat
  <2>1. /\ IsFiniteSet(Sessions) /\ Cardinality(Sessions) \in Nat
        /\ IsFiniteSet(DOMAIN items) /\ Cardinality(DOMAIN items) \in Nat
    BY Finitely DEF CollectorInv
  <2>2. Cardinality(Sessions \cup {s}) = Cardinality(Sessions) + 1
    BY <1>3, <2>1, FS_AddElement
  <2>3. /\ Cardinality(DOMAIN items \ {s}) = Cardinality(DOMAIN items) - 1
        /\ Cardinality(DOMAIN items \ {s}) \in Nat
    BY <2>1, FS_RemoveElement, FS_CardinalityType
  <2> QED BY <1>2, <2>1, <2>2, <2>3
<1>6. CollectorTyped'
  <2>1. done' <= Cardinality(Sessions') /\ done' \in Nat
    BY <1>5 DEF CollectorInv, CollectorTyped
  <2>2. /\ IsCorpus(corpus')
        /\ DOMAIN corpus'.chat \subseteq 1..opened
        /\ Sessions' \subseteq 1..opened
        /\ DOMAIN items' \subseteq 1..opened
    BY <1>1, <1>2 DEF CollectorInv, CollectorTyped
  <2>3. manifest # None => manifest \in 0..Cardinality(Sessions')
    BY <1>5 DEF CollectorInv, CollectorTyped
  <2> QED BY <2>1, <2>2, <2>3 DEF CollectorInv, CollectorTyped
<1>7. RunIsNew' /\ ResumesWhereItStopped'
  <2>1. target + ItemsPerRun \in Nat
    BY Numbers DEF CollectorInv, CollectorTyped
  <2>2. \/ Cardinality(Sessions') + Cardinality(DOMAIN items') < target + ItemsPerRun
        \/ DOMAIN items = {}
    BY <1>5, <2>1 DEF CollectorInv, RunIsNew
  <2>3. Cardinality(Sessions') + Cardinality(DOMAIN items') < target + ItemsPerRun
    BY <2>2
  <2>4. Cardinality(Sessions') < target + ItemsPerRun
    BY <1>5, <2>1, <2>3
  <2> QED BY <1>2, <1>3, <2>3, <2>4 DEF CollectorInv, RunIsNew, ResumesWhereItStopped
<1>8. CountedSessionsAreWhole'
  BY <1>1, <1>2, <1>3
     DEF CollectorInv, CountedSessionsAreWhole, CallsAreWritten, HasCall, Answer, Sessions
<1>9. CallsAreWritten' /\ MarkedAboveCeiling'
  BY <1>1, <1>2 DEF CollectorInv, CallsAreWritten, MarkedAboveCeiling, HasCall, Answer
<1> QED BY <1>4, <1>6, <1>7, <1>8, <1>9 DEF CollectorInv

\* A run that is cut counts every session it had open, and no more than that.
CutLeaves ==
  /\ Sessions' = Sessions \cup DOMAIN items
  /\ DOMAIN items' = {}
  /\ Cardinality(Sessions') = Cardinality(Sessions) + Cardinality(DOMAIN items)
  /\ CountedSessionsAreWhole' /\ CallsAreWritten' /\ MarkedAboveCeiling'
  /\ IsCorpus(corpus')
  /\ DOMAIN corpus'.chat \subseteq 1..opened

LEMMA Cutting ==
  ASSUME Inv, NEW asked, CutItems(asked)
  PROVE  CutLeaves
<1> USE DEF Inv
<1> DEFINE chats == WriteChats(corpus, asked, Cut)
<1>1. asked \subseteq DOMAIN items /\ corpus' = WriteItems(chats, DOMAIN items, None)
        /\ DOMAIN items' = {} /\ cut' = cut \cup DOMAIN items
  BY DEF CutItems
<1>2. /\ IsCorpus(chats)
      /\ chats.item = corpus.item
      /\ DOMAIN chats.chat = DOMAIN corpus.chat \cup asked
      /\ \A s \in asked : chats.chat[s] = [answer |-> Cut, marked |-> Cut.cost > Ceiling]
      /\ \A s \in DOMAIN corpus.chat \ asked : chats.chat[s] = corpus.chat[s]
  BY WritingChats DEF CollectorInv, CollectorTyped
<1> HIDE DEF chats
<1>3. /\ IsCorpus(corpus')
      /\ corpus'.chat = chats.chat
      /\ DOMAIN corpus'.item = DOMAIN corpus.item \cup DOMAIN items
      /\ \A s \in DOMAIN items : corpus'.item[s] = None
      /\ \A s \in DOMAIN corpus.item \ DOMAIN items : corpus'.item[s] = corpus.item[s]
  <2>1. IsCorpus(chats)
    BY <1>2
  <2> QED BY <1>1, <1>2, <2>1, WritingItems
<1>4. Sessions' = Sessions \cup DOMAIN items
  BY <1>3 DEF Sessions
<1>5. DOMAIN items \cap Sessions = {}
  BY DEF CollectorInv, RunIsNew
<1>6. Cardinality(Sessions') = Cardinality(Sessions) + Cardinality(DOMAIN items)
  <2>1. /\ IsFiniteSet(Sessions) /\ Cardinality(Sessions) \in Nat
        /\ IsFiniteSet(DOMAIN items) /\ Cardinality(DOMAIN items) \in Nat
    BY Finitely DEF CollectorInv
  <2>2. Sessions \cap DOMAIN items = {}
    BY <1>5
  <2>3. Cardinality(Sessions \cup DOMAIN items) =
          Cardinality(Sessions) + Cardinality(DOMAIN items) - Cardinality(Sessions \cap DOMAIN items)
    BY <2>1, FS_Union
  <2> QED BY <1>4, <2>1, <2>2, <2>3, FS_EmptySet
<1>7. CountedSessionsAreWhole'
  BY <1>1, <1>2, <1>3, <1>4, <1>5
     DEF CollectorInv, CountedSessionsAreWhole, HasCall, Answer, Sessions
<1>8. CallsAreWritten'
  BY <1>1 DEF CallsAreWritten
<1>9. MarkedAboveCeiling'
  <2> SUFFICES ASSUME NEW s \in DOMAIN chats.chat
               PROVE  chats.chat[s] =
                        [answer |-> chats.chat[s].answer,
                         marked |-> chats.chat[s].answer.cost > Ceiling]
    BY <1>3 DEF MarkedAboveCeiling, Answer
  <2>1. CASE s \in asked
    <3>1. chats.chat[s] = [answer |-> Cut, marked |-> Cut.cost > Ceiling]
      BY <1>2, <2>1
    <3> QED BY <3>1
  <2>2. CASE s \notin asked
    <3>1. chats.chat[s] = corpus.chat[s] /\ s \in DOMAIN corpus.chat
      BY <1>2, <2>2
    <3> QED BY <3>1 DEF CollectorInv, MarkedAboveCeiling, Answer
  <2> QED BY <2>1, <2>2
<1>10. IsCorpus(corpus')
         /\ DOMAIN corpus'.chat \subseteq 1..opened
  BY <1>1, <1>2, <1>3 DEF CollectorInv, CollectorTyped
<1> QED BY <1>1, <1>4, <1>6, <1>7, <1>8, <1>9, <1>10 DEF CutLeaves

\* The run raises, or the collector is interrupted.
LEMMA StopInv ==
  ASSUME Inv, NEW asked, RaiseRun(asked) \/ Interrupt(asked)
  PROVE  Inv'
<1> USE DEF RaiseRun, Interrupt, Inv
<1>1. CutItems(asked) /\ stops' = stops + 1 /\ collector = "running"
        /\ UNCHANGED <<target, opened, manifest, begun, Offline>>
        /\ \/ collector' = "idle" /\ done' = Cardinality(Sessions')
           \/ collector' = "down" /\ UNCHANGED done
  BY DEF SessionsIn, Sessions, CutItems
<1> HIDE DEF RaiseRun, Interrupt
<1>2. CutLeaves
  BY <1>1, Cutting
<1>3. /\ Cardinality(Sessions) \in Nat /\ Cardinality(DOMAIN items) \in Nat
      /\ Cardinality(Sessions') \in Nat
      /\ IsFiniteSet(Sessions) /\ IsFiniteSet(Sessions')
  <2>1. /\ IsFiniteSet(Sessions) /\ Cardinality(Sessions) \in Nat
        /\ IsFiniteSet(DOMAIN items) /\ Cardinality(DOMAIN items) \in Nat
    BY Finitely DEF CollectorInv
  <2>2. IsFiniteSet(Sessions \cup DOMAIN items)
    BY <2>1, FS_Union
  <2> QED BY <1>2, <2>1, <2>2, FS_CardinalityType DEF CutLeaves
<1>4. OfflineInv'
  BY <1>1, <1>2, <1>3, OfflineKept DEF CutLeaves
<1>5. CollectorTyped'
  <2>1. done' \in Nat /\ done' <= Cardinality(Sessions')
    BY <1>1, <1>2, <1>3 DEF CollectorInv, CollectorTyped, CutLeaves
  <2>2. Sessions' \subseteq 1..opened
    BY <1>2 DEF CollectorInv, CollectorTyped, CutLeaves
  <2>3. IsCorpus(corpus') /\ DOMAIN items' = {} /\ DOMAIN corpus'.chat \subseteq 1..opened
    BY <1>2 DEF CutLeaves
  <2>4. stops' \in Nat
    BY <1>1 DEF CollectorInv, CollectorTyped
  <2>5. manifest # None => manifest \in 0..Cardinality(Sessions')
    BY <1>2, <1>3 DEF CollectorInv, CollectorTyped, CutLeaves
  <2> QED BY <1>1, <2>1, <2>2, <2>3, <2>4, <2>5 DEF CollectorInv, CollectorTyped
<1>6. Cardinality(DOMAIN items') = 0
  BY <1>2, FS_EmptySet DEF CutLeaves
<1>7. target + ItemsPerRun \in Nat
  BY Numbers DEF CollectorInv, CollectorTyped
<1>8. \/ Cardinality(Sessions') < target + ItemsPerRun
      \/ Cardinality(Sessions') = begun
  <2>1. DOMAIN items = {} => Cardinality(DOMAIN items) = 0
    BY FS_EmptySet
  <2> QED BY <1>2, <1>3, <1>7, <2>1 DEF CollectorInv, RunIsNew, CutLeaves
<1>9. ResumesWhereItStopped' /\ RunIsNew'
  BY <1>1, <1>2, <1>3, <1>6, <1>7, <1>8 DEF ResumesWhereItStopped, RunIsNew, CutLeaves
<1> QED BY <1>2, <1>4, <1>5, <1>9 DEF CollectorInv, CutLeaves

------------------------------------------------------------------------------
(* The steps of the other programs.                                         *)

\* They leave the corpus and its collector alone.
LEMMA CollectorKept ==
  ASSUME CollectorInv, UNCHANGED collecting
  PROVE  CollectorInv'
BY DEF collecting, state, history, CollectorInv, CollectorTyped, ResumesWhereItStopped,
       RunIsNew, CountedSessionsAreWhole, CallsAreWritten, MarkedAboveCeiling,
       Sessions, HasCall, Answer

LEMMA DeriveInv == ASSUME Inv, Derive PROVE Inv'
<1> USE DEF Derive, Inv
<1>1. CollectorInv'
  BY CollectorKept
<1>2. UNCHANGED <<corpus, labels, desk, read, baseline>>
  BY DEF collecting, sitting
<1>3. DOMAIN derived' = Sessions /\ Sessions' = Sessions /\ Sample' = Sample
        /\ AlreadyLabelled' = AlreadyLabelled
  BY <1>2 DEF Sessions, Sample, AlreadyLabelled
<1>4. Sessions # {}
  BY FS_EmptySet
<1>5. OfflineInv'
  BY <1>2, <1>3, <1>4 DEF OfflineInv, LabelsTyped, LabelsAreTheSample, DeskIsUnlabelled,
                    BaselineReproduced
<1> QED BY <1>1, <1>5

LEMMA SitDownInv == ASSUME Inv, SitDown PROVE Inv'
<1> USE DEF SitDown, Inv
<1>1. CollectorInv'
  BY CollectorKept
<1>2. UNCHANGED <<corpus, derived, labels, baseline>>
        /\ Sessions' = Sessions /\ Sample' = Sample /\ AlreadyLabelled' = AlreadyLabelled
  BY DEF collecting, Sessions, Sample, AlreadyLabelled
<1>3. Sample \subseteq Sessions
  BY DEF Sample
<1>4. read' = Cardinality(Sessions) /\ Cardinality(Sessions) \in Nat
  BY Finitely DEF CollectorInv
<1>5. OfflineInv'
  BY <1>2, <1>3, <1>4 DEF OfflineInv, LabelsTyped, LabelsAreTheSample, DeskIsUnlabelled,
                    BaselineReproduced
<1> QED BY <1>1, <1>5

LEMMA GetUpInv == ASSUME Inv, GetUp PROVE Inv'
<1> USE DEF GetUp, Inv
<1>1. CollectorInv'
  BY CollectorKept
<1>2. UNCHANGED <<corpus, derived, labels, read, baseline>>
        /\ Sessions' = Sessions /\ Sample' = Sample /\ AlreadyLabelled' = AlreadyLabelled
  BY DEF collecting, Sessions, Sample, AlreadyLabelled
<1>3. OfflineInv'
  BY <1>2 DEF OfflineInv, LabelsTyped, LabelsAreTheSample, DeskIsUnlabelled,
              BaselineReproduced
<1> QED BY <1>1, <1>3

\* A set of numbers that is not empty has its minimum.
LEMMA MinIsMember ==
  ASSUME NEW S \in SUBSET Nat, S # {}
  PROVE  Min(S) \in S
<1>1. PICK least \in S : \A n \in S : <<n, least>> \notin OpToRel(<, Nat)
  BY NatLessThanWellFounded, WFMin
<1>2. ASSUME NEW n \in S, n < least
      PROVE  FALSE
  <2>1. <<n, least>> \in OpToRel(<, Nat)
    BY <1>2 DEF OpToRel
  <2> QED BY <1>1, <2>1
<1>3. \A n \in S : least <= n
  BY <1>2
<1> QED BY <1>3 DEF Min

\* A label is of the next session of the desk, which nobody had labelled.
LEMMA LabelInv ==
  ASSUME Inv, NEW label \in {"A1", "SKIP"}, Label(label)
  PROVE  Inv'
<1> USE DEF Label, Inv
<1> DEFINE s == Min(desk)
<1>1. CollectorInv'
  BY CollectorKept
<1>2. UNCHANGED <<corpus, derived, read, baseline>>
        /\ Sessions' = Sessions /\ Sample' = Sample
  BY DEF collecting, Sessions, Sample
<1>3. s \in desk /\ s \in Nat
  <2>1. desk \subseteq Nat /\ desk # {}
    BY DEF CollectorInv, OfflineInv, CollectorTyped, LabelsTyped
  <2> QED BY <2>1, MinIsMember
<1> HIDE DEF s
<1>4. labels' = Append(labels, [session |-> s, label |-> label, of |-> read])
        /\ desk' = desk \ {s}
  BY DEF s
<1>5. read \in Nat /\ Cardinality(Sessions) \in Nat /\ read <= Cardinality(Sessions)
  BY Finitely DEF CollectorInv, OfflineInv, DeskIsUnlabelled
<1>6. /\ labels \in Seq([session : Nat, label : {"A1", "SKIP"}, of : Nat])
      /\ labels' \in Seq([session : Nat, label : {"A1", "SKIP"}, of : Nat])
  BY <1>3, <1>4, <1>5 DEF OfflineInv, LabelsTyped
<1>7. /\ DOMAIN labels = 1..Len(labels) /\ Len(labels) \in Nat
      /\ DOMAIN labels' = 1..Len(labels) + 1
      /\ labels'[Len(labels) + 1].session = s /\ labels'[Len(labels) + 1].of = read
      /\ \A i \in DOMAIN labels : labels'[i] = labels[i]
  BY <1>4, <1>6
<1>8. AlreadyLabelled' = AlreadyLabelled \cup {s}
  BY <1>7 DEF AlreadyLabelled
<1>9. s \notin AlreadyLabelled
  BY <1>3 DEF OfflineInv, DeskIsUnlabelled
<1>10. LabelsAreTheSample'
  <2>1. \A i, j \in DOMAIN labels' : labels'[i].session = labels'[j].session => i = j
    BY <1>7, <1>9 DEF OfflineInv, LabelsAreTheSample, AlreadyLabelled
  <2>2. ASSUME NEW i \in DOMAIN labels', labels'[i].of = Cardinality(Sessions)
        PROVE  labels'[i].session \in Sample
    BY <1>3, <1>7, <2>2 DEF OfflineInv, LabelsAreTheSample, DeskIsUnlabelled
  <2> QED BY <1>2, <2>1, <2>2 DEF LabelsAreTheSample
<1>11. LabelsTyped' /\ BaselineReproduced'
  BY <1>2, <1>4, <1>6 DEF OfflineInv, LabelsTyped, BaselineReproduced
<1>12. DeskIsUnlabelled'
  <2>1. desk' \cap AlreadyLabelled' = {} /\ desk' \subseteq desk
    BY <1>4, <1>8 DEF OfflineInv, DeskIsUnlabelled
  <2>2. \A i \in DOMAIN labels' : labels'[i].of <= Cardinality(Sessions)
    BY <1>5, <1>7 DEF OfflineInv, DeskIsUnlabelled
  <2> QED BY <1>2, <2>1, <2>2 DEF OfflineInv, DeskIsUnlabelled
<1> QED BY <1>1, <1>10, <1>11, <1>12 DEF OfflineInv

------------------------------------------------------------------------------
(* Replaying the corpus.                                                    *)

\* Replayed by the detectors that collected it, a session reports what it reported;
\* by ones that were changed on it, something else.
LEMMA ReplayIsFaithful ==
  ASSUME CollectorInv, NEW s, NEW changed
  PROVE  Fired(s, changed) = Detections(s) <=> s \notin changed
<1>1. Ceiling \in Nat
  BY Numbers
<1>2. HasCall(s) => corpus.chat[s].marked = (Answer(s).cost > Ceiling)
  <2>1. HasCall(s) =>
          corpus.chat[s] = [answer |-> Answer(s), marked |-> Answer(s).cost > Ceiling]
    BY DEF CollectorInv, MarkedAboveCeiling, HasCall
  <2> QED BY <2>1
<1>3. Cost(s) > Ceiling <=> HasCall(s) /\ corpus.chat[s].marked
  <2>1. CASE HasCall(s)
    BY <1>2, <2>1 DEF Cost
  <2>2. CASE ~HasCall(s)
    BY <1>1, <2>2 DEF Cost
  <2> QED BY <2>1, <2>2
<1> QED BY <1>3 DEF Fired, Detections

\* The gate's own replay and the recorded detections are counted alike.
LEMMA CountsAgree == ASSUME Inv PROVE ReportsAgree
<1> SUFFICES ASSUME Replayable, NEW d \in Detectors
             PROVE  LET gate == Agreement(d, {})  study == Confusion(d)
                    IN  /\ gate.fired = study.tp + study.fp
                        /\ gate.should = study.tp + study.fn
                        /\ gate.both = study.tp
  BY DEF ReportsAgree
<1> DEFINE scored == DOMAIN derived \cap Sessions
           fired == {s \in scored : d \in Detections(s)}
           should == {s \in scored : derived[s] \in ShouldFire(d)}
<1>1. DOMAIN derived = scored
  BY DEF Replayable, Inv, OfflineInv, LabelsTyped
<1>2. \A s : Fired(s, {}) = Detections(s)
  BY ReplayIsFaithful DEF Inv
<1>3. Agreement(d, {}) = [fired |-> Cardinality(fired), should |-> Cardinality(should),
                          both |-> Cardinality(fired \cap should)]
  <2>1. {s \in DOMAIN derived : d \in Fired(s, {})} = fired
    BY <1>1, <1>2
  <2>2. {s \in DOMAIN derived : derived[s] \in ShouldFire(d)} = should
    BY <1>1
  <2> HIDE DEF fired, should
  <2> QED BY <2>1, <2>2 DEF Agreement
<1>4. /\ Confusion(d).tp = Cardinality(fired \cap should)
      /\ Confusion(d).fp = Cardinality(fired \ should)
      /\ Confusion(d).fn = Cardinality(should \ fired)
  BY DEF Confusion
<1>5. IsFiniteSet(fired) /\ IsFiniteSet(should)
  <2>1. IsFiniteSet(Sessions)
    BY Finitely DEF Inv, CollectorInv
  <2>2. fired \subseteq Sessions /\ should \subseteq Sessions
    OBVIOUS
  <2> HIDE DEF fired, should
  <2> QED BY <2>1, <2>2, FS_Subset
<1> HIDE DEF fired, should
<1>6. /\ Cardinality(fired \ should) = Cardinality(fired) - Cardinality(fired \cap should)
      /\ Cardinality(should \ fired) = Cardinality(should) - Cardinality(fired \cap should)
      /\ Cardinality(fired) \in Nat /\ Cardinality(should) \in Nat
      /\ Cardinality(fired \cap should) \in Nat
  <2>1. should \cap fired = fired \cap should
    OBVIOUS
  <2>2. IsFiniteSet(fired \cap should)
    BY <1>5, FS_Intersection
  <2> QED BY <1>5, <2>1, <2>2, FS_Difference, FS_CardinalityType
<1> QED BY <1>3, <1>4, <1>6

\* A baseline that is accepted is one the detectors reproduce on every session.
LEMMA UpdateBaselineInv == ASSUME Inv, UpdateBaseline PROVE Inv'
<1> USE DEF UpdateBaseline, Inv
<1>1. CollectorInv'
  BY CollectorKept
<1>2. UNCHANGED <<corpus, derived, labels, desk, read>>
        /\ Sessions' = Sessions /\ Sample' = Sample /\ AlreadyLabelled' = AlreadyLabelled
  BY DEF collecting, sitting, Sessions, Sample, AlreadyLabelled
<1>3. {s \in Sessions : Fired(s, {}) = Detections(s)} = Sessions
  BY ReplayIsFaithful
<1>4. /\ baseline'.sessions = Cardinality(Sessions)
      /\ baseline'.matched = Cardinality(Sessions)
      /\ baseline'.fixtures = AllBehave
  BY <1>3 DEF Measure
<1>5. Cardinality(Sessions) \in Nat \ {0}
  BY Finitely, FS_EmptySet DEF CollectorInv, OfflineInv, LabelsTyped, Replayable
<1>6. BaselineReproduced'
  BY <1>4, <1>5 DEF BaselineReproduced
<1>7. LabelsTyped' /\ LabelsAreTheSample' /\ DeskIsUnlabelled'
  BY <1>2 DEF OfflineInv, LabelsTyped, LabelsAreTheSample, DeskIsUnlabelled
<1> QED BY <1>1, <1>6, <1>7 DEF OfflineInv

\* Of fewer than twenty thousand sessions, rounding hides no one that is not matched.
LEMMA RoundingShows ==
  ASSUME NEW total \in Nat \ {0}, total < 20000, NEW hits \in Nat, hits < total
  PROVE  Share(hits, total) < Share(total, total)
<1>1. (20000 * total + total) \div (2 * total) >= 10000
  OBVIOUS
<1>2. (20000 * hits + total) \div (2 * total) < 10000
  OBVIOUS
<1>3. (20000 * total + total) \div (2 * total) \in Int
        /\ (20000 * hits + total) \div (2 * total) \in Int
  OBVIOUS
<1> QED BY <1>1, <1>2, <1>3 DEF Share

\* Any change that alters what is reported of any set of sessions is blocked, not
\* only of one or two, and whatever size the baseline's corpus was of.
GateBlocksEveryChange ==
  baseline # None =>
    /\ Cardinality(Sessions) < 20000 =>
         \A changed \in SUBSET Sessions :
           changed # {} => ~Compare(Measure(changed, AllBehave), baseline)
    /\ \A changed, fixtures :
         fixtures.broken # 0 \/ ~(fixtures.total >= AllBehave.total)
           => ~Compare(Measure(changed, fixtures), baseline)

LEMMA GateBlocks == ASSUME Inv PROVE GateBlocksEveryChange
<1> SUFFICES ASSUME baseline # None PROVE GateBlocksEveryChange
  BY DEF GateBlocksEveryChange
<1> DEFINE N == Cardinality(Sessions)
<1>1. /\ baseline.sessions \in Nat \ {0} /\ baseline.matched = baseline.sessions
      /\ baseline.fixtures = AllBehave
  BY DEF Inv, OfflineInv, BaselineReproduced
<1>2. ASSUME N < 20000, NEW changed \in SUBSET Sessions, changed # {},
             Compare(Measure(changed, AllBehave), baseline)
      PROVE  FALSE
  <2> DEFINE same == {s \in Sessions : Fired(s, changed) = Detections(s)}
             M == Cardinality(same)
  <2>1. same \subseteq Sessions /\ same # Sessions
    BY <1>2, ReplayIsFaithful DEF Inv
  <2>2. IsFiniteSet(Sessions) /\ N \in Nat
    BY Finitely DEF Inv, CollectorInv
  <2> HIDE DEF same
  <2>3. M \in Nat /\ M < N
    <3>1. IsFiniteSet(same) /\ M <= N /\ M # N
      BY <2>1, <2>2, FS_Subset
    <3>2. M \in Nat
      BY <3>1, FS_CardinalityType
    <3> QED BY <2>2, <3>1, <3>2
  <2>4. Measure(changed, AllBehave).matched = M /\ Measure(changed, AllBehave).sessions = N
    BY DEF Measure, same
  <2>5. /\ N = baseline.sessions
        /\ Share(M, N) >= Share(baseline.matched, baseline.sessions)
    BY <1>2, <2>4 DEF Compare
  <2> HIDE DEF M, N
  <2>6. Share(M, N) < Share(N, N)
    BY <1>1, <1>2, <2>3, <2>5, RoundingShows
  <2>7. Share(M, N) \in Int /\ Share(N, N) \in Int
    BY <1>1, <2>3, <2>5 DEF Share
  <2> QED BY <1>1, <2>5, <2>6, <2>7
<1>3. ASSUME NEW changed, NEW fixtures,
             fixtures.broken # 0 \/ ~(fixtures.total >= AllBehave.total),
             Compare(Measure(changed, fixtures), baseline)
      PROVE  FALSE
  <2>1. Measure(changed, fixtures).fixtures = fixtures
    BY DEF Measure
  <2> QED BY <1>1, <1>3, <2>1 DEF Compare
<1> QED BY <1>2, <1>3 DEF GateBlocksEveryChange

------------------------------------------------------------------------------

THEOREM Invariant == Spec => []Inv
<1>1. Inv /\ [Next]_vars => Inv'
  <2> SUFFICES ASSUME Inv, [Next]_vars PROVE Inv'
    OBVIOUS
  <2>1. CASE Work \/ \E sessions \in Targets : Start(sessions)
    BY <2>1, StartInv, BeginRunInv, EndRunInv, FinishInv, EndItemInv, EndCallInv DEF Work
  <2>2. CASE Stop
    BY <2>2, StopInv, KillInv DEF Stop
  <2>3. CASE Derive \/ SitDown \/ GetUp \/ UpdateBaseline
    BY <2>3, DeriveInv, SitDownInv, GetUpInv, UpdateBaselineInv
  <2>4. CASE \E label \in {"A1", "SKIP"} : Label(label)
    BY <2>4, LabelInv
  <2>5. CASE UNCHANGED vars
    <3>1. UNCHANGED collecting /\ UNCHANGED Offline /\ corpus' = corpus
      BY <2>5 DEF vars, collecting, Offline
    <3>2. Sessions' = Sessions /\ IsFiniteSet(Sessions)
      BY <3>1, Finitely DEF Sessions, Inv, CollectorInv
    <3> QED BY <3>1, <3>2, CollectorKept, OfflineKept DEF Inv
  <2> QED BY <2>1, <2>2, <2>3, <2>4, <2>5 DEF Next
<1> QED BY InitInv, <1>1, PTL DEF Spec

\* Every file speaks of sessions that were opened, and every label, desk and count
\* of sessions that are in the corpus.
THEOREM TypeCorrect == Spec => []TypeOK
<1>1. Inv => TypeOK
  BY DEF Inv, CollectorInv, OfflineInv, CollectorTyped, LabelsTyped, TypeOK, Sessions
<1> QED BY <1>1, Invariant, PTL

\* The collector goes on from what the corpus holds and stops within a run of its
\* target, however often it was stopped or started with another.
THEOREM Resumes == Spec => []ResumesWhereItStopped
BY Invariant, PTL DEF Inv, CollectorInv

\* No stop leaves a session that is counted without its call, but of those it cut.
THEOREM CountedAreWhole == Spec => []CountedSessionsAreWhole
BY Invariant, PTL DEF Inv, CollectorInv

\* Nobody labels a session twice, whatever the corpus has grown by between and under the
\* sittings, and while it has not grown since, what is labelled is of its sample.
THEOREM LabelledIsSampled == Spec => []LabelsAreTheSample
BY Invariant, PTL DEF Inv, OfflineInv

\* precision.py and the gate count the same.
THEOREM ReportsNeverDisagree == Spec => []ReportsAgree
BY Invariant, CountsAgree, PTL

\* The gate lets no change of what is reported pass, and no broken fixture, of a corpus
\* that has been extended since the baseline, or not, to fewer than twenty thousand
\* sessions: of more, the four digits a ratio is rounded to can hide one.
THEOREM GateHolds ==
  Spec => [](/\ GateBlocksEveryChange
             /\ Cardinality(Sessions) < 20000 => GateHoldsTheLine)
<1>1. GateBlocksEveryChange /\ Cardinality(Sessions) < 20000 => GateHoldsTheLine
  <2> SUFFICES ASSUME GateBlocksEveryChange, baseline # None, Cardinality(Sessions) < 20000
               PROVE  GateHoldsTheLine
    BY DEF GateHoldsTheLine
  <2>1. ASSUME NEW s \in Sessions, NEW u \in Sessions
        PROVE  ~Compare(Measure({s, u}, AllBehave), baseline)
    BY DEF GateBlocksEveryChange
  <2>2. ASSUME NEW fixtures \in {[AllBehave EXCEPT !.total = 7], [AllBehave EXCEPT !.broken = 1]}
        PROVE  ~Compare(Measure({}, fixtures), baseline)
    <3>1. fixtures.broken # 0 \/ ~(fixtures.total >= AllBehave.total)
      BY DEF AllBehave
    <3> QED BY <3>1 DEF GateBlocksEveryChange
  <2> QED BY <2>1, <2>2 DEF GateHoldsTheLine
<1> QED BY <1>1, Invariant, GateBlocks, PTL

==============================================================================
