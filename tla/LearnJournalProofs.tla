-------------------------- MODULE LearnJournalProofs --------------------------
(***************************************************************************)
(* Proofs about LearnJournal, for any learnings, drains, processes, budget *)
(* and number of crashes: typing, no accepted learning is lost, the retry  *)
(* budget is not cut short, and the journal implements DurableQueue.       *)
(***************************************************************************)
EXTENDS LearnJournal, TLAPS

-----------------------------------------------------------------------------
(* Typing *)

\* A call and a drain are never the same actor.
LEMMA ActorSplit ==
  /\ \A w \in Worker : w \notin Id /\ On(w) = cur[w] /\ w \in Actor
  /\ \A i \in Id : On(i) = i /\ i \in Actor
BY JournalAssumption DEF On, Actor

\* Every actor works on a learning.
LEMMA OnType ==
  ASSUME JournalTypeOK, NEW a \in Actor
  PROVE  On(a) \in Id
BY DEF JournalTypeOK, On, Actor

\* Each actor is at a step of its own kind.
StepsOK ==
    /\ pc \in [Actor -> CallSteps \cup DrainSteps]
    /\ \A i \in Id : pc[i] \in CallSteps
    /\ \A w \in Worker : pc[w] \in DrainSteps

LEMMA GotoType ==
  ASSUME JournalTypeOK, NEW a \in Actor, NEW step, Goto(a, step),
         a \in Id => step \in CallSteps, a \in Worker => step \in DrainSteps
  PROVE  StepsOK'
BY ActorSplit DEF JournalTypeOK, StepsOK, Goto, Actor

LEMMA GotoStep ==
  ASSUME JournalTypeOK, NEW a \in Actor, NEW step, Goto(a, step)
  PROVE  pc'[a] = step
BY DEF JournalTypeOK, Goto

\* Replays are only ever counted up.
LEMMA CountedType ==
  ASSUME JournalTypeOK, NEW a \in Actor
  PROVE  /\ Counted(a) \in [Id -> Nat]
         /\ \A i \in Id : tried[i] <= Counted(a)[i]
<1>1. CASE a \in Id
  BY <1>1 DEF JournalTypeOK, Counted
<1>2. CASE a \in Worker
  <2>1. a \notin Id /\ cur[a] \in Id /\ tried[cur[a]] \in Nat
    BY <1>2, ActorSplit DEF JournalTypeOK
  <2>2. PICK n \in Nat : tried[cur[a]] <= n /\ Counted(a) = [tried EXCEPT ![cur[a]] = n]
    BY <2>1 DEF Counted
  <2> QED
    BY <2>1, <2>2 DEF JournalTypeOK
<1> QED
  BY <1>1, <1>2 DEF Actor

\* The steps a call and a drain share, and where each goes after them.
LEMMA ExecuteTyping ==
  ASSUME JournalTypeOK, NEW a \in Actor, Execute(a)
  PROVE  JournalTypeOK'
<1>1. CASE Store(a)
  <2>1. StepsOK'
    BY <1>1, GotoType, ActorSplit DEF Store, Leave, CallSteps, DrainSteps, Actor
  <2> QED
    BY <1>1, <2>1, OnType, CountedType DEF Store, StepsOK, JournalTypeOK, files, local, history
<1>2. CASE StoreFails(a)
  <2>1. StepsOK'
    BY <1>2, GotoType, ActorSplit DEF StoreFails, Leave, CallSteps, DrainSteps, Actor
  <2> QED
    BY <1>2, <2>1, OnType, CountedType DEF StoreFails, StepsOK, JournalTypeOK, files, local, history
<1>3. CASE StoreLimited(a)
  <2>1. StepsOK'
    BY <1>3, GotoType, ActorSplit DEF StoreLimited, Leave, CallSteps, DrainSteps, Actor
  <2> QED
    BY <1>3, <2>1, OnType DEF StoreLimited, StepsOK, JournalTypeOK, files, local, history
<1>4. CASE StoreRefuses(a)
  <2>1. StepsOK'
    BY <1>4, GotoType, ActorSplit DEF StoreRefuses, Leave, CallSteps, DrainSteps, Actor
  <2> QED
    BY <1>4, <2>1, OnType DEF StoreRefuses, StepsOK, JournalTypeOK, files, local, history
<1>5. CASE Consume(a)
  <2>1. StepsOK'
    BY <1>5, GotoType, ActorSplit DEF Consume, Leave, CallSteps, DrainSteps, Actor
  <2> QED
    BY <1>5, <2>1, OnType DEF Consume, StepsOK, JournalTypeOK, files, local, history
<1>6. CASE Bury(a)
  <2>1. StepsOK'
    BY <1>6, GotoType, ActorSplit DEF Bury, Leave, CallSteps, DrainSteps, Actor
  <2> QED
    BY <1>6, <2>1, OnType DEF Bury, StepsOK, JournalTypeOK, files, local, history
<1>7. CASE Copy(a)
  <2>1. StepsOK'
    BY <1>7, GotoType, ActorSplit DEF Copy, Leave, CallSteps, DrainSteps, Actor
  <2> QED
    BY <1>7, <2>1, OnType DEF Copy, StepsOK, JournalTypeOK, files, local, history
<1>8. CASE Unlink(a)
  <2>1. StepsOK'
    BY <1>8, GotoType, ActorSplit DEF Unlink, Leave, CallSteps, DrainSteps, Actor
  <2> QED
    BY <1>8, <2>1, OnType DEF Unlink, StepsOK, JournalTypeOK, files, local, history
<1> QED
  BY <1>1, <1>2, <1>3, <1>4, <1>5, <1>6, <1>7, <1>8 DEF Execute

\* The steps of a drain around a replay.
LEMMA DrainTyping ==
  ASSUME JournalTypeOK, NEW w \in Worker, Sweep(w) \/ Drain(w) \/ Stop(w)
  PROVE  JournalTypeOK'
<1>1. CASE Sweep(w)
  <2>1. StepsOK'
    BY <1>1, GotoType, ActorSplit DEF Sweep, DrainSteps
  <2> QED
    BY <1>1, <2>1 DEF Sweep, StepsOK, JournalTypeOK, files, local, history
<1>2. CASE Take(w)
  <2>1. StepsOK'
    BY <1>2, GotoType, ActorSplit DEF Take, DrainSteps
  <2> QED
    BY <1>2, <2>1 DEF Take, StepsOK, JournalTypeOK, files, local, history
<1>3. CASE Publish(w)
  <2>1. StepsOK'
    BY <1>3, GotoType, ActorSplit DEF Publish, DrainSteps
  <2> QED
    BY <1>3, <2>1, JournalAssumption, ActorSplit DEF Publish, StepsOK, JournalTypeOK, files, local, history, Owner
<1>4. CASE Judge(w)
  <2>1. StepsOK'
    BY <1>4, GotoType, ActorSplit DEF Judge, DrainSteps
  <2> QED
    BY <1>4, <2>1 DEF Judge, StepsOK, JournalTypeOK, files, local, history
<1>5. CASE Reclaim(w)
  <2>1. StepsOK'
    BY <1>5, GotoType, ActorSplit DEF Reclaim, DrainSteps
  <2> QED
    BY <1>5, <2>1 DEF Reclaim, StepsOK, JournalTypeOK, files, local, history
<1>6. CASE Check(w)
  <2>1. StepsOK'
    BY <1>6, GotoType, ActorSplit DEF Check, DrainSteps
  <2> QED
    BY <1>6, <2>1 DEF Check, StepsOK, JournalTypeOK, files, local, history
<1>7. CASE Classify(w)
  <2>1. StepsOK'
    BY <1>7, GotoType, ActorSplit DEF Classify, DrainSteps
  <2> QED
    BY <1>7, <2>1 DEF Classify, StepsOK, JournalTypeOK, files, local, history
<1>8. CASE Book(w)
  <2>1. StepsOK'
    BY <1>8, GotoType, ActorSplit DEF Book, DrainSteps
  <2> QED
    BY <1>8, <2>1 DEF Book, StepsOK, JournalTypeOK, files, local, history, ThisAttempt
<1>9. CASE Release(w)
  <2>1. StepsOK'
    BY <1>9, GotoType, ActorSplit DEF Release, DrainSteps
  <2> QED
    BY <1>9, <2>1 DEF Release, StepsOK, JournalTypeOK, files, local, history
<1>10. CASE Stop(w)
  <2>1. StepsOK'
    BY <1>10, GotoType, ActorSplit DEF Stop, DrainSteps
  <2> QED
    BY <1>10, <2>1 DEF Stop, StepsOK, JournalTypeOK, files, local, history
<1>11. CASE Execute(w)
  BY <1>11, ExecuteTyping, ActorSplit
<1> QED
  BY <1>1, <1>2, <1>3, <1>4, <1>5, <1>6, <1>7, <1>8, <1>9, <1>10, <1>11 DEF Drain

\* Files, claims and memories keep their types.
THEOREM JournalTyping == Spec => []JournalTypeOK
<1>1. Init => JournalTypeOK
  <2> SUFFICES ASSUME Init
               PROVE  JournalTypeOK
    OBVIOUS
  <2>1. (CHOOSE i \in Id : TRUE) \in Id
    BY JournalAssumption
  <2>2. StepsOK
    BY ActorSplit DEF Init, StepsOK, CallSteps, DrainSteps, Actor
  <2> QED
    BY <2>1, <2>2 DEF Init, StepsOK, JournalTypeOK
<1>2. JournalTypeOK /\ [Next]_vars => JournalTypeOK'
  <2> SUFFICES ASSUME JournalTypeOK, [Next]_vars
               PROVE  JournalTypeOK'
    OBVIOUS
  <2>1. ASSUME NEW i \in Id, Learn(i)
        PROVE  JournalTypeOK'
    <3>1. StepsOK'
      BY <2>1, GotoType, ActorSplit DEF Learn, CallSteps
    <3> QED
      BY <2>1, <3>1 DEF Learn, StepsOK, JournalTypeOK, local
  <2>2. ASSUME NEW i \in Id, Execute(i)
        PROVE  JournalTypeOK'
    BY <2>2, ExecuteTyping, ActorSplit
  <2>3. ASSUME NEW w \in Worker, Sweep(w) \/ Drain(w) \/ Stop(w)
        PROVE  JournalTypeOK'
    BY <2>3, DrainTyping
  <2>4. ASSUME NEW p \in Process, Crash(p)
        PROVE  JournalTypeOK'
    <3>1. StepsOK'
      BY <2>4, ActorSplit DEF Crash, StepsOK, JournalTypeOK, CallSteps, DrainSteps, Actor
    <3> QED
      BY <2>4, <3>1 DEF Crash, StepsOK, JournalTypeOK, files, history
  <2>5. CASE UNCHANGED vars
    BY <2>5 DEF vars, JournalTypeOK, files, local, history
  <2> QED
    BY <2>1, <2>2, <2>3, <2>4, <2>5 DEF Next
<1> QED
  BY <1>1, <1>2, PTL DEF Spec

-----------------------------------------------------------------------------
(* No accepted learning is lost *)

\* Nothing is known of a learning before its call journaled it.
Journaling ==
    /\ \A i \in Id : pc[i] = "new" <=> i \notin journaled
    /\ pending \subseteq journaled
    /\ stored \subseteq journaled
    /\ \A i \in Id : dead[i] # "none" => i \in journaled
    /\ \A w \in Worker : todo[w] \subseteq journaled
    /\ \A w \in Worker : pc[w] \notin {"idle", "scan"} => cur[w] \in journaled

\* An actor about to remove a pending file has settled its learning.
RemovesSettled ==
    \A a \in Actor :
        /\ pc[a] = "consume" => On(a) \in stored
        /\ pc[a] = "unlink" => dead[On(a)] # "none"

AccountInv == Journaling /\ RemovesSettled /\ EveryLearningIsAccounted

\* The learning of an actor that is busy was journaled.
LEMMA BusyIsJournaled ==
  ASSUME JournalTypeOK, Journaling, NEW a \in Actor,
         pc[a] \notin {"new", "idle", "scan"}
  PROVE  On(a) \in journaled
BY ActorSplit DEF Journaling, Actor

LEMMA ExecuteAccounts ==
  ASSUME JournalTypeOK, AccountInv, NEW a \in Actor, Execute(a)
  PROVE  AccountInv'
<1> USE ActorSplit, OnType, BusyIsJournaled DEF AccountInv
<1>1. CASE Store(a)
  <2>1. Journaling'
    BY <1>1 DEF Store, JournalTypeOK, Journaling, Goto, Leave, files, local, history, Actor
  <2>2. RemovesSettled'
    BY <1>1 DEF Store, JournalTypeOK, RemovesSettled, Goto, Leave, files, local, history, On, Actor
  <2>3. EveryLearningIsAccounted'
    BY <1>1 DEF Store, JournalTypeOK, RemovesSettled, EveryLearningIsAccounted, files, history
  <2> QED
    BY <2>1, <2>2, <2>3
<1>2. CASE StoreFails(a)
  <2>1. Journaling'
    BY <1>2 DEF StoreFails, JournalTypeOK, Journaling, Goto, Leave, files, local, history, Actor
  <2>2. RemovesSettled'
    BY <1>2 DEF StoreFails, JournalTypeOK, RemovesSettled, Goto, Leave, files, local, history, On, Actor
  <2>3. EveryLearningIsAccounted'
    BY <1>2 DEF StoreFails, JournalTypeOK, RemovesSettled, EveryLearningIsAccounted, files, history
  <2> QED
    BY <2>1, <2>2, <2>3
<1>3. CASE StoreLimited(a)
  <2>1. Journaling'
    BY <1>3 DEF StoreLimited, JournalTypeOK, Journaling, Goto, Leave, files, local, history, Actor
  <2>2. RemovesSettled'
    BY <1>3 DEF StoreLimited, JournalTypeOK, RemovesSettled, Goto, Leave, files, local, history, On, Actor
  <2>3. EveryLearningIsAccounted'
    BY <1>3 DEF StoreLimited, JournalTypeOK, RemovesSettled, EveryLearningIsAccounted, files, history
  <2> QED
    BY <2>1, <2>2, <2>3
<1>4. CASE StoreRefuses(a)
  <2>1. Journaling'
    BY <1>4 DEF StoreRefuses, JournalTypeOK, Journaling, Goto, Leave, files, local, history, Actor
  <2>2. RemovesSettled'
    BY <1>4 DEF StoreRefuses, JournalTypeOK, RemovesSettled, Goto, Leave, files, local, history, On, Actor
  <2>3. EveryLearningIsAccounted'
    BY <1>4 DEF StoreRefuses, JournalTypeOK, RemovesSettled, EveryLearningIsAccounted, files, history
  <2> QED
    BY <2>1, <2>2, <2>3
<1>5. CASE Consume(a)
  <2>1. Journaling'
    BY <1>5 DEF Consume, JournalTypeOK, Journaling, Goto, Leave, files, local, history, Actor
  <2>2. RemovesSettled'
    BY <1>5 DEF Consume, JournalTypeOK, RemovesSettled, Goto, Leave, files, local, history, On, Actor
  <2>3. EveryLearningIsAccounted'
    <3>1. On(a) \in stored /\ stored' = stored /\ dead' = dead /\ journaled' = journaled
      BY <1>5 DEF Consume, RemovesSettled, history
    <3> QED
      BY <1>5, <3>1 DEF Consume, EveryLearningIsAccounted
  <2> QED
    BY <2>1, <2>2, <2>3
<1>6. CASE Bury(a)
  <2>1. Journaling'
    BY <1>6 DEF Bury, JournalTypeOK, Journaling, Goto, Leave, files, local, history, Actor
  <2>2. RemovesSettled'
    BY <1>6 DEF Bury, JournalTypeOK, RemovesSettled, Goto, Leave, files, local, history, On, Actor
  <2>3. EveryLearningIsAccounted'
    BY <1>6 DEF Bury, JournalTypeOK, RemovesSettled, EveryLearningIsAccounted, files, history
  <2> QED
    BY <2>1, <2>2, <2>3
<1>7. CASE Copy(a)
  <2>1. Journaling'
    <3>1. On(a) \in journaled /\ journaled' = journaled
      BY <1>7 DEF Copy, history
    <3>2. \A i \in Id \ {On(a)} : dead'[i] = dead[i]
      BY <1>7 DEF Copy, JournalTypeOK
    <3>3. /\ pc[a] \in {"copy whole", "copy husk"} /\ pc' = [pc EXCEPT ![a] = "unlink"]
          /\ UNCHANGED <<pending, stored, cur, todo>>
      BY <1>7 DEF Copy, Goto, local
    <3> QED
      BY <3>1, <3>2, <3>3 DEF JournalTypeOK, Journaling, Actor
  <2>2. RemovesSettled'
    BY <1>7 DEF Copy, JournalTypeOK, RemovesSettled, Goto, Leave, files, local, history, On, Actor
  <2>3. EveryLearningIsAccounted'
    BY <1>7 DEF Copy, JournalTypeOK, RemovesSettled, EveryLearningIsAccounted, files, history
  <2> QED
    BY <2>1, <2>2, <2>3
<1>8. CASE Unlink(a)
  <2>1. Journaling'
    BY <1>8 DEF Unlink, JournalTypeOK, Journaling, Goto, Leave, files, local, history, Actor
  <2>2. RemovesSettled'
    BY <1>8 DEF Unlink, JournalTypeOK, RemovesSettled, Goto, Leave, files, local, history, On, Actor
  <2>3. EveryLearningIsAccounted'
    BY <1>8 DEF Unlink, JournalTypeOK, RemovesSettled, EveryLearningIsAccounted, files, history
  <2> QED
    BY <2>1, <2>2, <2>3
<1> QED
  BY <1>1, <1>2, <1>3, <1>4, <1>5, <1>6, <1>7, <1>8 DEF Execute

LEMMA DrainAccounts ==
  ASSUME JournalTypeOK, AccountInv, NEW w \in Worker, Sweep(w) \/ Drain(w) \/ Stop(w)
  PROVE  AccountInv'
<1> USE ActorSplit DEF AccountInv
<1>1. CASE Sweep(w)
  <2>1. Journaling'
    BY <1>1 DEF Sweep, JournalTypeOK, Journaling, Goto, files, local, history, Actor
  <2>2. RemovesSettled'
    BY <1>1 DEF Sweep, JournalTypeOK, RemovesSettled, Goto, files, local, history, On, Actor
  <2>3. EveryLearningIsAccounted'
    BY <1>1 DEF Sweep, EveryLearningIsAccounted, files, history
  <2> QED
    BY <2>1, <2>2, <2>3
<1>2. CASE Take(w)
  <2>1. Journaling'
    BY <1>2 DEF Take, JournalTypeOK, Journaling, Goto, files, local, history, Actor
  <2>2. RemovesSettled'
    BY <1>2 DEF Take, JournalTypeOK, RemovesSettled, Goto, files, local, history, On, Actor
  <2>3. EveryLearningIsAccounted'
    BY <1>2 DEF Take, EveryLearningIsAccounted, files, history
  <2> QED
    BY <2>1, <2>2, <2>3
<1>3. CASE Publish(w)
  <2>1. Journaling'
    BY <1>3 DEF Publish, JournalTypeOK, Journaling, Goto, files, local, history, Actor
  <2>2. RemovesSettled'
    BY <1>3 DEF Publish, JournalTypeOK, RemovesSettled, Goto, files, local, history, On, Actor
  <2>3. EveryLearningIsAccounted'
    BY <1>3 DEF Publish, EveryLearningIsAccounted, files, history
  <2> QED
    BY <2>1, <2>2, <2>3
<1>4. CASE Judge(w)
  <2>1. Journaling'
    BY <1>4 DEF Judge, JournalTypeOK, Journaling, Goto, files, local, history, Actor
  <2>2. RemovesSettled'
    BY <1>4 DEF Judge, JournalTypeOK, RemovesSettled, Goto, files, local, history, On, Actor
  <2>3. EveryLearningIsAccounted'
    BY <1>4 DEF Judge, EveryLearningIsAccounted, files, history
  <2> QED
    BY <2>1, <2>2, <2>3
<1>5. CASE Reclaim(w)
  <2>1. Journaling'
    BY <1>5 DEF Reclaim, JournalTypeOK, Journaling, Goto, files, local, history, Actor
  <2>2. RemovesSettled'
    BY <1>5 DEF Reclaim, JournalTypeOK, RemovesSettled, Goto, files, local, history, On, Actor
  <2>3. EveryLearningIsAccounted'
    BY <1>5 DEF Reclaim, EveryLearningIsAccounted, files, history
  <2> QED
    BY <2>1, <2>2, <2>3
<1>6. CASE Check(w)
  <2>1. Journaling'
    BY <1>6 DEF Check, JournalTypeOK, Journaling, Goto, files, local, history, Actor
  <2>2. RemovesSettled'
    BY <1>6 DEF Check, JournalTypeOK, RemovesSettled, Goto, files, local, history, On, Actor
  <2>3. EveryLearningIsAccounted'
    BY <1>6 DEF Check, EveryLearningIsAccounted, files, history
  <2> QED
    BY <2>1, <2>2, <2>3
<1>7. CASE Classify(w)
  <2>1. Journaling'
    BY <1>7 DEF Classify, JournalTypeOK, Journaling, Goto, files, local, history, Actor
  <2>2. RemovesSettled'
    BY <1>7 DEF Classify, JournalTypeOK, RemovesSettled, Goto, files, local, history, On, Actor
  <2>3. EveryLearningIsAccounted'
    BY <1>7 DEF Classify, EveryLearningIsAccounted, files, history
  <2> QED
    BY <2>1, <2>2, <2>3
<1>8. CASE Book(w)
  <2>1. Journaling'
    BY <1>8 DEF Book, JournalTypeOK, Journaling, Goto, files, local, history, Actor
  <2>2. RemovesSettled'
    BY <1>8 DEF Book, JournalTypeOK, RemovesSettled, Goto, files, local, history, On, Actor
  <2>3. EveryLearningIsAccounted'
    BY <1>8 DEF Book, EveryLearningIsAccounted, files, history
  <2> QED
    BY <2>1, <2>2, <2>3
<1>9. CASE Release(w)
  <2>1. Journaling'
    BY <1>9 DEF Release, JournalTypeOK, Journaling, Goto, files, local, history, Actor
  <2>2. RemovesSettled'
    BY <1>9 DEF Release, JournalTypeOK, RemovesSettled, Goto, files, local, history, On, Actor
  <2>3. EveryLearningIsAccounted'
    BY <1>9 DEF Release, EveryLearningIsAccounted, files, history
  <2> QED
    BY <2>1, <2>2, <2>3
<1>10. CASE Stop(w)
  <2>1. Journaling'
    BY <1>10 DEF Stop, JournalTypeOK, Journaling, Goto, files, local, history, Actor
  <2>2. RemovesSettled'
    BY <1>10 DEF Stop, JournalTypeOK, RemovesSettled, Goto, files, local, history, On, Actor
  <2>3. EveryLearningIsAccounted'
    BY <1>10 DEF Stop, EveryLearningIsAccounted, files, history
  <2> QED
    BY <2>1, <2>2, <2>3
<1>11. CASE Execute(w)
  BY <1>11, ExecuteAccounts
<1> QED
  BY <1>1, <1>2, <1>3, <1>4, <1>5, <1>6, <1>7, <1>8, <1>9, <1>10, <1>11 DEF Drain

\* The inductive invariant behind durability: files, rows and dead letters exist only for
\* journaled learnings, and whoever removes a file settled its learning before.
THEOREM LearningsStayAccounted == Spec => []AccountInv
<1>1. Init => AccountInv
  BY ActorSplit DEF Init, AccountInv, Journaling, RemovesSettled, EveryLearningIsAccounted, Actor
<1>2. JournalTypeOK /\ AccountInv /\ [Next]_vars => AccountInv'
  <2> SUFFICES ASSUME JournalTypeOK, AccountInv, [Next]_vars
               PROVE  AccountInv'
    OBVIOUS
  <2>1. ASSUME NEW i \in Id, Learn(i)
        PROVE  AccountInv'
    <3> USE <2>1, ActorSplit DEF Learn, AccountInv, JournalTypeOK, local
    <3>1. Journaling'
      BY DEF Journaling, Goto, Actor
    <3>2. RemovesSettled'
      BY DEF RemovesSettled, Goto, On, Actor
    <3>3. EveryLearningIsAccounted'
      BY DEF EveryLearningIsAccounted
    <3> QED
      BY <3>1, <3>2, <3>3
  <2>2. ASSUME NEW i \in Id, Execute(i)
        PROVE  AccountInv'
    BY <2>2, ExecuteAccounts, ActorSplit
  <2>3. ASSUME NEW w \in Worker, Sweep(w) \/ Drain(w) \/ Stop(w)
        PROVE  AccountInv'
    BY <2>3, DrainAccounts
  <2>4. ASSUME NEW p \in Process, Crash(p)
        PROVE  AccountInv'
    <3> USE <2>4, ActorSplit DEF Crash, AccountInv, JournalTypeOK, files, history
    <3>1. Journaling'
      BY DEF Journaling, Actor
    <3>2. RemovesSettled'
      BY DEF RemovesSettled, On, Actor
    <3>3. EveryLearningIsAccounted'
      BY DEF EveryLearningIsAccounted
    <3> QED
      BY <3>1, <3>2, <3>3
  <2>5. CASE UNCHANGED vars
    BY <2>5 DEF vars, files, local, history, AccountInv, Journaling, RemovesSettled,
                EveryLearningIsAccounted, On
  <2> QED
    BY <2>1, <2>2, <2>3, <2>4, <2>5 DEF Next
<1> QED
  BY <1>1, <1>2, JournalTyping, PTL DEF Spec

\* An accepted learning is stored, buried or pending at all times, whatever crashes.
THEOREM NoLearningIsLost == Spec => []EveryLearningIsAccounted
BY LearningsStayAccounted, PTL DEF AccountInv

-----------------------------------------------------------------------------
(* The retry budget is not cut short *)

\* What a file carries or a drain has read never exceeds the replays that really ran, and
\* a record that used its budget up carries no count any more.
CountsHonest ==
    /\ \A i \in Id : attempts[i] <= tried[i] /\ attempts[i] < MaxAttempts
    /\ \A w \in Worker, i \in Id : known[w][i] <= tried[i] /\ known[w][i] < MaxAttempts

\* What a drain knows after a replay.
Verdict(w) ==
    /\ pc[w] \in {"consume", "after try", "book"} => ThisAttempt(w) <= tried[cur[w]]
    /\ pc[w] = "book" => ThisAttempt(w) < MaxAttempts
    /\ pc[w] = "after rejection" => cur[w] \in refused

BurySteps == {"bury", "copy whole", "copy husk"}

\* A learning that may be buried: refused, or out of budget.
MayBury(i) == i \in refused \/ MaxAttempts <= tried[i]

BudgetInv ==
    /\ CountsHonest
    /\ \A w \in Worker : Verdict(w)
    /\ \A a \in Actor : pc[a] \in BurySteps => MayBury(On(a))
    /\ BudgetNotCutShort

\* The history of replays and refusals only grows.
Grows == (\A i \in Id : tried[i] <= tried'[i]) /\ refused \subseteq refused'

LEMMA NatBounds ==
  ASSUME JournalTypeOK
  PROVE  /\ MaxAttempts \in Nat \ {0}
         /\ \A i \in Id : tried[i] \in Nat /\ attempts[i] \in Nat
         /\ \A w \in Worker : cur[w] \in Id
         /\ \A w \in Worker, i \in Id : known[w][i] \in Nat
         /\ \A w \in Worker : ThisAttempt(w) \in Nat
<1>1. \A w \in Worker : cur[w] \in Id
  BY DEF JournalTypeOK
<1>2. \A w \in Worker, i \in Id : known[w][i] \in Nat
  BY DEF JournalTypeOK
<1>3. \A w \in Worker : ThisAttempt(w) \in Nat
  BY <1>1, <1>2 DEF ThisAttempt
<1> QED
  BY <1>1, <1>2, <1>3, JournalAssumption DEF JournalTypeOK

LEMMA GrowsStill ==
  ASSUME JournalTypeOK, tried' = tried, refused \subseteq refused'
  PROVE  Grows
BY NatBounds DEF Grows

LEMMA ExecuteGrows ==
  ASSUME JournalTypeOK, NEW a \in Actor, Execute(a)
  PROVE  Grows
<1>1. tried' = tried \/ tried' = Counted(a)
  BY DEF Execute, Store, StoreFails, StoreLimited, StoreRefuses, Consume, Bury, Copy, Unlink, history
<1>2. refused \subseteq refused'
  BY DEF Execute, Store, StoreFails, StoreLimited, StoreRefuses, Consume, Bury, Copy, Unlink, history
<1> QED
  BY <1>1, <1>2, GrowsStill, CountedType DEF Grows

LEMMA MayBuryStill ==
  ASSUME JournalTypeOK, JournalTypeOK', Grows, NEW i \in Id, MayBury(i)
  PROVE  MayBury(i)'
<1>1. tried'[i] \in Nat /\ tried[i] \in Nat /\ tried[i] <= tried'[i] /\ MaxAttempts \in Nat
  BY NatBounds DEF JournalTypeOK, Grows
<1> QED
  BY <1>1 DEF MayBury, Grows

\* Counts stay honest when they are kept, reset or read from the files.
LEMMA CountsKept ==
  ASSUME JournalTypeOK, JournalTypeOK', CountsHonest, Grows,
         \A i \in Id : attempts'[i] \in {0, attempts[i]},
         \A w \in Worker, i \in Id : known'[w][i] \in {0, known[w][i], attempts[i]}
  PROVE  CountsHonest'
<1> USE NatBounds DEF CountsHonest
<1>1. ASSUME NEW i \in Id
      PROVE  attempts'[i] <= tried'[i] /\ attempts'[i] < MaxAttempts
  <2>1. tried'[i] \in Nat /\ tried[i] <= tried'[i]
    BY DEF JournalTypeOK, Grows
  <2> QED
    BY <2>1
<1>2. ASSUME NEW w \in Worker, NEW i \in Id
      PROVE  known'[w][i] <= tried'[i] /\ known'[w][i] < MaxAttempts
  <2>1. tried'[i] \in Nat /\ tried[i] <= tried'[i]
    BY DEF JournalTypeOK, Grows
  <2> QED
    BY <2>1
<1> QED
  BY <1>1, <1>2

\* A step that buries nothing cannot cut a budget short.
LEMMA BudgetStill ==
  ASSUME JournalTypeOK, JournalTypeOK', BudgetNotCutShort, Grows, dead' = dead
  PROVE  BudgetNotCutShort'
<1> SUFFICES ASSUME NEW i \in Id, i \notin refused', dead'[i] # "none"
             PROVE  MaxAttempts <= tried'[i]
  BY DEF BudgetNotCutShort
<1>1. MayBury(i)
  BY DEF BudgetNotCutShort, Grows, MayBury
<1> QED
  BY <1>1, MayBuryStill DEF MayBury

\* The verdict of a drain that a step does not touch stays honest.
LEMMA VerdictStill ==
  ASSUME JournalTypeOK, JournalTypeOK', Grows, NEW w \in Worker, Verdict(w),
         pc'[w] = pc[w], cur'[w] = cur[w], known'[w] = known[w]
  PROVE  Verdict(w)'
<1>1. /\ tried[cur[w]] \in Nat /\ tried'[cur[w]] \in Nat /\ tried[cur[w]] <= tried'[cur[w]]
      /\ ThisAttempt(w) \in Nat
  BY NatBounds DEF JournalTypeOK, Grows
<1>2. ThisAttempt(w)' = ThisAttempt(w)
  BY DEF ThisAttempt
<1>3. ThisAttempt(w) <= tried[cur[w]] => ThisAttempt(w) <= tried'[cur[w]]
  BY <1>1
<1> QED
  BY <1>2, <1>3 DEF Verdict, Grows

\* One actor moves: the others keep what they know, so only its own verdict is in question.
LEMMA OneActorMoves ==
  ASSUME JournalTypeOK, JournalTypeOK', BudgetInv, Grows,
         NEW a \in Actor, NEW step, Goto(a, step),
         \A w \in Worker : w # a => cur'[w] = cur[w] /\ known'[w] = known[w],
         CountsHonest', BudgetNotCutShort',
         a \in Worker => Verdict(a)', step \in BurySteps => MayBury(On(a))'
  PROVE  BudgetInv'
<1> USE ActorSplit DEF BudgetInv
<1>1. /\ pc'[a] = step
      /\ \A b \in Actor : b # a => pc'[b] = pc[b]
  BY DEF Goto, JournalTypeOK
<1>2. ASSUME NEW w \in Worker
      PROVE  Verdict(w)'
  <2>1. CASE w = a
    BY <2>1
  <2>2. CASE w # a
    BY <2>2, <1>1, VerdictStill
  <2> QED
    BY <2>1, <2>2
<1>3. ASSUME NEW b \in Actor, pc'[b] \in BurySteps
      PROVE  MayBury(On(b))'
  <2>1. CASE b = a
    BY <2>1, <1>1, <1>3
  <2>2. CASE b # a
    <3>1. On(b)' = On(b) /\ MayBury(On(b)) /\ On(b) \in Id
      BY <2>2, <1>1, <1>3, OnType DEF On, Actor
    <3> QED
      BY <3>1, MayBuryStill DEF MayBury
  <2> QED
    BY <2>1, <2>2
<1> QED
  BY <1>2, <1>3

\* A replay that reached the store counts as one more attempt than the drain had read.
LEMMA ReplayCounts ==
  ASSUME JournalTypeOK, CountsHonest, NEW w \in Worker
  PROVE  ThisAttempt(w) <= Counted(w)[cur[w]]
<1>1. w \notin Id /\ cur[w] \in Id
  BY ActorSplit DEF JournalTypeOK
<1>2. known[w][cur[w]] \in Nat /\ tried[cur[w]] \in Nat /\ MaxAttempts \in Nat
  BY <1>1, NatBounds
<1>3. known[w][cur[w]] <= tried[cur[w]] /\ known[w][cur[w]] < MaxAttempts
  BY <1>1 DEF CountsHonest
<1>4. Counted(w)[cur[w]] = IF tried[cur[w]] < MaxAttempts THEN tried[cur[w]] + 1 ELSE tried[cur[w]]
  BY <1>1 DEF Counted, JournalTypeOK
<1> QED
  BY <1>2, <1>3, <1>4 DEF ThisAttempt

LEMMA ExecuteKeepsBudget ==
  ASSUME JournalTypeOK, JournalTypeOK', BudgetInv, NEW a \in Actor, Execute(a)
  PROVE  BudgetInv'
<1> USE ActorSplit DEF BudgetInv
<1>1. Grows
  BY ExecuteGrows
<1>2. cur' = cur /\ known' = known
  BY DEF Execute, Store, StoreFails, StoreLimited, StoreRefuses, Consume, Bury, Copy, Unlink, local
<1>3. CountsHonest'
  <2>1. \A i \in Id : attempts'[i] \in {0, attempts[i]}
    BY DEF Execute, Store, StoreFails, StoreLimited, StoreRefuses, Consume, Bury, Copy, Unlink,
           files, JournalTypeOK
  <2> QED
    BY <1>1, <1>2, <2>1, CountsKept
<1>4. BudgetNotCutShort'
  <2>1. CASE Copy(a)
    <3>1. MayBury(On(a)) /\ On(a) \in Id
      BY <2>1, OnType DEF Copy, BurySteps
    <3>2. tried' = tried /\ refused' = refused /\ \A i \in Id \ {On(a)} : dead'[i] = dead[i]
      BY <2>1 DEF Copy, history, JournalTypeOK
    <3> QED
      BY <3>1, <3>2 DEF BudgetNotCutShort, MayBury
  <2>2. CASE ~Copy(a)
    <3>1. dead' = dead
      BY <2>2 DEF Execute, Store, StoreFails, StoreLimited, StoreRefuses, Consume, Bury, Unlink, files
    <3> QED
      BY <1>1, <3>1, BudgetStill
  <2> QED
    BY <2>1, <2>2
<1>5. a \in Worker => Verdict(a)'
  <2> SUFFICES ASSUME a \in Worker
               PROVE  Verdict(a)'
    OBVIOUS
  <2>1. a \notin Id /\ On(a) = cur[a] /\ cur[a] \in Id /\ ThisAttempt(a)' = ThisAttempt(a)
    BY <1>2, NatBounds DEF ThisAttempt
  <2>2. CASE Store(a) \/ StoreFails(a)
    <3>1. pc'[a] \in {"consume", "after try"}
      BY <2>1, <2>2, GotoStep DEF Store, StoreFails
    <3>2. tried' = Counted(a)
      BY <2>2 DEF Store, StoreFails
    <3> QED
      BY <1>2, <2>1, <3>1, <3>2, ReplayCounts DEF Verdict
  <2>3. CASE StoreRefuses(a)
    <3>1. pc'[a] = "after rejection"
      BY <2>1, <2>3, GotoStep DEF StoreRefuses
    <3> QED
      BY <1>2, <2>1, <2>3, <3>1 DEF StoreRefuses, Verdict
  <2>4. CASE Consume(a)
    <3>1. pc'[a] = "after try" /\ pc[a] = "consume" /\ tried' = tried
      BY <2>1, <2>4, GotoStep DEF Consume, history
    <3> QED
      BY <1>2, <2>1, <3>1 DEF Verdict
  <2>5. CASE StoreLimited(a) \/ Bury(a) \/ Copy(a) \/ Unlink(a)
    <3>1. pc'[a] \in {"after limit", "copy whole", "copy husk", "unlink", "release"}
      BY <2>1, <2>5, GotoStep DEF StoreLimited, Bury, Copy, Unlink, Leave
    <3> QED
      BY <3>1 DEF Verdict
  <2> QED
    BY <2>2, <2>3, <2>4, <2>5 DEF Execute
<1>6. pc'[a] \in BurySteps => MayBury(On(a))'
  <2>1. On(a)' = On(a) /\ On(a) \in Id
    BY <1>2, OnType DEF On
  <2>2. CASE Bury(a)
    <3>1. MayBury(On(a))
      BY <2>2 DEF Bury, BurySteps
    <3> QED
      BY <1>1, <2>1, <3>1, MayBuryStill DEF MayBury
  <2>3. CASE StoreRefuses(a)
    BY <2>1, <2>3 DEF StoreRefuses, MayBury
  <2>4. CASE Store(a) \/ StoreFails(a) \/ StoreLimited(a) \/ Consume(a) \/ Copy(a) \/ Unlink(a)
    <3>1. pc'[a] \in {"consume", "over", "after try", "after limit", "unlink", "release"}
      BY <2>4, GotoStep DEF Store, StoreFails, StoreLimited, Consume, Copy, Unlink, Leave
    <3> QED
      BY <3>1 DEF BurySteps
  <2> QED
    BY <2>2, <2>3, <2>4 DEF Execute
<1>7. PICK step : Goto(a, step)
  BY DEF Execute, Store, StoreFails, StoreLimited, StoreRefuses, Consume, Bury, Copy, Unlink, Leave
<1>8. pc'[a] = step
  BY <1>7, GotoStep
<1> QED
  BY <1>1, <1>2, <1>3, <1>4, <1>5, <1>6, <1>7, <1>8, OneActorMoves

LEMMA DrainKeepsBudget ==
  ASSUME JournalTypeOK, JournalTypeOK', BudgetInv, NEW w \in Worker,
         Sweep(w) \/ Drain(w) \/ Stop(w), ~Execute(w)
  PROVE  BudgetInv'
<1> USE ActorSplit DEF BudgetInv
<1> DEFINE Own == Sweep(w) \/ Take(w) \/ Publish(w) \/ Judge(w) \/ Reclaim(w) \/ Check(w)
                  \/ Classify(w) \/ Book(w) \/ Release(w) \/ Stop(w)
<1>1. Own
  BY DEF Drain
<1>2. tried' = tried /\ refused' = refused /\ dead' = dead
  BY <1>1 DEF Sweep, Take, Publish, Judge, Reclaim, Check, Classify, Book, Release, Stop, files, history
<1>3. Grows
  BY <1>2, GrowsStill
<1>4. BudgetNotCutShort'
  BY <1>2, <1>3, BudgetStill
<1>5. \A v \in Worker : v # w => cur'[v] = cur[v] /\ known'[v] = known[v]
  BY <1>1 DEF Sweep, Take, Publish, Judge, Reclaim, Check, Classify, Book, Release, Stop, local, JournalTypeOK
<1>6. CountsHonest'
  <2>1. CASE Book(w)
    <3>1. ThisAttempt(w) <= tried[cur[w]] /\ ThisAttempt(w) < MaxAttempts
      BY <2>1 DEF Book, Verdict
    <3>2. known' = known /\ attempts' = [attempts EXCEPT ![cur[w]] = ThisAttempt(w)]
      BY <2>1 DEF Book, local
    <3> QED
      BY <1>2, <3>1, <3>2 DEF CountsHonest, JournalTypeOK
  <2>2. CASE ~Book(w)
    <3>1. attempts' = attempts
      BY <1>1, <2>2 DEF Sweep, Take, Publish, Judge, Reclaim, Check, Classify, Release, Stop, files
    <3>2. \A v \in Worker, i \in Id : known'[v][i] \in {0, known[v][i], attempts[i]}
      <4>1. CASE Sweep(w)
        BY <4>1 DEF Sweep, JournalTypeOK
      <4>2. CASE Stop(w)
        BY <4>2 DEF Stop, JournalTypeOK
      <4>3. CASE ~Sweep(w) /\ ~Stop(w)
        BY <1>1, <2>2, <4>3 DEF Take, Publish, Judge, Reclaim, Check, Classify, Release, local
      <4> QED
        BY <4>1, <4>2, <4>3
    <3> QED
      BY <1>3, <3>1, <3>2, CountsKept
  <2> QED
    BY <2>1, <2>2
<1>7. Verdict(w)' /\ (pc'[w] \in BurySteps => MayBury(On(w))')
  <2>1. CASE Classify(w)
    <3>1. cur' = cur /\ ThisAttempt(w)' = ThisAttempt(w) /\ On(w)' = cur[w] /\ cur[w] \in Id
      BY <2>1, NatBounds DEF Classify, local, ThisAttempt, On
    <3>2. PICK n \in Nat, t \in Nat : n = ThisAttempt(w) /\ t = tried[cur[w]]
      BY <3>1, NatBounds
    <3>3. pc[w] = "after try" => n <= t
      BY <3>2 DEF Verdict
    <3>4. MaxAttempts \in Nat
      BY NatBounds
    <3>5. CASE pc'[w] = "release"
      BY <3>5 DEF Verdict, BurySteps
    <3>6. CASE pc'[w] = "bury"
      <4>1. pc[w] = "after rejection" \/ (pc[w] = "after try" /\ MaxAttempts <= n)
        BY <2>1, <3>2, <3>6, GotoStep DEF Classify, Exhausted
      <4>2. cur[w] \in refused \/ MaxAttempts <= t
        <5>1. CASE pc[w] = "after rejection"
          BY <5>1 DEF Verdict
        <5>2. CASE MaxAttempts <= n /\ n <= t
          BY <3>2, <3>4, <5>2
        <5> QED
          BY <3>3, <4>1, <5>1, <5>2
      <4> QED
        BY <1>2, <3>1, <3>2, <3>6, <4>2 DEF Verdict, MayBury
    <3>7. CASE pc'[w] = "book"
      <4>1. pc[w] = "after try" /\ ~(MaxAttempts <= n)
        BY <2>1, <3>2, <3>7, GotoStep DEF Classify, Exhausted
      <4>2. n <= t /\ n < MaxAttempts
        <5>1. n <= t
          BY <3>3, <4>1
        <5>2. ~(MaxAttempts <= n) => n < MaxAttempts
          BY <3>2, <3>4
        <5> QED
          BY <4>1, <5>1, <5>2
      <4> QED
        BY <1>2, <3>1, <3>2, <3>7, <4>2 DEF Verdict, BurySteps
    <3> QED
      BY <2>1, <3>5, <3>6, <3>7, GotoStep DEF Classify
  <2>2. CASE ~Classify(w)
    <3>1. pc'[w] \in {"idle", "scan", "publish", "judge", "reclaim", "republish", "check", "run", "release"}
      BY <1>1, <2>2, GotoStep DEF Sweep, Take, Publish, Judge, Reclaim, Check, Book, Release, Stop
    <3> QED
      BY <3>1 DEF Verdict, BurySteps
  <2> QED
    BY <2>1, <2>2
<1>8. PICK step : Goto(w, step)
  BY <1>1 DEF Sweep, Take, Publish, Judge, Reclaim, Check, Classify, Book, Release, Stop
<1>9. pc'[w] = step
  BY <1>8, GotoStep
<1> HIDE DEF Own
<1> QED
  BY <1>3, <1>4, <1>5, <1>6, <1>7, <1>8, <1>9, OneActorMoves

\* The inductive invariant behind the budget: counts in files and memories stay below the
\* replays that ran, however stale the listing they came from.
THEOREM CountsStayHonest == Spec => []BudgetInv
<1>1. Init => BudgetInv
  <2>1. 0 <= 0 /\ 0 < MaxAttempts
    BY JournalAssumption
  <2>2. ASSUME Init
        PROVE  BudgetInv
    <3>1. CountsHonest
      BY <2>1, <2>2 DEF Init, CountsHonest
    <3>2. \A a \in Actor : pc[a] \in {"new", "idle"}
      BY <2>2 DEF Init
    <3>3. \A w \in Worker : Verdict(w)
      BY <3>2, ActorSplit DEF Verdict
    <3>4. \A a \in Actor : pc[a] \notin BurySteps
      BY <3>2 DEF BurySteps
    <3>5. BudgetNotCutShort
      BY <2>2 DEF Init, BudgetNotCutShort
    <3> QED
      BY <3>1, <3>3, <3>4, <3>5 DEF BudgetInv
  <2> QED
    BY <2>2
<1>2. JournalTypeOK /\ JournalTypeOK' /\ BudgetInv /\ [Next]_vars => BudgetInv'
  <2> SUFFICES ASSUME JournalTypeOK, JournalTypeOK', BudgetInv, [Next]_vars
               PROVE  BudgetInv'
    OBVIOUS
  <2>1. ASSUME NEW i \in Id, Learn(i)
        PROVE  BudgetInv'
    <3>1. Grows
      BY <2>1, GrowsStill DEF Learn
    <3>2. CountsHonest'
      <4>1. \A j \in Id : attempts'[j] \in {0, attempts[j]}
        BY <2>1 DEF Learn, JournalTypeOK
      <4>2. known' = known
        BY <2>1 DEF Learn, local
      <4> QED
        BY <3>1, <4>1, <4>2, CountsKept DEF BudgetInv
    <3>3. BudgetNotCutShort'
      BY <2>1, <3>1, BudgetStill DEF Learn, BudgetInv
    <3>4. i \in Actor /\ i \notin Worker /\ Goto(i, "run") /\ cur' = cur /\ known' = known
      BY <2>1, ActorSplit DEF Learn, local
    <3>5. "run" \notin BurySteps
      BY DEF BurySteps
    <3> QED
      BY <3>1, <3>2, <3>3, <3>4, <3>5, OneActorMoves
  <2>2. ASSUME NEW a \in Actor, Execute(a)
        PROVE  BudgetInv'
    BY <2>2, ExecuteKeepsBudget
  <2>3. ASSUME NEW w \in Worker, Sweep(w) \/ Drain(w) \/ Stop(w), ~Execute(w)
        PROVE  BudgetInv'
    BY <2>3, DrainKeepsBudget
  <2>4. ASSUME NEW p \in Process, Crash(p)
        PROVE  BudgetInv'
    <3>1. Grows
      BY <2>4, GrowsStill DEF Crash, history
    <3>2. CountsHonest'
      <4>1. attempts' = attempts
        BY <2>4 DEF Crash, files
      <4>2. \A w \in Worker, i \in Id : known'[w][i] \in {0, known[w][i], attempts[i]}
        BY <2>4 DEF Crash
      <4> QED
        BY <3>1, <4>1, <4>2, CountsKept DEF BudgetInv
    <3>3. BudgetNotCutShort'
      BY <2>4, <3>1, BudgetStill DEF Crash, files, BudgetInv
    <3>4. ASSUME NEW w \in Worker
          PROVE  Verdict(w)'
      <4>1. CASE ProcOf[w] = p
        <5>1. pc'[w] = "idle" \/ pc'[w] = "new"
          BY <2>4, <4>1, ActorSplit DEF Crash
        <5> QED
          BY <5>1 DEF Verdict
      <4>2. CASE ProcOf[w] # p
        <5>1. pc'[w] = pc[w] /\ cur'[w] = cur[w] /\ known'[w] = known[w]
          BY <2>4, <4>2, ActorSplit DEF Crash
        <5> QED
          BY <3>1, <5>1, VerdictStill DEF BudgetInv
      <4> QED
        BY <4>1, <4>2
    <3>5. ASSUME NEW a \in Actor, pc'[a] \in BurySteps
          PROVE  MayBury(On(a))'
      <4>1. pc'[a] = pc[a] /\ On(a)' = On(a)
        BY <2>4, <3>5 DEF Crash, BurySteps, On
      <4>2. MayBury(On(a)) /\ On(a) \in Id
        BY <3>5, <4>1, OnType DEF BudgetInv
      <4> QED
        BY <3>1, <4>1, <4>2, MayBuryStill DEF MayBury
    <3> QED
      BY <3>2, <3>3, <3>4, <3>5 DEF BudgetInv
  <2>5. CASE UNCHANGED vars
    BY <2>5 DEF vars, files, local, history, BudgetInv, CountsHonest, Verdict, MayBury,
                BudgetNotCutShort, ThisAttempt, On
  <2> QED
    BY <2>1, <2>2, <2>3, <2>4, <2>5, ActorSplit DEF Next
<1> QED
  BY <1>1, <1>2, JournalTyping, PTL DEF Spec

\* No learning the store would take is given up before MaxAttempts replays of it ran.
THEOREM BudgetIsKept == Spec => []BudgetNotCutShort
BY CountsStayHonest, PTL DEF BudgetInv

-----------------------------------------------------------------------------
(* Refinement *)

LEMMA SettledIsJournaled ==
  ASSUME JournalTypeOK, AccountInv
  PROVE  Settled \subseteq journaled /\ journaled \ Settled \subseteq pending
BY DEF JournalTypeOK, AccountInv, Journaling, EveryLearningIsAccounted, Settled

\* Storing or burying settles a learning, removing its file forgets it, the rest stutters.
LEMMA ExecuteSimulates ==
  ASSUME JournalTypeOK, AccountInv, NEW a \in Actor, Execute(a)
  PROVE  [Queue!Next]_(Queue!vars)
<1> USE DEF Queue!Next, Queue!vars
<1>1. On(a) \in Id
  BY OnType
<1>2. CASE Store(a) \/ Copy(a)
  <2>1. On(a) \in journaled
    BY <1>2, BusyIsJournaled DEF AccountInv, Store, Copy
  <2>2. Settled' = Settled \cup {On(a)}
    <3>1. CASE Store(a)
      BY <3>1 DEF Store, Settled
    <3>2. CASE Copy(a)
      <4>1. dead'[On(a)] # "none" /\ \A i \in Id \ {On(a)} : dead'[i] = dead[i]
        BY <1>1, <3>2 DEF Copy, JournalTypeOK
      <4>2. stored' = stored
        BY <3>2 DEF Copy
      <4> QED
        BY <1>1, <4>1, <4>2 DEF Settled
    <3> QED
      BY <1>2, <3>1, <3>2
  <2>3. pending' = pending /\ journaled' = journaled
    BY <1>2 DEF Store, Copy, history
  <2>4. CASE On(a) \in Settled
    BY <2>2, <2>3, <2>4
  <2>5. CASE On(a) \notin Settled
    <3>1. Queue!Settle(On(a))
      BY <2>1, <2>2, <2>3, <2>5 DEF Queue!Settle
    <3> QED
      BY <1>1, <3>1
  <2> QED
    BY <2>4, <2>5
<1>3. CASE Consume(a) \/ Unlink(a)
  <2>1. On(a) \in Settled
    BY <1>1, <1>3 DEF AccountInv, RemovesSettled, Consume, Unlink, Settled
  <2>2. Settled' = Settled /\ journaled' = journaled /\ pending' = pending \ {On(a)}
    BY <1>3 DEF Consume, Unlink, Settled, history
  <2>3. Queue!Forget(On(a))
    BY <2>1, <2>2 DEF Queue!Forget
  <2> QED
    BY <1>1, <2>3
<1>4. CASE StoreFails(a) \/ StoreLimited(a) \/ StoreRefuses(a) \/ Bury(a)
  BY <1>4 DEF StoreFails, StoreLimited, StoreRefuses, Bury, files, history, Settled
<1> QED
  BY <1>2, <1>3, <1>4 DEF Execute

\* The journal is a durable queue: files of settled learnings alone are removed, whatever
\* the interleaving of calls, drains and crashes.
THEOREM JournalImplementsDurableQueue == Spec => ImplementsDurableQueue
<1>1. Init => Queue!Init
  BY DEF Init, Queue!Init, Settled
<1>2. JournalTypeOK /\ AccountInv /\ [Next]_vars => [Queue!Next]_(Queue!vars)
  <2> SUFFICES ASSUME JournalTypeOK, AccountInv, [Next]_vars
               PROVE  [Queue!Next]_(Queue!vars)
    OBVIOUS
  <2> USE DEF Queue!Next, Queue!vars
  <2>1. ASSUME NEW i \in Id, Learn(i)
        PROVE  [Queue!Next]_(Queue!vars)
    <3>1. i \notin journaled /\ i \notin Settled
      BY <2>1, SettledIsJournaled DEF Learn, AccountInv, Journaling
    <3>2. Settled' = Settled /\ journaled' = journaled \cup {i} /\ pending' = pending \cup {i}
      BY <2>1 DEF Learn, Settled
    <3>3. Queue!Accept(i)
      BY <3>1, <3>2 DEF Queue!Accept
    <3> QED
      BY <3>3
  <2>2. ASSUME NEW a \in Actor, Execute(a)
        PROVE  [Queue!Next]_(Queue!vars)
    BY <2>2, ExecuteSimulates
  <2>3. ASSUME NEW w \in Worker, Book(w)
        PROVE  [Queue!Next]_(Queue!vars)
    <3>1. cur[w] \in Id /\ cur[w] \in journaled
      BY <2>3 DEF Book, AccountInv, Journaling, JournalTypeOK
    <3>2. Settled' = Settled /\ journaled' = journaled /\ pending' = pending \cup {cur[w]}
      BY <2>3 DEF Book, Settled, history
    <3>3. CASE cur[w] \in Settled
      <4>1. Queue!Recall(cur[w])
        BY <3>2, <3>3 DEF Queue!Recall
      <4> QED
        BY <3>1, <4>1
    <3>4. CASE cur[w] \notin Settled
      BY <3>1, <3>2, <3>4, SettledIsJournaled
    <3> QED
      BY <3>3, <3>4
  <2>4. ASSUME NEW w \in Worker, Sweep(w) \/ Drain(w) \/ Stop(w), ~Execute(w), ~Book(w)
        PROVE  [Queue!Next]_(Queue!vars)
    BY <2>4 DEF Drain, Sweep, Take, Publish, Judge, Reclaim, Check, Classify, Release, Stop,
                files, history, Settled
  <2>5. ASSUME NEW p \in Process, Crash(p)
        PROVE  [Queue!Next]_(Queue!vars)
    BY <2>5 DEF Crash, files, history, Settled
  <2>6. CASE UNCHANGED vars
    BY <2>6 DEF vars, files, history, Settled
  <2> QED
    BY <2>1, <2>2, <2>3, <2>4, <2>5, <2>6, ActorSplit DEF Next, Drain
<1> QED
  BY <1>1, <1>2, JournalTyping, LearningsStayAccounted, PTL DEF Spec, ImplementsDurableQueue, Queue!Spec

================================================================================
