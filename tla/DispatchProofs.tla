----------------------------- MODULE DispatchProofs -----------------------------
(***************************************************************************)
(* Proofs about Dispatch, for any number of dispatches, jobs and pollers,  *)
(* any caps and any waits the assumption allows.  SlotInv says whose slots *)
(* are whose, TimeInv how old a job can be at each of its stages, and      *)
(* RecordInv what a poll may rely on between its steps.                    *)
(***************************************************************************)
EXTENDS Dispatch, TLAPS, FiniteSetTheorems

DispatchTypes ==
    /\ setup \in Setups
    /\ proc \in [Proc -> Standing]
    /\ \A p \in Proc : proc[p].slot \in 0..Cap(p)

OtherTypes ==
    /\ cred \in Proc \cup {None}
    /\ agents \subseteq Proc /\ reqs \subseteq Job /\ sidecars \subseteq Job
    /\ server \in [Job -> {"none", "written", "spawned", "done"}]
    /\ rec \in [Job -> {"none", "running"} \cup Terminal]
    /\ age \in [Job -> 0..(TTL + 1)]
    /\ result \in [Job -> {"none"} \cup Terminal]
    /\ poll \in [Poller -> Polling]
    /\ \A q \in Poller : poll[q].at # "away" => poll[q].job \in Job
    /\ crashes \in 0..MaxCrashes

TypeInv == DispatchTypes /\ OtherTypes

LEMMA TypesAre == TypeInv => DispatchTypeOK
  BY DEF TypeInv, DispatchTypes, OtherTypes, DispatchTypeOK

LEMMA StandingFields ==
    ASSUME NEW v \in Standing
    PROVE  /\ v.left \in Nat /\ v.budget \in (-Prelaunch)..Timeout /\ v.slot \in Nat
           /\ v = [stage |-> v.stage, left |-> v.left, budget |-> v.budget, tried |-> v.tried,
                   out |-> v.out, slot |-> v.slot]
  BY DEF Standing

\* The caps are natural numbers, and a nested call has a parent that is not nested.
LEMMA SetupTypes ==
    ASSUME setup \in Setups
    PROVE  /\ \A p \in Proc : Cap(p) \in Nat
           /\ \A n \in Nested : setup.parent[n] \in Sync \cup Job
<1>1. setup \in [cap : [Proc -> Nat], parent : [Nested -> Sync \cup Job], calls : SUBSET Proc]
  BY DispatchAssumption
<1> QED
  BY <1>1 DEF Cap

LEMMA PatienceTypes ==
    ASSUME NEW p \in Proc
    PROVE  Patience(p) \in Nat
  BY DispatchAssumption DEF Patience, Least

LEMMA RestTypes == Idle \in Standing /\ Idle.slot = 0 /\ Dead \in Standing /\ Dead.slot = 0
<1>1. Idle \in Standing /\ Idle.slot = 0
  BY DispatchAssumption DEF Idle, Standing
<1> QED
  BY <1>1 DEF Dead, Standing

LEMMA StartTypes ==
    ASSUME setup \in Setups, NEW p \in Proc, NEW guarded \in BOOLEAN
    PROVE  /\ Entered(p, guarded) \in Standing /\ Entered(p, guarded).slot = 0
           /\ \A i \in Nat : Begun(i, guarded) \in Standing /\ Begun(i, guarded).slot = i
<1>0. Idle \in Standing /\ Idle.slot = 0
  BY RestTypes
<1>2. ASSUME NEW i \in Nat PROVE Begun(i, guarded) \in Standing /\ Begun(i, guarded).slot = i
  BY DispatchAssumption DEF Begun, Standing, Timed
<1>3. Queued(p) \in Standing /\ Queued(p).slot = 0
  BY <1>0, DispatchAssumption, PatienceTypes DEF Queued, Standing, Timed
<1> QED
  BY <1>0, <1>2, <1>3 DEF Entered

LEMMA AnswerTypes ==
    ASSUME DispatchTypes, NEW p \in Proc, NEW o \in {"ok", "failed", "busy", "timed_out"}
    PROVE  Answered(p, o) \in Standing /\ Answered(p, o).slot = proc[p].slot
  BY DispatchAssumption DEF DispatchTypes, Answered, Standing, Instant

\* One dispatch moves.
LEMMA OneMoves ==
    ASSUME DispatchTypes, UNCHANGED setup, NEW p \in Proc, NEW v \in Standing, v.slot \in 0..Cap(p),
           proc' = [proc EXCEPT ![p] = v]
    PROVE  DispatchTypes'
  BY DEF DispatchTypes, Cap

LEMMA NoneMoves == DispatchTypes /\ UNCHANGED <<setup, proc>> => DispatchTypes'
  BY DEF DispatchTypes, Cap

LEMMA AttemptTypes ==
    ASSUME DispatchTypes, NEW p \in Proc
    PROVE  AttemptTime(p) \in Nat /\ AttemptTime(p) > 0
<1>1. proc[p].budget \in Int /\ proc[p].left \in Int /\ Prelaunch \in Int
  BY StandingFields, DispatchAssumption DEF DispatchTypes
<1> QED
  BY <1>1 DEF AttemptTime

\* The dispatches stay typed.
LEMMA DispatchesTyped == TypeInv /\ [Next]_vars => DispatchTypes'
<1> SUFFICES ASSUME TypeInv, [Next]_vars
             PROVE  DispatchTypes'
  OBVIOUS
<1> USE DEF TypeInv
<1>0. /\ setup \in Setups /\ proc \in [Proc -> Standing]
      /\ \A p \in Proc : Cap(p) \in Nat /\ proc[p] \in Standing /\ proc[p].slot \in 0..Cap(p)
      /\ Sync \subseteq Proc /\ Job \subseteq Proc /\ Nested \subseteq Proc
      /\ Idle \in Standing /\ Idle.slot = 0 /\ Dead \in Standing /\ Dead.slot = 0
  BY SetupTypes, RestTypes DEF DispatchTypes, Proc
<1>1. ASSUME NEW p \in Proc, NEW guarded \in BOOLEAN, StartSync(p, guarded) PROVE DispatchTypes'
  <2> DEFINE v == Entered(p, guarded)
  <2>1. v \in Standing /\ v.slot \in 0..Cap(p)
    BY <1>0, StartTypes
  <2>2. proc' = [proc EXCEPT ![p] = v] /\ setup' = setup
    BY <1>0, <1>1 DEF StartSync
  <2> HIDE DEF v
  <2> QED
    BY <1>0, <2>1, <2>2, OneMoves
<1>2. ASSUME NEW p \in Proc, NEW guarded \in BOOLEAN, StartNested(p, guarded) PROVE DispatchTypes'
  <2> DEFINE v == Entered(p, guarded)
  <2>1. v \in Standing /\ v.slot \in 0..Cap(p)
    BY <1>0, StartTypes
  <2>2. proc' = [proc EXCEPT ![p] = v] /\ setup' = setup
    BY <1>0, <1>2 DEF StartNested
  <2> HIDE DEF v
  <2> QED
    BY <1>0, <2>1, <2>2, OneMoves
<1>3. ASSUME NEW p \in Proc, NEW guarded \in BOOLEAN, TakeSlot(p, guarded) PROVE DispatchTypes'
  <2>1. PICK k \in FreeSlots(p) : proc' = [proc EXCEPT ![p] = Begun(k, guarded)]
    BY <1>3 DEF TakeSlot
  <2>2. k \in 1..Cap(p) /\ k \in Nat /\ k \in 0..Cap(p)
    BY <1>0 DEF FreeSlots
  <2>3. Begun(k, guarded) \in Standing /\ Begun(k, guarded).slot = k
    BY <1>0, <2>2, StartTypes
  <2> QED
    BY <1>3, <2>1, <2>2, <2>3, OneMoves DEF TakeSlot
<1>4. ASSUME NEW p \in Proc, RefuseSlot(p) PROVE DispatchTypes'
  <2> DEFINE v == Answered(p, "failed")
  <2>1. v \in Standing /\ v.slot \in 0..Cap(p)
    BY <1>0, AnswerTypes
  <2>2. proc' = [proc EXCEPT ![p] = v] /\ setup' = setup
    BY <1>0, <1>4 DEF RefuseSlot
  <2> HIDE DEF v
  <2> QED
    BY <1>0, <2>1, <2>2, OneMoves
<1>5. ASSUME NEW p \in Proc, TakeCredential(p) PROVE DispatchTypes'
  <2> DEFINE v == [proc[p] EXCEPT !.stage = "probing", !.left = Prelaunch]
  <2>1. v \in Standing /\ v.slot \in 0..Cap(p)
    BY <1>0, DispatchAssumption, AttemptTypes DEF Standing, Timed
  <2>2. proc' = [proc EXCEPT ![p] = v] /\ setup' = setup
    BY <1>0, <1>5 DEF TakeCredential
  <2> HIDE DEF v
  <2> QED
    BY <1>0, <2>1, <2>2, OneMoves
<1>6. ASSUME NEW p \in Proc, RefuseCredential(p) PROVE DispatchTypes'
  <2> DEFINE v == Answered(p, "failed")
  <2>1. v \in Standing /\ v.slot \in 0..Cap(p)
    BY <1>0, AnswerTypes
  <2>2. proc' = [proc EXCEPT ![p] = v] /\ setup' = setup
    BY <1>0, <1>6 DEF RefuseCredential
  <2> HIDE DEF v
  <2> QED
    BY <1>0, <2>1, <2>2, OneMoves
<1>7. ASSUME NEW p \in Proc, Launch(p) PROVE DispatchTypes'
  <2> DEFINE v == [proc[p] EXCEPT !.stage = "running", !.left = AttemptTime(p)]
  <2>1. v \in Standing /\ v.slot \in 0..Cap(p)
    BY <1>0, DispatchAssumption, AttemptTypes DEF Standing, Timed
  <2>2. proc' = [proc EXCEPT ![p] = v] /\ setup' = setup
    BY <1>0, <1>7 DEF Launch
  <2> HIDE DEF v
  <2> QED
    BY <1>0, <2>1, <2>2, OneMoves
<1>8. ASSUME NEW p \in Proc, LaunchFails(p) PROVE DispatchTypes'
  <2> DEFINE v == Answered(p, "failed")
  <2>1. v \in Standing /\ v.slot \in 0..Cap(p)
    BY <1>0, AnswerTypes
  <2>2. proc' = [proc EXCEPT ![p] = v] /\ setup' = setup
    BY <1>0, <1>8 DEF LaunchFails
  <2> HIDE DEF v
  <2> QED
    BY <1>0, <2>1, <2>2, OneMoves
<1>9. ASSUME NEW p \in Proc, TimeOut(p) PROVE DispatchTypes'
  <2> DEFINE v == [proc[p] EXCEPT !.stage = "drain", !.left = KillWindow]
  <2>1. v \in Standing /\ v.slot \in 0..Cap(p)
    BY <1>0, DispatchAssumption DEF Standing, Timed
  <2>2. /\ proc' = [q \in Proc |-> IF q \in NestedIn(p) THEN Dead ELSE IF q = p THEN v ELSE proc[q]]
        /\ setup' = setup
    BY <1>9 DEF TimeOut
  <2> HIDE DEF v
  <2> QED
    BY <1>0, <2>1, <2>2 DEF DispatchTypes, Cap
<1>10. ASSUME NEW p \in Proc, Drained(p) PROVE DispatchTypes'
  <2> DEFINE v == Answered(p, "timed_out")
  <2>1. v \in Standing /\ v.slot \in 0..Cap(p)
    BY <1>0, AnswerTypes
  <2>2. proc' = [proc EXCEPT ![p] = v] /\ setup' = setup
    BY <1>0, <1>10 DEF Drained
  <2> HIDE DEF v
  <2> QED
    BY <1>0, <2>1, <2>2, OneMoves
<1>11. ASSUME NEW p \in Proc, NEW o \in {"ok", "failed", "busy"}, AgentEnds(p, o) PROVE DispatchTypes'
  <2> DEFINE v == Answered(p, o)
  <2>1. v \in Standing /\ v.slot \in 0..Cap(p)
    BY <1>0, AnswerTypes
  <2>2. proc' = [proc EXCEPT ![p] = v] /\ setup' = setup
    BY <1>0, <1>11 DEF AgentEnds
  <2> HIDE DEF v
  <2> QED
    BY <1>0, <2>1, <2>2, OneMoves
<1>12. ASSUME NEW p \in Proc, Retry(p) PROVE DispatchTypes'
  <2> DEFINE v == [proc[p] EXCEPT !.stage = "probing", !.left = Prelaunch, !.tried = TRUE, !.out = "none"]
  <2>1. v \in Standing /\ v.slot \in 0..Cap(p)
    BY <1>0, DispatchAssumption, AttemptTypes DEF Standing, Timed
  <2>2. proc' = [proc EXCEPT ![p] = v] /\ setup' = setup
    BY <1>0, <1>12 DEF Retry
  <2> HIDE DEF v
  <2> QED
    BY <1>0, <2>1, <2>2, OneMoves
<1>13. ASSUME NEW p \in Proc, Return(p) PROVE DispatchTypes'
  <2> DEFINE stage == IF p \in Job THEN "returned" ELSE "exited"
             out == IF p \in Job THEN proc[p].out ELSE "none"
  <2>1. stage \in {"returned", "exited"} /\ out \in {"none", "ok", "failed", "busy", "timed_out"}
    BY <1>0 DEF Standing
  <2>2. proc' = [proc EXCEPT ![p] = [Idle EXCEPT !.stage = stage, !.out = out]]
    BY <1>13 DEF Return
  <2> HIDE DEF stage, out
  <2>3. [Idle EXCEPT !.stage = stage, !.out = out] \in Standing /\ [Idle EXCEPT !.stage = stage, !.out = out].slot = 0
    BY <1>0, <2>1 DEF Standing, Instant
  <2> QED
    <3>1. setup' = setup /\ proc[p].slot \in 0..Cap(p) /\ 0 \in 0..Cap(p)
      BY <1>13, <1>0 DEF Return
    <3> QED
      BY <1>0, <2>2, <2>3, <3>1, OneMoves
<1>14. ASSUME NEW p \in Proc, WriteResult(p) PROVE DispatchTypes'
  <2> DEFINE v == [Idle EXCEPT !.stage = "wrote"]
  <2>1. v \in Standing /\ v.slot \in 0..Cap(p)
    BY <1>0 DEF Standing, Instant
  <2>2. proc' = [proc EXCEPT ![p] = v] /\ setup' = setup
    BY <1>0, <1>14 DEF WriteResult
  <2> HIDE DEF v
  <2> QED
    BY <1>0, <2>1, <2>2, OneMoves
<1>15. ASSUME NEW p \in Proc, Exit(p) PROVE DispatchTypes'
  <2> DEFINE v == [Idle EXCEPT !.stage = "exited"]
  <2>1. v \in Standing /\ v.slot \in 0..Cap(p)
    BY <1>0 DEF Standing, Instant
  <2>2. proc' = [proc EXCEPT ![p] = v] /\ setup' = setup
    BY <1>0, <1>15 DEF Exit
  <2> HIDE DEF v
  <2> QED
    BY <1>0, <2>1, <2>2, OneMoves
<1>16. ASSUME NEW p \in Proc, Refreshed(p) PROVE DispatchTypes'
  BY <1>16, NoneMoves DEF Refreshed
<1>17. ASSUME NEW p \in Proc, Crash(p) PROVE DispatchTypes'
  <2> DEFINE v == Dead
  <2>1. v \in Standing /\ v.slot \in 0..Cap(p)
    BY <1>0 DEF Standing, Instant
  <2>2. proc' = [proc EXCEPT ![p] = v] /\ setup' = setup
    BY <1>0, <1>17 DEF Crash
  <2> HIDE DEF v
  <2> QED
    BY <1>0, <2>1, <2>2, OneMoves
<1>18. ASSUME NEW p \in Proc, Hang(p) PROVE DispatchTypes'
  <2> DEFINE v == [Idle EXCEPT !.stage = "hung", !.slot = proc[p].slot]
  <2>1. v \in Standing /\ v.slot \in 0..Cap(p)
    BY <1>0 DEF Standing, Instant
  <2>2. proc' = [proc EXCEPT ![p] = v] /\ setup' = setup
    BY <1>0, <1>18 DEF Hang
  <2> HIDE DEF v
  <2> QED
    BY <1>0, <2>1, <2>2, OneMoves
<1>19. ASSUME NEW j \in Job, WriteRequest(j) PROVE DispatchTypes'
  BY <1>19, NoneMoves DEF WriteRequest
<1>20. ASSUME NEW j \in Job, NEW guarded \in BOOLEAN, Spawn(j, guarded) PROVE DispatchTypes'
  <2> DEFINE v == Entered(j, guarded)
  <2>0. j \in Proc
    BY <1>0
  <2>1. v \in Standing /\ v.slot \in 0..Cap(j)
    BY <1>0, <2>0, StartTypes
  <2>2. proc' = [proc EXCEPT ![j] = v] /\ setup' = setup
    BY <1>0, <1>20 DEF Spawn
  <2> HIDE DEF v
  <2> QED
    BY <1>0, <2>0, <2>1, <2>2, OneMoves
<1>21. ASSUME NEW j \in Job, SpawnFails(j) PROVE DispatchTypes'
  BY <1>21, NoneMoves DEF SpawnFails
<1>22. ASSUME NEW j \in Job, PersistRunning(j) PROVE DispatchTypes'
  BY <1>22, NoneMoves DEF PersistRunning
<1>23. ASSUME NEW j \in Job, ServerDies(j) PROVE DispatchTypes'
  BY <1>23, NoneMoves DEF ServerDies
<1>24. ASSUME NEW q \in Poller, NEW j \in Job, LoadRecord(q, j) PROVE DispatchTypes'
  BY <1>24, NoneMoves DEF LoadRecord
<1>25. ASSUME NEW q \in Poller, ReadResult(q) PROVE DispatchTypes'
  BY <1>25, NoneMoves DEF ReadResult
<1>26. ASSUME NEW q \in Poller, Probe(q) PROVE DispatchTypes'
  BY <1>26, NoneMoves DEF Probe
<1>27. ASSUME NEW q \in Poller, Kill(q) PROVE DispatchTypes'
  <2>1. PICK killed : proc' = [p \in Proc |-> IF p \in killed THEN Dead ELSE proc[p]]
    BY <1>27 DEF Kill
  <2>2. setup' = setup
    BY <1>27 DEF Kill
  <2> QED
    BY <1>0, <2>1, <2>2 DEF DispatchTypes, Cap
<1>28. ASSUME NEW q \in Poller, Persist(q) PROVE DispatchTypes'
  BY <1>28, NoneMoves DEF Persist
<1>29. ASSUME NEW q \in Poller, Cleanup(q) PROVE DispatchTypes'
  BY <1>29, NoneMoves DEF Cleanup
<1>30. ASSUME NEW q \in Poller, PollerDies(q) PROVE DispatchTypes'
  BY <1>30, NoneMoves DEF PollerDies
<1>31. CASE Tick
  <2>1. ASSUME NEW p \in Proc PROVE Older(proc[p]) \in Standing /\ Older(proc[p]).slot = proc[p].slot
    <3>1. CASE proc[p].stage \notin Timed
      BY <1>0, <3>1 DEF Older
    <3>2. CASE proc[p].stage \in Timed
      <4> DEFINE left == proc[p].left - 1
                 budget == IF proc[p].stage = "slot" THEN 0 ELSE IF proc[p].budget = -Prelaunch THEN proc[p].budget
                           ELSE proc[p].budget - 1
      <4>1. proc[p].left > 0
        BY <1>31, <3>2 DEF Tick, Prompt
      <4>2. left \in Nat
        BY <1>0, <4>1, StandingFields
      <4>3. budget \in (-Prelaunch)..Timeout
        <5>1. proc[p].budget \in (-Prelaunch)..Timeout /\ Prelaunch \in Nat /\ Timeout \in Nat
          BY <1>0, StandingFields, DispatchAssumption
        <5> QED
          BY <5>1
      <4>4. Older(proc[p]) = [proc[p] EXCEPT !.left = left, !.budget = budget]
        BY <3>2 DEF Older
      <4> HIDE DEF left, budget
      <4> QED
        BY <1>0, <4>2, <4>3, <4>4 DEF Standing
    <3> QED
      BY <3>1, <3>2
  <2>2. proc' = [p \in Proc |-> Older(proc[p])] /\ setup' = setup
    BY <1>31 DEF Tick
  <2> QED
    BY <1>0, <2>1, <2>2 DEF DispatchTypes, Cap
<1>32. CASE UNCHANGED vars
  BY <1>32, NoneMoves DEF vars
<1> QED
  BY <1>0, <1>1, <1>2, <1>3, <1>4, <1>5, <1>6, <1>7, <1>8, <1>9, <1>10, <1>11, <1>12, <1>13, <1>14, <1>15, <1>16, <1>17, <1>18, <1>19, <1>20, <1>21, <1>22, <1>23, <1>24, <1>25, <1>26, <1>27, <1>28, <1>29, <1>30, <1>31, <1>32 DEF Next, Proceed, Serve, Reconcile

\* So does the rest.
LEMMA OthersTyped == TypeInv /\ [Next]_vars => OtherTypes'
<1> SUFFICES ASSUME TypeInv, [Next]_vars
             PROVE  OtherTypes'
  OBVIOUS
<1> USE DispatchAssumption DEF TypeInv, OtherTypes, Terminal, jobFiles
<1>0. Job \subseteq Proc /\ TTL \in Nat
  BY DEF Proc, TTL
<1>1. ASSUME NEW p \in Proc, NEW guarded \in BOOLEAN, StartSync(p, guarded) PROVE OtherTypes'
  BY <1>0, <1>1 DEF StartSync
<1>2. ASSUME NEW p \in Proc, NEW guarded \in BOOLEAN, StartNested(p, guarded) PROVE OtherTypes'
  BY <1>0, <1>2 DEF StartNested
<1>3. ASSUME NEW p \in Proc, NEW guarded \in BOOLEAN, TakeSlot(p, guarded) PROVE OtherTypes'
  BY <1>0, <1>3 DEF TakeSlot
<1>4. ASSUME NEW p \in Proc, RefuseSlot(p) PROVE OtherTypes'
  BY <1>0, <1>4 DEF RefuseSlot
<1>5. ASSUME NEW p \in Proc, TakeCredential(p) PROVE OtherTypes'
  BY <1>0, <1>5 DEF TakeCredential
<1>6. ASSUME NEW p \in Proc, RefuseCredential(p) PROVE OtherTypes'
  BY <1>0, <1>6 DEF RefuseCredential
<1>7. ASSUME NEW p \in Proc, Launch(p) PROVE OtherTypes'
  BY <1>0, <1>7 DEF Launch
<1>8. ASSUME NEW p \in Proc, LaunchFails(p) PROVE OtherTypes'
  BY <1>0, <1>8 DEF LaunchFails
<1>9. ASSUME NEW p \in Proc, TimeOut(p) PROVE OtherTypes'
  BY <1>0, <1>9 DEF TimeOut, Freed
<1>10. ASSUME NEW p \in Proc, Drained(p) PROVE OtherTypes'
  BY <1>0, <1>10 DEF Drained
<1>11. ASSUME NEW p \in Proc, NEW o \in {"ok", "failed", "busy"}, AgentEnds(p, o) PROVE OtherTypes'
  BY <1>0, <1>11 DEF AgentEnds
<1>12. ASSUME NEW p \in Proc, Retry(p) PROVE OtherTypes'
  BY <1>0, <1>12 DEF Retry
<1>13. ASSUME NEW p \in Proc, Return(p) PROVE OtherTypes'
  BY <1>0, <1>13 DEF Return, Freed
<1>14. ASSUME NEW p \in Proc, WriteResult(p) PROVE OtherTypes'
  BY <1>0, <1>14 DEF WriteResult, Verdict
<1>15. ASSUME NEW p \in Proc, Exit(p) PROVE OtherTypes'
  BY <1>0, <1>15 DEF Exit
<1>16. ASSUME NEW p \in Proc, Refreshed(p) PROVE OtherTypes'
  BY <1>0, <1>16 DEF Refreshed
<1>17. ASSUME NEW p \in Proc, Crash(p) PROVE OtherTypes'
  BY <1>0, <1>17 DEF Crash, Freed
<1>18. ASSUME NEW p \in Proc, Hang(p) PROVE OtherTypes'
  BY <1>0, <1>18 DEF Hang
<1>19. ASSUME NEW j \in Job, WriteRequest(j) PROVE OtherTypes'
  BY <1>0, <1>19 DEF WriteRequest
<1>20. ASSUME NEW j \in Job, NEW guarded \in BOOLEAN, Spawn(j, guarded) PROVE OtherTypes'
  BY <1>0, <1>20 DEF Spawn
<1>21. ASSUME NEW j \in Job, SpawnFails(j) PROVE OtherTypes'
  BY <1>0, <1>21 DEF SpawnFails
<1>22. ASSUME NEW j \in Job, PersistRunning(j) PROVE OtherTypes'
  BY <1>0, <1>22 DEF PersistRunning
<1>23. ASSUME NEW j \in Job, ServerDies(j) PROVE OtherTypes'
  BY <1>0, <1>23 DEF ServerDies
<1>24. ASSUME NEW q \in Poller, NEW j \in Job, LoadRecord(q, j) PROVE OtherTypes'
  BY <1>0, <1>24 DEF LoadRecord, Polling, Step, Decided, Away, AfterLoad
<1>25. ASSUME NEW q \in Poller, ReadResult(q) PROVE OtherTypes'
  <2>1. poll[q] \in Polling /\ poll[q].job \in Job /\ result[poll[q].job] \in {"none", "ok", "timed_out", "failed"}
    BY <1>25 DEF ReadResult
  <2>2. Away \in Polling /\ Away.at = "away"
    BY DEF Away, Polling
  <2>3. \A at \in {"probe", "persist", "kill"} : Step(q, at) \in Polling /\ Step(q, at).job = poll[q].job
    BY <2>1 DEF Step, Polling
  <2>4. \A verdict \in {"ok", "timed_out", "failed"}, at \in {"persist", "kill"} :
            Decided(q, verdict, at) \in Polling /\ Decided(q, verdict, at).job = poll[q].job
    BY <2>1 DEF Decided, Polling
  <2>5. PICK v \in Polling : poll' = [poll EXCEPT ![q] = v] /\ (v.at # "away" => v.job \in Job)
    BY <1>25, <2>1, <2>2, <2>3, <2>4 DEF ReadResult
  <2> QED
    BY <1>25, <2>5 DEF ReadResult
<1>26. ASSUME NEW q \in Poller, Probe(q) PROVE OtherTypes'
  <2>1. poll[q] \in Polling /\ poll[q].job \in Job /\ result[poll[q].job] \in {"none", "ok", "timed_out", "failed"}
    BY <1>26 DEF Probe
  <2>2. Away \in Polling /\ Away.at = "away"
    BY DEF Away, Polling
  <2>3. \A at \in {"probe", "persist", "kill"} : Step(q, at) \in Polling /\ Step(q, at).job = poll[q].job
    BY <2>1 DEF Step, Polling
  <2>4. \A verdict \in {"ok", "timed_out", "failed"}, at \in {"persist", "kill"} :
            Decided(q, verdict, at) \in Polling /\ Decided(q, verdict, at).job = poll[q].job
    BY <2>1 DEF Decided, Polling
  <2>5. PICK v \in Polling : poll' = [poll EXCEPT ![q] = v] /\ (v.at # "away" => v.job \in Job)
    BY <1>26, <2>1, <2>2, <2>3, <2>4 DEF Probe
  <2> QED
    BY <1>26, <2>5 DEF Probe
<1>27. ASSUME NEW q \in Poller, Kill(q) PROVE OtherTypes'
  <2>1. cred' \in Proc \cup {None} /\ agents' \subseteq Proc
    BY <1>27 DEF Kill, Freed
  <2>2. poll' \in [Poller -> Polling] /\ \A r \in Poller : poll'[r].at # "away" => poll'[r].job \in Job
    BY <1>27 DEF Kill, Step, Polling
  <2> QED
    BY <1>27, <2>1, <2>2 DEF Kill
<1>28. ASSUME NEW q \in Poller, Persist(q) PROVE OtherTypes'
  BY <1>0, <1>28 DEF Persist, Polling, Step, Decided, Away, AfterLoad
<1>29. ASSUME NEW q \in Poller, Cleanup(q) PROVE OtherTypes'
  BY <1>0, <1>29 DEF Cleanup, Polling, Step, Decided, Away, AfterLoad
<1>30. ASSUME NEW q \in Poller, PollerDies(q) PROVE OtherTypes'
  BY <1>0, <1>30 DEF PollerDies, Polling, Step, Decided, Away, AfterLoad
<1>31. CASE Tick
  BY <1>0, <1>31 DEF Tick
<1>32. CASE UNCHANGED vars
  BY <1>32 DEF vars
<1> QED
  BY <1>0, <1>1, <1>2, <1>3, <1>4, <1>5, <1>6, <1>7, <1>8, <1>9, <1>10, <1>11, <1>12, <1>13, <1>14, <1>15, <1>16, <1>17, <1>18, <1>19, <1>20, <1>21, <1>22, <1>23, <1>24, <1>25, <1>26, <1>27, <1>28, <1>29, <1>30, <1>31, <1>32 DEF Next, Proceed, Serve, Reconcile

\* Typing of every reachable dispatch, job and poll.
THEOREM DispatchTyping == Spec => []TypeInv
<1>1. Init => TypeInv
  <2> SUFFICES ASSUME Init PROVE TypeInv
    OBVIOUS
  <2>1. DispatchTypes
    BY SetupTypes, RestTypes DEF Init, DispatchTypes
  <2>2. OtherTypes
    BY DispatchAssumption DEF Init, OtherTypes, TTL, Terminal, Polling, Away
  <2> QED
    BY <2>1, <2>2 DEF TypeInv
<1>2. TypeInv /\ [Next]_vars => TypeInv'
  BY DispatchesTyped, OthersTyped DEF TypeInv
<1> QED
  BY <1>1, <1>2, PTL DEF Spec

\* The type invariant of the run.
THEOREM DispatchTypesHold == Spec => []DispatchTypeOK
  BY DispatchTyping, TypesAre, PTL

-----------------------------------------------------------------------------
\* A job that was not spawned has not begun.
JobsStartOnce == \A j \in Job : server[j] \in {"none", "written"} => proc[j].stage = "idle"

\* A job has a record when start_background is through, and a poll is of a recorded job.
RecordsLast == \A j \in Job : rec[j] # "none" => server[j] = "done"
PollsRecorded ==
    \A q \in Poller :
        /\ poll[q].at # "away" => rec[poll[q].job] # "none"
        /\ poll[q].at \in {"kill", "persist"} => poll[q].verdict \in Terminal

JobInv == JobsStartOnce /\ RecordsLast /\ PollsRecorded

LEMMA RecordsStay ==
    ASSUME JobInv, UNCHANGED <<server, rec, poll>>
    PROVE  RecordsLast' /\ PollsRecorded'
  BY DEF JobInv, RecordsLast, PollsRecorded

THEOREM JobsSpawned == Spec => []JobInv
<1>1. Init => JobInv
  BY DispatchAssumption DEF Init, JobInv, JobsStartOnce, RecordsLast, PollsRecorded, Idle, Away, Proc
<1>2. TypeInv /\ JobInv /\ [Next]_vars => JobInv'
  <2> SUFFICES ASSUME TypeInv, JobInv, [Next]_vars
               PROVE  JobInv'
    OBVIOUS
  <2>0. /\ proc \in [Proc -> Standing] /\ server \in [Job -> {"none", "written", "spawned", "done"}]
        /\ Job \subseteq Proc /\ Nested \subseteq Proc
        /\ \A p \in Sync \cup Nested : p \notin Job
        /\ rec \in [Job -> {"none", "running"} \cup Terminal] /\ poll \in [Poller -> Polling]
        /\ result \in [Job -> {"none"} \cup Terminal]
        /\ \A q \in Poller : poll[q].at # "away" => poll[q].job \in Job
    BY DispatchAssumption DEF TypeInv, DispatchTypes, OtherTypes, Proc
  <2>1. ASSUME NEW p \in Proc, NEW guarded \in BOOLEAN, StartSync(p, guarded) PROVE JobInv'
    <3>1. JobsStartOnce'
      BY <2>0, <2>1 DEF JobInv, StartSync, JobsStartOnce, jobFiles
    <3> QED
      BY <2>1, <3>1, RecordsStay DEF JobInv, StartSync, jobFiles
  <2>2. ASSUME NEW p \in Proc, NEW guarded \in BOOLEAN, StartNested(p, guarded) PROVE JobInv'
    <3>1. JobsStartOnce'
      BY <2>0, <2>2 DEF JobInv, StartNested, JobsStartOnce, jobFiles
    <3> QED
      BY <2>2, <3>1, RecordsStay DEF JobInv, StartNested, jobFiles
  <2>3. ASSUME NEW p \in Proc, NEW guarded \in BOOLEAN, TakeSlot(p, guarded) PROVE JobInv'
    <3>1. JobsStartOnce'
      BY <2>0, <2>3 DEF JobInv, TakeSlot, JobsStartOnce, jobFiles
    <3> QED
      BY <2>3, <3>1, RecordsStay DEF JobInv, TakeSlot, jobFiles
  <2>4. ASSUME NEW p \in Proc, RefuseSlot(p) PROVE JobInv'
    <3>1. JobsStartOnce'
      BY <2>0, <2>4 DEF JobInv, RefuseSlot, JobsStartOnce, jobFiles
    <3> QED
      BY <2>4, <3>1, RecordsStay DEF JobInv, RefuseSlot, jobFiles
  <2>5. ASSUME NEW p \in Proc, TakeCredential(p) PROVE JobInv'
    <3>1. JobsStartOnce'
      BY <2>0, <2>5 DEF JobInv, TakeCredential, JobsStartOnce, jobFiles
    <3> QED
      BY <2>5, <3>1, RecordsStay DEF JobInv, TakeCredential, jobFiles
  <2>6. ASSUME NEW p \in Proc, RefuseCredential(p) PROVE JobInv'
    <3>1. JobsStartOnce'
      BY <2>0, <2>6 DEF JobInv, RefuseCredential, JobsStartOnce, jobFiles
    <3> QED
      BY <2>6, <3>1, RecordsStay DEF JobInv, RefuseCredential, jobFiles
  <2>7. ASSUME NEW p \in Proc, Launch(p) PROVE JobInv'
    <3>1. JobsStartOnce'
      BY <2>0, <2>7 DEF JobInv, Launch, JobsStartOnce
    <3> QED
      BY <2>7, <3>1, RecordsStay DEF JobInv, Launch, jobFiles
  <2>8. ASSUME NEW p \in Proc, LaunchFails(p) PROVE JobInv'
    <3>1. JobsStartOnce'
      BY <2>0, <2>8 DEF JobInv, LaunchFails, JobsStartOnce, jobFiles
    <3> QED
      BY <2>8, <3>1, RecordsStay DEF JobInv, LaunchFails, jobFiles
  <2>9. ASSUME NEW p \in Proc, TimeOut(p) PROVE JobInv'
    <3>1. JobsStartOnce'
      BY <2>0, <2>9 DEF JobInv, TimeOut, JobsStartOnce, NestedIn, jobFiles
    <3> QED
      BY <2>9, <3>1, RecordsStay DEF JobInv, TimeOut, jobFiles
  <2>10. ASSUME NEW p \in Proc, Drained(p) PROVE JobInv'
    <3>1. JobsStartOnce'
      BY <2>0, <2>10 DEF JobInv, Drained, JobsStartOnce, jobFiles
    <3> QED
      BY <2>10, <3>1, RecordsStay DEF JobInv, Drained, jobFiles
  <2>11. ASSUME NEW p \in Proc, NEW o \in {"ok", "failed", "busy"}, AgentEnds(p, o) PROVE JobInv'
    <3>1. JobsStartOnce'
      BY <2>0, <2>11 DEF JobInv, AgentEnds, JobsStartOnce, jobFiles
    <3> QED
      BY <2>11, <3>1, RecordsStay DEF JobInv, AgentEnds, jobFiles
  <2>12. ASSUME NEW p \in Proc, Retry(p) PROVE JobInv'
    <3>1. JobsStartOnce'
      BY <2>0, <2>12 DEF JobInv, Retry, JobsStartOnce, jobFiles
    <3> QED
      BY <2>12, <3>1, RecordsStay DEF JobInv, Retry, jobFiles
  <2>13. ASSUME NEW p \in Proc, Return(p) PROVE JobInv'
    <3>1. JobsStartOnce'
      BY <2>0, <2>13 DEF JobInv, Return, JobsStartOnce, jobFiles
    <3> QED
      BY <2>13, <3>1, RecordsStay DEF JobInv, Return, jobFiles
  <2>14. ASSUME NEW p \in Proc, WriteResult(p) PROVE JobInv'
    <3>1. JobsStartOnce'
      BY <2>0, <2>14 DEF JobInv, WriteResult, JobsStartOnce
    <3> QED
      BY <2>14, <3>1, RecordsStay DEF JobInv, WriteResult, jobFiles
  <2>15. ASSUME NEW p \in Proc, Exit(p) PROVE JobInv'
    <3>1. JobsStartOnce'
      BY <2>0, <2>15 DEF JobInv, Exit, JobsStartOnce
    <3> QED
      BY <2>15, <3>1, RecordsStay DEF JobInv, Exit, jobFiles
  <2>16. ASSUME NEW p \in Proc, Refreshed(p) PROVE JobInv'
    <3>1. JobsStartOnce'
      BY <2>0, <2>16 DEF JobInv, Refreshed, JobsStartOnce, jobFiles
    <3> QED
      BY <2>16, <3>1, RecordsStay DEF JobInv, Refreshed, jobFiles
  <2>17. ASSUME NEW p \in Proc, Crash(p) PROVE JobInv'
    <3>1. JobsStartOnce'
      BY <2>0, <2>17 DEF JobInv, Crash, JobsStartOnce, Active, jobFiles
    <3> QED
      BY <2>17, <3>1, RecordsStay DEF JobInv, Crash, jobFiles
  <2>18. ASSUME NEW p \in Proc, Hang(p) PROVE JobInv'
    <3>1. JobsStartOnce'
      BY <2>0, <2>18 DEF JobInv, Hang, JobsStartOnce, Active, jobFiles
    <3> QED
      BY <2>18, <3>1, RecordsStay DEF JobInv, Hang, jobFiles
  <2>19. ASSUME NEW j \in Job, WriteRequest(j) PROVE JobInv'
    <3>1. JobsStartOnce'
      BY <2>0, <2>19 DEF JobInv, WriteRequest, JobsStartOnce
    <3>2. RecordsLast'
      BY <2>0, <2>19 DEF JobInv, RecordsLast, PollsRecorded, WriteRequest, Terminal, Polling
    <3>3. PollsRecorded'
      BY <2>0, <2>19 DEF JobInv, PollsRecorded, WriteRequest, Terminal
    <3> QED
      BY <3>1, <3>2, <3>3 DEF JobInv
  <2>20. ASSUME NEW j \in Job, NEW guarded \in BOOLEAN, Spawn(j, guarded) PROVE JobInv'
    <3>1. JobsStartOnce'
      BY <2>0, <2>20 DEF JobInv, Spawn, JobsStartOnce
    <3>2. RecordsLast'
      BY <2>0, <2>20 DEF JobInv, RecordsLast, PollsRecorded, Spawn, Terminal, Polling
    <3>3. PollsRecorded'
      BY <2>0, <2>20 DEF JobInv, PollsRecorded, Spawn, Terminal
    <3> QED
      BY <3>1, <3>2, <3>3 DEF JobInv
  <2>21. ASSUME NEW j \in Job, SpawnFails(j) PROVE JobInv'
    <3>1. JobsStartOnce'
      BY <2>0, <2>21 DEF JobInv, SpawnFails, JobsStartOnce
    <3>2. RecordsLast'
      BY <2>0, <2>21 DEF JobInv, RecordsLast, PollsRecorded, SpawnFails, Terminal, Polling
    <3>3. PollsRecorded'
      BY <2>0, <2>21 DEF JobInv, PollsRecorded, SpawnFails, Terminal
    <3> QED
      BY <3>1, <3>2, <3>3 DEF JobInv
  <2>22. ASSUME NEW j \in Job, PersistRunning(j) PROVE JobInv'
    <3>1. JobsStartOnce'
      BY <2>0, <2>22 DEF JobInv, PersistRunning, JobsStartOnce
    <3>2. RecordsLast'
      BY <2>0, <2>22 DEF JobInv, RecordsLast, PollsRecorded, PersistRunning, Terminal, Polling
    <3>3. PollsRecorded'
      BY <2>0, <2>22 DEF JobInv, PollsRecorded, PersistRunning, Terminal
    <3> QED
      BY <3>1, <3>2, <3>3 DEF JobInv
  <2>23. ASSUME NEW j \in Job, ServerDies(j) PROVE JobInv'
    <3>1. JobsStartOnce'
      BY <2>0, <2>23 DEF JobInv, ServerDies, JobsStartOnce
    <3>2. RecordsLast'
      BY <2>0, <2>23 DEF JobInv, RecordsLast, PollsRecorded, ServerDies, Terminal, Polling
    <3>3. PollsRecorded'
      BY <2>0, <2>23 DEF JobInv, PollsRecorded, ServerDies, Terminal
    <3> QED
      BY <3>1, <3>2, <3>3 DEF JobInv
  <2>24. ASSUME NEW q \in Poller, NEW j \in Job, LoadRecord(q, j) PROVE JobInv'
    <3>1. JobsStartOnce'
      BY <2>0, <2>24 DEF JobInv, LoadRecord, JobsStartOnce
    <3>2. RecordsLast'
      BY <2>0, <2>24 DEF JobInv, RecordsLast, PollsRecorded, LoadRecord, Terminal, Polling
    <3>3. PollsRecorded'
      BY <2>0, <2>24 DEF JobInv, PollsRecorded, LoadRecord, Polling, Step, Decided, Away, AfterLoad, Terminal
    <3> QED
      BY <3>1, <3>2, <3>3 DEF JobInv
  <2>25. ASSUME NEW q \in Poller, ReadResult(q) PROVE JobInv'
    <3>1. JobsStartOnce' /\ RecordsLast'
      BY <2>25 DEF JobInv, ReadResult, JobsStartOnce, RecordsLast
    <3>2. PICK v \in {Step(q, "probe"), Decided(q, result[poll[q].job], "persist")} :
              /\ poll' = [poll EXCEPT ![q] = v] /\ rec' = rec
              /\ v = Step(q, "probe") \/ result[poll[q].job] # "none"
      BY <2>25 DEF ReadResult
    <3>3. v.job = poll[q].job /\ (v.at \in {"kill", "persist"} => v.verdict \in Terminal)
      BY <2>0, <2>25, <3>2 DEF Step, Decided, Polling, Terminal, ReadResult
    <3>4. PollsRecorded'
      BY <2>0, <2>25, <3>2, <3>3 DEF JobInv, PollsRecorded, ReadResult
    <3> QED
      BY <3>1, <3>4 DEF JobInv
  <2>26. ASSUME NEW q \in Poller, Probe(q) PROVE JobInv'
    <3>1. JobsStartOnce'
      BY <2>0, <2>26 DEF JobInv, Probe, JobsStartOnce
    <3>2. RecordsLast'
      BY <2>0, <2>26 DEF JobInv, RecordsLast, PollsRecorded, Probe, Terminal, Polling
    <3>3. PollsRecorded'
      BY <2>0, <2>26 DEF JobInv, PollsRecorded, Probe, Polling, Step, Decided, Away, AfterLoad, Terminal
    <3> QED
      BY <3>1, <3>2, <3>3 DEF JobInv
  <2>27. ASSUME NEW q \in Poller, Kill(q) PROVE JobInv'
    <3>1. server' = server /\ poll[q].job \in Job /\ poll[q].at = "kill"
      BY <2>0, <2>27 DEF Kill
    <3>2. \A j \in Job : j # poll[q].job => proc'[j] = proc[j]
      BY <2>0, <2>27 DEF Kill, NestedIn
    <3>3. server[poll[q].job] \notin {"none", "written"}
      BY <3>1 DEF JobInv, RecordsLast, PollsRecorded
    <3>4. JobsStartOnce'
      BY <3>1, <3>2, <3>3 DEF JobInv, JobsStartOnce
    <3>5. rec' = rec /\ poll' = [poll EXCEPT ![q] = Step(q, "persist")]
      BY <2>27 DEF Kill
    <3>6. RecordsLast' /\ PollsRecorded'
      BY <2>0, <3>1, <3>5 DEF JobInv, RecordsLast, PollsRecorded, Step, Polling
    <3> QED
      BY <3>4, <3>6 DEF JobInv
  <2>28. ASSUME NEW q \in Poller, Persist(q) PROVE JobInv'
    <3>1. JobsStartOnce'
      BY <2>0, <2>28 DEF JobInv, Persist, JobsStartOnce
    <3>2. RecordsLast'
      BY <2>0, <2>28 DEF JobInv, RecordsLast, PollsRecorded, Persist, Terminal, Polling
    <3>3. PollsRecorded'
      BY <2>0, <2>28 DEF JobInv, PollsRecorded, Persist, Polling, Step, Decided, Away, AfterLoad, Terminal
    <3> QED
      BY <3>1, <3>2, <3>3 DEF JobInv
  <2>29. ASSUME NEW q \in Poller, Cleanup(q) PROVE JobInv'
    <3>1. JobsStartOnce'
      BY <2>0, <2>29 DEF JobInv, Cleanup, JobsStartOnce
    <3>2. RecordsLast'
      BY <2>0, <2>29 DEF JobInv, RecordsLast, PollsRecorded, Cleanup, Terminal, Polling
    <3>3. PollsRecorded'
      BY <2>0, <2>29 DEF JobInv, PollsRecorded, Cleanup, Polling, Step, Decided, Away, AfterLoad, Terminal
    <3> QED
      BY <3>1, <3>2, <3>3 DEF JobInv
  <2>30. ASSUME NEW q \in Poller, PollerDies(q) PROVE JobInv'
    <3>1. JobsStartOnce'
      BY <2>0, <2>30 DEF JobInv, PollerDies, JobsStartOnce
    <3>2. RecordsLast'
      BY <2>0, <2>30 DEF JobInv, RecordsLast, PollsRecorded, PollerDies, Terminal, Polling
    <3>3. PollsRecorded'
      BY <2>0, <2>30 DEF JobInv, PollsRecorded, PollerDies, Polling, Step, Decided, Away, AfterLoad, Terminal
    <3> QED
      BY <3>1, <3>2, <3>3 DEF JobInv
  <2>31. CASE Tick
    <3>1. \A j \in Job : proc[j].stage = "idle" => proc'[j].stage = "idle"
      BY <2>0, <2>31 DEF Tick, Older, Timed
    <3> QED
      BY <2>31, <3>1 DEF Tick, JobInv, JobsStartOnce, RecordsLast, PollsRecorded
  <2>32. CASE UNCHANGED vars
    BY <2>32 DEF vars, JobInv, JobsStartOnce, RecordsLast, PollsRecorded
  <2> QED
    BY <2>0, <2>1, <2>2, <2>3, <2>4, <2>5, <2>6, <2>7, <2>8, <2>9, <2>10, <2>11, <2>12, <2>13, <2>14, <2>15, <2>16, <2>17, <2>18, <2>19, <2>20, <2>21, <2>22, <2>23, <2>24, <2>25, <2>26, <2>27, <2>28, <2>29, <2>30, <2>31, <2>32 DEF Next, Proceed, Serve, Reconcile
<1> QED
  BY <1>1, <1>2, DispatchTyping, PTL DEF Spec

-----------------------------------------------------------------------------
(* Slots, the credential lock and the cap *)

\* One slot, one dispatch.
SlotsApart == \A p, q \in Proc : p # q /\ proc[p].slot # 0 => proc[p].slot # proc[q].slot

\* A dispatch with an agent watches it, unless it hangs or died.
AgentsWatched == \A p \in agents : proc[p].stage \in {"running", "hung", "dead"}

\* A counted dispatch that may launch, or may launch again, has a slot.
Seated(p, pr, ag) ==
    /\ Cap(p) > 0
    /\ \/ pr.stage \in {"cred", "probing", "running"}
       \/ pr.stage = "answer" /\ pr.out = "busy"
       \/ pr.stage = "hung" /\ p \in ag
    => pr.slot # 0
LaunchersSeated == \A p \in Proc : Seated(p, proc[p], agents)

\* The credential lock is taken after the slot.
LockOrder == \A p \in Proc : cred = p => proc[p].stage \notin {"idle", "slot"}

\* A dispatch waits no longer than it may.
WaitsBounded == \A p \in Proc : proc[p].stage = "slot" => proc[p].left <= Patience(p)

SlotInv == SlotsApart /\ AgentsWatched /\ LaunchersSeated /\ LockOrder /\ WaitsBounded

\* One dispatch moves to a standing that fits it.
LEMMA OneMovesSlots ==
    ASSUME TypeInv, SlotInv, UNCHANGED setup, NEW p \in Proc, NEW v \in Standing,
           proc' = [proc EXCEPT ![p] = v],
           v.slot = 0 \/ v.slot = proc[p].slot \/ Free(v.slot),
           agents' \ {p} \subseteq agents, p \in agents' => v.stage \in {"running", "hung", "dead"},
           Seated(p, v, agents'),
           cred' \in {cred, p, None}, cred' = p => v.stage \notin {"idle", "slot"},
           v.stage = "slot" => v.left <= Patience(p)
    PROVE  SlotInv'
<1> USE DEF TypeInv, DispatchTypes
<1>0. proc'[p] = v /\ \A q \in Proc \ {p} : proc'[q] = proc[q]
  OBVIOUS
<1>1. SlotsApart'
  BY <1>0 DEF SlotInv, SlotsApart, Free
<1>2. AgentsWatched'
  BY <1>0 DEF SlotInv, AgentsWatched, OtherTypes
<1>3. LaunchersSeated'
  BY <1>0 DEF SlotInv, LaunchersSeated, Seated, Cap
<1>4. LockOrder'
  BY <1>0, DispatchAssumption DEF SlotInv, LockOrder
<1>5. WaitsBounded'
  BY <1>0 DEF SlotInv, WaitsBounded, Patience, Marked, Cap
<1> QED
  BY <1>1, <1>2, <1>3, <1>4, <1>5 DEF SlotInv

\* Some dispatches die, as agents and locks may with them.
LEMMA SomeDieSlots ==
    ASSUME TypeInv, SlotInv, UNCHANGED setup, NEW S,
           proc' = [p \in Proc |-> IF p \in S THEN Dead ELSE proc[p]],
           agents' \subseteq agents, cred' \in {cred, None}
    PROVE  SlotInv'
<1> USE DEF TypeInv, DispatchTypes
<1>0. /\ Dead.slot = 0 /\ Dead.stage = "dead"
      /\ \A p \in Proc : proc'[p] = Dead \/ proc'[p] = proc[p]
  BY DEF Dead, Idle
<1>1. SlotsApart'
  BY <1>0 DEF SlotInv, SlotsApart
<1>2. AgentsWatched'
  BY <1>0 DEF SlotInv, AgentsWatched, OtherTypes
<1>3. LaunchersSeated'
  BY <1>0 DEF SlotInv, LaunchersSeated, Seated, Cap
<1>4. LockOrder'
  BY <1>0, DispatchAssumption DEF SlotInv, LockOrder
<1>5. WaitsBounded'
  BY <1>0 DEF SlotInv, WaitsBounded, Patience, Marked, Cap
<1> QED
  BY <1>1, <1>2, <1>3, <1>4, <1>5 DEF SlotInv

LEMMA NoneMovesSlots == SlotInv /\ UNCHANGED <<setup, proc, cred, agents>> => SlotInv'
  BY DEF SlotInv, SlotsApart, AgentsWatched, LaunchersSeated, Seated, LockOrder, WaitsBounded,
         Patience, Marked, Cap

\* Where a dispatch starts fits it.
LEMMA StartFits ==
    ASSUME NEW p \in Proc, NEW guarded \in BOOLEAN, setup \in Setups
    PROVE  LET v == Entered(p, guarded)
           IN  /\ v.slot = 0
               /\ v.stage \in {"slot", "cred", "probing"}
               /\ v.stage = "slot" => v.left <= Patience(p)
               /\ v.stage # "slot" => Cap(p) = 0
<1>1. /\ Queued(p).stage = "slot" /\ Queued(p).left = Patience(p) /\ Queued(p).slot = 0
      /\ Begun(0, guarded).stage \in {"cred", "probing"} /\ Begun(0, guarded).slot = 0
  BY DEF Queued, Begun, Idle
<1>2. Patience(p) <= Patience(p)
  BY PatienceTypes
<1> QED
  BY <1>1, <1>2 DEF Entered

THEOREM DispatchSlots == Spec => []SlotInv
<1>1. Init => SlotInv
  BY DispatchAssumption DEF Init, SlotInv, SlotsApart, AgentsWatched, LaunchersSeated, Seated, LockOrder, WaitsBounded, Idle
<1>2. TypeInv /\ TypeInv' /\ JobInv /\ SlotInv /\ [Next]_vars => SlotInv'
  <2> SUFFICES ASSUME TypeInv, TypeInv', JobInv, SlotInv, [Next]_vars
               PROVE  SlotInv'
    OBVIOUS
  <2> USE DEF TypeInv
  <2>0. /\ setup \in Setups /\ cred \in Proc \cup {None} /\ None \notin Proc /\ proc \in [Proc -> Standing]
        /\ agents \subseteq Proc /\ proc' \in [Proc -> Standing]
        /\ \A p \in Proc : Cap(p) \in Nat /\ proc[p] \in Standing /\ proc[p].slot \in Nat
        /\ Sync \subseteq Proc /\ Job \subseteq Proc /\ Nested \subseteq Proc
        /\ Idle \in Standing /\ Idle.slot = 0 /\ Dead \in Standing /\ Dead.slot = 0 /\ Dead.stage = "dead"
    BY SetupTypes, RestTypes, StandingFields, DispatchAssumption DEF DispatchTypes, OtherTypes, Proc, Dead, Idle
  <2>1. ASSUME NEW p \in Proc, NEW guarded \in BOOLEAN, StartSync(p, guarded) PROVE SlotInv'
    <3> DEFINE v == Entered(p, guarded)
    <3>1. proc' = [proc EXCEPT ![p] = v]
      BY <2>1 DEF StartSync
    <3>2. v.slot = 0 /\ v.stage \in {"slot", "cred", "probing"} /\ (v.stage = "slot" => v.left <= Patience(p)) /\ (v.stage # "slot" => Cap(p) = 0)
      BY <2>0, StartFits
    <3>3. v = proc'[p] /\ v \in Standing
      BY <2>0, <3>1
    <3> HIDE DEF v
    <3>4. /\ setup' = setup /\ agents' \ {p} \subseteq agents
          /\ cred' \in {cred, p, None}
      BY <2>1 DEF StartSync
    <3>5. (p \in agents' => v.stage \in {"running", "hung", "dead"}) /\ Seated(p, v, agents')
      BY <2>0, <2>1, <3>2 DEF StartSync, Seated, SlotInv, LaunchersSeated, AgentsWatched, Idle
    <3>6. (cred' = p => v.stage \notin {"idle", "slot"}) /\ (v.stage = "slot" => v.left <= Patience(p))
      BY <2>0, <2>1, <3>2 DEF StartSync, SlotInv, LockOrder, Idle
    <3> QED
      BY <3>1, <3>2, <3>3, <3>4, <3>5, <3>6, OneMovesSlots
  <2>2. ASSUME NEW p \in Proc, NEW guarded \in BOOLEAN, StartNested(p, guarded) PROVE SlotInv'
    <3> DEFINE v == Entered(p, guarded)
    <3>1. proc' = [proc EXCEPT ![p] = v]
      BY <2>2 DEF StartNested
    <3>2. v.slot = 0 /\ v.stage \in {"slot", "cred", "probing"} /\ (v.stage = "slot" => v.left <= Patience(p)) /\ (v.stage # "slot" => Cap(p) = 0)
      BY <2>0, StartFits
    <3>3. v = proc'[p] /\ v \in Standing
      BY <2>0, <3>1
    <3> HIDE DEF v
    <3>4. /\ setup' = setup /\ agents' \ {p} \subseteq agents
          /\ cred' \in {cred, p, None}
      BY <2>2 DEF StartNested
    <3>5. (p \in agents' => v.stage \in {"running", "hung", "dead"}) /\ Seated(p, v, agents')
      BY <2>0, <2>2, <3>2 DEF StartNested, Seated, SlotInv, LaunchersSeated, AgentsWatched, Idle
    <3>6. (cred' = p => v.stage \notin {"idle", "slot"}) /\ (v.stage = "slot" => v.left <= Patience(p))
      BY <2>0, <2>2, <3>2 DEF StartNested, SlotInv, LockOrder, Idle
    <3> QED
      BY <3>1, <3>2, <3>3, <3>4, <3>5, <3>6, OneMovesSlots
  <2>3. ASSUME NEW p \in Proc, NEW guarded \in BOOLEAN, TakeSlot(p, guarded) PROVE SlotInv'
    <3>1. PICK k \in FreeSlots(p) : proc' = [proc EXCEPT ![p] = Begun(k, guarded)]
      BY <2>3 DEF TakeSlot
    <3> DEFINE v == Begun(k, guarded)
    <3>2. v.slot = k /\ Free(k) /\ k # 0 /\ v.stage \in {"cred", "probing"} /\ v = proc'[p]
      BY <2>0, <3>1 DEF FreeSlots, Begun
    <3>3. proc' = [proc EXCEPT ![p] = v] /\ v \in Standing
      BY <2>0, <3>1, <3>2
    <3> HIDE DEF v
    <3>4. /\ setup' = setup /\ agents' \ {p} \subseteq agents
          /\ cred' \in {cred, p, None}
      BY <2>3 DEF TakeSlot
    <3>5. (p \in agents' => v.stage \in {"running", "hung", "dead"}) /\ Seated(p, v, agents')
      BY <2>0, <2>3, <3>2 DEF TakeSlot, Seated, SlotInv, LaunchersSeated, AgentsWatched, Idle
    <3>6. (cred' = p => v.stage \notin {"idle", "slot"}) /\ (v.stage = "slot" => v.left <= Patience(p))
      BY <2>0, <2>3, <3>2 DEF TakeSlot, SlotInv, LockOrder, Idle
    <3> QED
      BY <3>2, <3>3, <3>4, <3>5, <3>6, OneMovesSlots
  <2>4. ASSUME NEW p \in Proc, RefuseSlot(p) PROVE SlotInv'
    <3> DEFINE v == Answered(p, "failed")
    <3>1. proc' = [proc EXCEPT ![p] = v]
      BY <2>4 DEF RefuseSlot
    <3>2. v.slot = proc[p].slot /\ v.stage = "answer" /\ v.out = "failed"
      BY <2>0 DEF Answered, Standing
    <3>3. v = proc'[p] /\ v \in Standing
      BY <2>0, <3>1
    <3> HIDE DEF v
    <3>4. /\ setup' = setup /\ agents' \ {p} \subseteq agents
          /\ cred' \in {cred, p, None}
      BY <2>4 DEF RefuseSlot
    <3>5. (p \in agents' => v.stage \in {"running", "hung", "dead"}) /\ Seated(p, v, agents')
      BY <2>0, <2>4, <3>2 DEF RefuseSlot, Seated, SlotInv, LaunchersSeated, AgentsWatched, Idle
    <3>6. (cred' = p => v.stage \notin {"idle", "slot"}) /\ (v.stage = "slot" => v.left <= Patience(p))
      BY <2>0, <2>4, <3>2 DEF RefuseSlot, SlotInv, LockOrder, Idle
    <3> QED
      BY <3>1, <3>2, <3>3, <3>4, <3>5, <3>6, OneMovesSlots
  <2>5. ASSUME NEW p \in Proc, TakeCredential(p) PROVE SlotInv'
    <3> DEFINE v == [proc[p] EXCEPT !.stage = "probing", !.left = Prelaunch]
    <3>1. proc' = [proc EXCEPT ![p] = v]
      BY <2>5 DEF TakeCredential
    <3>2. v.slot = proc[p].slot /\ v.stage = "probing"
      BY <2>0 DEF Standing, Idle
    <3>3. v = proc'[p] /\ v \in Standing
      BY <2>0, <3>1
    <3> HIDE DEF v
    <3>4. /\ setup' = setup /\ agents' \ {p} \subseteq agents
          /\ cred' \in {cred, p, None}
      BY <2>5 DEF TakeCredential
    <3>5. (p \in agents' => v.stage \in {"running", "hung", "dead"}) /\ Seated(p, v, agents')
      BY <2>0, <2>5, <3>2 DEF TakeCredential, Seated, SlotInv, LaunchersSeated, AgentsWatched, Idle
    <3>6. (cred' = p => v.stage \notin {"idle", "slot"}) /\ (v.stage = "slot" => v.left <= Patience(p))
      BY <2>0, <2>5, <3>2 DEF TakeCredential, SlotInv, LockOrder, Idle
    <3> QED
      BY <3>1, <3>2, <3>3, <3>4, <3>5, <3>6, OneMovesSlots
  <2>6. ASSUME NEW p \in Proc, RefuseCredential(p) PROVE SlotInv'
    <3> DEFINE v == Answered(p, "failed")
    <3>1. proc' = [proc EXCEPT ![p] = v]
      BY <2>6 DEF RefuseCredential
    <3>2. v.slot = proc[p].slot /\ v.stage = "answer" /\ v.out = "failed"
      BY <2>0 DEF Answered, Standing
    <3>3. v = proc'[p] /\ v \in Standing
      BY <2>0, <3>1
    <3> HIDE DEF v
    <3>4. /\ setup' = setup /\ agents' \ {p} \subseteq agents
          /\ cred' \in {cred, p, None}
      BY <2>6 DEF RefuseCredential
    <3>5. (p \in agents' => v.stage \in {"running", "hung", "dead"}) /\ Seated(p, v, agents')
      BY <2>0, <2>6, <3>2 DEF RefuseCredential, Seated, SlotInv, LaunchersSeated, AgentsWatched, Idle
    <3>6. (cred' = p => v.stage \notin {"idle", "slot"}) /\ (v.stage = "slot" => v.left <= Patience(p))
      BY <2>0, <2>6, <3>2 DEF RefuseCredential, SlotInv, LockOrder, Idle
    <3> QED
      BY <3>1, <3>2, <3>3, <3>4, <3>5, <3>6, OneMovesSlots
  <2>7. ASSUME NEW p \in Proc, Launch(p) PROVE SlotInv'
    <3> DEFINE v == [proc[p] EXCEPT !.stage = "running", !.left = AttemptTime(p)]
    <3>1. proc' = [proc EXCEPT ![p] = v]
      BY <2>7 DEF Launch
    <3>2. v.slot = proc[p].slot /\ v.stage = "running"
      BY <2>0 DEF Standing, Idle
    <3>3. v = proc'[p] /\ v \in Standing
      BY <2>0, <3>1
    <3> HIDE DEF v
    <3>4. /\ setup' = setup /\ agents' \ {p} \subseteq agents
          /\ cred' \in {cred, p, None}
      BY <2>7 DEF Launch
    <3>5. (p \in agents' => v.stage \in {"running", "hung", "dead"}) /\ Seated(p, v, agents')
      BY <2>0, <2>7, <3>2 DEF Launch, Seated, SlotInv, LaunchersSeated, AgentsWatched, Idle
    <3>6. (cred' = p => v.stage \notin {"idle", "slot"}) /\ (v.stage = "slot" => v.left <= Patience(p))
      BY <2>0, <2>7, <3>2 DEF Launch, SlotInv, LockOrder, Idle
    <3> QED
      BY <3>1, <3>2, <3>3, <3>4, <3>5, <3>6, OneMovesSlots
  <2>8. ASSUME NEW p \in Proc, LaunchFails(p) PROVE SlotInv'
    <3> DEFINE v == Answered(p, "failed")
    <3>1. proc' = [proc EXCEPT ![p] = v]
      BY <2>8 DEF LaunchFails
    <3>2. v.slot = proc[p].slot /\ v.stage = "answer" /\ v.out = "failed"
      BY <2>0 DEF Answered, Standing
    <3>3. v = proc'[p] /\ v \in Standing
      BY <2>0, <3>1
    <3> HIDE DEF v
    <3>4. /\ setup' = setup /\ agents' \ {p} \subseteq agents
          /\ cred' \in {cred, p, None}
      BY <2>8 DEF LaunchFails
    <3>5. (p \in agents' => v.stage \in {"running", "hung", "dead"}) /\ Seated(p, v, agents')
      BY <2>0, <2>8, <3>2 DEF LaunchFails, Seated, SlotInv, LaunchersSeated, AgentsWatched, Idle
    <3>6. (cred' = p => v.stage \notin {"idle", "slot"}) /\ (v.stage = "slot" => v.left <= Patience(p))
      BY <2>0, <2>8, <3>2 DEF LaunchFails, SlotInv, LockOrder, Idle
    <3> QED
      BY <3>1, <3>2, <3>3, <3>4, <3>5, <3>6, OneMovesSlots
  <2>9. ASSUME NEW p \in Proc, TimeOut(p) PROVE SlotInv'
    <3>1. /\ setup' = setup /\ agents' = agents \ {p} /\ cred' \in {cred, None}
          /\ \A q \in Proc \ {p} : proc'[q] \in {Dead, proc[q]}
          /\ proc'[p] = Dead \/ (proc'[p].stage = "drain" /\ proc'[p].slot = proc[p].slot)
          /\ proc[p].stage = "running"
      BY <2>0, <2>9 DEF TimeOut, Freed, Standing
    <3>2. SlotsApart'
      BY <2>0, <3>1 DEF SlotInv, SlotsApart
    <3>3. AgentsWatched'
      BY <2>0, <3>1 DEF SlotInv, AgentsWatched
    <3>4. LaunchersSeated'
      BY <2>0, <3>1 DEF SlotInv, LaunchersSeated, Seated, Cap
    <3>5. LockOrder'
      BY <2>0, <3>1 DEF SlotInv, LockOrder
    <3>6. WaitsBounded'
      BY <2>0, <3>1 DEF SlotInv, WaitsBounded, Patience, Marked, Cap
    <3> QED
      BY <3>2, <3>3, <3>4, <3>5, <3>6 DEF SlotInv
  <2>10. ASSUME NEW p \in Proc, Drained(p) PROVE SlotInv'
    <3> DEFINE v == Answered(p, "timed_out")
    <3>1. proc' = [proc EXCEPT ![p] = v]
      BY <2>10 DEF Drained
    <3>2. v.slot = proc[p].slot /\ v.stage = "answer" /\ v.out = "timed_out"
      BY <2>0 DEF Answered, Standing
    <3>3. v = proc'[p] /\ v \in Standing
      BY <2>0, <3>1
    <3> HIDE DEF v
    <3>4. /\ setup' = setup /\ agents' \ {p} \subseteq agents
          /\ cred' \in {cred, p, None}
      BY <2>10 DEF Drained
    <3>5. (p \in agents' => v.stage \in {"running", "hung", "dead"}) /\ Seated(p, v, agents')
      BY <2>0, <2>10, <3>2 DEF Drained, Seated, SlotInv, LaunchersSeated, AgentsWatched, Idle
    <3>6. (cred' = p => v.stage \notin {"idle", "slot"}) /\ (v.stage = "slot" => v.left <= Patience(p))
      BY <2>0, <2>10, <3>2 DEF Drained, SlotInv, LockOrder, Idle
    <3> QED
      BY <3>1, <3>2, <3>3, <3>4, <3>5, <3>6, OneMovesSlots
  <2>11. ASSUME NEW p \in Proc, NEW o \in {"ok", "failed", "busy"}, AgentEnds(p, o) PROVE SlotInv'
    <3> DEFINE v == Answered(p, o)
    <3>1. proc' = [proc EXCEPT ![p] = v]
      BY <2>11 DEF AgentEnds
    <3>2. v.slot = proc[p].slot /\ v.stage = "answer" /\ v.out = o
      BY <2>0 DEF Answered, Standing
    <3>3. v = proc'[p] /\ v \in Standing
      BY <2>0, <3>1
    <3> HIDE DEF v
    <3>4. /\ setup' = setup /\ agents' \ {p} \subseteq agents
          /\ cred' \in {cred, p, None}
      BY <2>11 DEF AgentEnds
    <3>5. (p \in agents' => v.stage \in {"running", "hung", "dead"}) /\ Seated(p, v, agents')
      BY <2>0, <2>11, <3>2 DEF AgentEnds, Retries, Seated, SlotInv, LaunchersSeated, AgentsWatched, Idle
    <3>6. (cred' = p => v.stage \notin {"idle", "slot"}) /\ (v.stage = "slot" => v.left <= Patience(p))
      BY <2>0, <2>11, <3>2 DEF AgentEnds, SlotInv, LockOrder, Idle
    <3> QED
      BY <3>1, <3>2, <3>3, <3>4, <3>5, <3>6, OneMovesSlots
  <2>12. ASSUME NEW p \in Proc, Retry(p) PROVE SlotInv'
    <3> DEFINE v == [proc[p] EXCEPT !.stage = "probing", !.left = Prelaunch, !.tried = TRUE, !.out = "none"]
    <3>1. proc' = [proc EXCEPT ![p] = v]
      BY <2>12 DEF Retry
    <3>2. v.slot = proc[p].slot /\ v.stage = "probing"
      BY <2>0 DEF Standing, Idle
    <3>3. v = proc'[p] /\ v \in Standing
      BY <2>0, <3>1
    <3> HIDE DEF v
    <3>4. /\ setup' = setup /\ agents' \ {p} \subseteq agents
          /\ cred' \in {cred, p, None}
      BY <2>12 DEF Retry
    <3>5. (p \in agents' => v.stage \in {"running", "hung", "dead"}) /\ Seated(p, v, agents')
      BY <2>0, <2>12, <3>2 DEF Retry, Retries, Seated, SlotInv, LaunchersSeated, AgentsWatched, Idle
    <3>6. (cred' = p => v.stage \notin {"idle", "slot"}) /\ (v.stage = "slot" => v.left <= Patience(p))
      BY <2>0, <2>12, <3>2 DEF Retry, SlotInv, LockOrder, Idle
    <3> QED
      BY <3>1, <3>2, <3>3, <3>4, <3>5, <3>6, OneMovesSlots
  <2>13. ASSUME NEW p \in Proc, Return(p) PROVE SlotInv'
    <3> DEFINE v == [Idle EXCEPT !.stage = IF p \in Job THEN "returned" ELSE "exited", !.out = IF p \in Job THEN proc[p].out ELSE "none"]
    <3>1. proc' = [proc EXCEPT ![p] = v]
      BY <2>13 DEF Return
    <3>2. v.slot = 0 /\ v.stage \in {"returned", "exited"}
      BY <2>0 DEF Standing
    <3>3. v = proc'[p] /\ v \in Standing
      BY <2>0, <3>1
    <3> HIDE DEF v
    <3>4. /\ setup' = setup /\ agents' \ {p} \subseteq agents
          /\ cred' \in {cred, p, None}
      BY <2>13 DEF Return, Freed
    <3>5. (p \in agents' => v.stage \in {"running", "hung", "dead"}) /\ Seated(p, v, agents')
      BY <2>0, <2>13, <3>2 DEF Return, Freed, Seated, SlotInv, LaunchersSeated, AgentsWatched, Idle
    <3>6. (cred' = p => v.stage \notin {"idle", "slot"}) /\ (v.stage = "slot" => v.left <= Patience(p))
      BY <2>0, <2>13, <3>2 DEF Return, SlotInv, LockOrder, Idle
    <3> QED
      BY <3>1, <3>2, <3>3, <3>4, <3>5, <3>6, OneMovesSlots
  <2>14. ASSUME NEW p \in Proc, WriteResult(p) PROVE SlotInv'
    <3> DEFINE v == [Idle EXCEPT !.stage = "wrote"]
    <3>1. proc' = [proc EXCEPT ![p] = v]
      BY <2>14 DEF WriteResult
    <3>2. v.slot = 0 /\ v.stage = "wrote"
      BY <2>0 DEF Standing
    <3>3. v = proc'[p] /\ v \in Standing
      BY <2>0, <3>1
    <3> HIDE DEF v
    <3>4. /\ setup' = setup /\ agents' \ {p} \subseteq agents
          /\ cred' \in {cred, p, None}
      BY <2>14 DEF WriteResult
    <3>5. (p \in agents' => v.stage \in {"running", "hung", "dead"}) /\ Seated(p, v, agents')
      BY <2>0, <2>14, <3>2 DEF WriteResult, Seated, SlotInv, LaunchersSeated, AgentsWatched, Idle
    <3>6. (cred' = p => v.stage \notin {"idle", "slot"}) /\ (v.stage = "slot" => v.left <= Patience(p))
      BY <2>0, <2>14, <3>2 DEF WriteResult, SlotInv, LockOrder, Idle
    <3> QED
      BY <3>1, <3>2, <3>3, <3>4, <3>5, <3>6, OneMovesSlots
  <2>15. ASSUME NEW p \in Proc, Exit(p) PROVE SlotInv'
    <3> DEFINE v == [Idle EXCEPT !.stage = "exited"]
    <3>1. proc' = [proc EXCEPT ![p] = v]
      BY <2>15 DEF Exit
    <3>2. v.slot = 0 /\ v.stage = "exited"
      BY <2>0 DEF Standing
    <3>3. v = proc'[p] /\ v \in Standing
      BY <2>0, <3>1
    <3> HIDE DEF v
    <3>4. /\ setup' = setup /\ agents' \ {p} \subseteq agents
          /\ cred' \in {cred, p, None}
      BY <2>15 DEF Exit
    <3>5. (p \in agents' => v.stage \in {"running", "hung", "dead"}) /\ Seated(p, v, agents')
      BY <2>0, <2>15, <3>2 DEF Exit, Seated, SlotInv, LaunchersSeated, AgentsWatched, Idle
    <3>6. (cred' = p => v.stage \notin {"idle", "slot"}) /\ (v.stage = "slot" => v.left <= Patience(p))
      BY <2>0, <2>15, <3>2 DEF Exit, SlotInv, LockOrder, Idle
    <3> QED
      BY <3>1, <3>2, <3>3, <3>4, <3>5, <3>6, OneMovesSlots
  <2>16. ASSUME NEW p \in Proc, Refreshed(p) PROVE SlotInv'
    BY <2>0, <2>16 DEF Refreshed, SlotInv, SlotsApart, AgentsWatched, LaunchersSeated, Seated, LockOrder,
       WaitsBounded, Patience, Marked, Cap
  <2>17. ASSUME NEW p \in Proc, Crash(p) PROVE SlotInv'
    <3> DEFINE v == Dead
    <3>1. proc' = [proc EXCEPT ![p] = v]
      BY <2>17 DEF Crash
    <3>2. v.slot = 0 /\ v.stage = "dead"
      BY <2>0
    <3>3. v = proc'[p] /\ v \in Standing
      BY <2>0, <3>1
    <3> HIDE DEF v
    <3>4. /\ setup' = setup /\ agents' \ {p} \subseteq agents
          /\ cred' \in {cred, p, None}
      BY <2>17 DEF Crash, Freed
    <3>5. (p \in agents' => v.stage \in {"running", "hung", "dead"}) /\ Seated(p, v, agents')
      BY <2>0, <2>17, <3>2 DEF Crash, Freed, Seated, SlotInv, LaunchersSeated, AgentsWatched, Active, Idle
    <3>6. (cred' = p => v.stage \notin {"idle", "slot"}) /\ (v.stage = "slot" => v.left <= Patience(p))
      BY <2>0, <2>17, <3>2 DEF Crash, SlotInv, LockOrder, Idle
    <3> QED
      BY <3>1, <3>2, <3>3, <3>4, <3>5, <3>6, OneMovesSlots
  <2>18. ASSUME NEW p \in Proc, Hang(p) PROVE SlotInv'
    <3> DEFINE v == [Idle EXCEPT !.stage = "hung", !.slot = proc[p].slot]
    <3>1. proc' = [proc EXCEPT ![p] = v]
      BY <2>18 DEF Hang
    <3>2. v.slot = proc[p].slot /\ v.stage = "hung"
      BY <2>0 DEF Standing
    <3>3. v = proc'[p] /\ v \in Standing
      BY <2>0, <3>1
    <3> HIDE DEF v
    <3>4. /\ setup' = setup /\ agents' \ {p} \subseteq agents
          /\ cred' \in {cred, p, None}
      BY <2>18 DEF Hang
    <3>5. (p \in agents' => v.stage \in {"running", "hung", "dead"}) /\ Seated(p, v, agents')
      BY <2>0, <2>18, <3>2 DEF Hang, Seated, SlotInv, LaunchersSeated, AgentsWatched, Active, Idle
    <3>6. (cred' = p => v.stage \notin {"idle", "slot"}) /\ (v.stage = "slot" => v.left <= Patience(p))
      BY <2>0, <2>18, <3>2 DEF Hang, SlotInv, LockOrder, Idle
    <3> QED
      BY <3>1, <3>2, <3>3, <3>4, <3>5, <3>6, OneMovesSlots
  <2>19. ASSUME NEW j \in Job, WriteRequest(j) PROVE SlotInv'
    BY <2>19, NoneMovesSlots DEF WriteRequest
  <2>20. ASSUME NEW j \in Job, NEW guarded \in BOOLEAN, Spawn(j, guarded) PROVE SlotInv'
    <3> DEFINE v == Entered(j, guarded)
    <3>0. j \in Proc
      BY <2>0
    <3>1. proc' = [proc EXCEPT ![j] = v]
      BY <2>20 DEF Spawn
    <3>2. v.slot = 0 /\ v.stage \in {"slot", "cred", "probing"} /\ (v.stage = "slot" => v.left <= Patience(j)) /\ (v.stage # "slot" => Cap(j) = 0)
      BY <2>0, StartFits
    <3>3. v = proc'[j] /\ v \in Standing
      BY <2>0, <3>1
    <3> HIDE DEF v
    <3>4. /\ setup' = setup /\ agents' \ {j} \subseteq agents
          /\ cred' \in {cred, j, None}
      BY <2>20 DEF Spawn
    <3>5. (j \in agents' => v.stage \in {"running", "hung", "dead"}) /\ Seated(j, v, agents')
      BY <2>0, <2>20, <3>2 DEF Spawn, Seated, SlotInv, LaunchersSeated, AgentsWatched, JobInv, JobsStartOnce, Idle
    <3>6. (cred' = j => v.stage \notin {"idle", "slot"}) /\ (v.stage = "slot" => v.left <= Patience(j))
      BY <2>0, <2>20, <3>2 DEF Spawn, SlotInv, LockOrder, JobInv, JobsStartOnce, Idle
    <3> QED
      BY <3>0, <3>1, <3>2, <3>3, <3>4, <3>5, <3>6, OneMovesSlots
  <2>21. ASSUME NEW j \in Job, SpawnFails(j) PROVE SlotInv'
    BY <2>21, NoneMovesSlots DEF SpawnFails
  <2>22. ASSUME NEW j \in Job, PersistRunning(j) PROVE SlotInv'
    BY <2>22, NoneMovesSlots DEF PersistRunning
  <2>23. ASSUME NEW j \in Job, ServerDies(j) PROVE SlotInv'
    BY <2>23, NoneMovesSlots DEF ServerDies
  <2>24. ASSUME NEW q \in Poller, NEW j \in Job, LoadRecord(q, j) PROVE SlotInv'
    BY <2>24, NoneMovesSlots DEF LoadRecord
  <2>25. ASSUME NEW q \in Poller, ReadResult(q) PROVE SlotInv'
    BY <2>25, NoneMovesSlots DEF ReadResult
  <2>26. ASSUME NEW q \in Poller, Probe(q) PROVE SlotInv'
    BY <2>26, NoneMovesSlots DEF Probe
  <2>27. ASSUME NEW q \in Poller, Kill(q) PROVE SlotInv'
    <3>1. PICK S : proc' = [p \in Proc |-> IF p \in S THEN Dead ELSE proc[p]]
      BY <2>27 DEF Kill
    <3>2. setup' = setup /\ agents' \subseteq agents /\ cred' \in {cred, None}
      BY <2>27 DEF Kill, Freed
    <3> QED
      BY <3>1, <3>2, SomeDieSlots
  <2>28. ASSUME NEW q \in Poller, Persist(q) PROVE SlotInv'
    BY <2>28, NoneMovesSlots DEF Persist
  <2>29. ASSUME NEW q \in Poller, Cleanup(q) PROVE SlotInv'
    BY <2>29, NoneMovesSlots DEF Cleanup
  <2>30. ASSUME NEW q \in Poller, PollerDies(q) PROVE SlotInv'
    BY <2>30, NoneMovesSlots DEF PollerDies
  <2>31. CASE Tick
    <3>1. \A p \in Proc : /\ proc'[p].slot = proc[p].slot /\ proc'[p].stage = proc[p].stage
                            /\ proc'[p].out = proc[p].out /\ proc'[p].left <= proc[p].left
      <4> SUFFICES ASSUME NEW p \in Proc
                   PROVE  /\ Older(proc[p]).slot = proc[p].slot /\ Older(proc[p]).stage = proc[p].stage
                          /\ Older(proc[p]).out = proc[p].out /\ Older(proc[p]).left <= proc[p].left
        BY <2>31 DEF Tick
      <4>1. CASE proc[p].stage \notin Timed
        BY <2>0, <4>1, StandingFields DEF Older
      <4>2. CASE proc[p].stage \in Timed
        <5> DEFINE budget == IF proc[p].stage = "slot" THEN 0 ELSE IF proc[p].budget = -Prelaunch THEN proc[p].budget
                             ELSE proc[p].budget - 1
        <5>1. Older(proc[p]) = [proc[p] EXCEPT !.left = proc[p].left - 1, !.budget = budget]
          BY <4>2 DEF Older
        <5> HIDE DEF budget
        <5>2. proc[p].left \in Int
          BY <2>0, StandingFields
        <5> QED
          BY <2>0, <5>1, <5>2 DEF Standing
      <4> QED
        BY <4>1, <4>2
    <3>2. UNCHANGED <<setup, cred, agents>>
      BY <2>31 DEF Tick
    <3>3. \A p \in Proc : Patience(p) \in Nat /\ proc[p].left \in Nat /\ proc'[p].left \in Nat
      BY <2>0, PatienceTypes, StandingFields
    <3> QED
      BY <2>0, <3>1, <3>2, <3>3 DEF SlotInv, SlotsApart, AgentsWatched, LaunchersSeated, Seated, LockOrder,
         WaitsBounded, Patience, Marked, Cap
  <2>32. CASE UNCHANGED vars
    BY <2>32, NoneMovesSlots DEF vars
  <2> QED
    BY <2>0, <2>1, <2>2, <2>3, <2>4, <2>5, <2>6, <2>7, <2>8, <2>9, <2>10, <2>11, <2>12, <2>13, <2>14, <2>15, <2>16, <2>17, <2>18, <2>19, <2>20, <2>21, <2>22, <2>23, <2>24, <2>25, <2>26, <2>27, <2>28, <2>29, <2>30, <2>31, <2>32 DEF Next, Proceed, Serve, Reconcile
<1> QED
  BY <1>1, <1>2, DispatchTyping, JobsSpawned, PTL DEF Spec

\* Who waits for a slot holds nothing another dispatch needs to end (_slots.py, FR04 and FR05).
THEOREM NobodyHoldsAndWaits == Spec => []NoHoldAndWait
<1>1. TypeInv /\ SlotInv => NoHoldAndWait
  <2> SUFFICES ASSUME TypeInv, SlotInv, NEW p \in Proc, proc[p].stage = "slot", proc[p].left > 0
               PROVE  cred # p /\ (p \in Nested => proc[setup.parent[p]].slot = 0)
    BY DEF NoHoldAndWait
  <2>1. cred # p
    BY DEF SlotInv, LockOrder
  <2>2. ASSUME p \in Nested PROVE proc[setup.parent[p]].slot = 0
    <3>1. proc[p].left \in Nat /\ proc[p].left <= Patience(p)
      BY StandingFields DEF TypeInv, DispatchTypes, SlotInv, WaitsBounded
    <3>2. ~Marked(p)
      BY <3>1 DEF Patience
    <3>3. setup.parent[p] \in Proc /\ Cap(setup.parent[p]) \in Nat
      BY <2>2, SetupTypes DEF TypeInv, DispatchTypes, Proc
    <3>4. Cap(setup.parent[p]) = 0
      BY <2>2, <3>2, <3>3 DEF Marked
    <3> QED
      BY <3>3, <3>4 DEF TypeInv, DispatchTypes
  <2> QED
    BY <2>1, <2>2
<1> QED
  BY <1>1, DispatchTyping, DispatchSlots, PTL

\* Each counted agent runs in a slot of its own within its dispatch's cap, so if all caps
\* were below their number, their slots would be too few.
THEOREM CapIsKept == Spec => []CapHolds
<1>1. TypeInv /\ SlotInv => CapHolds
  <2> SUFFICES ASSUME TypeInv, SlotInv, Counted # {},
                      \A p \in Counted : ~(Cardinality(Counted) <= Cap(p))
               PROVE  FALSE
    BY DEF CapHolds
  <2> DEFINE n == Cardinality(Counted)
             at == [p \in Counted |-> proc[p].slot]
  <2>1. Counted \subseteq Proc /\ IsFiniteSet(Counted)
    <3>1. Counted \subseteq Proc
      BY DEF Counted, TypeInv, OtherTypes
    <3> QED
      BY <3>1, FS_Subset, DispatchAssumption
  <2>2. n \in Nat
    BY <2>1, FS_CardinalityType
  <2>3. n # 0
    BY <2>1, FS_EmptySet
  <2>4. \A p \in Counted : proc[p].slot \in 1..(n - 1)
    <3> SUFFICES ASSUME NEW p \in Counted
                 PROVE  proc[p].slot \in 1..(n - 1)
      OBVIOUS
    <3>1. p \in Proc /\ p \in agents /\ Cap(p) > 0 /\ ~Over(p) /\ Cap(p) \in Nat
      BY <2>1, SetupTypes DEF Counted, TypeInv, DispatchTypes
    <3>2. proc[p].stage \in {"running", "hung"}
      BY <3>1 DEF SlotInv, AgentsWatched, Over
    <3>3. proc[p].slot # 0
      BY <3>1, <3>2 DEF SlotInv, LaunchersSeated, Seated
    <3>4. proc[p].slot \in 0..Cap(p) /\ Cap(p) < n
      BY <3>1, <2>2 DEF TypeInv, DispatchTypes
    <3> HIDE DEF n
    <3> QED
      BY <2>2, <3>1, <3>3, <3>4
  <2>5. at \in Injection(Counted, 1..(n - 1))
    <3>1. at \in [Counted -> 1..(n - 1)]
      BY <2>4
    <3>2. \A p, q \in Counted : at[p] = at[q] => p = q
      BY <2>1, <2>4 DEF SlotInv, SlotsApart
    <3> QED
      BY <3>1, <3>2 DEF Injection, IsInjective
  <2>6. IsFiniteSet(1..(n - 1)) /\ Cardinality(1..(n - 1)) = n - 1
    <3>1. n - 1 \in Nat
      BY <2>2, <2>3
    <3> QED
      BY <3>1, <2>2, <2>3, FS_Interval
  <2>7. n <= n - 1
    BY <2>5, <2>6, FS_Injection
  <2> QED
    BY <2>2, <2>7
<1> QED
  BY <1>1, DispatchTyping, DispatchSlots, PTL

-----------------------------------------------------------------------------
(* What the records say *)

\* How old a job can be: its wait for a slot is half its timeout at most, its budget pays
\* for the login and the attempts, and only the last probe comes on top.
Aged(pr, a) ==
    /\ pr.stage = "slot" => a + pr.left <= Timeout \div 2
    /\ pr.stage \in {"cred", "probing", "running"} => a + pr.budget <= Timeout \div 2 + Timeout
    /\ pr.stage = "answer" /\ pr.out = "busy" => a + pr.budget <= Timeout \div 2 + Timeout
    /\ pr.stage = "cred" => pr.budget + CredentialWait = Timeout + pr.left
    /\ pr.stage = "probing" => pr.budget + Prelaunch > pr.left /\ pr.left <= Prelaunch
    /\ pr.stage = "running" =>
           a + pr.left <= Timeout \div 2 + Timeout + Prelaunch /\ pr.left <= pr.budget + Prelaunch

JobsAged == \A j \in Job : Aged(proc[j], age[j])
AgesStart == \A j \in Job : rec[j] = "none" => age[j] = 0
TimeInv == JobsAged /\ AgesStart

\* A result is the last a job writes, and a job that ends without dying has one.
Fits(pr, r) ==
    /\ r # "none" => pr.stage \in {"wrote", "exited", "hung", "dead"}
    /\ pr.stage \in {"wrote", "exited"} => r # "none"
ResultsLast == \A j \in Job : Fits(proc[j], result[j])

\* A verdict is what the result says, or fails a job that is dead.
Agrees(j, verdict) ==
    /\ verdict \in {"ok", "timed_out"} => result[j] = verdict
    /\ verdict = "failed" => result[j] # "none" \/ proc[j].stage = "dead"
RecordsTrue == \A j \in Job : Agrees(j, rec[j])
PollsTrue ==
    \A q \in Poller :
        /\ poll[q].at = "persist" => Agrees(poll[q].job, poll[q].verdict)
        /\ poll[q].at = "kill" => poll[q].verdict = "failed" /\ age[poll[q].job] > TTL
RecordInv == ResultsLast /\ RecordsTrue /\ PollsTrue

VerdictInv == TimeInv /\ RecordInv

LEMMA WatchdogIs == TTL = Prelaunch + Timeout + Timeout \div 2 /\ TTL \in Nat
  BY DispatchAssumption DEF TTL

\* One dispatch moves; a job moves to where its age and its result let it be.
LEMMA OneMovesVerdicts ==
    ASSUME TypeInv, VerdictInv, NEW p \in Proc, NEW v \in Standing,
           proc' = [proc EXCEPT ![p] = v], UNCHANGED <<age, rec, result, poll>>,
           p \in Job => Aged(v, age[p]) /\ Fits(v, result[p]) /\ proc[p].stage # "dead"
    PROVE  VerdictInv'
<1> USE DEF TypeInv, DispatchTypes, OtherTypes
<1>0. Job \subseteq Proc
  BY DEF Proc
<1>1. TimeInv'
  BY <1>0 DEF VerdictInv, TimeInv, JobsAged, AgesStart
<1>2. ResultsLast'
  BY <1>0 DEF VerdictInv, RecordInv, ResultsLast
<1>3. \A j \in Job : \A verdict : Agrees(j, verdict) => Agrees(j, verdict)'
  BY <1>0 DEF Agrees
<1>4. RecordsTrue' /\ PollsTrue'
  BY <1>3 DEF VerdictInv, RecordInv, RecordsTrue, PollsTrue
<1> QED
  BY <1>1, <1>2, <1>4 DEF VerdictInv, RecordInv

\* Some dispatches that are not over die.
LEMMA SomeDieVerdicts ==
    ASSUME TypeInv, VerdictInv, NEW S,
           \A p \in Proc : proc'[p] = IF p \in S THEN Dead ELSE proc[p], UNCHANGED <<age, rec, result, poll>>
    PROVE  VerdictInv'
<1> USE DEF TypeInv, DispatchTypes, OtherTypes
<1>0. Job \subseteq Proc /\ Dead.stage = "dead"
  BY DEF Proc, Dead, Idle
<1>1. TimeInv'
  BY <1>0 DEF VerdictInv, TimeInv, JobsAged, AgesStart, Aged
<1>2. ResultsLast'
  BY <1>0 DEF VerdictInv, RecordInv, ResultsLast, Fits
<1>3. \A j \in Job : \A verdict : Agrees(j, verdict) => Agrees(j, verdict)'
  BY <1>0 DEF Agrees
<1>4. RecordsTrue' /\ PollsTrue'
  BY <1>3 DEF VerdictInv, RecordInv, RecordsTrue, PollsTrue
<1> QED
  BY <1>1, <1>2, <1>4 DEF VerdictInv, RecordInv

LEMMA NoneMovesVerdicts == VerdictInv /\ UNCHANGED <<proc, age, rec, result, poll>> => VerdictInv'
  BY DEF VerdictInv, TimeInv, JobsAged, AgesStart, Aged, RecordInv, ResultsLast, Fits, RecordsTrue, PollsTrue, Agrees

\* A poll moves to a step that may be.
LEMMA OnePolls ==
    ASSUME TypeInv, VerdictInv, NEW q \in Poller, NEW v, poll' = [poll EXCEPT ![q] = v],
           UNCHANGED <<proc, age, rec, result>>,
           v.at = "persist" => Agrees(v.job, v.verdict),
           v.at = "kill" => v.verdict = "failed" /\ age[v.job] > TTL
    PROVE  VerdictInv'
<1> USE DEF TypeInv, DispatchTypes, OtherTypes
<1>1. TimeInv' /\ ResultsLast' /\ RecordsTrue'
  BY DEF VerdictInv, TimeInv, JobsAged, AgesStart, Aged, RecordInv, ResultsLast, Fits, RecordsTrue, Agrees
<1>2. PollsTrue'
  BY DEF VerdictInv, RecordInv, PollsTrue, Agrees
<1> QED
  BY <1>1, <1>2 DEF VerdictInv, RecordInv

THEOREM DispatchVerdicts == Spec => []VerdictInv
<1>1. Init => VerdictInv
  BY DispatchAssumption DEF Init, VerdictInv, TimeInv, JobsAged, AgesStart, Aged, RecordInv, ResultsLast,
     Fits, RecordsTrue, PollsTrue, Agrees, Idle, Away, Proc
<1>2. TypeInv /\ TypeInv' /\ JobInv /\ SlotInv /\ VerdictInv /\ [Next]_vars => VerdictInv'
  <2> SUFFICES ASSUME TypeInv, TypeInv', JobInv, SlotInv, VerdictInv, [Next]_vars
               PROVE  VerdictInv'
    OBVIOUS
  <2>0. /\ proc \in [Proc -> Standing] /\ proc' \in [Proc -> Standing]
        /\ \A p \in Proc : proc[p] \in Standing /\ proc[p].left \in Nat /\ proc[p].budget \in Int
        /\ Job \subseteq Proc /\ Nested \subseteq Proc /\ \A p \in Sync \cup Nested : p \notin Job
        /\ age \in [Job -> Nat] /\ \A j \in Job : age[j] \in Nat
        /\ Timeout \in Nat /\ Timeout > 0 /\ CredentialWait \in Nat /\ 2 * CredentialWait <= Timeout
        /\ Prelaunch \in Nat /\ MinRetry \in Nat /\ MinRetry > 0 /\ KillWindow \in Nat
    BY StandingFields, WatchdogIs, DispatchAssumption DEF TypeInv, DispatchTypes, OtherTypes, Proc
  <2>00. \A j \in Job : Aged(proc[j], age[j]) /\ Fits(proc[j], result[j])
    BY DEF VerdictInv, TimeInv, JobsAged, RecordInv, ResultsLast
  <2>1. ASSUME NEW p \in Proc, NEW guarded \in BOOLEAN, StartSync(p, guarded) PROVE VerdictInv'
    <3>1. PICK v \in Standing : proc' = [proc EXCEPT ![p] = v]
      BY <2>0, <2>1 DEF StartSync
    <3>2. UNCHANGED <<age, rec, result, poll>> /\ p \notin Job
      BY <2>0, <2>1 DEF StartSync, jobFiles
    <3> QED
      BY <3>1, <3>2, OneMovesVerdicts
  <2>2. ASSUME NEW p \in Proc, NEW guarded \in BOOLEAN, StartNested(p, guarded) PROVE VerdictInv'
    <3>1. PICK v \in Standing : proc' = [proc EXCEPT ![p] = v]
      BY <2>0, <2>2 DEF StartNested
    <3>2. UNCHANGED <<age, rec, result, poll>> /\ p \notin Job
      BY <2>0, <2>2 DEF StartNested, jobFiles
    <3> QED
      BY <3>1, <3>2, OneMovesVerdicts
  <2>3. ASSUME NEW p \in Proc, NEW guarded \in BOOLEAN, TakeSlot(p, guarded) PROVE VerdictInv'
    <3>1. PICK k \in FreeSlots(p) : proc' = [proc EXCEPT ![p] = Begun(k, guarded)]
      BY <2>3 DEF TakeSlot
    <3>2. UNCHANGED <<age, rec, result, poll>> /\ proc[p].stage = "slot"
      BY <2>3 DEF TakeSlot, jobFiles
    <3>3. Begun(k, guarded) \in Standing
      BY <2>0, <3>1
    <3>4. ASSUME p \in Job PROVE Aged(Begun(k, guarded), age[p]) /\ Fits(Begun(k, guarded), result[p])
      <4>1. age[p] \in Nat /\ age[p] <= Timeout \div 2 /\ result[p] = "none"
        BY <2>0, <2>00, <3>2, <3>4 DEF Aged, Fits
      <4> QED
        BY <2>0, <4>1 DEF Aged, Fits, Begun
    <3> QED
      BY <3>1, <3>2, <3>3, <3>4, OneMovesVerdicts
  <2>4. ASSUME NEW p \in Proc, RefuseSlot(p) PROVE VerdictInv'
    <3> DEFINE v == Answered(p, "failed")
    <3>1. proc' = [proc EXCEPT ![p] = v] /\ proc[p].stage = "slot"
      BY <2>4 DEF RefuseSlot
    <3>2. UNCHANGED <<age, rec, result, poll>>
      BY <2>4 DEF RefuseSlot, jobFiles
    <3>3. v.stage = "answer" /\ v.out = "failed"
      BY <2>0 DEF Answered, Standing
    <3>4. v = proc'[p] /\ v \in Standing
      BY <2>0, <3>1
    <3> HIDE DEF v
    <3>5. ASSUME p \in Job PROVE Aged(v, age[p]) /\ Fits(v, result[p])
      BY <2>0, <2>00, <3>1, <3>3, <3>5 DEF Aged, Fits
    <3> QED
      BY <3>1, <3>2, <3>4, <3>5, OneMovesVerdicts
  <2>5. ASSUME NEW p \in Proc, TakeCredential(p) PROVE VerdictInv'
    <3> DEFINE v == [proc[p] EXCEPT !.stage = "probing", !.left = Prelaunch]
    <3>1. proc' = [proc EXCEPT ![p] = v] /\ proc[p].stage = "cred"
      BY <2>5 DEF TakeCredential
    <3>2. UNCHANGED <<age, rec, result, poll>>
      BY <2>5 DEF TakeCredential, jobFiles
    <3>3. v.stage = "probing" /\ v.budget = proc[p].budget /\ v.left = Prelaunch
      BY <2>0 DEF Standing
    <3>4. v = proc'[p] /\ v \in Standing
      BY <2>0, <3>1
    <3> HIDE DEF v
    <3>5. ASSUME p \in Job PROVE Aged(v, age[p]) /\ Fits(v, result[p])
      BY <2>0, <2>00, <3>1, <3>3, <3>5 DEF Aged, Fits
    <3> QED
      BY <3>1, <3>2, <3>4, <3>5, OneMovesVerdicts
  <2>6. ASSUME NEW p \in Proc, RefuseCredential(p) PROVE VerdictInv'
    <3> DEFINE v == Answered(p, "failed")
    <3>1. proc' = [proc EXCEPT ![p] = v] /\ proc[p].stage = "cred"
      BY <2>6 DEF RefuseCredential
    <3>2. UNCHANGED <<age, rec, result, poll>>
      BY <2>6 DEF RefuseCredential, jobFiles
    <3>3. v.stage = "answer" /\ v.out = "failed"
      BY <2>0 DEF Answered, Standing
    <3>4. v = proc'[p] /\ v \in Standing
      BY <2>0, <3>1
    <3> HIDE DEF v
    <3>5. ASSUME p \in Job PROVE Aged(v, age[p]) /\ Fits(v, result[p])
      BY <2>0, <2>00, <3>1, <3>3, <3>5 DEF Aged, Fits
    <3> QED
      BY <3>1, <3>2, <3>4, <3>5, OneMovesVerdicts
  <2>7. ASSUME NEW p \in Proc, Launch(p) PROVE VerdictInv'
    <3> DEFINE v == [proc[p] EXCEPT !.stage = "running", !.left = AttemptTime(p)]
    <3>1. proc' = [proc EXCEPT ![p] = v] /\ proc[p].stage = "probing"
      BY <2>7 DEF Launch
    <3>2. UNCHANGED <<age, rec, result, poll>>
      BY <2>7 DEF Launch, jobFiles
    <3>3. v.stage = "running" /\ v.budget = proc[p].budget /\ v.left = AttemptTime(p)
      BY <2>0 DEF Standing
    <3>4. v = proc'[p] /\ v \in Standing
      BY <2>0, <3>1
    <3> HIDE DEF v
    <3>5. ASSUME p \in Job PROVE Aged(v, age[p]) /\ Fits(v, result[p])
      BY <2>0, <2>00, <3>1, <3>3, <3>5 DEF Aged, Fits, AttemptTime
    <3> QED
      BY <3>1, <3>2, <3>4, <3>5, OneMovesVerdicts
  <2>8. ASSUME NEW p \in Proc, LaunchFails(p) PROVE VerdictInv'
    <3> DEFINE v == Answered(p, "failed")
    <3>1. proc' = [proc EXCEPT ![p] = v] /\ proc[p].stage = "probing"
      BY <2>8 DEF LaunchFails
    <3>2. UNCHANGED <<age, rec, result, poll>>
      BY <2>8 DEF LaunchFails, jobFiles
    <3>3. v.stage = "answer" /\ v.out = "failed"
      BY <2>0 DEF Answered, Standing
    <3>4. v = proc'[p] /\ v \in Standing
      BY <2>0, <3>1
    <3> HIDE DEF v
    <3>5. ASSUME p \in Job PROVE Aged(v, age[p]) /\ Fits(v, result[p])
      BY <2>0, <2>00, <3>1, <3>3, <3>5 DEF Aged, Fits
    <3> QED
      BY <3>1, <3>2, <3>4, <3>5, OneMovesVerdicts
  <2>9. ASSUME NEW p \in Proc, TimeOut(p) PROVE VerdictInv'
    <3> DEFINE v == [proc[p] EXCEPT !.stage = "drain", !.left = KillWindow]
    <3>1. /\ proc[p].stage = "running" /\ UNCHANGED <<age, rec, result, poll>>
          /\ proc' = [q \in Proc |-> IF q \in NestedIn(p) THEN Dead ELSE IF q = p THEN v ELSE proc[q]]
      BY <2>9 DEF TimeOut, jobFiles
    <3>2. v.stage = "drain"
      BY <2>0 DEF Standing
    <3> HIDE DEF v
    <3>3. \A j \in Job : /\ proc'[j] = proc[j] \/ (proc'[j].stage = "drain" /\ proc[j].stage = "running")
      BY <2>0, <3>1, <3>2 DEF NestedIn
    <3>7. \A j \in Job : Aged(proc'[j], age[j]) /\ Fits(proc'[j], result[j])
      <4> SUFFICES ASSUME NEW j \in Job PROVE Aged(proc'[j], age[j]) /\ Fits(proc'[j], result[j])
        OBVIOUS
      <4>1. CASE proc'[j] = proc[j]
        BY <2>00, <4>1
      <4>2. CASE proc'[j].stage = "drain" /\ proc[j].stage = "running"
        BY <2>00, <4>2 DEF Aged, Fits
      <4> QED
        BY <3>3, <4>1, <4>2
    <3>4. TimeInv' /\ ResultsLast'
      BY <3>1, <3>7 DEF VerdictInv, TimeInv, JobsAged, AgesStart, ResultsLast
    <3>5. \A j \in Job : \A verdict : Agrees(j, verdict) => Agrees(j, verdict)'
      BY <3>1, <3>3 DEF Agrees
    <3>6. RecordsTrue' /\ PollsTrue'
      BY <3>1, <3>5 DEF VerdictInv, RecordInv, RecordsTrue, PollsTrue, TypeInv, OtherTypes
    <3> QED
      BY <3>4, <3>6 DEF VerdictInv, RecordInv
  <2>10. ASSUME NEW p \in Proc, Drained(p) PROVE VerdictInv'
    <3> DEFINE v == Answered(p, "timed_out")
    <3>1. proc' = [proc EXCEPT ![p] = v] /\ proc[p].stage = "drain"
      BY <2>10 DEF Drained
    <3>2. UNCHANGED <<age, rec, result, poll>>
      BY <2>10 DEF Drained, jobFiles
    <3>3. v.stage = "answer" /\ v.out = "timed_out"
      BY <2>0 DEF Answered, Standing
    <3>4. v = proc'[p] /\ v \in Standing
      BY <2>0, <3>1
    <3> HIDE DEF v
    <3>5. ASSUME p \in Job PROVE Aged(v, age[p]) /\ Fits(v, result[p])
      BY <2>0, <2>00, <3>1, <3>3, <3>5 DEF Aged, Fits
    <3> QED
      BY <3>1, <3>2, <3>4, <3>5, OneMovesVerdicts
  <2>11. ASSUME NEW p \in Proc, NEW o \in {"ok", "failed", "busy"}, AgentEnds(p, o) PROVE VerdictInv'
    <3> DEFINE v == Answered(p, o)
    <3>1. proc' = [proc EXCEPT ![p] = v] /\ proc[p].stage = "running"
      BY <2>11 DEF AgentEnds
    <3>2. UNCHANGED <<age, rec, result, poll>>
      BY <2>11 DEF AgentEnds, jobFiles
    <3>3. v.stage = "answer" /\ v.budget = proc[p].budget
      BY <2>0 DEF Answered, Standing
    <3>4. v = proc'[p] /\ v \in Standing
      BY <2>0, <3>1
    <3> HIDE DEF v
    <3>5. ASSUME p \in Job PROVE Aged(v, age[p]) /\ Fits(v, result[p])
      BY <2>0, <2>00, <3>1, <3>3, <3>5 DEF Aged, Fits
    <3> QED
      BY <3>1, <3>2, <3>4, <3>5, OneMovesVerdicts
  <2>12. ASSUME NEW p \in Proc, Retry(p) PROVE VerdictInv'
    <3> DEFINE v == [proc[p] EXCEPT !.stage = "probing", !.left = Prelaunch, !.tried = TRUE, !.out = "none"]
    <3>1. proc' = [proc EXCEPT ![p] = v] /\ proc[p].stage = "answer" /\ proc[p].out = "busy" /\ proc[p].budget >= MinRetry
      BY <2>12 DEF Retry, Retries
    <3>2. UNCHANGED <<age, rec, result, poll>>
      BY <2>12 DEF Retry, jobFiles
    <3>3. v.stage = "probing" /\ v.budget = proc[p].budget /\ v.left = Prelaunch
      BY <2>0 DEF Standing
    <3>4. v = proc'[p] /\ v \in Standing
      BY <2>0, <3>1
    <3> HIDE DEF v
    <3>5. ASSUME p \in Job PROVE Aged(v, age[p]) /\ Fits(v, result[p])
      BY <2>0, <2>00, <3>1, <3>3, <3>5 DEF Aged, Fits
    <3> QED
      BY <3>1, <3>2, <3>4, <3>5, OneMovesVerdicts
  <2>13. ASSUME NEW p \in Proc, Return(p) PROVE VerdictInv'
    <3> DEFINE v == [Idle EXCEPT !.stage = IF p \in Job THEN "returned" ELSE "exited", !.out = IF p \in Job THEN proc[p].out ELSE "none"]
    <3>1. proc' = [proc EXCEPT ![p] = v] /\ proc[p].stage = "answer"
      BY <2>13 DEF Return
    <3>2. UNCHANGED <<age, rec, result, poll>>
      BY <2>13 DEF Return, jobFiles
    <3>3. v.stage \in {"returned", "exited"} /\ (p \in Job => v.stage = "returned")
      BY <2>0 DEF Standing
    <3>4. v = proc'[p] /\ v \in Standing
      BY <2>0, <3>1
    <3> HIDE DEF v
    <3>5. ASSUME p \in Job PROVE Aged(v, age[p]) /\ Fits(v, result[p])
      BY <2>0, <2>00, <3>1, <3>3, <3>5 DEF Aged, Fits
    <3> QED
      BY <3>1, <3>2, <3>4, <3>5, OneMovesVerdicts
  <2>14. ASSUME NEW p \in Proc, WriteResult(p) PROVE VerdictInv'
    <3>1. proc[p].stage = "returned" /\ proc' = [proc EXCEPT ![p] = [Idle EXCEPT !.stage = "wrote"]]
      BY <2>14 DEF WriteResult
    <3>2. /\ result' = [result EXCEPT ![p] = Verdict(proc[p].out)] /\ Verdict(proc[p].out) # "none"
          /\ UNCHANGED <<age, rec, poll>>
      BY <2>14 DEF WriteResult, Verdict
    <3>3. p \in Job => result[p] = "none"
      BY <2>00, <3>1 DEF Fits
    <3>4. proc'[p].stage = "wrote"
      BY <2>0, <3>1 DEF Idle
    <3>5. TimeInv'
      BY <2>0, <2>00, <3>1, <3>2, <3>4 DEF VerdictInv, TimeInv, JobsAged, AgesStart, Aged
    <3>6. ResultsLast'
      BY <2>0, <2>00, <3>1, <3>2, <3>4 DEF ResultsLast, Fits, TypeInv, OtherTypes
    <3>7. \A j \in Job : \A verdict : Agrees(j, verdict) => Agrees(j, verdict)'
      BY <2>0, <3>1, <3>2, <3>3, <3>4 DEF Agrees, TypeInv, OtherTypes
    <3>8. RecordsTrue' /\ PollsTrue'
      BY <3>2, <3>7 DEF VerdictInv, RecordInv, RecordsTrue, PollsTrue, TypeInv, OtherTypes
    <3> QED
      BY <3>5, <3>6, <3>8 DEF VerdictInv, RecordInv
  <2>15. ASSUME NEW p \in Proc, Exit(p) PROVE VerdictInv'
    <3> DEFINE v == [Idle EXCEPT !.stage = "exited"]
    <3>1. proc' = [proc EXCEPT ![p] = v] /\ proc[p].stage = "wrote"
      BY <2>15 DEF Exit
    <3>2. UNCHANGED <<age, rec, result, poll>>
      BY <2>15 DEF Exit, jobFiles
    <3>3. v.stage = "exited"
      BY <2>0 DEF Standing
    <3>4. v = proc'[p] /\ v \in Standing
      BY <2>0, <3>1
    <3> HIDE DEF v
    <3>5. ASSUME p \in Job PROVE Aged(v, age[p]) /\ Fits(v, result[p])
      BY <2>0, <2>00, <3>1, <3>3, <3>5 DEF Aged, Fits
    <3> QED
      BY <3>1, <3>2, <3>4, <3>5, OneMovesVerdicts
  <2>16. ASSUME NEW p \in Proc, Refreshed(p) PROVE VerdictInv'
    BY <2>16, NoneMovesVerdicts DEF Refreshed, jobFiles
  <2>17. ASSUME NEW p \in Proc, Crash(p) PROVE VerdictInv'
    <3> DEFINE v == Dead
    <3>1. proc' = [proc EXCEPT ![p] = v] /\ proc[p].stage \notin {"idle", "exited", "dead"}
      BY <2>17 DEF Crash, Active
    <3>2. UNCHANGED <<age, rec, result, poll>>
      BY <2>17 DEF Crash, jobFiles
    <3>3. v.stage = "dead"
      BY DEF Dead, Idle
    <3>4. v = proc'[p] /\ v \in Standing
      BY <2>0, <3>1
    <3> HIDE DEF v
    <3>5. ASSUME p \in Job PROVE Aged(v, age[p]) /\ Fits(v, result[p])
      BY <2>0, <2>00, <3>1, <3>3, <3>5 DEF Aged, Fits
    <3> QED
      BY <3>1, <3>2, <3>4, <3>5, OneMovesVerdicts
  <2>18. ASSUME NEW p \in Proc, Hang(p) PROVE VerdictInv'
    <3> DEFINE v == [Idle EXCEPT !.stage = "hung", !.slot = proc[p].slot]
    <3>1. proc' = [proc EXCEPT ![p] = v] /\ proc[p].stage \notin {"idle", "exited", "dead"}
      BY <2>18 DEF Hang, Active
    <3>2. UNCHANGED <<age, rec, result, poll>>
      BY <2>18 DEF Hang, jobFiles
    <3>3. v.stage = "hung"
      BY <2>0 DEF Standing
    <3>4. v = proc'[p] /\ v \in Standing
      BY <2>0, <3>1
    <3> HIDE DEF v
    <3>5. ASSUME p \in Job PROVE Aged(v, age[p]) /\ Fits(v, result[p])
      BY <2>0, <2>00, <3>1, <3>3, <3>5 DEF Aged, Fits
    <3> QED
      BY <3>1, <3>2, <3>4, <3>5, OneMovesVerdicts
  <2>19. ASSUME NEW j \in Job, WriteRequest(j) PROVE VerdictInv'
    BY <2>19, NoneMovesVerdicts DEF WriteRequest, jobFiles
  <2>20. ASSUME NEW j \in Job, NEW guarded \in BOOLEAN, Spawn(j, guarded) PROVE VerdictInv'
    <3>0. j \in Proc /\ age[j] = 0 /\ proc[j].stage = "idle" /\ result[j] = "none" /\ setup \in Setups
      BY <2>0, <2>00, <2>20 DEF Spawn, JobInv, JobsStartOnce, RecordsLast, VerdictInv, TimeInv, AgesStart, Fits,
         TypeInv, DispatchTypes
    <3> DEFINE v == Entered(j, guarded)
    <3>1. proc' = [proc EXCEPT ![j] = v] /\ UNCHANGED <<age, rec, result, poll>>
      BY <2>20 DEF Spawn
    <3>2. v \in Standing
      BY <3>0, StartTypes
    <3>3. Patience(j) \in Nat /\ Patience(j) <= Timeout \div 2
      <4>1. ~Marked(j) /\ SlotWait \in Nat /\ Timeout \div 2 \in Nat
        BY <2>0, DispatchAssumption DEF Marked
      <4>2. Patience(j) = Least(SlotWait, Timeout \div 2)
        BY <4>1 DEF Patience
      <4> QED
        BY <4>1, <4>2 DEF Least
    <3>4. v = Queued(j) \/ v = Begun(0, guarded)
      BY DEF Entered
    <3>5. Queued(j).stage = "slot" /\ Queued(j).left = Patience(j)
      BY DEF Queued, Idle
    <3>6. Aged(Queued(j), 0) /\ Fits(Queued(j), "none")
      BY <3>3, <3>5 DEF Aged, Fits
    <3>7. Aged(Begun(0, guarded), 0) /\ Fits(Begun(0, guarded), "none")
      BY <2>0 DEF Aged, Fits, Begun
    <3> QED
      BY <3>0, <3>1, <3>2, <3>4, <3>6, <3>7, OneMovesVerdicts
  <2>21. ASSUME NEW j \in Job, SpawnFails(j) PROVE VerdictInv'
    BY <2>21, NoneMovesVerdicts DEF SpawnFails, jobFiles
  <2>22. ASSUME NEW j \in Job, PersistRunning(j) PROVE VerdictInv'
    <3>1. rec' = [rec EXCEPT ![j] = "running"] /\ UNCHANGED <<proc, age, result, poll>>
      BY <2>22 DEF PersistRunning
    <3>2. TimeInv' /\ ResultsLast' /\ PollsTrue'
      BY <2>0, <3>1 DEF VerdictInv, TimeInv, JobsAged, AgesStart, Aged, RecordInv, ResultsLast, Fits, PollsTrue, Agrees,
         TypeInv, OtherTypes
    <3>3. RecordsTrue'
      BY <3>1 DEF VerdictInv, RecordInv, RecordsTrue, Agrees, TypeInv, OtherTypes
    <3> QED
      BY <3>2, <3>3 DEF VerdictInv, RecordInv
  <2>23. ASSUME NEW j \in Job, ServerDies(j) PROVE VerdictInv'
    BY <2>23, NoneMovesVerdicts DEF ServerDies, jobFiles
  <2>24. ASSUME NEW q \in Poller, NEW j \in Job, LoadRecord(q, j) PROVE VerdictInv'
    <3> DEFINE v == [at |-> AfterLoad(rec[j]), job |-> j, verdict |-> "none"]
    <3>1. poll' = [poll EXCEPT ![q] = v] /\ UNCHANGED <<proc, age, rec, result>>
      BY <2>24 DEF LoadRecord
    <3>2. v.at \notin {"persist", "kill"}
      BY DEF Away, AfterLoad
    <3> HIDE DEF v
    <3> QED
      BY <3>1, <3>2, OnePolls
  <2>25. ASSUME NEW q \in Poller, ReadResult(q) PROVE VerdictInv'
    <3>0. poll[q] \in Polling /\ UNCHANGED <<proc, age, rec, result>>
      BY <2>25 DEF ReadResult, TypeInv, OtherTypes
    <3>1. CASE result[poll[q].job] = "none"
      <4>1. poll' = [poll EXCEPT ![q] = Step(q, "probe")]
        BY <2>25, <3>1 DEF ReadResult
      <4>2. Step(q, "probe").at = "probe"
        BY <3>0 DEF Step, Polling
      <4> QED
        BY <3>0, <4>1, <4>2, OnePolls
    <3>2. CASE result[poll[q].job] # "none"
      <4> DEFINE v == Decided(q, result[poll[q].job], "persist")
      <4>1. poll' = [poll EXCEPT ![q] = v]
        BY <2>25, <3>2 DEF ReadResult
      <4>2. v.at = "persist" /\ v.verdict = result[poll[q].job] /\ v.job = poll[q].job
        BY <3>0 DEF Decided, Polling
      <4> HIDE DEF v
      <4>3. Agrees(v.job, v.verdict)
        BY <3>2, <4>2 DEF Agrees
      <4> QED
        BY <3>0, <4>1, <4>2, <4>3, OnePolls
    <3> QED
      BY <3>1, <3>2
  <2>26. ASSUME NEW q \in Poller, Probe(q) PROVE VerdictInv'
    <3>0. poll[q] \in Polling /\ poll[q].job \in Job /\ UNCHANGED <<proc, age, rec, result>>
      BY <2>26 DEF Probe, TypeInv, OtherTypes
    <3>1. CASE Over(poll[q].job)
      <4> DEFINE v == Decided(q, "failed", "persist")
      <4>1. poll' = [poll EXCEPT ![q] = v]
        BY <2>26, <3>1 DEF Probe
      <4>2. v.at = "persist" /\ v.verdict = "failed" /\ v.job = poll[q].job
        BY <3>0 DEF Decided, Polling
      <4> HIDE DEF v
      <4>3. Agrees(v.job, v.verdict)
        BY <2>00, <3>0, <3>1, <4>2 DEF Agrees, Over, Fits
      <4> QED
        BY <3>0, <4>1, <4>2, <4>3, OnePolls
    <3>2. CASE ~Over(poll[q].job) /\ age[poll[q].job] > TTL
      <4> DEFINE v == Decided(q, "failed", "kill")
      <4>1. poll' = [poll EXCEPT ![q] = v]
        BY <2>26, <3>2 DEF Probe
      <4>2. v.at = "kill" /\ v.verdict = "failed" /\ v.job = poll[q].job
        BY <3>0 DEF Decided, Polling
      <4> HIDE DEF v
      <4> QED
        BY <3>0, <3>2, <4>1, <4>2, OnePolls
    <3>3. CASE ~Over(poll[q].job) /\ ~(age[poll[q].job] > TTL)
      <4>1. poll' = [poll EXCEPT ![q] = Away] /\ Away.at = "away"
        BY <2>26, <3>3 DEF Probe, Away
      <4> QED
        BY <3>0, <4>1, OnePolls
    <3> QED
      BY <3>1, <3>2, <3>3
  <2>27. ASSUME NEW q \in Poller, Kill(q) PROVE VerdictInv'
    <3>00. PICK j \in Job : j = poll[q].job
      BY <2>27 DEF Kill, TypeInv, OtherTypes
    <3>0. poll[q] \in Polling /\ j = poll[q].job /\ poll[q].at = "kill" /\ UNCHANGED <<age, rec, result>>
      BY <2>27, <3>00 DEF Kill, TypeInv, OtherTypes
    <3>1. poll' = [poll EXCEPT ![q] = Step(q, "persist")]
      BY <2>27 DEF Kill
    <3>2. /\ \A k \in Job : proc'[k] = proc[k] \/ proc'[k] = Dead
          /\ ~Over(j) => proc'[j] = Dead
      BY <2>0, <2>27, <3>0 DEF Kill
    <3>3. Dead.stage = "dead"
      BY DEF Dead, Idle
    <3>4. TimeInv' /\ ResultsLast'
      BY <2>0, <2>00, <3>0, <3>2, <3>3 DEF VerdictInv, TimeInv, JobsAged, AgesStart, Aged, ResultsLast, Fits
    <3>5. \A k \in Job : \A verdict : Agrees(k, verdict) => Agrees(k, verdict)'
      BY <3>0, <3>2, <3>3 DEF Agrees
    <3>6. Step(q, "persist").at = "persist" /\ Step(q, "persist").job = j /\ Step(q, "persist").verdict = "failed"
      BY <3>0 DEF Step, Polling, VerdictInv, RecordInv, PollsTrue
    <3>7. Agrees(j, "failed")'
      BY <2>00, <3>0, <3>2, <3>3 DEF Agrees, Over, Fits
    <3>8. RecordsTrue'
      BY <3>0, <3>5 DEF VerdictInv, RecordInv, RecordsTrue
    <3>9. ASSUME NEW r \in Poller
          PROVE  (/\ poll[r].at = "persist" => Agrees(poll[r].job, poll[r].verdict)
                  /\ poll[r].at = "kill" => poll[r].verdict = "failed" /\ age[poll[r].job] > TTL)'
      <4>0. poll \in [Poller -> Polling] /\ (poll[r].at # "away" => poll[r].job \in Job)
        BY DEF TypeInv, OtherTypes
      <4>1. CASE r = q
        BY <3>1, <3>6, <3>7, <4>0, <4>1 DEF Agrees
      <4>2. CASE r # q
        BY <3>0, <3>1, <3>5, <4>0, <4>2 DEF VerdictInv, RecordInv, PollsTrue
      <4> QED
        BY <4>1, <4>2
    <3>10. PollsTrue'
      BY <3>9 DEF PollsTrue
    <3> QED
      BY <3>4, <3>8, <3>10 DEF VerdictInv, RecordInv
  <2>28. ASSUME NEW q \in Poller, Persist(q) PROVE VerdictInv'
    <3>0. /\ poll[q] \in Polling /\ poll[q].job \in Job /\ UNCHANGED <<proc, age, result>>
          /\ rec' = [rec EXCEPT ![poll[q].job] = poll[q].verdict] /\ poll[q].verdict \in Terminal
      BY <2>28 DEF Persist, TypeInv, OtherTypes, JobInv, PollsRecorded
    <3>1. poll' = [poll EXCEPT ![q] = Step(q, "cleanup")] /\ Step(q, "cleanup").at = "cleanup"
      BY <2>28, <3>0 DEF Persist, Step, Polling
    <3>2. TimeInv' /\ ResultsLast'
      BY <2>0, <3>0 DEF VerdictInv, TimeInv, JobsAged, AgesStart, Aged, RecordInv, ResultsLast, Fits, Terminal,
         TypeInv, OtherTypes
    <3>3. RecordsTrue'
      BY <2>28, <3>0 DEF VerdictInv, RecordInv, RecordsTrue, PollsTrue, Agrees, TypeInv, OtherTypes, Persist
    <3>4. PollsTrue'
      BY <3>0, <3>1 DEF VerdictInv, RecordInv, PollsTrue, Agrees, TypeInv, OtherTypes
    <3> QED
      BY <3>2, <3>3, <3>4 DEF VerdictInv, RecordInv
  <2>29. ASSUME NEW q \in Poller, Cleanup(q) PROVE VerdictInv'
    <3> DEFINE v == Away
    <3>1. poll' = [poll EXCEPT ![q] = v] /\ UNCHANGED <<proc, age, rec, result>>
      BY <2>29 DEF Cleanup
    <3>2. v.at \notin {"persist", "kill"}
      BY DEF Away, AfterLoad
    <3> HIDE DEF v
    <3> QED
      BY <3>1, <3>2, OnePolls
  <2>30. ASSUME NEW q \in Poller, PollerDies(q) PROVE VerdictInv'
    <3> DEFINE v == Away
    <3>1. poll' = [poll EXCEPT ![q] = v] /\ UNCHANGED <<proc, age, rec, result>>
      BY <2>30 DEF PollerDies
    <3>2. v.at \notin {"persist", "kill"}
      BY DEF Away, AfterLoad
    <3> HIDE DEF v
    <3> QED
      BY <3>1, <3>2, OnePolls
  <2>31. CASE Tick
    <3>0. /\ UNCHANGED <<rec, result, poll>>
          /\ \A j \in Job : age'[j] = age[j] \/ (age'[j] = age[j] + 1 /\ rec[j] = "running")
          /\ \A p \in Proc : proc'[p] = Older(proc[p])
      BY <2>0, <2>31 DEF Tick
    <3>1. ASSUME NEW j \in Job
          PROVE  /\ proc'[j].stage = proc[j].stage
                 /\ Aged(proc'[j], age'[j])
      <4>1. CASE proc[j].stage \notin Timed
        <5>1. proc'[j] = proc[j] /\ ~(proc[j].stage \in Instant)
          BY <2>0, <2>31, <3>0, <4>1 DEF Older, Tick, Prompt
        <5> QED
          BY <4>1, <5>1 DEF Aged, Timed, Instant
      <4>2. CASE proc[j].stage \in Timed
        <5> DEFINE budget == IF proc[j].stage = "slot" THEN 0 ELSE IF proc[j].budget = -Prelaunch THEN proc[j].budget
                             ELSE proc[j].budget - 1
        <5>1. proc'[j] = [proc[j] EXCEPT !.left = proc[j].left - 1, !.budget = budget]
          BY <2>0, <3>0, <4>2 DEF Older
        <5>2. proc[j].left > 0
          BY <2>0, <2>31, <4>2 DEF Tick, Prompt
        <5>3. proc[j].stage \in {"cred", "probing", "running"} => budget = proc[j].budget - 1
          BY <2>0, <2>00, <5>2 DEF Aged
        <5> HIDE DEF budget
        <5>4. /\ proc'[j].stage = proc[j].stage /\ proc'[j].left = proc[j].left - 1
              /\ proc'[j].budget = budget /\ proc'[j].out = proc[j].out
          BY <2>0, <5>1 DEF Standing
        <5>5. age[j] \in Nat /\ age'[j] \in {age[j], age[j] + 1}
          BY <2>0, <3>0
        <5>6. Aged(proc[j], age[j])
          BY <2>00
        <5>7. proc[j].left \in Nat /\ proc[j].budget \in Int
          BY <2>0
        <5> QED
          BY <2>0, <4>2, <5>2, <5>3, <5>4, <5>5, <5>6, <5>7 DEF Aged, Timed
      <4> QED
        BY <4>1, <4>2
    <3>2. TimeInv'
      BY <3>0, <3>1 DEF VerdictInv, TimeInv, JobsAged, AgesStart
    <3>3. ResultsLast'
      BY <3>0, <3>1 DEF VerdictInv, RecordInv, ResultsLast, Fits
    <3>4. \A j \in Job : \A verdict : Agrees(j, verdict) => Agrees(j, verdict)'
      BY <3>0, <3>1 DEF Agrees
    <3>5. RecordsTrue'
      BY <3>0, <3>4 DEF VerdictInv, RecordInv, RecordsTrue
    <3>6. PollsTrue'
      BY <2>0, <3>0, <3>4, WatchdogIs DEF VerdictInv, RecordInv, PollsTrue, TypeInv, OtherTypes
    <3> QED
      BY <3>2, <3>3, <3>5, <3>6 DEF VerdictInv, RecordInv
  <2>32. CASE UNCHANGED vars
    BY <2>32, NoneMovesVerdicts DEF vars
  <2> QED
    BY <2>0, <2>1, <2>2, <2>3, <2>4, <2>5, <2>6, <2>7, <2>8, <2>9, <2>10, <2>11, <2>12, <2>13, <2>14, <2>15, <2>16, <2>17, <2>18, <2>19, <2>20, <2>21, <2>22, <2>23, <2>24, <2>25, <2>26, <2>27, <2>28, <2>29, <2>30, <2>31, <2>32 DEF Next, Proceed, Serve, Reconcile
<1> QED
  BY <1>1, <1>2, DispatchTyping, JobsSpawned, DispatchSlots, PTL DEF Spec

\* A record tells what became of its job, and the watchdog takes no job at work (_reconcile_job):
\* past the TTL a job that waits, launches or runs would be older than it can be.
THEOREM VerdictsAreTrue == Spec => []JobVerdicts
<1>1. TypeInv /\ VerdictInv => JobVerdicts
  <2> SUFFICES ASSUME TypeInv, VerdictInv
               PROVE  JobVerdicts
    OBVIOUS
  <2>1. \A j \in Job : /\ rec[j] \in {"ok", "timed_out"} => result[j] = rec[j]
                       /\ rec[j] = "failed" => result[j] # "none" \/ proc[j].stage = "dead"
    BY DEF VerdictInv, RecordInv, RecordsTrue, Agrees
  <2>2. ASSUME NEW q \in Poller, poll[q].at = "kill"
        PROVE  proc[poll[q].job].stage \notin {"slot", "cred", "probing", "running"}
    <3> DEFINE j == poll[q].job
    <3>1. j \in Job /\ j \in Proc /\ age[j] \in Nat /\ age[j] > TTL /\ Aged(proc[j], age[j])
      BY <2>2, WatchdogIs DEF TypeInv, OtherTypes, VerdictInv, RecordInv, PollsTrue, TimeInv, JobsAged, Proc
    <3>2. proc[j].left \in Nat /\ proc[j].budget \in Int
      BY <3>1, StandingFields, DispatchAssumption DEF TypeInv, DispatchTypes
    <3>3. Timeout \in Nat /\ Timeout > 0 /\ Prelaunch \in Nat /\ CredentialWait \in Nat /\ 2 * CredentialWait <= Timeout
      BY DispatchAssumption
    <3> HIDE DEF j
    <3> SUFFICES proc[j].stage \notin {"slot", "cred", "probing", "running"}
      BY DEF j
    <3> QED
      BY <3>1, <3>2, <3>3, WatchdogIs DEF Aged
  <2> QED
    BY <2>1, <2>2 DEF JobVerdicts
<1> QED
  BY <1>1, DispatchTyping, DispatchVerdicts, PTL


================================================================================
